--------------------------- MODULE IFileVerifier ---------------------------
(***************************************************************************)
(* The questions the file system asks of a loaded digest list: the three   *)
(* const methods of FileVerifier.  Once its constructor has returned, the  *)
(* verifier never changes (VerifyFS holds a const reference to it), so its *)
(* two tables are constants of this module.                                *)
(***************************************************************************)
CONSTANTS
  mDigests,     \* path -> the 64 characters of its line, or NotListed
  mDirectories, \* the directory paths derived from the listed files
  NotListed,    \* mDigests.end()
  DigestHex     \* blob -> its SHA-256 printed with "%02x"

(***************************************************************************)
(* SHA256() followed by the sprintf loop is one uninterpreted function:    *)
(* what matters is that its value is a text, compared character by         *)
(* character with the text of the list.  "%02x" prints lower case only, so *)
(* a digest listed in upper case is a text outside the function's range.   *)
(***************************************************************************)
isValidDirectoryPath(path) == path \in mDirectories

isValidFilePath(path) == mDigests[path] # NotListed

isValidFileBlob(path, data) ==
  /\ mDigests[path] # NotListed
  /\ DigestHex[data] = mDigests[path]
=============================================================================
