------------------------------ MODULE Manifest ------------------------------
(***************************************************************************)
(* test/makeManifest, the reference for how a list is made:                *)
(*   (cd SOURCE; find * -type f -print0 | xargs -0 shasum -a256) > MANIFEST*)
(* and what VerifyFS will accept with that list.  The shell expands * to   *)
(* names without a leading dot, find and shasum run side by side while     *)
(* other processes may change the tree, and only the exit status of xargs  *)
(* is seen.  A path is a sequence of names, without the SOURCE; what a file*)
(* holds is a sequence of blocks, which shasum reads one by one.           *)
(***************************************************************************)
EXTENDS Integers, Sequences

CONSTANTS
  Path,      \* paths of files below SOURCE
  Hidden,    \* names that begin with a dot
  Dashed,    \* names that begin with a dash
  Escaped,   \* paths with a backslash or a newline
  Block,
  Blob,      \* what a client may be shown
  Contents,  \* what other processes write
  Partial,   \* the first lines of the manifest itself
  OutFile,   \* MANIFEST, which may lie below SOURCE or not
  MaxChanges,\* bound: how often other processes change a file
  NoFile, NotListed, DigestHex,
  ShiftedName, \* what is at column 66 of an escaped path's line, and
  ShiftedHash  \* before column 64: a backslash and 63 digits

ASSUME BlobAssumption ==
  /\ Contents \cup {Partial} \subseteq Blob /\ Blob \subseteq Seq(Block)
  /\ NoFile \notin Seq(Block)
ASSUME PathAssumption == <<"-">> \notin Path /\ <<>> \notin Path
ASSUME ShiftedAssumption ==
  \A p \in Escaped : ShiftedName[p] \notin Path \ Escaped

VARIABLES
  content,  \* the tree: path -> blocks, or NoFile
  pc,       \* where the pipeline is
  star,     \* what the shell made of *
  toVisit,  \* the paths find has not come to yet
  found,    \* the paths find has printed and shasum has not got to
  hashed,   \* the path shasum is at, <<>> between two
  linked,   \* the path still names the file that shasum has open
  behind,   \* what that file holds
  digested, \* the blocks shasum has read of it
  manifest, \* name -> hash, one line each, as FileVerifier will read them
  status,   \* the exit status
  had,      \* what each path, or the file open for it, held since the start
  torn,     \* paths whose file was written while shasum had it open
  changes

input == <<hashed, linked, behind, digested>>
tree == <<content, had>>
vars == <<tree, pc, star, toVisit, found, input, manifest, status, torn,
          changes>>

Init ==
  /\ content \in [Path -> Contents \cup {NoFile}]
  /\ pc = "redirect" /\ star = {} /\ toVisit = {} /\ found = {}
  /\ hashed = <<>> /\ linked = TRUE /\ behind = <<>> /\ digested = <<>>
  /\ manifest = [f \in {} |-> NotListed] /\ status = 0
  /\ had = [p \in Path |-> {content[p]}] /\ torn = {} /\ changes = 0

Becomes(p, b) ==
  /\ content' = [content EXCEPT ![p] = b]
  /\ had' = [had EXCEPT ![p] = @ \cup {b}]

Disturb ==
  /\ pc # "done" /\ changes < MaxChanges /\ changes' = changes + 1
  /\ UNCHANGED <<pc, star, toVisit, found, hashed, digested, manifest, status>>

(* Another process writes into a file, or cuts it. *)
Write(p, b) ==
  /\ Disturb /\ content[p] \notin {NoFile, b}
  /\ Becomes(p, b)
  /\ IF hashed = p /\ linked
     THEN behind' = b /\ torn' = torn \cup {p}
     ELSE UNCHANGED <<behind, torn>>
  /\ UNCHANGED linked

(* Another process renames a file to the path, or removes it.              *)
Replace(p, b) ==
  /\ Disturb /\ b # content[p]
  /\ Becomes(p, b)
  /\ linked' = (linked /\ hashed # p)
  /\ UNCHANGED <<behind, torn>>

(* It writes into the file that had the path before, which shasum reads on.*)
WriteReplaced(b) ==
  /\ Disturb /\ ~linked /\ b # behind
  /\ behind' = b /\ torn' = torn \cup {hashed}
  /\ had' = [had EXCEPT ![hashed] = @ \cup {b}]
  /\ UNCHANGED <<content, linked>>

(* "> MANIFEST" creates or truncates the file before anything runs. *)
redirect ==
  /\ pc = "redirect" /\ pc' = "glob"
  /\ IF OutFile \in Path THEN Becomes(OutFile, <<>>) ELSE UNCHANGED tree
  /\ UNCHANGED <<star, toVisit, found, input, manifest, status, torn, changes>>

(* find takes a name that begins with a dash for an option and gives up.   *)
glob ==
  LET names == {Head(p) : p \in {q \in Path : content[q] # NoFile}} \ Hidden
  IN
  /\ pc = "glob" /\ pc' = "find"
  /\ star' = names
  /\ toVisit' = IF names \cap Dashed # {} THEN {}
                ELSE {p \in Path : Head(p) \in names}
  /\ UNCHANGED <<tree, found, input, manifest, status, torn, changes>>

(* find comes to every path that is there all the time, in some order.     *)
find(p) ==
  /\ pc = "find" /\ p \in toVisit
  /\ toVisit' = toVisit \ {p}
  /\ found' = IF content[p] = NoFile THEN found ELSE found \cup {p}
  /\ UNCHANGED <<tree, pc, star, input, manifest, status, torn, changes>>

findEnds ==
  /\ pc = "find" /\ toVisit = {}
  /\ pc' = "xargs"
  /\ UNCHANGED <<tree, star, toVisit, found, input, manifest, status, torn,
                 changes>>

-----------------------------------------------------------------------------
(* Mutant: "find ." prints ./name. *)
filenameDot(p) == <<".">> \o p

(* "find *" prints paths relative to SOURCE, and shasum escapes some: it   *)
(* begins their lines with a backslash.  FileVerifier cuts each line at its*)
(* columns all the same.                                                   *)
filename(p) == IF p \in Escaped THEN ShiftedName[p] ELSE p
hash(p, b) == IF p \in Escaped THEN ShiftedHash ELSE DigestHex[b]

List(f, h) ==
  manifest' = [g \in DOMAIN manifest \cup {f} |->
                 IF g = f THEN h ELSE manifest[g]]

(* What a path is done with, shasum goes on to the next. *)
Closes ==
  /\ hashed' = <<>> /\ linked' = TRUE /\ behind' = <<>> /\ digested' = <<>>

(* shasum's output reaches the manifest when its buffer is full, or at its *)
(* end, if the manifest has not been replaced.                             *)
Flush ==
  \/ UNCHANGED tree
  \/ OutFile \in Path /\ content[OutFile] # NoFile /\ Becomes(OutFile, Partial)

shasumOpens(p) ==
  /\ pc \in {"find", "xargs"} /\ hashed = <<>>
  /\ p \in found /\ content[p] # NoFile
  /\ found' = found \ {p} /\ hashed' = p /\ behind' = content[p]
  /\ UNCHANGED <<tree, pc, star, toVisit, linked, digested, manifest, status,
                 torn, changes>>

(* Its next block, of what the file holds by now. *)
shasumReads ==
  /\ hashed # <<>> /\ Len(digested) < Len(behind)
  /\ digested' = Append(digested, behind[Len(digested) + 1])
  /\ UNCHANGED <<tree, pc, star, toVisit, found, hashed, linked, behind,
                 manifest, status, torn, changes>>

(* The end of the file, wherever it is by now. *)
shasumLists ==
  /\ hashed # <<>> /\ Len(digested) >= Len(behind)
  /\ List(filename(hashed), hash(hashed, digested))
  /\ Closes /\ Flush
  /\ UNCHANGED <<pc, star, toVisit, found, status, torn, changes>>

(* Mutant: a loop of "cat | shasum", which hashes nothing for a lost file. *)
shasumFailsBlank(p) ==
  /\ pc \in {"find", "xargs"} /\ hashed = <<>> /\ p \in found
  /\ found' = found \ {p} /\ status' = 123
  /\ List(filename(p), hash(p, <<>>))
  /\ UNCHANGED <<tree, pc, star, toVisit, input, torn, changes>>

(* The file is gone or cannot be read: a message, and the next file.       *)
shasumFails(p) ==
  /\ \/ /\ pc \in {"find", "xargs"} /\ hashed = <<>> /\ p \in found
        /\ found' = found \ {p} /\ UNCHANGED input
     \/ hashed = p /\ Closes /\ UNCHANGED found
  /\ status' = 123
  /\ UNCHANGED <<tree, pc, star, toVisit, manifest, torn, changes>>

(* Without a name xargs runs shasum all the same (GNU), which lists "-".   *)
shasumStdin ==
  /\ pc = "xargs" /\ found = {} /\ hashed = <<>>
  /\ DOMAIN manifest = {} /\ status = 0
  /\ List(<<"-">>, DigestHex[<<>>])
  /\ UNCHANGED <<tree, pc, star, toVisit, found, input, status, torn, changes>>

end ==
  /\ pc = "xargs" /\ found = {} /\ hashed = <<>>
  /\ pc' = "done"
  /\ Flush
  /\ UNCHANGED <<star, toVisit, found, input, manifest, status, torn, changes>>

makeManifest ==
  \/ redirect \/ glob \/ findEnds \/ shasumStdin \/ end
  \/ shasumReads \/ shasumLists
  \/ \E p \in Path : find(p) \/ shasumOpens(p) \/ shasumFails(p)

Next ==
  \/ makeManifest
  \/ \E p \in Path, b \in Contents : Write(p, b)
  \/ \E p \in Path, b \in Contents \cup {NoFile} : Replace(p, b)
  \/ \E b \in Contents : WriteReplaced(b)
  \/ pc = "done" /\ UNCHANGED vars

Spec == Init /\ [][Next]_vars

-----------------------------------------------------------------------------
(* FileVerifier, with the manifest as its list. *)
Verifier == INSTANCE IFileVerifier WITH
  mDigests <- [p \in Path |-> IF p \in DOMAIN manifest THEN manifest[p]
                              ELSE NotListed],
  mDirectories <- {}

(* A file that was there with the same bytes from start to end. *)
Steady(p) == had[p] = {content[p]} /\ content[p] # NoFile

(***************************************************************************)
(* After a run that reports success, a file that nobody touched meanwhile  *)
(* can be opened, however much of the rest of the tree changed, unless its *)
(* path is escaped (FileVerifier's ShasumNamesListed is about these), its  *)
(* top-level name is hidden, or some top-level name begins with a dash.    *)
(***************************************************************************)
SteadyAccepted ==
  pc = "done" /\ status = 0 /\ star \cap Dashed = {} =>
    \A p \in Path \ Escaped : Steady(p) /\ Head(p) \notin Hidden =>
      Verifier!isValidFileBlob(p, content[p])

(* Each block of b was at its place in one of the contents. *)
PiecedFrom(b, contents) ==
  \A i \in 1..Len(b) : \E c \in contents : i \in 1..Len(c) /\ c[i] = b[i]

(***************************************************************************)
(* Whatever was changed in the tree while its manifest was made, no bytes  *)
(* are accepted for a path that the path did not hold in that time.  Only  *)
(* if its file was written while shasum read it can these be bytes that    *)
(* were never there together; then each block was there, at its place.     *)
(***************************************************************************)
AcceptedWasThere ==
  \A p \in Path, b \in Blob : Verifier!isValidFileBlob(p, b) =>
    /\ p \notin torn => b \in had[p]
    /\ PiecedFrom(b, had[p] \ {NoFile})
=============================================================================
