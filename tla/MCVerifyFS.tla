----------------------------- MODULE MCVerifyFS -----------------------------
(* Instances of VerifyFS for TLC: files of at most three bytes, two values.*)
EXTENDS VerifyFSRefines, TLC

CONSTANTS whole, part, stray, a, b

(* Two blobs never share a digest, and no digest is in upper case. *)
MCDigestHex == [blob \in Blob |-> <<"hex", blob>>]

(* Two paths are listed, with the digests of <<a, b>> and <<a>>. *)
MCDigests ==
  [path \in Path |-> CASE path = whole -> <<"hex", <<a, b>>>>
                      [] path = part -> <<"hex", <<a>>>>
                      [] path = stray -> NotListed]

MCDirectories == {}

(* The genuine whole file, a changed byte, a truncation to the part file. *)
MCContents == {<<a, b>>, <<a, a>>, <<a>>}

(* And a file with more bytes than one read(2) transfers. *)
MCLongContents == MCContents \cup {<<a, b, a>>}

(* From the start, in the middle, and at the end of a two-byte file. *)
MCReadAt == {<<0, 1>>, <<1, 2>>, <<2, 1>>}

MCSymmetry == Permutations(Handle) \cup Permutations(Inode)
                \cup Permutations(Worker)
=============================================================================
