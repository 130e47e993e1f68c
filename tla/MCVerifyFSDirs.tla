--------------------------- MODULE MCVerifyFSDirs ---------------------------
(* Instances of VerifyFSDirs for TLC. *)
EXTENDS VerifyFSDirsRefines, TLC

MCSymmetry ==
  UNION {Permutations(S) : S \in {Dir, Entry, Fd, Stream, DirHandle, Worker}}
=============================================================================
