-------------------------- MODULE VerifyFSRefines --------------------------
(***************************************************************************)
(* VerifyFS implements VerifiedAccess for clients that use one handle of a *)
(* path at a time.  A handle is open from the moment openAndVerify returns *)
(* 0 to its RELEASE, and its snapshot is the entry of its path: it is the  *)
(* entry's being shared by all handles of the path that breaks the         *)
(* implementation for other clients.                                       *)
(***************************************************************************)
EXTENDS VerifyFS

InUse(h) == fileState[h] \in {"open", "closing"}

nameOf == [h \in Handle |-> IF InUse(h) THEN filePath[h] ELSE NoPath]

snapshotOf ==
  [h \in Handle |-> IF InUse(h) THEN mTrustedFiles[filePath[h]]
                    ELSE NotTrusted]

Access == INSTANCE VerifiedAccess WITH
  name <- nameOf, snapshot <- snapshotOf, NotOpen <- NotTrusted

(***************************************************************************)
(* Every step of the threads, the clients and the other processes is a     *)
(* step of VerifiedAccess or changes nothing a client can see: all reads   *)
(* of a handle, from open to close, come from one verified snapshot.       *)
(***************************************************************************)
ImplementsAccess == Access!Spec
=============================================================================
