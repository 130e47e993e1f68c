-------------------------- MODULE VerifiedAccess ---------------------------
(***************************************************************************)
(* What a verifying file system owes its clients.  An open succeeds only   *)
(* with one snapshot of bytes that has the digest listed for the path, and *)
(* until the handle is closed every read of it is answered from that very  *)
(* snapshot, whatever becomes of the file and of other handles.  There are *)
(* no threads here, no folder and no map: a call is one step.              *)
(***************************************************************************)
EXTENDS FileAnswers, IFileVerifier

CONSTANTS Path, Handle, Blob, ReadAt, NoPath, NotOpen

VARIABLES
  name,     \* the path a handle was opened by, NoPath if it is not open
  snapshot, \* the bytes behind a handle, NotOpen if it is not open
  reply     \* what the last call on a handle returned

vars == <<name, snapshot, reply>>

Init ==
  /\ name = [h \in Handle |-> NoPath]
  /\ snapshot = [h \in Handle |-> NotOpen]
  /\ reply = [h \in Handle |-> NoReply]

Closed(h) == name[h] = NoPath

(* The client has asked for a file to be opened and has no answer yet. *)
Ask(h) ==
  /\ Closed(h)
  /\ reply' = [reply EXCEPT ![h] = NoReply]
  /\ UNCHANGED <<name, snapshot>>

Open(h, p) ==
  /\ Closed(h)
  /\ \E b \in Blob : /\ isValidFileBlob(p, b)
                     /\ snapshot' = [snapshot EXCEPT ![h] = b]
  /\ name' = [name EXCEPT ![h] = p]
  /\ reply' = [reply EXCEPT ![h] = OpenAnswer(0)]

Refuse(h) ==
  /\ Closed(h)
  /\ \E errno \in {EACCES, ENOENT} :
       reply' = [reply EXCEPT ![h] = OpenAnswer(-errno)]
  /\ UNCHANGED <<name, snapshot>>

Read(h, at) ==
  /\ ~Closed(h)
  /\ reply' = [reply EXCEPT ![h] = ReadOf(snapshot[h], at)]
  /\ UNCHANGED <<name, snapshot>>

Close(h) ==
  /\ ~Closed(h)
  /\ name' = [name EXCEPT ![h] = NoPath]
  /\ snapshot' = [snapshot EXCEPT ![h] = NotOpen]
  /\ reply' = [reply EXCEPT ![h] = NoReply]

Next ==
  \E h \in Handle :
    \/ Ask(h) \/ Refuse(h) \/ Close(h)
    \/ \E p \in Path : Open(h, p)
    \/ \E at \in ReadAt : Read(h, at)

Spec == Init /\ [][Next]_vars
=============================================================================
