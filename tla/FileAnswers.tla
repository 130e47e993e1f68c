---------------------------- MODULE FileAnswers ----------------------------
(***************************************************************************)
(* What the handlers of files answer: an error, or what a read of some     *)
(* bytes at an offset gives.  Shared by VerifyFS and by VerifiedAccess,    *)
(* the specification that VerifyFS implements.                             *)
(***************************************************************************)
EXTENDS Integers, Sequences

EACCES == 13
ENOENT == 2

Answer(op, at, result, data) ==
  [op |-> op, at |-> at, result |-> result, data |-> data]
NoReply == Answer("none", <<0, 0>>, 0, <<>>)
OpenAnswer(result) == Answer("open", <<0, 0>>, result, <<>>)
ReadError(at) == Answer("read", at, -EACCES, <<>>)

(* at is the <<offset, size>> of a read. *)
bytesRead(data, at) ==
  IF Len(data) - at[1] < at[2] THEN Len(data) - at[1] ELSE at[2]

Slice(data, at) == SubSeq(data, at[1] + 1, at[1] + bytesRead(data, at))

(* Mutant: copies from the start of the buffer whatever the offset. *)
ReadOfStart(data, at) ==
  IF at[1] < Len(data)
  THEN Answer("read", at, bytesRead(data, at),
              SubSeq(data, 1, bytesRead(data, at)))
  ELSE ReadError(at)

ReadOf(data, at) ==
  IF at[1] < Len(data)
  THEN Answer("read", at, bytesRead(data, at), Slice(data, at))
  ELSE ReadError(at)
=============================================================================
