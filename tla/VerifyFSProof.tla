--------------------------- MODULE VerifyFSProof ---------------------------
(***************************************************************************)
(* Theorems about VerifyFS for every number of threads, handles, paths and *)
(* files.                                                                  *)
(***************************************************************************)
EXTENDS VerifyFS, SequenceTheorems, TLAPS

(* A blob is a byte sequence that one read(2) can transfer. *)
LEMMA BlobIsShortSeq ==
  \A s : s \in Blob <=> s \in Seq(Byte) /\ Len(s) <= MaxLen
<1>1. ASSUME NEW s, s \in Blob PROVE s \in Seq(Byte) /\ Len(s) <= MaxLen
  <2>1. PICK n \in 0..MaxLen : s \in [1..n -> Byte]
    BY <1>1 DEF Blob
  <2>2. s \in Seq(Byte) /\ Len(s) = n
    BY <2>1
  <2> QED BY <2>2, BlobAssumption
<1>2. ASSUME NEW s \in Seq(Byte), Len(s) <= MaxLen PROVE s \in Blob
  <2>1. Len(s) \in 0..MaxLen
    BY <1>2, BlobAssumption
  <2>2. s \in [1..Len(s) -> Byte]
    OBVIOUS
  <2> QED BY <2>1, <2>2 DEF Blob
<1> QED BY <1>1, <1>2

(* The empty vector, and what read(2) has put into it so far, are blobs. *)
LEMMA BlobEmpty == <<>> \in Blob
<1>1. <<>> \in Seq(Byte) /\ Len(<<>>) = 0
  OBVIOUS
<1>2. Len(<<>>) <= MaxLen
  BY <1>1, BlobAssumption
<1> QED BY <1>1, <1>2, BlobIsShortSeq

(* One more byte fits while read(2) has not transferred its maximum. *)
LEMMA BlobAppend ==
  ASSUME NEW s \in Blob, Len(s) < MaxLen, NEW c \in Byte
  PROVE  Append(s, c) \in Blob
<1>1. s \in Seq(Byte)
  BY BlobIsShortSeq
<1>2. Append(s, c) \in Seq(Byte) /\ Len(Append(s, c)) = Len(s) + 1
  BY <1>1
<1>3. Len(Append(s, c)) <= MaxLen
  BY <1>1, <1>2, BlobAssumption
<1> QED BY <1>2, <1>3, BlobIsShortSeq

(* What a read, an error and undefined behaviour give clients is a Reply.   *)
LEMMA ReadOfType ==
  ASSUME NEW data \in Blob, NEW at \in ReadAt
  PROVE  ReadOf(data, at) \in Reply
<1>1. data \in Seq(Byte)
  BY BlobIsShortSeq
<1>2. at[1] \in Nat /\ at[2] \in Nat /\ at[2] > 0
  BY ReadAtAssumption
<1>3. ASSUME at[1] < Len(data)
      PROVE  /\ bytesRead(data, at) \in Int
             /\ Slice(data, at) \in Seq(Byte \cup {Garbage})
  <2>1. bytesRead(data, at) \in Nat /\ at[1] + bytesRead(data, at) <= Len(data)
    BY <1>1, <1>2, <1>3 DEF bytesRead
  <2>2. data \in Seq(Byte \cup {Garbage})
    BY <1>1
  <2>3. Slice(data, at) \in Seq(Byte \cup {Garbage})
    BY <2>1, <2>2, <1>2 DEF Slice
  <2> QED BY <2>1, <2>3
<1> QED BY <1>2, <1>3 DEF ReadOf, ReadError, Answer, Reply, EACCES

(* An error is a Reply of either call. *)
LEMMA ErrorReplyType ==
  /\ NoReply \in Reply
  /\ \A at \in ReadAt \cup {<<0, 0>>}, n \in Int :
       /\ Answer("open", at, n, <<>>) \in Reply
       /\ Answer("read", at, n, <<>>) \in Reply
BY DEF NoReply, Reply, Answer

(* So is what undefined behaviour may return. *)
LEMMA JunkReplyType ==
  ASSUME NEW at \in ReadAt
  PROVE  Answer("read", at, at[2], [i \in 1..at[2] |-> Garbage]) \in Reply
<1>1. at[2] \in Nat
  BY ReadAtAssumption
<1>2. [i \in 1..at[2] |-> Garbage] \in Seq(Byte \cup {Garbage})
  BY <1>1
<1> QED BY <1>1, <1>2 DEF Answer, Reply

(* An idle thread has a frame of the right type. *)
LEMMA IdleFrameType == IdleFrame \in Frame
BY BlobEmpty DEF IdleFrame, Frame

-----------------------------------------------------------------------------
(* What a read that has found its node holds on to. *)
CopyHasNode ==
  \A w \in Worker : frame[w].pc = "copy" =>
    /\ frame[w].at \in ReadAt
    /\ frame[w].it \in Path \cup {Dangling}
    /\ frame[w].it \in Path => mTrustedFiles[frame[w].it] # NotTrusted

(* The parts of the type invariant that are not about frames. *)
StateType ==
  /\ link \in [Path -> Inode \cup {NoInode}]
  /\ bytes \in [Inode -> Seq(Byte)]
  /\ mTrustedFiles \in [Path -> Blob \cup {NotTrusted}]
  /\ fileState \in [Handle -> {"free", "opening", "open", "closing"}]
  /\ filePath \in [Handle -> Path \cup {NoPath}]
  /\ reply \in [Handle -> Reply]

(* A handle has a path while it is in use; a call has a handle of its own, *)
(* which stays in the state that let the call start.                       *)
HandleHasPath ==
  \A h \in Handle : fileState[h] = "free" <=> filePath[h] = NoPath

CallHasHandle ==
  \A w \in Worker :
    /\ frame[w].pc = "idle" => frame[w].h = NoHandle /\ frame[w].it = NoPath
    /\ frame[w].pc # "idle" => frame[w].h \in Handle
    /\ frame[w].pc = "copy" => fileState[frame[w].h] = "open"
    /\ frame[w].pc \in {"fstat", "read", "insert", "assign"} =>
         fileState[frame[w].h] = "opening"

OneCallPerHandle ==
  \A v, w \in Worker :
    v # w /\ frame[v].h = frame[w].h => frame[w].h = NoHandle

CallInv == HandleHasPath /\ CallHasHandle /\ OneCallPerHandle

StateInv == TypeOK /\ CopyHasNode

TypeInv == StateInv /\ CallInv

(***************************************************************************)
(* TypeOK is not inductive: insertNode stores under the path of the        *)
(* frame's handle, and that it is a path at all takes the bookkeeping of   *)
(* calls and handles above.                                                *)
(***************************************************************************)
LEMMA TypeInit == Init => TypeInv
<1> SUFFICES ASSUME Init PROVE TypeInv
  OBVIOUS
<1>1. link \in [Path -> Inode \cup {NoInode}] /\ bytes \in [Inode -> Seq(Byte)]
  BY BlobAssumption DEF Init
<1>2. /\ mTrustedFiles \in [Path -> Blob \cup {NotTrusted}]
      /\ fileState \in [Handle -> {"free", "opening", "open", "closing"}]
      /\ filePath \in [Handle -> Path \cup {NoPath}]
  BY DEF Init
<1>3. reply \in [Handle -> Reply] /\ frame \in [Worker -> Frame]
  BY IdleFrameType, ErrorReplyType DEF Init
<1>4. \A w \in Worker : frame[w].pc = "idle" /\ frame[w].fd = NoInode
  BY DEF Init, IdleFrame
<1>5. CallInv
  BY DEF Init, IdleFrame, CallInv, HandleHasPath, CallHasHandle,
         OneCallPerHandle
<1> QED BY <1>1, <1>2, <1>3, <1>4, <1>5
  DEF TypeInv, StateInv, TypeOK, DescriptorNeeded, CopyHasNode

(* No step lets two calls share a handle or changes a busy handle's state. *)
LEMMA CallStep == TypeInv /\ [Next]_vars => CallInv'
<1> SUFFICES ASSUME TypeInv, [Next]_vars PROVE CallInv'
  OBVIOUS
<1> USE SentinelAssumption
    DEF TypeInv, StateInv, CallInv, HandleHasPath, CallHasHandle,
        OneCallPerHandle, disk
<1>1. ASSUME NEW p \in Path, Relink(p) PROVE CallInv'
  BY <1>1 DEF TypeOK, Frame, Relink
<1>2. ASSUME NEW i \in Inode, Overwrite(i) PROVE CallInv'
  BY <1>2 DEF TypeOK, Frame, Overwrite
<1>3. ASSUME NEW h \in Handle, Close(h) PROVE CallInv'
  BY <1>3 DEF TypeOK, Frame, Close, Quiet
<1>4. ASSUME NEW w \in Worker, NEW h \in Handle, NEW p \in Path,
             NEW mode \in AccessMode, fuseOpenRefused(w, h, p, mode)
      PROVE  CallInv'
  BY <1>4 DEF TypeOK, Frame, fuseOpenRefused
<1>5. ASSUME NEW w \in Worker, NEW h \in Handle, NEW p \in Path,
             fuseOpenMissing(w, h, p)
      PROVE  CallInv'
  BY <1>5 DEF TypeOK, Frame, fuseOpenMissing
<1>6. ASSUME NEW w \in Worker, NEW h \in Handle, NEW p \in Path,
             fuseOpen(w, h, p)
      PROVE  CallInv'
  <2>1. /\ fileState' = [fileState EXCEPT ![h] = "opening"]
        /\ filePath' = [filePath EXCEPT ![h] = p]
        /\ fileState[h] = "free"
    BY <1>6 DEF fuseOpen, OpenRequest
  <2>2. /\ frame'[w].pc = "fstat" /\ frame'[w].h = h
        /\ \A v \in Worker : v # w => frame'[v] = frame[v]
    BY <1>6 DEF fuseOpen, IdleFrame, TypeOK
  <2>3. \A v \in Worker : frame[v].h # h
    BY <2>1 DEF TypeOK, Frame
  <2>4. HandleHasPath'
    BY <2>1 DEF TypeOK
  <2>5. CallHasHandle'
    BY <2>1, <2>2, <2>3 DEF TypeOK, Frame
  <2>6. OneCallPerHandle'
    BY <2>2, <2>3
  <2> QED BY <2>4, <2>5, <2>6
<1>7. ASSUME NEW w \in Worker, NEW h \in Handle, NEW at \in ReadAt,
             fuseReadMissing(w, h, at)
      PROVE  CallInv'
  BY <1>7 DEF TypeOK, Frame, fuseReadMissing
<1>8. ASSUME NEW w \in Worker, NEW h \in Handle, NEW at \in ReadAt,
             fuseRead(w, h, at)
      PROVE  CallInv'
  BY <1>8 DEF TypeOK, Frame, fuseRead, ReadRequest, Idle, Quiet, IdleFrame
<1>9. ASSUME NEW w \in Worker, NEW h \in Handle, fuseRelease(w, h)
      PROVE  CallInv'
  BY <1>9 DEF TypeOK, Frame, fuseRelease, Released, Idle
<1>10. ASSUME NEW w \in Worker, fstat(w) PROVE CallInv'
  BY <1>10 DEF TypeOK, Frame, fstat
<1>11. ASSUME NEW w \in Worker, readByte(w) PROVE CallInv'
  BY <1>11 DEF TypeOK, Frame, readByte
<1>12. ASSUME NEW w \in Worker, frame[w].pc = "read", OpenFails(w)
       PROVE  CallInv'
  BY <1>12 DEF TypeOK, Frame, OpenFails, Return, IdleFrame
<1>13. ASSUME NEW w \in Worker, blobAccepted(w) PROVE CallInv'
  BY <1>13 DEF TypeOK, Frame, blobAccepted, ReadWhole
<1>14. ASSUME NEW w \in Worker, insertNode(w) PROVE CallInv'
  BY <1>14 DEF TypeOK, Frame, insertNode
<1>15. ASSUME NEW w \in Worker, assignNode(w) PROVE CallInv'
  BY <1>15 DEF TypeOK, Frame, assignNode, Return, IdleFrame
<1>16. ASSUME NEW w \in Worker, copyBytes(w) PROVE CallInv'
  BY <1>16 DEF TypeOK, Frame, copyBytes, Return, IdleFrame
<1>17. ASSUME NEW w \in Worker, copyRaced(w) PROVE CallInv'
  BY <1>17 DEF TypeOK, Frame, copyRaced, Return, IdleFrame
<1>18. CASE UNCHANGED vars
  BY <1>18 DEF vars
<1> QED
  BY <1>1, <1>2, <1>3, <1>4, <1>5, <1>6, <1>7, <1>8, <1>9, <1>10, <1>11,
     <1>12, <1>13, <1>14, <1>15, <1>16, <1>17, <1>18
  DEF Next, Resume, Serve, Environment, shortRead, blobRejected, ReadWhole

(* Every step keeps the types, and the descriptor exactly while needed.     *)
LEMMA TypeStep == TypeInv /\ [Next]_vars => StateInv'
<1> SUFFICES ASSUME TypeInv, [Next]_vars PROVE StateInv'
  OBVIOUS
<1> USE DEF TypeInv, StateInv, DescriptorNeeded, disk
<1> USE SentinelAssumption
<1>1. ASSUME NEW p \in Path, Relink(p) PROVE StateInv'
  BY <1>1 DEF TypeOK, CopyHasNode, Relink
<1>2. ASSUME NEW i \in Inode, Overwrite(i) PROVE StateInv'
  BY BlobAssumption, <1>2 DEF TypeOK, CopyHasNode, Overwrite
<1>3. ASSUME NEW h \in Handle, Close(h) PROVE StateInv'
  BY <1>3 DEF TypeOK, CopyHasNode, Close
<1>4. ASSUME NEW w \in Worker, NEW h \in Handle, NEW p \in Path,
             NEW mode \in AccessMode, fuseOpenRefused(w, h, p, mode)
      PROVE  StateInv'
  BY ErrorReplyType, <1>4
     DEF TypeOK, CopyHasNode, fuseOpenRefused, OpenError, EACCES, OpenAnswer
<1>5. ASSUME NEW w \in Worker, NEW h \in Handle, NEW p \in Path,
             fuseOpenMissing(w, h, p)
      PROVE  StateInv'
  BY ErrorReplyType, <1>5
     DEF TypeOK, CopyHasNode, fuseOpenMissing, OpenError, ENOENT, OpenAnswer
<1>6. ASSUME NEW w \in Worker, NEW h \in Handle, NEW p \in Path,
             fuseOpen(w, h, p)
      PROVE  StateInv'
  BY ErrorReplyType, BlobEmpty, <1>6
     DEF TypeOK, CopyHasNode, Frame, fuseOpen, OpenRequest, Idle, IdleFrame
<1>7. ASSUME NEW w \in Worker, NEW h \in Handle, NEW at \in ReadAt,
             fuseReadMissing(w, h, at)
      PROVE  StateInv'
  BY ErrorReplyType, <1>7
     DEF TypeOK, CopyHasNode, fuseReadMissing, ReadError, EACCES
<1>8. ASSUME NEW w \in Worker, NEW h \in Handle, NEW at \in ReadAt,
             fuseRead(w, h, at)
      PROVE  StateInv'
  <2>1. frame' \in [Worker -> Frame]
    BY BlobEmpty, <1>8
       DEF fuseRead, ReadRequest, Idle, IdleFrame, TypeOK, Frame
  <2>2. DescriptorNeeded'
    BY <1>8 DEF fuseRead, ReadRequest, Idle, IdleFrame, TypeOK
  <2>3. StateType'
    BY BlobEmpty, <1>8
       DEF fuseRead, ReadRequest, Idle, IdleFrame, TypeOK, StateType
  <2>4. CopyHasNode'
    <3>1. filePath[h] \in Path
      BY <1>8 DEF fuseRead, ReadRequest, TypeOK, CallInv, HandleHasPath
    <3> QED BY <1>8, <3>1 DEF fuseRead, IdleFrame, TypeOK, CopyHasNode
  <2> QED BY <2>1, <2>2, <2>3, <2>4 DEF TypeOK, StateType
<1>9. ASSUME NEW w \in Worker, NEW h \in Handle, fuseRelease(w, h)
      PROVE  StateInv'
  <2>1. frame' \in [Worker -> Frame]
    <3>1. \A v \in Worker : frame[v] \in Frame
      BY DEF TypeOK
    <3>2. \A f \in Frame : [f EXCEPT !.it = Dangling] \in Frame
      BY DEF Frame
    <3> QED BY <1>9, <3>1, <3>2 DEF fuseRelease
  <2>2. DescriptorNeeded'
    BY <1>9 DEF fuseRelease, Released, Idle, TypeOK
  <2>3. StateType'
    BY ErrorReplyType, <1>9 DEF fuseRelease, Released, Idle, TypeOK, StateType
  <2>4. CopyHasNode'
    BY <1>9 DEF fuseRelease, Released, Idle, TypeOK, CopyHasNode
  <2> QED BY <2>1, <2>2, <2>3, <2>4 DEF TypeOK, StateType
<1>10. ASSUME NEW w \in Worker, fstat(w) PROVE StateInv'
  <2>1. PICK size \in {Len(bytes[frame[w].fd])} \cup Uninitialized :
          frame' = [frame EXCEPT ![w].pc = "read", ![w].st_size = size]
    BY <1>10 DEF fstat
  <2>4. size \in Nat
    <3>1. frame[w].fd \in Inode
      BY <1>10 DEF fstat, TypeOK, Frame
    <3> QED BY <2>1, <3>1, BlobAssumption DEF TypeOK, Uninitialized
  <2>2. frame' \in [Worker -> Frame]
    <3> DEFINE f == [frame[w] EXCEPT !.pc = "read", !.st_size = size]
    <3>1. f \in Frame
      BY <2>4 DEF TypeOK, Frame
    <3>2. frame' = [frame EXCEPT ![w] = f]
      BY <2>1 DEF TypeOK
    <3> QED BY <3>1, <3>2 DEF TypeOK
  <2>3. DescriptorNeeded'
    BY <1>10 DEF fstat, TypeOK
  <2> QED BY <1>10, <2>2, <2>3 DEF fstat, TypeOK, CopyHasNode
<1>11. ASSUME NEW w \in Worker, readByte(w) PROVE StateInv'
  <2> DEFINE data == bytes[frame[w].fd]
             buffer == frame[w].buffer
  <2>1. Append(buffer, data[Len(buffer) + 1]) \in Blob
    <3>1. frame[w].fd \in Inode /\ buffer \in Blob
      BY <1>11 DEF readByte, TypeOK, Frame
    <3>2. data \in Seq(Byte) /\ Len(buffer) \in Nat
      BY <3>1, BlobIsShortSeq DEF TypeOK
    <3>3. Len(buffer) < Len(data) /\ Len(buffer) < MaxLen
      BY <1>11 DEF readByte
    <3>4. data[Len(buffer) + 1] \in Byte
      BY <3>2, <3>3
    <3> QED BY <3>1, <3>3, <3>4, BlobAppend
  <2>2. frame' \in [Worker -> Frame]
    <3> DEFINE f == [frame[w] EXCEPT
                       !.buffer = Append(buffer, data[Len(buffer) + 1])]
    <3>1. f \in Frame
      BY <2>1 DEF TypeOK, Frame
    <3>2. frame' = [frame EXCEPT ![w] = f]
      BY <1>11 DEF readByte, TypeOK
    <3> QED BY <3>1, <3>2 DEF TypeOK
  <2>3. DescriptorNeeded'
    BY <1>11 DEF readByte, TypeOK
  <2> QED BY <1>11, <2>2, <2>3 DEF readByte, TypeOK, CopyHasNode
<1>12. ASSUME NEW w \in Worker, frame[w].pc = "read", OpenFails(w)
       PROVE  StateInv'
  <2>1. frame' \in [Worker -> Frame]
    BY <1>12, IdleFrameType DEF OpenFails, Return, TypeOK
  <2>2. DescriptorNeeded'
    BY <1>12 DEF OpenFails, Return, IdleFrame, TypeOK
  <2>3. reply' \in [Handle -> Reply]
    <3>1. OpenAnswer(-ENOENT) \in Reply
      BY ErrorReplyType DEF ENOENT, OpenAnswer
    <3> QED BY <1>12, <3>1 DEF OpenFails, Return, TypeOK
  <2>4. StateType'
    BY <1>12, <2>3 DEF OpenFails, TypeOK, StateType
  <2>5. CopyHasNode'
    BY <1>12 DEF OpenFails, Return, IdleFrame, TypeOK, CopyHasNode
  <2> QED BY <2>1, <2>2, <2>4, <2>5 DEF TypeOK, StateType
<1>13. ASSUME NEW w \in Worker, blobAccepted(w) PROVE StateInv'
  BY <1>13 DEF TypeOK, CopyHasNode, Frame, blobAccepted, ReadWhole
<1>14. ASSUME NEW w \in Worker, insertNode(w) PROVE StateInv'
  <2>1. filePath[frame[w].h] \in Path
    BY <1>14 DEF insertNode, TypeOK, CallInv, CallHasHandle, HandleHasPath
  <2>2. frame' \in [Worker -> Frame]
    <3> DEFINE f == [frame[w] EXCEPT !.pc = "assign",
                                     !.it = filePath[frame[w].h]]
    <3>1. f \in Frame
      BY <2>1 DEF TypeOK, Frame
    <3>2. frame' = [frame EXCEPT ![w] = f]
      BY <1>14 DEF insertNode, TypeOK
    <3> QED BY <3>1, <3>2 DEF TypeOK
  <2>3. DescriptorNeeded'
    BY <1>14 DEF insertNode, TypeOK
  <2>4. StateType'
    BY <1>14, BlobEmpty DEF insertNode, TypeOK, StateType
  <2>5. CopyHasNode'
    BY <1>14, BlobEmpty DEF insertNode, TypeOK, CopyHasNode
  <2> QED BY <2>2, <2>3, <2>4, <2>5 DEF TypeOK, StateType
<1>15. ASSUME NEW w \in Worker, assignNode(w) PROVE StateInv'
  <2>1. frame[w].buffer \in Blob /\ frame[w].buffer # NotTrusted
    BY DEF TypeOK, Frame
  <2>2. frame' \in [Worker -> Frame]
    BY <1>15, IdleFrameType DEF assignNode, Return, TypeOK
  <2>3. DescriptorNeeded'
    BY <1>15 DEF assignNode, Return, IdleFrame, TypeOK
  <2>4. reply' \in [Handle -> Reply]
    <3>1. OpenAnswer(0) \in Reply
      BY ErrorReplyType DEF OpenAnswer
    <3> QED BY <1>15, <3>1 DEF assignNode, Return, TypeOK
  <2>5. StateType'
    BY <1>15, <2>1, <2>4 DEF assignNode, TypeOK, StateType
  <2>6. CopyHasNode'
    BY <1>15, <2>1 DEF assignNode, Return, IdleFrame, TypeOK, CopyHasNode
  <2> QED BY <2>2, <2>3, <2>5, <2>6 DEF TypeOK, StateType
<1>16. ASSUME NEW w \in Worker, copyBytes(w) PROVE StateInv'
  BY ReadOfType, IdleFrameType, <1>16
     DEF TypeOK, CopyHasNode, copyBytes, Return, IdleFrame, Racing
<1>17. ASSUME NEW w \in Worker, copyRaced(w) PROVE StateInv'
  <2>1. frame[w].at \in ReadAt
    BY <1>17 DEF copyRaced, CopyHasNode
  <2>2. frame' \in [Worker -> Frame]
    BY <1>17, IdleFrameType DEF copyRaced, Return, TypeOK
  <2>3. DescriptorNeeded'
    BY <1>17 DEF copyRaced, Return, IdleFrame, TypeOK
  <2>4. reply' \in [Handle -> Reply]
    <3>1. ReadError(frame[w].at) \in Reply
      BY <2>1, ErrorReplyType DEF ReadError, EACCES
    <3>2. PICK answer \in Reply :
            reply' = [reply EXCEPT ![frame[w].h] = answer]
      BY <1>17, <2>1, <3>1, JunkReplyType DEF copyRaced, Return
    <3> QED BY <3>2 DEF TypeOK
  <2>5. StateType'
    BY <1>17, <2>4 DEF copyRaced, TypeOK, StateType
  <2>6. CopyHasNode'
    BY <1>17 DEF copyRaced, Return, IdleFrame, TypeOK, CopyHasNode
  <2> QED BY <2>2, <2>3, <2>5, <2>6 DEF TypeOK, StateType
<1>18. CASE UNCHANGED vars
  BY <1>18 DEF TypeOK, CopyHasNode, vars
<1> QED
  BY <1>1, <1>2, <1>3, <1>4, <1>5, <1>6, <1>7, <1>8, <1>9, <1>10, <1>11,
     <1>12, <1>13, <1>14, <1>15, <1>16, <1>17, <1>18
     DEF Next, Resume, Serve, Environment, shortRead, blobRejected, ReadWhole

(* Types and bookkeeping hold in every behaviour. *)
LEMMA TypeInvariant == Spec => []TypeInv
<1>1. TypeInv /\ [Next]_vars => TypeInv'
  BY TypeStep, CallStep DEF TypeInv, StateInv
<1> QED BY <1>1, TypeInit, PTL DEF Spec

(***************************************************************************)
(* The variables of VerifyFS keep their types and openAndVerify closes     *)
(* every descriptor it opens, on each of its paths, whatever the threads.  *)
(***************************************************************************)
THEOREM TypeCorrect == Spec => []TypeOK
<1>1. TypeInv => TypeOK
  BY DEF TypeInv, StateInv
<1> QED BY <1>1, TypeInvariant, PTL

-----------------------------------------------------------------------------
(* What a thread that has checked its buffer knows: the digest matches the *)
(* handle's path.  A node it is about to fill or to read is that path's,   *)
(* unless another thread has erased it.                                    *)
BufferChecked ==
  \A w \in Worker : frame[w].pc \in {"insert", "assign"} =>
    isValidFileBlob(filePath[frame[w].h], frame[w].buffer)

NodeUnlessErased ==
  \A w \in Worker :
    frame[w].pc \in {"assign", "copy"} /\ frame[w].it # Dangling =>
      /\ frame[w].it = filePath[frame[w].h]
      /\ mTrustedFiles[frame[w].it] # NotTrusted

CheckedInv == BufferChecked /\ NodeUnlessErased

VerifiedInv == CheckedInv /\ TrustedVerified

(* Between the check and the assignment nobody changes buffer or path. *)
LEMMA CheckedInit == Init => CheckedInv
BY DEF Init, IdleFrame, CheckedInv, BufferChecked, NodeUnlessErased

(* Other threads cannot change them: they serve other handles. *)
LEMMA CheckedStep == TypeInv /\ CheckedInv /\ [Next]_vars => CheckedInv'
<1> SUFFICES ASSUME TypeInv, CheckedInv, [Next]_vars PROVE CheckedInv'
  OBVIOUS
<1> USE SentinelAssumption, BlobEmpty
    DEF TypeInv, StateInv, CallInv, HandleHasPath, CallHasHandle,
        OneCallPerHandle, CheckedInv, BufferChecked, NodeUnlessErased, disk
<1>1. ASSUME NEW p \in Path, Relink(p) PROVE CheckedInv'
  BY <1>1 DEF TypeOK, Frame, Relink
<1>2. ASSUME NEW i \in Inode, Overwrite(i) PROVE CheckedInv'
  BY <1>2 DEF TypeOK, Frame, Overwrite
<1>3. ASSUME NEW h \in Handle, Close(h) PROVE CheckedInv'
  BY <1>3 DEF TypeOK, Frame, Close, Quiet
<1>4. ASSUME NEW w \in Worker, NEW h \in Handle, NEW p \in Path,
             NEW mode \in AccessMode, fuseOpenRefused(w, h, p, mode)
      PROVE  CheckedInv'
  BY <1>4 DEF TypeOK, Frame, fuseOpenRefused
<1>5. ASSUME NEW w \in Worker, NEW h \in Handle, NEW p \in Path,
             fuseOpenMissing(w, h, p)
      PROVE  CheckedInv'
  BY <1>5 DEF TypeOK, Frame, fuseOpenMissing
<1>6. ASSUME NEW w \in Worker, NEW h \in Handle, NEW p \in Path,
             fuseOpen(w, h, p)
      PROVE  CheckedInv'
  BY <1>6 DEF TypeOK, Frame, fuseOpen, OpenRequest, Idle, IdleFrame
<1>7. ASSUME NEW w \in Worker, NEW h \in Handle, NEW at \in ReadAt,
             fuseReadMissing(w, h, at)
      PROVE  CheckedInv'
  BY <1>7 DEF TypeOK, Frame, fuseReadMissing
<1>8. ASSUME NEW w \in Worker, NEW h \in Handle, NEW at \in ReadAt,
             fuseRead(w, h, at)
      PROVE  CheckedInv'
  BY <1>8 DEF TypeOK, Frame, fuseRead, ReadRequest, Idle, Quiet, IdleFrame
<1>9. ASSUME NEW w \in Worker, NEW h \in Handle, fuseRelease(w, h)
      PROVE  CheckedInv'
  BY <1>9 DEF TypeOK, Frame, fuseRelease, Released, Idle
<1>10. ASSUME NEW w \in Worker, fstat(w) PROVE CheckedInv'
  BY <1>10 DEF TypeOK, Frame, fstat
<1>11. ASSUME NEW w \in Worker, readByte(w) PROVE CheckedInv'
  BY <1>11 DEF TypeOK, Frame, readByte
<1>12. ASSUME NEW w \in Worker, frame[w].pc = "read", OpenFails(w)
       PROVE  CheckedInv'
  BY <1>12 DEF TypeOK, Frame, OpenFails, Return, IdleFrame
<1>13. ASSUME NEW w \in Worker, blobAccepted(w) PROVE CheckedInv'
  BY <1>13 DEF TypeOK, Frame, blobAccepted, ReadWhole
<1>14. ASSUME NEW w \in Worker, insertNode(w) PROVE CheckedInv'
  BY <1>14 DEF TypeOK, Frame, insertNode
<1>15. ASSUME NEW w \in Worker, assignNode(w) PROVE CheckedInv'
  BY <1>15 DEF TypeOK, Frame, assignNode, Return, IdleFrame
<1>16. ASSUME NEW w \in Worker, copyBytes(w) PROVE CheckedInv'
  BY <1>16 DEF TypeOK, Frame, copyBytes, Return, IdleFrame
<1>17. ASSUME NEW w \in Worker, copyRaced(w) PROVE CheckedInv'
  BY <1>17 DEF TypeOK, Frame, copyRaced, Return, IdleFrame
<1>18. CASE UNCHANGED vars
  BY <1>18 DEF vars
<1> QED
  BY <1>1, <1>2, <1>3, <1>4, <1>5, <1>6, <1>7, <1>8, <1>9, <1>10, <1>11,
     <1>12, <1>13, <1>14, <1>15, <1>16, <1>17, <1>18
  DEF Next, Resume, Serve, Environment, shortRead, blobRejected, ReadWhole

(* Only insertNode and assignNode put something into the map. *)
LEMMA VerifiedStep ==
  TypeInv /\ VerifiedInv /\ [Next]_vars => TrustedVerified'
<1> SUFFICES ASSUME TypeInv, VerifiedInv, [Next]_vars PROVE TrustedVerified'
  OBVIOUS
<1> USE SentinelAssumption, BlobEmpty
    DEF TypeInv, StateInv, CallInv, HandleHasPath, CallHasHandle, VerifiedInv,
        CheckedInv, BufferChecked, NodeUnlessErased, TrustedVerified, Assigning,
        disk
<1>1. ASSUME NEW p \in Path, Relink(p) PROVE TrustedVerified'
  BY <1>1 DEF TypeOK, Frame, Relink
<1>2. ASSUME NEW i \in Inode, Overwrite(i) PROVE TrustedVerified'
  BY <1>2 DEF TypeOK, Frame, Overwrite
<1>3. ASSUME NEW h \in Handle, Close(h) PROVE TrustedVerified'
  BY <1>3 DEF TypeOK, Frame, Close, Quiet
<1>4. ASSUME NEW w \in Worker, NEW h \in Handle, NEW p \in Path,
             NEW mode \in AccessMode, fuseOpenRefused(w, h, p, mode)
      PROVE  TrustedVerified'
  BY <1>4 DEF TypeOK, Frame, fuseOpenRefused
<1>5. ASSUME NEW w \in Worker, NEW h \in Handle, NEW p \in Path,
             fuseOpenMissing(w, h, p)
      PROVE  TrustedVerified'
  BY <1>5 DEF TypeOK, Frame, fuseOpenMissing
<1>6. ASSUME NEW w \in Worker, NEW h \in Handle, NEW p \in Path,
             fuseOpen(w, h, p)
      PROVE  TrustedVerified'
  BY <1>6 DEF TypeOK, Frame, fuseOpen, OpenRequest, Idle, IdleFrame
<1>7. ASSUME NEW w \in Worker, NEW h \in Handle, NEW at \in ReadAt,
             fuseReadMissing(w, h, at)
      PROVE  TrustedVerified'
  BY <1>7 DEF TypeOK, Frame, fuseReadMissing
<1>8. ASSUME NEW w \in Worker, NEW h \in Handle, NEW at \in ReadAt,
             fuseRead(w, h, at)
      PROVE  TrustedVerified'
  BY <1>8 DEF TypeOK, Frame, fuseRead, ReadRequest, Idle, Quiet, IdleFrame
<1>9. ASSUME NEW w \in Worker, NEW h \in Handle, fuseRelease(w, h)
      PROVE  TrustedVerified'
  BY <1>9 DEF TypeOK, Frame, fuseRelease, Released, Idle
<1>10. ASSUME NEW w \in Worker, fstat(w) PROVE TrustedVerified'
  <2>1. \A v \in Worker : frame[v].pc = "assign" => frame'[v] = frame[v]
    BY <1>10 DEF fstat, TypeOK
  <2>2. mTrustedFiles' = mTrustedFiles
    BY <1>10 DEF fstat
  <2> QED BY <2>1, <2>2
<1>11. ASSUME NEW w \in Worker, readByte(w) PROVE TrustedVerified'
  BY <1>11 DEF TypeOK, Frame, readByte
<1>12. ASSUME NEW w \in Worker, frame[w].pc = "read", OpenFails(w)
       PROVE  TrustedVerified'
  BY <1>12 DEF TypeOK, Frame, OpenFails, Return, IdleFrame
<1>13. ASSUME NEW w \in Worker, blobAccepted(w) PROVE TrustedVerified'
  BY <1>13 DEF TypeOK, Frame, blobAccepted, ReadWhole
<1>14. ASSUME NEW w \in Worker, insertNode(w) PROVE TrustedVerified'
  <2> DEFINE p == filePath[frame[w].h]
  <2>1. p \in Path
    BY <1>14 DEF insertNode, TypeOK
  <2>2. frame'[w].pc = "assign" /\ frame'[w].it = p
    BY <1>14 DEF insertNode, TypeOK, Frame
  <2>3. \A v \in Worker : v # w => frame'[v] = frame[v]
    BY <1>14 DEF insertNode, TypeOK
  <2>4. ASSUME NEW v \in Worker, frame[v].pc = "assign"
        PROVE  v # w /\ frame'[v] = frame[v]
    BY <1>14, <2>3, <2>4 DEF insertNode
  <2>5. \A q \in Path :
          \/ mTrustedFiles'[q] = mTrustedFiles[q]
          \/ q = p /\ mTrustedFiles'[q] = <<>>
    BY <1>14 DEF insertNode, TypeOK
  <2> QED BY <2>2, <2>4, <2>5
<1>15. ASSUME NEW w \in Worker, assignNode(w) PROVE TrustedVerified'
  BY <1>15 DEF TypeOK, Frame, assignNode, Return, IdleFrame
<1>16. ASSUME NEW w \in Worker, copyBytes(w) PROVE TrustedVerified'
  BY <1>16 DEF TypeOK, Frame, copyBytes, Return, IdleFrame
<1>17. ASSUME NEW w \in Worker, copyRaced(w) PROVE TrustedVerified'
  BY <1>17 DEF TypeOK, Frame, copyRaced, Return, IdleFrame
<1>18. CASE UNCHANGED vars
  BY <1>18 DEF vars
<1> QED
  BY <1>1, <1>2, <1>3, <1>4, <1>5, <1>6, <1>7, <1>8, <1>9, <1>10, <1>11,
     <1>12, <1>13, <1>14, <1>15, <1>16, <1>17, <1>18
  DEF Next, Resume, Serve, Environment, shortRead, blobRejected, ReadWhole

(***************************************************************************)
(* For every number of threads and whatever other processes do to the      *)
(* untrusted folder meanwhile: the map keeps for a path only bytes with    *)
(* the digest listed for it.  The property of the class that all the       *)
(* others stand on.                                                        *)
(***************************************************************************)
THEOREM TrustedIsVerified == Spec => []TrustedVerified
<1>1. Init => VerifiedInv
  BY CheckedInit DEF Init, VerifiedInv, TrustedVerified
<1>2. TypeInv /\ VerifiedInv /\ [Next]_vars => VerifiedInv'
  BY CheckedStep, VerifiedStep DEF VerifiedInv
<1>3. VerifiedInv => TrustedVerified
  BY DEF VerifiedInv
<1> QED BY <1>1, <1>2, <1>3, TypeInvariant, PTL DEF Spec

-----------------------------------------------------------------------------
(* The handle whose open filled the node, or the last to refill it, is the *)
(* node's holder until its release erases the node.                        *)
LEMMA HolderStep ==
  TypeInv /\ CheckedInv /\ TrustedHasHolder /\ [Next]_vars => TrustedHasHolder'
<1> SUFFICES ASSUME TypeInv, CheckedInv, TrustedHasHolder, [Next]_vars
             PROVE  TrustedHasHolder'
  OBVIOUS
<1> USE SentinelAssumption, BlobEmpty
    DEF TypeInv, StateInv, CallInv, HandleHasPath, CallHasHandle,
        OneCallPerHandle, CheckedInv, NodeUnlessErased, TrustedHasHolder, Holds,
        Assigning, disk
<1>1. ASSUME NEW p \in Path, Relink(p) PROVE TrustedHasHolder'
  BY <1>1 DEF TypeOK, Frame, Relink
<1>2. ASSUME NEW i \in Inode, Overwrite(i) PROVE TrustedHasHolder'
  BY <1>2 DEF TypeOK, Frame, Overwrite
<1>3. ASSUME NEW h \in Handle, Close(h) PROVE TrustedHasHolder'
  BY <1>3 DEF TypeOK, Frame, Close, Quiet
<1>4. ASSUME NEW w \in Worker, NEW h \in Handle, NEW p \in Path,
             NEW mode \in AccessMode, fuseOpenRefused(w, h, p, mode)
      PROVE  TrustedHasHolder'
  BY <1>4 DEF TypeOK, Frame, fuseOpenRefused
<1>5. ASSUME NEW w \in Worker, NEW h \in Handle, NEW p \in Path,
             fuseOpenMissing(w, h, p)
      PROVE  TrustedHasHolder'
  BY <1>5 DEF TypeOK, Frame, fuseOpenMissing
<1>6. ASSUME NEW w \in Worker, NEW h \in Handle, NEW p \in Path,
             fuseOpen(w, h, p)
      PROVE  TrustedHasHolder'
  BY <1>6 DEF TypeOK, Frame, fuseOpen, OpenRequest, Idle, IdleFrame
<1>7. ASSUME NEW w \in Worker, NEW h \in Handle, NEW at \in ReadAt,
             fuseReadMissing(w, h, at)
      PROVE  TrustedHasHolder'
  BY <1>7 DEF TypeOK, Frame, fuseReadMissing
<1>8. ASSUME NEW w \in Worker, NEW h \in Handle, NEW at \in ReadAt,
             fuseRead(w, h, at)
      PROVE  TrustedHasHolder'
  BY <1>8 DEF TypeOK, Frame, fuseRead, ReadRequest, Idle, Quiet, IdleFrame
<1>9. ASSUME NEW w \in Worker, NEW h \in Handle, fuseRelease(w, h)
      PROVE  TrustedHasHolder'
  BY <1>9 DEF TypeOK, Frame, fuseRelease, Released, Idle
<1>10. ASSUME NEW w \in Worker, fstat(w) PROVE TrustedHasHolder'
  <2>1. \A v \in Worker : frame[v].pc = "assign" => frame'[v] = frame[v]
    BY <1>10 DEF fstat, TypeOK
  <2>2. UNCHANGED <<mTrustedFiles, filePath, fileState>>
    BY <1>10 DEF fstat
  <2> QED BY <2>1, <2>2
<1>11. ASSUME NEW w \in Worker, readByte(w) PROVE TrustedHasHolder'
  <2>1. \A v \in Worker : frame[v].pc = "assign" => frame'[v] = frame[v]
    BY <1>11 DEF readByte, TypeOK
  <2>2. UNCHANGED <<mTrustedFiles, filePath, fileState>>
    BY <1>11 DEF readByte
  <2> QED BY <2>1, <2>2
<1>12. ASSUME NEW w \in Worker, frame[w].pc = "read", OpenFails(w)
       PROVE  TrustedHasHolder'
  <2>1. \A v \in Worker : frame[v].pc = "assign" => frame'[v] = frame[v]
    BY <1>12 DEF OpenFails, Return, TypeOK
  <2>2. mTrustedFiles' = mTrustedFiles
    BY <1>12 DEF OpenFails
  <2>3. fileState[frame[w].h] = "opening"
    BY <1>12
  <2>4. \A v \in Worker : frame[v].pc = "assign" => frame[v].h # frame[w].h
    BY <1>12
  <2>5. \A g \in Handle : g # frame[w].h =>
          filePath'[g] = filePath[g] /\ fileState'[g] = fileState[g]
    BY <1>12 DEF OpenFails, TypeOK
  <2> QED BY <2>1, <2>2, <2>3, <2>4, <2>5
<1>13. ASSUME NEW w \in Worker, blobAccepted(w) PROVE TrustedHasHolder'
  <2>1. \A v \in Worker : frame[v].pc = "assign" => frame'[v] = frame[v]
    BY <1>13 DEF blobAccepted, ReadWhole, TypeOK
  <2>2. UNCHANGED <<mTrustedFiles, filePath, fileState>>
    BY <1>13 DEF blobAccepted
  <2> QED BY <2>1, <2>2
<1>14. ASSUME NEW w \in Worker, insertNode(w) PROVE TrustedHasHolder'
  <2> DEFINE h == frame[w].h
             p == filePath[h]
  <2>1. h \in Handle /\ p \in Path
    BY <1>14 DEF insertNode, TypeOK
  <2>2. frame'[w].pc = "assign" /\ frame'[w].it = p /\ frame'[w].h = h
    BY <1>14 DEF insertNode, TypeOK, Frame
  <2>3. ASSUME NEW v \in Worker, frame[v].pc = "assign"
        PROVE  frame'[v] = frame[v]
    BY <1>14, <2>3 DEF insertNode, TypeOK
  <2>4. UNCHANGED <<filePath, fileState>>
    BY <1>14 DEF insertNode
  <2>5. ASSUME NEW g \in Handle, g = h, NEW q \in Path, q = p
        PROVE  Holds(g, q)'
    BY <2>2, <2>4, <2>5
  <2>6. ASSUME NEW g \in Handle, NEW q \in Path, Holds(g, q)
        PROVE  Holds(g, q)'
    BY <2>3, <2>4, <2>6
  <2>7. \A q \in Path :
          \/ mTrustedFiles'[q] = mTrustedFiles[q]
          \/ q = p
    BY <1>14 DEF insertNode, TypeOK
  <2>8. SUFFICES ASSUME NEW q \in Path, mTrustedFiles'[q] # NotTrusted
                 PROVE  \E g \in Handle : Holds(g, q)'
    OBVIOUS
  <2>9. CASE q = p
    BY <2>1, <2>5, <2>9
  <2>10. CASE q # p
    <3> HIDE DEF Holds
    <3>1. PICK g \in Handle : Holds(g, q)
      BY <2>7, <2>8, <2>10
    <3> QED BY <2>6, <3>1
  <2> QED BY <2>9, <2>10
<1>15. ASSUME NEW w \in Worker, assignNode(w) PROVE TrustedHasHolder'
  BY <1>15 DEF TypeOK, Frame, assignNode, Return, IdleFrame
<1>16. ASSUME NEW w \in Worker, copyBytes(w) PROVE TrustedHasHolder'
  BY <1>16 DEF TypeOK, Frame, copyBytes, Return, IdleFrame
<1>17. ASSUME NEW w \in Worker, copyRaced(w) PROVE TrustedHasHolder'
  BY <1>17 DEF TypeOK, Frame, copyRaced, Return, IdleFrame
<1>18. CASE UNCHANGED vars
  BY <1>18 DEF vars
<1> QED
  BY <1>1, <1>2, <1>3, <1>4, <1>5, <1>6, <1>7, <1>8, <1>9, <1>10, <1>11,
     <1>12, <1>13, <1>14, <1>15, <1>16, <1>17, <1>18
  DEF Next, Resume, Serve, Environment, shortRead, blobRejected, ReadWhole

(***************************************************************************)
(* No leak: whatever the interleaving of opens, failed opens and releases, *)
(* the bytes of a path are kept only while a handle of the path is still   *)
(* to be released.                                                         *)
(***************************************************************************)
THEOREM NothingLeaks == Spec => []TrustedHasHolder
<1>1. Init => TrustedHasHolder
  BY DEF Init, TrustedHasHolder
<1> QED
  BY <1>1, CheckedInit, CheckedStep, HolderStep, TypeInvariant, PTL DEF Spec

-----------------------------------------------------------------------------
(* What DroppedOnlyByRelease says of one step. *)
DropsByRelease ==
  \A p \in Path :
    mTrustedFiles[p] # NotTrusted /\ mTrustedFiles'[p] = NotTrusted =>
      \E h \in Handle : /\ filePath[h] = p
                        /\ fileState[h] = "closing"
                        /\ fileState'[h] = "free"

(* Of all steps only fuseRelease takes a path's entry away. *)
LEMMA DropStep == TypeInv /\ [Next]_vars => DropsByRelease
<1> SUFFICES ASSUME TypeInv, [Next]_vars PROVE DropsByRelease
  OBVIOUS
<1> USE SentinelAssumption, BlobEmpty
    DEF TypeInv, StateInv, DropsByRelease, disk
<1>1. ASSUME NEW p \in Path, Relink(p) PROVE DropsByRelease
  BY <1>1 DEF TypeOK, Frame, Relink
<1>2. ASSUME NEW i \in Inode, Overwrite(i) PROVE DropsByRelease
  BY <1>2 DEF TypeOK, Frame, Overwrite
<1>3. ASSUME NEW h \in Handle, Close(h) PROVE DropsByRelease
  BY <1>3 DEF TypeOK, Frame, Close, Quiet
<1>4. ASSUME NEW w \in Worker, NEW h \in Handle, NEW p \in Path,
             NEW mode \in AccessMode, fuseOpenRefused(w, h, p, mode)
      PROVE  DropsByRelease
  BY <1>4 DEF TypeOK, Frame, fuseOpenRefused
<1>5. ASSUME NEW w \in Worker, NEW h \in Handle, NEW p \in Path,
             fuseOpenMissing(w, h, p)
      PROVE  DropsByRelease
  BY <1>5 DEF TypeOK, Frame, fuseOpenMissing
<1>6. ASSUME NEW w \in Worker, NEW h \in Handle, NEW p \in Path,
             fuseOpen(w, h, p)
      PROVE  DropsByRelease
  BY <1>6 DEF TypeOK, Frame, fuseOpen, OpenRequest, Idle, IdleFrame
<1>7. ASSUME NEW w \in Worker, NEW h \in Handle, NEW at \in ReadAt,
             fuseReadMissing(w, h, at)
      PROVE  DropsByRelease
  BY <1>7 DEF TypeOK, Frame, fuseReadMissing
<1>8. ASSUME NEW w \in Worker, NEW h \in Handle, NEW at \in ReadAt,
             fuseRead(w, h, at)
      PROVE  DropsByRelease
  BY <1>8 DEF TypeOK, Frame, fuseRead, ReadRequest, Idle, Quiet, IdleFrame
<1>9. ASSUME NEW w \in Worker, NEW h \in Handle, fuseRelease(w, h)
      PROVE  DropsByRelease
  BY <1>9 DEF TypeOK, Frame, fuseRelease, Released, Idle
<1>10. ASSUME NEW w \in Worker, fstat(w) PROVE DropsByRelease
  BY <1>10 DEF TypeOK, Frame, fstat
<1>11. ASSUME NEW w \in Worker, readByte(w) PROVE DropsByRelease
  BY <1>11 DEF TypeOK, Frame, readByte
<1>12. ASSUME NEW w \in Worker, frame[w].pc = "read", OpenFails(w)
       PROVE  DropsByRelease
  BY <1>12 DEF TypeOK, Frame, OpenFails, Return, IdleFrame
<1>13. ASSUME NEW w \in Worker, blobAccepted(w) PROVE DropsByRelease
  BY <1>13 DEF TypeOK, Frame, blobAccepted, ReadWhole
<1>14. ASSUME NEW w \in Worker, insertNode(w) PROVE DropsByRelease
  BY <1>14 DEF TypeOK, Frame, insertNode
<1>15. ASSUME NEW w \in Worker, assignNode(w) PROVE DropsByRelease
  BY <1>15 DEF TypeOK, Frame, assignNode, Return, IdleFrame
<1>16. ASSUME NEW w \in Worker, copyBytes(w) PROVE DropsByRelease
  BY <1>16 DEF TypeOK, Frame, copyBytes, Return, IdleFrame
<1>17. ASSUME NEW w \in Worker, copyRaced(w) PROVE DropsByRelease
  BY <1>17 DEF TypeOK, Frame, copyRaced, Return, IdleFrame
<1>18. CASE UNCHANGED vars
  BY <1>18 DEF vars
<1> QED
  BY <1>1, <1>2, <1>3, <1>4, <1>5, <1>6, <1>7, <1>8, <1>9, <1>10, <1>11,
     <1>12, <1>13, <1>14, <1>15, <1>16, <1>17, <1>18
  DEF Next, Resume, Serve, Environment, shortRead, blobRejected, ReadWhole

(***************************************************************************)
(* A failed open, a read or another path's release never takes verified    *)
(* bytes away: only the release of a handle of that very path does.        *)
(***************************************************************************)
THEOREM DroppedByReleaseOnly == Spec => DroppedOnlyByRelease
<1>1. TypeInv /\ [Next]_vars => [DropsByRelease]_vars
  BY DropStep
<1>2. [][DropsByRelease]_vars => DroppedOnlyByRelease
  BY DEF DroppedOnlyByRelease, DropsByRelease
<1> QED BY <1>1, <1>2, TypeInvariant, PTL DEF Spec

-----------------------------------------------------------------------------
(* What CallsAdvance says of one step. *)
CallAdvances ==
  \A w \in Worker : ~Idle(w) =>
    /\ StepsLeft(frame'[w]) <= StepsLeft(frame[w])
    /\ Resume(w) => StepsLeft(frame'[w]) < StepsLeft(frame[w])

(* How many steps a call has left depends on where it is and what it read. *)
LEMMA StepsLeftSame ==
  ASSUME NEW f, NEW g, f.pc = g.pc, f.buffer = g.buffer
  PROVE  StepsLeft(f) = StepsLeft(g)
BY DEF StepsLeft

(* How many that is before and during the read. *)
LEMMA StepsLeftReading ==
  ASSUME NEW f
  PROVE  /\ f.pc = "fstat" => StepsLeft(f) = 4 + MaxLen
         /\ f.pc = "read" => StepsLeft(f) = 3 + MaxLen - Len(f.buffer)
<1>1. ASSUME f.pc = "fstat" PROVE StepsLeft(f) = 4 + MaxLen
  BY <1>1 DEF StepsLeft
<1>2. ASSUME f.pc = "read" PROVE StepsLeft(f) = 3 + MaxLen - Len(f.buffer)
  BY <1>2 DEF StepsLeft
<1> QED BY <1>1, <1>2

(* It is a number, and read(2) has a step left for each byte it can add. *)
LEMMA StepsLeftType ==
  ASSUME NEW f \in Frame
  PROVE  /\ StepsLeft(f) \in Nat
         /\ f.pc # "idle" => StepsLeft(f) >= 1
         /\ f.pc = "read" => /\ StepsLeft(f) = 3 + MaxLen - Len(f.buffer)
                             /\ StepsLeft(f) >= 3
<1>1. Len(f.buffer) \in Nat /\ Len(f.buffer) <= MaxLen /\ MaxLen \in Nat
  BY BlobIsShortSeq, BlobAssumption DEF Frame
<1>2. f.pc \in {"idle", "fstat", "read", "insert", "assign", "copy"}
  BY DEF Frame
<1> QED BY <1>1, <1>2 DEF StepsLeft

(* Each step a call makes, on a good or a bad path, is one less to make. *)
LEMMA ResumeAdvances ==
  ASSUME TypeInv, NEW w \in Worker, Resume(w)
  PROVE  StepsLeft(frame'[w]) < StepsLeft(frame[w])
<1> DEFINE f == frame[w]
           g == frame'[w]
           n == Len(f.buffer)
<1>1. f \in Frame /\ frame \in [Worker -> Frame]
  BY DEF TypeInv, StateInv, TypeOK
<1>2. /\ StepsLeft(f) \in Nat
      /\ f.pc # "idle" => StepsLeft(f) >= 1
      /\ f.pc = "read" => /\ StepsLeft(f) = 3 + MaxLen - n
                          /\ StepsLeft(f) >= 3
  BY <1>1, StepsLeftType
<1>3. n \in Nat /\ MaxLen \in Nat /\ f.buffer \in Seq(Byte)
  BY <1>1, BlobIsShortSeq, BlobAssumption DEF Frame
<1>4. ASSUME f.pc # "idle", g = IdleFrame PROVE StepsLeft(g) < StepsLeft(f)
  <2>1. StepsLeft(g) = 0
    BY <1>4 DEF StepsLeft, IdleFrame
  <2> QED BY <2>1, <1>2, <1>4
<1>5. CASE fstat(w)
  <2>1. f.pc = "fstat" /\ g.pc = "read" /\ g.buffer = f.buffer
    BY <1>1, <1>5 DEF fstat
  <2>2. StepsLeft(f) = 4 + MaxLen /\ StepsLeft(g) = 3 + MaxLen - n
    BY <2>1, StepsLeftReading
  <2>3. n \in Nat /\ MaxLen \in Nat
    BY <1>3
  <2> HIDE DEF n
  <2> QED BY <2>2, <2>3
<1>6. CASE readByte(w)
  <2>1. PICK c : f.pc = "read" /\ g.pc = "read" /\ g.buffer = Append(f.buffer, c)
    BY <1>1, <1>6 DEF readByte
  <2>2. Len(g.buffer) = n + 1
    BY <2>1, <1>3
  <2>3. StepsLeft(f) = 3 + MaxLen - n /\ StepsLeft(g) = 3 + MaxLen - (n + 1)
    BY <2>1, <2>2, StepsLeftReading
  <2>4. n \in Nat /\ MaxLen \in Nat
    BY <1>3
  <2> HIDE DEF n
  <2> QED BY <2>3, <2>4
<1>7. CASE shortRead(w) \/ blobRejected(w)
  <2>1. f.pc = "read" /\ g = IdleFrame
    BY <1>1, <1>7 DEF shortRead, blobRejected, ReadWhole, OpenFails, Return
  <2> QED BY <2>1, <1>4
<1>8. CASE blobAccepted(w)
  <2>1. f.pc = "read" /\ g.pc = "insert"
    BY <1>1, <1>8 DEF blobAccepted, ReadWhole
  <2>2. StepsLeft(g) = 2
    BY <2>1 DEF StepsLeft
  <2> QED BY <2>1, <2>2, <1>2
<1>9. CASE insertNode(w)
  <2>1. f.pc = "insert" /\ g.pc = "assign"
    BY <1>1, <1>9 DEF insertNode
  <2>2. StepsLeft(f) = 2 /\ StepsLeft(g) = 1
    BY <2>1 DEF StepsLeft
  <2> QED BY <2>2
<1>10. CASE assignNode(w) \/ copyBytes(w) \/ copyRaced(w)
  <2>1. f.pc # "idle" /\ g = IdleFrame
    BY <1>1, <1>10 DEF assignNode, copyBytes, copyRaced, Return
  <2> QED BY <2>1, <1>4
<1> QED BY <1>5, <1>6, <1>7, <1>8, <1>9, <1>10 DEF Resume

(* What other threads, clients and processes do is no step of this call. *)
LEMMA OthersDelayNot ==
  ASSUME TypeInv, [Next]_vars, NEW w \in Worker, ~Idle(w), ~Resume(w)
  PROVE  StepsLeft(frame'[w]) = StepsLeft(frame[w])
<1> SUFFICES frame'[w].pc = frame[w].pc /\ frame'[w].buffer = frame[w].buffer
  BY StepsLeftSame
<1>1. frame \in [Worker -> Frame] /\ frame[w] \in Frame
  BY DEF TypeInv, StateInv, TypeOK
<1>2. ASSUME NEW v \in Worker, Resume(v) PROVE frame'[w] = frame[w]
  <2>1. v # w
    BY <1>2
  <2> QED BY <2>1, <1>1, <1>2
    DEF Resume, fstat, readByte, shortRead, blobRejected, blobAccepted,
        insertNode, assignNode, copyBytes, copyRaced, OpenFails, Return
<1>3. ASSUME NEW v \in Worker, NEW h \in Handle, Serve(v, h)
      PROVE  frame'[w].pc = frame[w].pc /\ frame'[w].buffer = frame[w].buffer
  <2>1. CASE fuseRelease(v, h)
    BY <2>1, <1>1 DEF fuseRelease, Frame
  <2>2. ASSUME NEW p \in Path, NEW mode \in AccessMode,
               fuseOpenRefused(v, h, p, mode)
        PROVE  frame' = frame
    BY <2>2 DEF fuseOpenRefused
  <2>3. ASSUME NEW p \in Path, fuseOpenMissing(v, h, p) \/ fuseOpen(v, h, p)
        PROVE  frame'[w] = frame[w]
    BY <2>3, <1>1 DEF fuseOpenMissing, fuseOpen, OpenRequest
  <2>4. ASSUME NEW at \in ReadAt, fuseReadMissing(v, h, at) \/ fuseRead(v, h, at)
        PROVE  frame'[w] = frame[w]
    BY <2>4, <1>1 DEF fuseReadMissing, fuseRead, ReadRequest
  <2> QED BY <1>3, <2>1, <2>2, <2>3, <2>4 DEF Serve
<1>4. ASSUME Environment PROVE frame' = frame
  BY <1>4 DEF Environment, Relink, Overwrite, Close
<1>5. CASE UNCHANGED vars
  BY <1>5 DEF vars
<1> QED BY <1>2, <1>3, <1>4, <1>5 DEF Next

(***************************************************************************)
(* The safety half of "every handler returns", for every number of threads *)
(* and every size a read can have: StepsLeft falls with each step of a call*)
(* and nothing else moves it, so a call that is scheduled ends, however    *)
(* its file is rewritten or its path released meanwhile.                   *)
(***************************************************************************)
THEOREM EveryCallAdvances == Spec => CallsAdvance
<1>1. TypeInv /\ [Next]_vars => CallAdvances
  <2> SUFFICES ASSUME TypeInv, [Next]_vars, NEW w \in Worker, ~Idle(w)
               PROVE  /\ StepsLeft(frame'[w]) <= StepsLeft(frame[w])
                      /\ Resume(w) =>
                           StepsLeft(frame'[w]) < StepsLeft(frame[w])
    BY DEF CallAdvances
  <2>1. StepsLeft(frame[w]) \in Nat
    BY StepsLeftType DEF TypeInv, StateInv, TypeOK
  <2>2. CASE ~Resume(w)
    BY <2>1, <2>2, OthersDelayNot
  <2>3. CASE Resume(w)
    <3>1. StepsLeft(frame'[w]) < StepsLeft(frame[w])
      BY <2>3, ResumeAdvances
    <3>2. StepsLeft(frame'[w]) \in Nat
      BY StepsLeftType, TypeStep DEF StateInv, TypeOK
    <3> QED BY <3>1, <3>2, <2>1
  <2> QED BY <2>2, <2>3
<1>2. TypeInv /\ [Next]_vars => [CallAdvances]_vars
  BY <1>1
<1>3. [][CallAdvances]_vars => CallsAdvance
  BY DEF CallsAdvance, CallAdvances
<1> QED BY <1>2, <1>3, TypeInvariant, PTL DEF Spec

-----------------------------------------------------------------------------
(***************************************************************************)
(* Two ways to rule the races out: clients that never have two handles of  *)
(* a path at a time, or one thread ("-s").                                 *)
(***************************************************************************)
Exclusive == Sharing = "exclusive"
OneWorker == \A v, w \in Worker : v = w

(* No two handles of one path are in use. *)
OneHandlePerPath ==
  \A g, h \in Handle : g # h /\ filePath[g] = filePath[h] =>
    filePath[g] = NoPath

(* The node a thread works with is that of its handle's path. *)
NodeIsOwn ==
  \A w \in Worker : frame[w].pc \in {"assign", "copy"} =>
    frame[w].it = filePath[frame[w].h]

ExclusiveInv == OneHandlePerPath /\ NodeIsOwn /\ OpenMeansTrusted

(* With one handle per path a release can only erase its own handle's node. *)
LEMMA ExclusiveStep ==
  Exclusive /\ TypeInv /\ ExclusiveInv /\ [Next]_vars => ExclusiveInv'
<1> SUFFICES ASSUME Exclusive, TypeInv, ExclusiveInv, [Next]_vars
             PROVE  ExclusiveInv'
  OBVIOUS
<1> USE SentinelAssumption, BlobEmpty
    DEF Exclusive, TypeInv, StateInv, CallInv, HandleHasPath, CallHasHandle,
        OneCallPerHandle, ExclusiveInv, OneHandlePerPath, NodeIsOwn,
        OpenMeansTrusted, disk
<1>1. ASSUME NEW p \in Path, Relink(p) PROVE ExclusiveInv'
  BY <1>1 DEF TypeOK, Frame, Relink
<1>2. ASSUME NEW i \in Inode, Overwrite(i) PROVE ExclusiveInv'
  BY <1>2 DEF TypeOK, Frame, Overwrite
<1>3. ASSUME NEW h \in Handle, Close(h) PROVE ExclusiveInv'
  BY <1>3 DEF TypeOK, Frame, Close, Quiet
<1>4. ASSUME NEW w \in Worker, NEW h \in Handle, NEW p \in Path,
             NEW mode \in AccessMode, fuseOpenRefused(w, h, p, mode)
      PROVE  ExclusiveInv'
  BY <1>4 DEF TypeOK, Frame, fuseOpenRefused
<1>5. ASSUME NEW w \in Worker, NEW h \in Handle, NEW p \in Path,
             fuseOpenMissing(w, h, p)
      PROVE  ExclusiveInv'
  BY <1>5 DEF TypeOK, Frame, fuseOpenMissing
<1>6. ASSUME NEW w \in Worker, NEW h \in Handle, NEW p \in Path,
             fuseOpen(w, h, p)
      PROVE  ExclusiveInv'
  BY <1>6
     DEF TypeOK, Frame, fuseOpen, OpenRequest, ClientMayOpen, Idle, IdleFrame
<1>7. ASSUME NEW w \in Worker, NEW h \in Handle, NEW at \in ReadAt,
             fuseReadMissing(w, h, at)
      PROVE  ExclusiveInv'
  BY <1>7 DEF TypeOK, Frame, fuseReadMissing
<1>8. ASSUME NEW w \in Worker, NEW h \in Handle, NEW at \in ReadAt,
             fuseRead(w, h, at)
      PROVE  ExclusiveInv'
  BY <1>8 DEF TypeOK, Frame, fuseRead, ReadRequest, Idle, Quiet, IdleFrame
<1>9. ASSUME NEW w \in Worker, NEW h \in Handle, fuseRelease(w, h)
      PROVE  ExclusiveInv'
  BY <1>9 DEF TypeOK, Frame, fuseRelease, Released, Idle
<1>10. ASSUME NEW w \in Worker, fstat(w) PROVE ExclusiveInv'
  BY <1>10 DEF TypeOK, Frame, fstat
<1>11. ASSUME NEW w \in Worker, readByte(w) PROVE ExclusiveInv'
  BY <1>11 DEF TypeOK, Frame, readByte
<1>12. ASSUME NEW w \in Worker, frame[w].pc = "read", OpenFails(w)
       PROVE  ExclusiveInv'
  BY <1>12 DEF TypeOK, Frame, OpenFails, Return, IdleFrame
<1>13. ASSUME NEW w \in Worker, blobAccepted(w) PROVE ExclusiveInv'
  BY <1>13 DEF TypeOK, Frame, blobAccepted, ReadWhole
<1>14. ASSUME NEW w \in Worker, insertNode(w) PROVE ExclusiveInv'
  BY <1>14 DEF TypeOK, Frame, insertNode
<1>15. ASSUME NEW w \in Worker, assignNode(w) PROVE ExclusiveInv'
  BY <1>15 DEF TypeOK, Frame, assignNode, Return, IdleFrame
<1>16. ASSUME NEW w \in Worker, copyBytes(w) PROVE ExclusiveInv'
  BY <1>16 DEF TypeOK, Frame, copyBytes, Return, IdleFrame
<1>17. ASSUME NEW w \in Worker, copyRaced(w) PROVE ExclusiveInv'
  BY <1>17 DEF TypeOK, Frame, copyRaced, Return, IdleFrame
<1>18. CASE UNCHANGED vars
  BY <1>18 DEF vars
<1> QED
  BY <1>1, <1>2, <1>3, <1>4, <1>5, <1>6, <1>7, <1>8, <1>9, <1>10, <1>11,
     <1>12, <1>13, <1>14, <1>15, <1>16, <1>17, <1>18
  DEF Next, Resume, Serve, Environment, shortRead, blobRejected, ReadWhole

(* Exclusive clients keep it so for ever. *)
LEMMA ExclusiveInvariant == Exclusive => (Spec => []ExclusiveInv)
<1> SUFFICES ASSUME Exclusive PROVE Spec => []ExclusiveInv
  OBVIOUS
<1>1. Init => ExclusiveInv
  BY DEF Init, IdleFrame, ExclusiveInv, OneHandlePerPath, NodeIsOwn,
         OpenMeansTrusted
<1>2. TypeInv /\ ExclusiveInv /\ [Next]_vars => ExclusiveInv'
  BY ExclusiveStep
<1> QED BY <1>1, <1>2, TypeInvariant, PTL DEF Spec

(***************************************************************************)
(* When clients hold one handle of a path at a time, a handle that was     *)
(* opened keeps its bytes until it is closed, with any number of threads.  *)
(***************************************************************************)
THEOREM ExclusiveOpenKeepsBytes ==
  Exclusive => (Spec => []OpenMeansTrusted)
<1>1. ExclusiveInv => OpenMeansTrusted
  BY DEF ExclusiveInv
<1> QED BY <1>1, ExclusiveInvariant, PTL

-----------------------------------------------------------------------------
(* Either way no other thread works on the path a thread is reading. *)
Calm == OneWorker \/ (OneHandlePerPath /\ NodeIsOwn)

CopyVerified ==
  \A w \in Worker : frame[w].pc = "copy" =>
    /\ frame[w].it \in Path /\ frame[w].it = filePath[frame[w].h]
    /\ mTrustedFiles[frame[w].it] # NotTrusted
    /\ isValidFileBlob(frame[w].it, mTrustedFiles[frame[w].it])

(* What fuseRead found stays verified and in place until it is copied. *)
LEMMA CopyStep ==
  TypeInv /\ VerifiedInv /\ Calm /\ CopyVerified /\ [Next]_vars =>
    CopyVerified'
<1> SUFFICES ASSUME TypeInv, VerifiedInv, Calm, CopyVerified, [Next]_vars
             PROVE  CopyVerified'
  OBVIOUS
<1> USE SentinelAssumption, BlobEmpty
    DEF TypeInv, StateInv, CallInv, HandleHasPath, CallHasHandle,
        OneCallPerHandle, VerifiedInv, CheckedInv, BufferChecked,
        TrustedVerified, Assigning, OneWorker, OneHandlePerPath, NodeIsOwn,
        Calm, CopyVerified, disk
<1>1. ASSUME NEW p \in Path, Relink(p) PROVE CopyVerified'
  BY <1>1 DEF TypeOK, Frame, Relink
<1>2. ASSUME NEW i \in Inode, Overwrite(i) PROVE CopyVerified'
  BY <1>2 DEF TypeOK, Frame, Overwrite
<1>3. ASSUME NEW h \in Handle, Close(h) PROVE CopyVerified'
  BY <1>3 DEF TypeOK, Frame, Close, Quiet
<1>4. ASSUME NEW w \in Worker, NEW h \in Handle, NEW p \in Path,
             NEW mode \in AccessMode, fuseOpenRefused(w, h, p, mode)
      PROVE  CopyVerified'
  BY <1>4 DEF TypeOK, Frame, fuseOpenRefused
<1>5. ASSUME NEW w \in Worker, NEW h \in Handle, NEW p \in Path,
             fuseOpenMissing(w, h, p)
      PROVE  CopyVerified'
  BY <1>5 DEF TypeOK, Frame, fuseOpenMissing
<1>6. ASSUME NEW w \in Worker, NEW h \in Handle, NEW p \in Path,
             fuseOpen(w, h, p)
      PROVE  CopyVerified'
  BY <1>6 DEF TypeOK, Frame, fuseOpen, OpenRequest, Idle, IdleFrame
<1>7. ASSUME NEW w \in Worker, NEW h \in Handle, NEW at \in ReadAt,
             fuseReadMissing(w, h, at)
      PROVE  CopyVerified'
  BY <1>7 DEF TypeOK, Frame, fuseReadMissing
<1>8. ASSUME NEW w \in Worker, NEW h \in Handle, NEW at \in ReadAt,
             fuseRead(w, h, at)
      PROVE  CopyVerified'
  BY <1>8 DEF TypeOK, Frame, fuseRead, ReadRequest, Idle, Quiet, IdleFrame
<1>9. ASSUME NEW w \in Worker, NEW h \in Handle, fuseRelease(w, h)
      PROVE  CopyVerified'
  BY <1>9 DEF TypeOK, Frame, fuseRelease, Released, Idle
<1>10. ASSUME NEW w \in Worker, fstat(w) PROVE CopyVerified'
  BY <1>10 DEF TypeOK, Frame, fstat
<1>11. ASSUME NEW w \in Worker, readByte(w) PROVE CopyVerified'
  BY <1>11 DEF TypeOK, Frame, readByte
<1>12. ASSUME NEW w \in Worker, frame[w].pc = "read", OpenFails(w)
       PROVE  CopyVerified'
  BY <1>12 DEF TypeOK, Frame, OpenFails, Return, IdleFrame
<1>13. ASSUME NEW w \in Worker, blobAccepted(w) PROVE CopyVerified'
  BY <1>13 DEF TypeOK, Frame, blobAccepted, ReadWhole
<1>14. ASSUME NEW w \in Worker, insertNode(w) PROVE CopyVerified'
  BY <1>14 DEF TypeOK, Frame, insertNode
<1>15. ASSUME NEW w \in Worker, assignNode(w) PROVE CopyVerified'
  BY <1>15 DEF TypeOK, Frame, assignNode, Return, IdleFrame
<1>16. ASSUME NEW w \in Worker, copyBytes(w) PROVE CopyVerified'
  BY <1>16 DEF TypeOK, Frame, copyBytes, Return, IdleFrame
<1>17. ASSUME NEW w \in Worker, copyRaced(w) PROVE CopyVerified'
  BY <1>17 DEF TypeOK, Frame, copyRaced, Return, IdleFrame
<1>18. CASE UNCHANGED vars
  BY <1>18 DEF vars
<1> QED
  BY <1>1, <1>2, <1>3, <1>4, <1>5, <1>6, <1>7, <1>8, <1>9, <1>10, <1>11,
     <1>12, <1>13, <1>14, <1>15, <1>16, <1>17, <1>18
  DEF Next, Resume, Serve, Environment, shortRead, blobRejected, ReadWhole

(* Only a successful read has anything to answer for. *)
LEMMA UnreadAnswers ==
  ASSUME NEW path
  PROVE  /\ AnswerVerified(NoReply, path)
         /\ \A at, n : AnswerVerified(Answer("open", at, n, <<>>), path)
         /\ \A at : AnswerVerified(ReadError(at), path)
BY DEF AnswerVerified, NoReply, Answer, ReadError, EACCES

(* Copying from a blob with the listed digest answers the read as promised. *)
LEMMA ReadAnswer ==
  ASSUME NEW p \in Path, NEW data \in Blob, isValidFileBlob(p, data),
         NEW at \in ReadAt
  PROVE  AnswerVerified(ReadOf(data, at), p)
<1>1. CASE at[1] < Len(data)
  BY <1>1 DEF ReadOf, AnswerVerified, Answer
<1>2. CASE ~(at[1] < Len(data))
  BY <1>2, UnreadAnswers DEF ReadOf
<1> QED BY <1>1, <1>2

(* What UnracedReadsVerified says of one step. *)
UnracedAnswers ==
  \A w \in Worker : copyBytes(w) =>
    AnswerVerified(reply'[frame[w].h], filePath[frame[w].h])

(***************************************************************************)
(* A copy that does not race is from a node of the handle's path, which    *)
(* either holds verified bytes or is empty, its filler's bytes being empty *)
(* too: then nothing is read.                                              *)
(***************************************************************************)
LEMMA UnracedStep == TypeInv /\ VerifiedInv => UnracedAnswers
<1> SUFFICES ASSUME TypeInv, VerifiedInv, NEW w \in Worker, copyBytes(w)
             PROVE  AnswerVerified(reply'[frame[w].h], filePath[frame[w].h])
  BY DEF UnracedAnswers
<1> DEFINE h == frame[w].h
           p == frame[w].it
           at == frame[w].at
           data == mTrustedFiles[p]
<1>1. frame[w].pc = "copy" /\ ~Racing(w)
  BY DEF copyBytes
<1>2. p # Dangling /\ p = filePath[h] /\ data # NotTrusted
  BY <1>1 DEF Racing, VerifiedInv, CheckedInv, NodeUnlessErased
<1>3. h \in Handle /\ p \in Path /\ at \in ReadAt /\ data \in Blob
  BY <1>1, <1>2 DEF TypeInv, StateInv, CallInv, CallHasHandle, CopyHasNode,
                    TypeOK
<1>4. reply'[h] = ReadOf(data, at)
  BY <1>3 DEF copyBytes, Return, TypeInv, StateInv, TypeOK
<1>5. CASE isValidFileBlob(p, data)
  BY <1>2, <1>3, <1>4, <1>5, ReadAnswer
<1>6. CASE data = <<>>
  <2>1. ReadOf(data, at) = ReadError(at)
    BY <1>3, <1>6, ReadAtAssumption DEF ReadOf
  <2> QED BY <2>1, <1>4, UnreadAnswers
<1> QED BY <1>2, <1>3, <1>5, <1>6 DEF VerifiedInv, TrustedVerified

(***************************************************************************)
(* Sharing a path between handles and threads can only go wrong through the*)
(* two races on its map node: every read that copies from a node neither   *)
(* erased nor being filled is verified, without any condition on clients or*)
(* threads.                                                                *)
(***************************************************************************)
THEOREM UnracedReadsAreVerified == Spec => UnracedReadsVerified
<1>1. Init => VerifiedInv
  BY CheckedInit DEF Init, VerifiedInv, TrustedVerified
<1>2. TypeInv /\ VerifiedInv /\ [Next]_vars => VerifiedInv'
  BY CheckedStep, VerifiedStep DEF VerifiedInv
<1>3. TypeInv /\ VerifiedInv => [UnracedAnswers]_vars
  BY UnracedStep
<1>4. [][UnracedAnswers]_vars => UnracedReadsVerified
  BY DEF UnracedReadsVerified, UnracedAnswers
<1> QED BY <1>1, <1>2, <1>3, <1>4, TypeInvariant, PTL DEF Spec

(* A copy from a verified node is a verified answer; copyRaced cannot occur.*)
LEMMA ReadStep ==
  TypeInv /\ Calm /\ CopyVerified /\ ReadVerified /\ [Next]_vars =>
    ReadVerified'
<1> SUFFICES ASSUME TypeInv, Calm, CopyVerified, ReadVerified, [Next]_vars
             PROVE  ReadVerified'
  OBVIOUS
<1> USE SentinelAssumption, UnreadAnswers
    DEF TypeInv, StateInv, CallInv, HandleHasPath, CallHasHandle, ReadVerified,
        disk
<1>1. ASSUME NEW p \in Path, Relink(p) PROVE ReadVerified'
  BY <1>1 DEF TypeOK, Frame, Relink
<1>2. ASSUME NEW i \in Inode, Overwrite(i) PROVE ReadVerified'
  BY <1>2 DEF TypeOK, Frame, Overwrite
<1>3. ASSUME NEW h \in Handle, Close(h) PROVE ReadVerified'
  BY <1>3 DEF TypeOK, Frame, Close, Quiet
<1>4. ASSUME NEW w \in Worker, NEW h \in Handle, NEW p \in Path,
             NEW mode \in AccessMode, fuseOpenRefused(w, h, p, mode)
      PROVE  ReadVerified'
  BY <1>4 DEF TypeOK, Frame, fuseOpenRefused, OpenError, OpenAnswer
<1>5. ASSUME NEW w \in Worker, NEW h \in Handle, NEW p \in Path,
             fuseOpenMissing(w, h, p)
      PROVE  ReadVerified'
  BY <1>5 DEF TypeOK, Frame, fuseOpenMissing, OpenError, OpenAnswer
<1>6. ASSUME NEW w \in Worker, NEW h \in Handle, NEW p \in Path,
             fuseOpen(w, h, p)
      PROVE  ReadVerified'
  BY <1>6 DEF TypeOK, Frame, fuseOpen, OpenRequest, Idle, IdleFrame
<1>7. ASSUME NEW w \in Worker, NEW h \in Handle, NEW at \in ReadAt,
             fuseReadMissing(w, h, at)
      PROVE  ReadVerified'
  BY <1>7 DEF TypeOK, Frame, fuseReadMissing
<1>8. ASSUME NEW w \in Worker, NEW h \in Handle, NEW at \in ReadAt,
             fuseRead(w, h, at)
      PROVE  ReadVerified'
  BY <1>8 DEF TypeOK, Frame, fuseRead, ReadRequest, Idle, Quiet, IdleFrame
<1>9. ASSUME NEW w \in Worker, NEW h \in Handle, fuseRelease(w, h)
      PROVE  ReadVerified'
  BY <1>9 DEF TypeOK, Frame, fuseRelease, Released, Idle
<1>10. ASSUME NEW w \in Worker, fstat(w) PROVE ReadVerified'
  BY <1>10 DEF TypeOK, Frame, fstat
<1>11. ASSUME NEW w \in Worker, readByte(w) PROVE ReadVerified'
  BY <1>11 DEF TypeOK, Frame, readByte
<1>12. ASSUME NEW w \in Worker, frame[w].pc = "read", OpenFails(w)
       PROVE  ReadVerified'
  BY <1>12 DEF TypeOK, Frame, OpenFails, OpenAnswer, Return, IdleFrame
<1>13. ASSUME NEW w \in Worker, blobAccepted(w) PROVE ReadVerified'
  BY <1>13 DEF TypeOK, Frame, blobAccepted, ReadWhole
<1>14. ASSUME NEW w \in Worker, insertNode(w) PROVE ReadVerified'
  BY <1>14 DEF TypeOK, Frame, insertNode
<1>15. ASSUME NEW w \in Worker, assignNode(w) PROVE ReadVerified'
  BY <1>15 DEF TypeOK, Frame, assignNode, OpenAnswer, Return, IdleFrame
<1>16. ASSUME NEW w \in Worker, copyBytes(w) PROVE ReadVerified'
  <2> DEFINE h == frame[w].h
             data == mTrustedFiles[frame[w].it]
  <2>1. data \in Blob /\ frame[w].at \in ReadAt
    BY <1>16 DEF copyBytes, CopyVerified, CopyHasNode, TypeOK
  <2>2. filePath[h] \in Path /\ isValidFileBlob(filePath[h], data)
    BY <1>16 DEF copyBytes, CopyVerified
  <2>3. AnswerVerified(ReadOf(data, frame[w].at), filePath[h])
    BY <2>1, <2>2, ReadAnswer
  <2>4. reply' = [reply EXCEPT ![h] = ReadOf(data, frame[w].at)]
    BY <1>16 DEF copyBytes, Return
  <2>5. filePath' = filePath
    BY <1>16 DEF copyBytes
  <2> QED BY <2>3, <2>4, <2>5 DEF TypeOK
<1>17. ASSUME NEW w \in Worker, copyRaced(w) PROVE ReadVerified'
  <2>1. frame[w].pc = "copy" /\ Racing(w)
    BY <1>17 DEF copyRaced
  <2>2. frame[w].it # Dangling
    BY <2>1 DEF CopyVerified
  <2>3. PICK v \in Worker : Assigning(v, frame[w].it)
    BY <2>1, <2>2 DEF Racing
  <2>4. v # w
    BY <2>1, <2>3 DEF Assigning
  <2>5. OneHandlePerPath /\ NodeIsOwn
    BY <2>4 DEF Calm, OneWorker
  <2>6. frame[v].h = frame[w].h
    BY <2>1, <2>3, <2>5 DEF Assigning, CopyVerified, OneHandlePerPath,
                            NodeIsOwn, TypeOK
  <2> QED BY <2>1, <2>3, <2>4, <2>6 DEF OneCallPerHandle, Assigning
<1>18. CASE UNCHANGED vars
  BY <1>18 DEF vars
<1> QED
  BY <1>1, <1>2, <1>3, <1>4, <1>5, <1>6, <1>7, <1>8, <1>9, <1>10, <1>11,
     <1>12, <1>13, <1>14, <1>15, <1>16, <1>17, <1>18
  DEF Next, Resume, Serve, Environment, shortRead, blobRejected, ReadWhole

(***************************************************************************)
(* On-demand integrity checking, as the README states it, with one thread  *)
(* or with clients that hold one handle of a path at a time: a read that   *)
(* succeeds returns exactly the bytes that a file with the listed digest   *)
(* has at that offset, whatever is done to the untrusted folder.           *)
(***************************************************************************)
THEOREM ReadsAreVerified ==
  Exclusive \/ OneWorker => (Spec => []ReadVerified)
<1> SUFFICES ASSUME Exclusive \/ OneWorker PROVE Spec => []ReadVerified
  OBVIOUS
<1>1. Spec => []Calm
  <2>1. CASE OneWorker
    <3>1. OneWorker => Calm
      BY DEF Calm
    <3> QED BY <2>1, <3>1, PTL
  <2>2. CASE Exclusive
    <3>1. ExclusiveInv => Calm
      BY DEF ExclusiveInv, Calm
    <3> QED BY <2>2, <3>1, ExclusiveInvariant, PTL
  <2> QED BY <2>1, <2>2
<1>2. Init => VerifiedInv /\ CopyVerified /\ ReadVerified
  BY CheckedInit
  DEF Init, IdleFrame, NoReply, Answer, VerifiedInv, TrustedVerified,
                     CopyVerified, ReadVerified, AnswerVerified
<1>3. TypeInv /\ VerifiedInv /\ [Next]_vars => VerifiedInv'
  BY CheckedStep, VerifiedStep DEF VerifiedInv
<1> QED
  BY <1>1, <1>2, <1>3, CopyStep, ReadStep, TypeInvariant, PTL DEF Spec
=============================================================================
