------------------------ MODULE VerifyFSRefinesProof ------------------------
(***************************************************************************)
(* VerifyFS implements VerifiedAccess, for every number of threads,        *)
(* handles, paths and files, when clients use one handle of a path at a    *)
(* time.                                                                   *)
(***************************************************************************)
EXTENDS VerifyFSProof, VerifyFSRefines

(* A handle is closed for VerifiedAccess until its open has succeeded. *)
LEMMA ClosedIsNotInUse ==
  ASSUME TypeInv, NEW h \in Handle
  PROVE  Access!Closed(h) <=> ~InUse(h)
BY SentinelAssumption
DEF TypeInv, StateInv, CallInv, HandleHasPath, TypeOK, Access!Closed, nameOf,
    InUse

(* The answers VerifiedAccess speaks of are those of VerifyFS. *)
LEMMA SameAnswers ==
  /\ Access!NoReply = NoReply
  /\ \A n : Access!OpenAnswer(n) = OpenAnswer(n)
  /\ \A data, at : Access!ReadOf(data, at) = ReadOf(data, at)
  /\ Access!EACCES = EACCES /\ Access!ENOENT = ENOENT
  /\ \A p, b : Access!isValidFileBlob(p, b) = isValidFileBlob(p, b)
BY DEF NoReply, Answer, OpenAnswer, ReadOf, ReadError, bytesRead, Slice,
       EACCES, ENOENT, isValidFileBlob,
       Access!NoReply, Access!Answer, Access!OpenAnswer, Access!ReadOf,
       Access!ReadError, Access!bytesRead, Access!Slice, Access!EACCES,
       Access!ENOENT, Access!isValidFileBlob

(* At the beginning no handle is open. *)
LEMMA InitRefines == Init => Access!Init
BY SameAnswers DEF Init, Access!Init, nameOf, snapshotOf, InUse

(* What a client can see stays as it is when its handles' states and paths *)
(* do, and the entries of the paths in use.                                *)
LEMMA StutterRefines ==
  ASSUME UNCHANGED <<filePath, reply>>,
         \A h \in Handle : InUse(h)' = InUse(h),
         \A h \in Handle : InUse(h) =>
           mTrustedFiles'[filePath[h]] = mTrustedFiles[filePath[h]]
  PROVE  UNCHANGED Access!vars
BY DEF Access!vars, nameOf, snapshotOf

(* An open that is refused changes no more than the answer to its client. *)
LEMMA RefuseRefines ==
  ASSUME TypeInv, NEW h \in Handle, ~InUse(h), NEW errno \in {EACCES, ENOENT},
         reply' = [reply EXCEPT ![h] = OpenAnswer(-errno)],
         UNCHANGED <<nameOf, snapshotOf>>
  PROVE  Access!Refuse(h)
BY ClosedIsNotInUse, SameAnswers DEF Access!Refuse

(* No entry that is in use belongs to the path of another handle's call. *)
LEMMA OtherPaths ==
  ASSUME TypeInv, ExclusiveInv, NEW g \in Handle, NEW h \in Handle,
         g # h, filePath[g] # NoPath
  PROVE  filePath[g] # filePath[h]
BY DEF ExclusiveInv, OneHandlePerPath

(* Every step of VerifyFS is a step of VerifiedAccess or leaves what it     *)
(* speaks of unchanged.                                                     *)
LEMMA StepRefines ==
  TypeInv /\ CheckedInv /\ ExclusiveInv /\ [Next]_vars =>
    [Access!Next]_(Access!vars)
<1> SUFFICES ASSUME TypeInv, CheckedInv, ExclusiveInv, [Next]_vars
             PROVE  Access!Next \/ UNCHANGED Access!vars
  OBVIOUS
<1> USE SentinelAssumption
<1>0. /\ filePath \in [Handle -> Path \cup {NoPath}]
      /\ fileState \in [Handle -> {"free", "opening", "open", "closing"}]
      /\ \A h \in Handle : fileState[h] = "free" <=> filePath[h] = NoPath
  BY DEF TypeInv, StateInv, TypeOK, CallInv, HandleHasPath
<1>1. ASSUME NEW p \in Path, Relink(p) PROVE UNCHANGED Access!vars
  BY <1>1, StutterRefines DEF Relink, InUse
<1>2. ASSUME NEW i \in Inode, Overwrite(i) PROVE UNCHANGED Access!vars
  BY <1>2, StutterRefines DEF Overwrite, InUse
<1>3. ASSUME NEW h \in Handle, Close(h) PROVE UNCHANGED Access!vars
  <2>1. \A g \in Handle : InUse(g)' = InUse(g)
    BY <1>0, <1>3 DEF Close, InUse
  <2> QED BY <1>3, <2>1, StutterRefines DEF Close, disk
<1>4. ASSUME NEW w \in Worker, NEW h \in Handle, NEW p \in Path,
             NEW mode \in AccessMode, fuseOpenRefused(w, h, p, mode)
      PROVE  Access!Refuse(h)
  <2>1. UNCHANGED <<nameOf, snapshotOf>> /\ ~InUse(h)
    BY <1>4 DEF fuseOpenRefused, OpenRequest, nameOf, snapshotOf, InUse
  <2> QED BY <1>4, <2>1, RefuseRefines DEF fuseOpenRefused, OpenError
<1>5. ASSUME NEW w \in Worker, NEW h \in Handle, NEW p \in Path,
             fuseOpenMissing(w, h, p)
      PROVE  Access!Refuse(h)
  <2>1. UNCHANGED <<nameOf, snapshotOf>> /\ ~InUse(h)
    BY <1>5 DEF fuseOpenMissing, OpenRequest, nameOf, snapshotOf, InUse
  <2> QED BY <1>5, <2>1, RefuseRefines DEF fuseOpenMissing, OpenError
<1>6. ASSUME NEW w \in Worker, NEW h \in Handle, NEW p \in Path,
             fuseOpen(w, h, p)
      PROVE  Access!Ask(h)
  <2>1. ~InUse(h) /\ ~InUse(h)'
    BY <1>0, <1>6 DEF fuseOpen, OpenRequest, InUse
  <2>2. \A g \in Handle : g # h => /\ InUse(g)' = InUse(g)
                                   /\ filePath'[g] = filePath[g]
    BY <1>0, <1>6 DEF fuseOpen, InUse
  <2>3. mTrustedFiles' = mTrustedFiles
    BY <1>6 DEF fuseOpen
  <2>4. UNCHANGED <<nameOf, snapshotOf>>
    BY <2>1, <2>2, <2>3 DEF nameOf, snapshotOf
  <2>5. reply' = [reply EXCEPT ![h] = NoReply]
    BY <1>6 DEF fuseOpen
  <2> QED BY <2>1, <2>4, <2>5, ClosedIsNotInUse, SameAnswers
      DEF Access!Ask
<1>7. ASSUME NEW w \in Worker, NEW h \in Handle, NEW at \in ReadAt,
             fuseReadMissing(w, h, at)
      PROVE  FALSE
  BY <1>7 DEF fuseReadMissing, ReadRequest, ExclusiveInv, OpenMeansTrusted
<1>8. ASSUME NEW w \in Worker, NEW h \in Handle, NEW at \in ReadAt,
             fuseRead(w, h, at)
      PROVE  UNCHANGED Access!vars
  BY <1>8, StutterRefines DEF fuseRead, InUse
<1>9. ASSUME NEW w \in Worker, NEW h \in Handle, fuseRelease(w, h)
      PROVE  Access!Close(h)
  <2>1. InUse(h) /\ ~InUse(h)'
    BY <1>0, <1>9 DEF fuseRelease, Released, InUse
  <2>2. \A g \in Handle : g # h => /\ InUse(g)' = InUse(g)
                                   /\ filePath'[g] = filePath[g]
    BY <1>0, <1>9 DEF fuseRelease, Released, InUse
  <2>3. mTrustedFiles' = [mTrustedFiles EXCEPT ![filePath[h]] = NotTrusted]
    BY <1>9 DEF fuseRelease
  <2>4. ASSUME NEW g \in Handle, g # h, InUse(g)
        PROVE  mTrustedFiles'[filePath[g]] = mTrustedFiles[filePath[g]]
    <3>1. filePath[g] # NoPath
      BY <1>0, <2>4 DEF InUse
    <3>2. filePath[g] # filePath[h]
      BY <2>4, <3>1, OtherPaths
    <3> QED BY <2>3, <3>2
  <2>5. nameOf' = [nameOf EXCEPT ![h] = NoPath]
    BY <2>1, <2>2 DEF nameOf
  <2>6. snapshotOf' = [snapshotOf EXCEPT ![h] = NotTrusted]
    BY <2>1, <2>2, <2>4 DEF snapshotOf
  <2>7. reply' = [reply EXCEPT ![h] = NoReply]
    BY <1>9 DEF fuseRelease, Released
  <2> QED BY <2>1, <2>5, <2>6, <2>7, ClosedIsNotInUse, SameAnswers
      DEF Access!Close
<1>10. ASSUME NEW w \in Worker, fstat(w) PROVE UNCHANGED Access!vars
  BY <1>10, StutterRefines DEF fstat, InUse
<1>11. ASSUME NEW w \in Worker, readByte(w) PROVE UNCHANGED Access!vars
  BY <1>11, StutterRefines DEF readByte, InUse
<1>12. ASSUME NEW w \in Worker, frame[w].pc = "read", OpenFails(w)
       PROVE  Access!Refuse(frame[w].h)
  <2>1. PICK h \in Handle : h = frame[w].h /\ fileState[h] = "opening"
    BY <1>12 DEF TypeInv, CallInv, CallHasHandle
  <2>2. ~InUse(h) /\ ~InUse(h)'
    BY <1>0, <1>12, <2>1 DEF OpenFails, InUse
  <2>3. \A g \in Handle : g # h => /\ InUse(g)' = InUse(g)
                                   /\ filePath'[g] = filePath[g]
    BY <1>0, <1>12, <2>1 DEF OpenFails, InUse
  <2>4. mTrustedFiles' = mTrustedFiles
    BY <1>12 DEF OpenFails
  <2>5. UNCHANGED <<nameOf, snapshotOf>>
    BY <2>2, <2>3, <2>4 DEF nameOf, snapshotOf
  <2>6. reply' = [reply EXCEPT ![h] = OpenAnswer(-ENOENT)]
    BY <1>12, <2>1 DEF OpenFails, Return
  <2> QED BY <2>1, <2>2, <2>5, <2>6, RefuseRefines
<1>13. ASSUME NEW w \in Worker, blobAccepted(w) PROVE UNCHANGED Access!vars
  BY <1>13, StutterRefines DEF blobAccepted, InUse
<1>14. ASSUME NEW w \in Worker, insertNode(w) PROVE UNCHANGED Access!vars
  <2> DEFINE h == frame[w].h
  <2>1. h \in Handle /\ fileState[h] = "opening"
    BY <1>14 DEF insertNode, TypeInv, CallInv, CallHasHandle
  <2>2. UNCHANGED <<fileState, filePath, reply>>
    BY <1>14 DEF insertNode
  <2>3. \A p : p # filePath[h] => mTrustedFiles'[p] = mTrustedFiles[p]
    BY <1>14 DEF insertNode, TypeInv, StateInv, TypeOK
  <2>4. ASSUME NEW g \in Handle, InUse(g)
        PROVE  mTrustedFiles'[filePath[g]] = mTrustedFiles[filePath[g]]
    <3>1. g # h /\ filePath[g] # NoPath
      BY <1>0, <2>1, <2>4 DEF InUse
    <3>2. filePath[g] # filePath[h]
      BY <2>1, <3>1, OtherPaths
    <3> QED BY <2>3, <3>2
  <2> QED BY <2>2, <2>4, StutterRefines DEF InUse
<1>15. ASSUME NEW w \in Worker, assignNode(w)
       PROVE  \E p \in Path : Access!Open(frame[w].h, p)
  <2>1. PICK h \in Handle, p \in Path :
          h = frame[w].h /\ fileState[h] = "opening" /\ p = filePath[h]
    BY <1>0, <1>15 DEF assignNode, TypeInv, CallInv, CallHasHandle
  <2>2. PICK b \in Blob : b = frame[w].buffer /\ isValidFileBlob(p, b)
    BY <1>15, <2>1 DEF assignNode, CheckedInv, BufferChecked, TypeInv, StateInv,
                 TypeOK, Frame
  <2>3. frame[w].it = p
    BY <1>15, <2>1 DEF assignNode, ExclusiveInv, NodeIsOwn
  <2>4. mTrustedFiles' = [mTrustedFiles EXCEPT ![p] = b]
    BY <1>15, <2>1, <2>2, <2>3 DEF assignNode
  <2>5. InUse(h)' /\ ~InUse(h) /\ filePath' = filePath
    BY <1>0, <1>15, <2>1 DEF assignNode, InUse
  <2>6. \A g \in Handle : g # h => InUse(g)' = InUse(g)
    BY <1>0, <1>15, <2>1 DEF assignNode, InUse
  <2>7. ASSUME NEW g \in Handle, g # h, InUse(g)
        PROVE  mTrustedFiles'[filePath[g]] = mTrustedFiles[filePath[g]]
    <3>1. filePath[g] # NoPath
      BY <1>0, <2>7 DEF InUse
    <3>2. filePath[g] # p
      BY <2>1, <2>7, <3>1, OtherPaths
    <3> QED BY <2>4, <3>2
  <2>8. mTrustedFiles'[p] = b
    BY <2>1, <2>4 DEF TypeInv, StateInv, TypeOK
  <2>9. nameOf' = [nameOf EXCEPT ![h] = p]
    BY <2>1, <2>5, <2>6 DEF nameOf
  <2>10. snapshotOf' = [snapshotOf EXCEPT ![h] = b]
    BY <2>1, <2>5, <2>6, <2>7, <2>8 DEF snapshotOf
  <2>11. reply' = [reply EXCEPT ![h] = OpenAnswer(0)]
    BY <1>15, <2>1 DEF assignNode, Return
  <2>12. Access!Open(h, p)
    BY <2>1, <2>2, <2>5, <2>9, <2>10, <2>11, ClosedIsNotInUse,
       SameAnswers
    DEF Access!Open
  <2> QED BY <2>1, <2>12
<1>16. ASSUME NEW w \in Worker, copyBytes(w)
       PROVE  \E at \in ReadAt : Access!Read(frame[w].h, at)
  <2> DEFINE h == frame[w].h
             at == frame[w].at
  <2>1. h \in Handle /\ fileState[h] = "open" /\ at \in ReadAt
    BY <1>16 DEF copyBytes, TypeInv, StateInv, CopyHasNode, CallInv,
                 CallHasHandle
  <2>2. frame[w].it = filePath[h]
    BY <1>16 DEF copyBytes, ExclusiveInv, NodeIsOwn
  <2>3. InUse(h) /\ snapshotOf[h] = mTrustedFiles[frame[w].it]
    BY <2>1, <2>2 DEF InUse, snapshotOf
  <2>4. reply' = [reply EXCEPT ![h] = ReadOf(snapshotOf[h], at)]
    BY <1>16, <2>3 DEF copyBytes, Return
  <2>5. UNCHANGED <<nameOf, snapshotOf>>
    BY <1>16 DEF copyBytes, nameOf, snapshotOf, InUse
  <2>6. Access!Read(h, at)
    BY <2>1, <2>3, <2>4, <2>5, ClosedIsNotInUse, SameAnswers
      DEF Access!Read
  <2> QED BY <2>1, <2>6
<1>17. ASSUME NEW w \in Worker, copyRaced(w) PROVE FALSE
  <2>1. frame[w].h \in Handle /\ frame[w].it = filePath[frame[w].h]
    BY <1>17 DEF copyRaced, ExclusiveInv, NodeIsOwn, TypeInv, CallInv,
                 CallHasHandle
  <2>2. fileState[frame[w].h] = "open" /\ frame[w].it # Dangling
    BY <1>0, <1>17, <2>1 DEF copyRaced, TypeInv, CallInv, CallHasHandle
  <2>3. PICK v \in Worker : Assigning(v, frame[w].it)
    BY <1>17, <2>2 DEF copyRaced, Racing
  <2>4. /\ frame[v].h \in Handle /\ fileState[frame[v].h] = "opening"
        /\ filePath[frame[v].h] = filePath[frame[w].h]
    BY <2>1, <2>3 DEF Assigning, ExclusiveInv, NodeIsOwn, TypeInv, CallInv,
                      CallHasHandle
  <2> QED BY <1>0, <2>1, <2>2, <2>4, OtherPaths
<1>18. CASE UNCHANGED vars
  BY <1>18, StutterRefines DEF vars, InUse
<1> HIDE DEF Access!vars
<1>19. CASE Next
  <2> USE <1>19
  <2>1. \A w \in Worker :
          Resume(w) => Access!Next \/ UNCHANGED Access!vars
    <3> SUFFICES ASSUME NEW w \in Worker, Resume(w)
                 PROVE  Access!Next \/ UNCHANGED Access!vars
      OBVIOUS
    <3>1. frame[w].pc # "idle" => frame[w].h \in Handle
      BY DEF TypeInv, CallInv, CallHasHandle
    <3> QED
      BY <1>10, <1>11, <1>12, <1>13, <1>14, <1>15, <1>16, <1>17, <3>1
      DEF Resume, shortRead, blobRejected, ReadWhole, assignNode, copyBytes,
          Access!Next
  <2>2. \A w \in Worker, h \in Handle :
          Serve(w, h) => Access!Next \/ UNCHANGED Access!vars
    BY <1>4, <1>5, <1>6, <1>7, <1>8, <1>9 DEF Serve, Access!Next
  <2>3. Environment => UNCHANGED Access!vars
    BY <1>1, <1>2, <1>3 DEF Environment
  <2> QED BY <2>1, <2>2, <2>3 DEF Next
<1> QED BY <1>18, <1>19

(***************************************************************************)
(* The implementation, for instances of every size: a client that has one  *)
(* handle of a path at a time cannot tell VerifyFS, with its threads, its  *)
(* shared map and its untrusted folder, from VerifiedAccess.               *)
(***************************************************************************)
THEOREM ImplementsVerifiedAccess == Exclusive => (Spec => ImplementsAccess)
<1> SUFFICES ASSUME Exclusive PROVE Spec => ImplementsAccess
  OBVIOUS
<1>1. Spec => []ExclusiveInv
  BY ExclusiveInvariant
<1> QED
  BY <1>1, InitRefines, StepRefines, CheckedInit, CheckedStep, TypeInvariant,
     PTL
  DEF Spec, ImplementsAccess, Access!Spec
=============================================================================
