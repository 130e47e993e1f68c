------------------------- MODULE VerifyFSDirsProof -------------------------
(***************************************************************************)
(* Theorems about open directories, for every number of threads, handles,  *)
(* descriptors and names: what holds until a descriptor number is reused   *)
(* before its node of fdDir is erased, and that one thread never does so.  *)
(***************************************************************************)
EXTENDS VerifyFSDirs, TLAPS

(* A call has a handle of its own, in the state its steps need. *)
CallOK(r, life) ==
  /\ r.h \in DirHandle
  /\ r.pc \in {"insert", "store"} =>
       life[r.h] = "opening" /\ r.dh \in Stream /\ r.fd \in Fd
  /\ r.pc \in {"found", "rewind", "list"} => life[r.h] = "open"
  /\ r.pc \in {"rewind", "list"} => r.dh \in Stream
  /\ r.pc \in {"release", "erase"} => life[r.h] = "closing"
  /\ r.pc \in {"insert", "rewind", "list"} => r.it = NoFd
  /\ r.pc \in {"store", "found", "release", "erase"} => r.it # NoFd

Served ==
  \A w \in Worker :
    IF frame[w].pc = "idle" THEN frame[w] = IdleFrame
    ELSE CallOK(frame[w], dirState)

OneCallPerHandle ==
  \A v, w \in Worker :
    frame[v].pc # "idle" /\ frame[v].h = frame[w].h => v = w

HandleHasDir == \A h \in DirHandle : dirState[h] # "free" => dirPath[h] \in Dir

StreamHasDir == \A s \in Stream : Open(s) => stream[s].dir \in Dir

CallInv ==
  TypeOK /\ Served /\ OneCallPerHandle /\ HandleHasDir /\ StreamHasDir

LEMMA CallInitially == Init => CallInv
<1> SUFFICES ASSUME Init PROVE CallInv
  OBVIOUS
<1> USE DirSentinelAssumption
<1>1. TypeOK
  BY DEF Init, TypeOK, Frame, Reply, IdleFrame, NoReply, Closed, InUse
<1>2. Served /\ OneCallPerHandle
  BY DEF Init, Served, OneCallPerHandle, IdleFrame
<1>3. HandleHasDir /\ StreamHasDir
  BY DEF Init, HandleHasDir, StreamHasDir, Open, Closed
<1> QED BY <1>1, <1>2, <1>3 DEF CallInv

-----------------------------------------------------------------------------
(* The other calls go on as they were, save for an iterator to a node that *)
(* was erased.                                                             *)
Goes(v) ==
  /\ frame'[v].pc = frame[v].pc /\ frame'[v].h = frame[v].h
  /\ frame'[v].fd = frame[v].fd /\ frame'[v].dh = frame[v].dh
  /\ \/ frame'[v].it = frame[v].it
     \/ frame[v].it \in Fd /\ frame'[v].it = Dangling
  /\ frame[v] = IdleFrame => frame'[v] = IdleFrame

LEMMA CallMoves ==
  ASSUME Served, OneCallPerHandle, NEW w \in Worker, NEW h \in DirHandle,
         \A v \in Worker : v # w /\ frame[v].pc # "idle" => frame[v].h # h,
         \A v \in Worker : v # w => Goes(v),
         frame'[w].pc = "idle" => frame'[w] = IdleFrame,
         frame'[w].pc # "idle" => frame'[w].h = h /\ CallOK(frame'[w], dirState'),
         \A g \in DirHandle : g # h => dirState'[g] = dirState[g]
  PROVE  Served' /\ OneCallPerHandle'
<1> USE DirSentinelAssumption
<1>0. IdleFrame.pc = "idle" /\ IdleFrame.h = NoHandle
  BY DEF IdleFrame
<1> HIDE DEF IdleFrame
<1>1. ASSUME NEW v \in Worker
      PROVE  IF frame'[v].pc = "idle" THEN frame'[v] = IdleFrame
             ELSE CallOK(frame'[v], dirState')
  <2>1. CASE v = w
    BY <2>1
  <2>2. CASE v # w /\ frame[v].pc = "idle"
    BY <1>0, <2>2 DEF Goes, Served
  <2>3. CASE v # w /\ frame[v].pc # "idle"
    BY <2>3 DEF Goes, Served, CallOK
  <2> QED BY <2>1, <2>2, <2>3
<1>2. Served'
  BY <1>1 DEF Served
<1>3. ASSUME NEW u \in Worker, NEW v \in Worker,
             frame'[u].pc # "idle", frame'[u].h = frame'[v].h
      PROVE  u = v
  <2>1. CASE u # w /\ v # w
    BY <1>3, <2>1 DEF Goes, OneCallPerHandle
  <2>2. CASE u = w /\ v # w
    BY <1>0, <1>3, <2>2 DEF Goes, Served
  <2>3. CASE u # w /\ v = w
    BY <1>0, <1>3, <2>3 DEF Goes, Served, CallOK
  <2> QED BY <2>1, <2>2, <2>3
<1> QED BY <1>2, <1>3 DEF OneCallPerHandle

(* Creating and removing names leaves every call where it is. *)
LEMMA NamesChange ==
  ASSUME TypeOK, NEW d \in Dir, NEW e \in Entry, Create(d, e) \/ Remove(d, e)
  PROVE  /\ UNCHANGED <<stream, fdDir, dirState, dirPath, fh, reply, reused>>
         /\ entries' \in [Dir -> SUBSET Entry]
         /\ frame' \in [Worker -> Frame]
         /\ \A v \in Worker : /\ Goes(v) /\ frame'[v].it = frame[v].it
                              /\ frame'[v].listed = frame[v].listed
<1>1. /\ UNCHANGED <<stream, fdDir, dirState, dirPath, fh, reply, reused>>
      /\ entries' \in [Dir -> SUBSET Entry]
  BY DEF Create, Remove, handles, TypeOK
<1>2. ASSUME NEW v \in Worker
      PROVE  /\ frame'[v] \in Frame /\ Goes(v) /\ frame'[v].it = frame[v].it
             /\ frame'[v].listed = frame[v].listed
  <2>1. frame[v] \in Frame
    BY DEF TypeOK
  <2>2. CASE frame'[v] = frame[v]
    BY <2>1, <2>2 DEF Goes
  <2>3. CASE Lists(v, d) /\ frame'[v] = [frame[v] EXCEPT !.ever = @ \cup {e}]
    BY <2>1, <2>3 DEF Frame, Lists, IdleFrame, Goes
  <2>4. CASE Lists(v, d) /\ frame'[v] = [frame[v] EXCEPT !.stayed = @ \ {e}]
    BY <2>1, <2>4 DEF Frame, Lists, IdleFrame, Goes
  <2> QED BY <2>2, <2>3, <2>4 DEF Create, Remove
<1>3. frame' \in [Worker -> Frame]
  BY <1>2 DEF Create, Remove
<1> QED BY <1>1, <1>2, <1>3

LEMMA FrameUpdates ==
  ASSUME NEW r \in Frame
  PROVE  /\ \A names \in SUBSET Entry : [r EXCEPT !.listed = names] \in Frame
         /\ [r EXCEPT !.it = Dangling] \in Frame
         /\ [r EXCEPT !.pc = "list"] \in Frame
         /\ [r EXCEPT !.pc = "erase"] \in Frame
         /\ \A fd \in Fd : [r EXCEPT !.pc = "store", !.it = fd] \in Frame
         /\ \A s \in Stream :
              [r EXCEPT !.pc = "rewind", !.dh = s, !.it = NoFd] \in Frame
BY DEF Frame

(* What no step disturbs, whatever was reused: the types, and which call   *)
(* has which handle.                                                       *)
LEMMA CallStep ==
  ASSUME CallInv, [Next]_vars PROVE CallInv'
<1> USE DirSentinelAssumption DEF CallInv, handles
<1>0. /\ IdleFrame \in Frame /\ IdleFrame.pc = "idle"
      /\ \A v \in Worker : frame[v] \in Frame
  BY DEF TypeOK, Frame, IdleFrame
<1>h. ASSUME NEW w \in Worker, frame[w].pc # "idle"
      PROVE  /\ frame[w].h \in DirHandle /\ CallOK(frame[w], dirState)
             /\ \A v \in Worker : v # w /\ frame[v].pc # "idle"
                                  => frame[v].h # frame[w].h
  BY <1>h DEF Served, OneCallPerHandle, CallOK
<1>1. ASSUME NEW d \in Dir, NEW e \in Entry, Create(d, e) \/ Remove(d, e)
      PROVE  CallInv'
  <2>1. TypeOK' /\ HandleHasDir' /\ StreamHasDir'
    BY <1>1, NamesChange DEF TypeOK, HandleHasDir, StreamHasDir, Open, InUse
  <2>2. Served'
    <3> HIDE DEF IdleFrame
    <3> QED BY <1>0, <1>1, NamesChange DEF Served, CallOK, Goes
  <2>3. OneCallPerHandle'
    BY <1>1, NamesChange DEF OneCallPerHandle, Goes
  <2> QED BY <2>1, <2>2, <2>3
<1>2. ASSUME NEW h \in DirHandle, Close(h) PROVE CallInv'
  <2>1. TypeOK'
    BY <1>2 DEF Close, TypeOK, InUse
  <2>2. Served'
    BY <1>2 DEF Close, Quiet, Served, CallOK, TypeOK
  <2>3. OneCallPerHandle' /\ HandleHasDir' /\ StreamHasDir'
    BY <1>2 DEF Close, OneCallPerHandle, HandleHasDir, StreamHasDir, Open, TypeOK
  <2> QED BY <2>1, <2>2, <2>3
<1>3. ASSUME NEW w \in Worker, NEW h \in DirHandle,
             fuseOpendirFails(w, h) \/ fuseReaddirMissing(w, h)
      PROVE  CallInv'
  <2>1. \A op \in {"opendir", "readdir"} :
          [NoReply EXCEPT !.op = op, !.result = -ENOENT] \in Reply
    BY DEF NoReply, Reply
  <2>2. /\ UNCHANGED <<entries, stream, fdDir, dirState, dirPath, fh, frame, reused>>
        /\ reply' \in [DirHandle -> Reply]
    BY <1>3, <2>1 DEF fuseOpendirFails, fuseReaddirMissing, TypeOK
  <2> QED BY <2>2 DEF TypeOK, Served, OneCallPerHandle, HandleHasDir,
                      StreamHasDir, Open, InUse
<1>4. ASSUME NEW w \in Worker, NEW h \in DirHandle, NEW d \in Dir,
             NEW s \in Stream, NEW fd \in Fd, fuseOpendir(w, h, d, s, fd)
      PROVE  CallInv'
  <2>1. /\ frame[w].pc = "idle" /\ dirState[h] = "free"
        /\ frame' = [frame EXCEPT ![w] =
             [IdleFrame EXCEPT !.pc = "insert", !.h = h, !.fd = fd, !.dh = s]]
        /\ UNCHANGED <<entries, fdDir, fh, reused>>
        /\ dirState' = [dirState EXCEPT ![h] = "opening"]
    BY <1>4 DEF fuseOpendir, Idle
  <2>2. /\ frame'[w] = [pc |-> "insert", h |-> h, fd |-> fd, dh |-> s,
                        it |-> NoFd, listed |-> {}, stayed |-> {}, ever |-> {}]
        /\ frame'[w] \in Frame
        /\ \A v \in Worker : v # w => frame'[v] = frame[v]
    BY <2>1 DEF TypeOK, IdleFrame, Frame
  <2>3. TypeOK'
    <3>1. frame' \in [Worker -> Frame]
      BY <1>0, <2>1, <2>2 DEF TypeOK
    <3>2. \A g \in DirHandle : fh'[g] # NoFd <=> InUse(g)'
      BY <2>1 DEF TypeOK, InUse
    <3>3. /\ stream' \in [Stream -> [fd : Fd \cup {NoFd}, dir : Dir \cup {NoDir},
                                     seen : SUBSET Entry]]
          /\ dirPath' \in [DirHandle -> Dir \cup {NoDir}]
          /\ reply' \in [DirHandle -> Reply]
      BY <1>4 DEF fuseOpendir, TypeOK, NoReply, Reply
    <3> QED BY <2>1, <3>1, <3>2, <3>3 DEF TypeOK
  <2>4. \A v \in Worker : v # w /\ frame[v].pc # "idle" => frame[v].h # h
    BY <1>0, <1>h, <2>1 DEF CallOK, Frame
  <2>5. \A v \in Worker : v # w => Goes(v)
    BY <2>2 DEF Goes
  <2>6. CallOK(frame'[w], dirState')
    <3>1. /\ frame'[w].pc = "insert" /\ frame'[w].h = h /\ frame'[w].fd = fd
          /\ frame'[w].dh = s /\ frame'[w].it = NoFd
      BY <2>2
    <3>2. dirState'[h] = "opening"
      BY <2>1 DEF TypeOK
    <3> QED BY <3>1, <3>2 DEF CallOK
  <2>7. \A g \in DirHandle : g # h => dirState'[g] = dirState[g]
    BY <2>1 DEF TypeOK
  <2>8. Served' /\ OneCallPerHandle'
    BY <2>2, <2>4, <2>5, <2>6, <2>7, CallMoves
  <2>9. HandleHasDir' /\ StreamHasDir'
    BY <1>4 DEF fuseOpendir, HandleHasDir, StreamHasDir, Open, TypeOK
  <2> QED BY <2>3, <2>8, <2>9
<1>5. ASSUME NEW w \in Worker, insertDir(w) PROVE CallInv'
  <2>1. /\ frame[w].pc = "insert" /\ frame[w].fd \in Fd
        /\ frame' = [frame EXCEPT ![w].pc = "store", ![w].it = frame[w].fd]
        /\ UNCHANGED <<entries, stream, dirState, dirPath, fh, reply>>
    BY <1>5, <1>h DEF insertDir, CallOK
  <2>2. /\ frame'[w] = [frame[w] EXCEPT !.pc = "store", !.it = frame[w].fd]
        /\ \A v \in Worker : v # w => frame'[v] = frame[v]
    BY <1>0, <2>1 DEF TypeOK, Frame
  <2>3. frame'[w] \in Frame /\ frame' \in [Worker -> Frame]
    BY <1>0, <2>1, <2>2, FrameUpdates DEF TypeOK
  <2>4. CallOK(frame'[w], dirState') /\ frame'[w].h = frame[w].h
    <3>1. /\ frame'[w].pc = "store" /\ frame'[w].it = frame[w].fd
          /\ frame'[w].h = frame[w].h /\ frame'[w].fd = frame[w].fd
          /\ frame'[w].dh = frame[w].dh
      BY <1>0, <2>2 DEF Frame
    <3> QED BY <1>h, <2>1, <3>1 DEF CallOK
  <2>5. TypeOK'
    <3>1. fdDir' \in [Fd -> Stream \cup {NoStream, Null}] /\ reused' \in BOOLEAN
      BY <1>5 DEF insertDir, TypeOK
    <3> QED BY <2>1, <2>3, <3>1 DEF TypeOK, InUse
  <2>6. Served' /\ OneCallPerHandle'
    <3>1. \A v \in Worker : v # w => Goes(v)
      BY <2>2 DEF Goes
    <3>2. frame'[w].pc # "idle"
      BY <1>0, <2>2 DEF Frame
    <3> QED BY <1>h, <2>1, <2>4, <3>1, <3>2, CallMoves
  <2> QED BY <2>1, <2>5, <2>6 DEF HandleHasDir, StreamHasDir, Open
<1>6. ASSUME NEW w \in Worker, NEW h \in DirHandle,
             ReaddirRequest(w, h) \/ ReleasedirRequest(w, h), 
             frame'[w] \in Frame, frame'[w].h = h, frame'[w].it = fh[h],
             \/ ReaddirRequest(w, h) /\ frame'[w].pc = "found"
             \/ ReleasedirRequest(w, h) /\ frame'[w].pc = "release",
             frame' = [frame EXCEPT ![w] = frame'[w]],
             UNCHANGED <<entries, stream, fdDir, handles, reused>>
      PROVE  CallInv'
  <2>1. \A v \in Worker : v # w => frame'[v] = frame[v]
    BY <1>6 DEF TypeOK
  <2>2. TypeOK'
    BY <1>6 DEF TypeOK, InUse
  <2>3. CallOK(frame'[w], dirState')
    BY <1>6 DEF CallOK, ReaddirRequest, ReleasedirRequest, TypeOK, InUse
  <2>4. Served' /\ OneCallPerHandle'
    <3>1. \A v \in Worker : v # w => Goes(v)
      BY <2>1 DEF Goes
    <3>2. \A v \in Worker : v # w /\ frame[v].pc # "idle" => frame[v].h # h
      BY <1>6 DEF ReaddirRequest, ReleasedirRequest, Quiet
    <3>3. frame'[w].pc # "idle"
      BY <1>6
    <3> QED BY <1>6, <2>3, <3>1, <3>2, <3>3, CallMoves
  <2> QED BY <1>6, <2>2, <2>4 DEF HandleHasDir, StreamHasDir, Open
<1>7. ASSUME NEW w \in Worker, NEW h \in DirHandle, fuseReaddir(w, h)
      PROVE  CallInv'
  <2>1. /\ fh[h] \in Fd /\ entries[dirPath[h]] \in SUBSET Entry
    BY <1>7 DEF fuseReaddir, ReaddirRequest, TypeOK, InUse, HandleHasDir
  <2>2. /\ frame'[w] = [pc |-> "found", h |-> h, fd |-> NoFd, dh |-> NoStream,
                        it |-> fh[h], listed |-> {},
                        stayed |-> entries[dirPath[h]],
                        ever |-> entries[dirPath[h]]]
        /\ frame' = [frame EXCEPT ![w] = frame'[w]]
    BY <1>7 DEF fuseReaddir, TypeOK, IdleFrame
  <2>3. /\ frame'[w] \in Frame /\ frame'[w].pc = "found" /\ frame'[w].h = h
        /\ frame'[w].it = fh[h]
    BY <2>1, <2>2 DEF Frame
  <2> QED BY <1>6, <1>7, <2>2, <2>3 DEF fuseReaddir
<1>8. ASSUME NEW w \in Worker, NEW h \in DirHandle, fuseReleasedir(w, h)
      PROVE  CallInv'
  <2>1. fh[h] \in Fd
    BY <1>8 DEF fuseReleasedir, ReleasedirRequest, TypeOK, InUse
  <2>2. /\ frame'[w] = [pc |-> "release", h |-> h, fd |-> NoFd, dh |-> NoStream,
                        it |-> fh[h], listed |-> {}, stayed |-> {}, ever |-> {}]
        /\ frame' = [frame EXCEPT ![w] = frame'[w]]
    BY <1>8 DEF fuseReleasedir, TypeOK, IdleFrame
  <2>3. /\ frame'[w] \in Frame /\ frame'[w].pc = "release" /\ frame'[w].h = h
        /\ frame'[w].it = fh[h]
    BY <2>1, <2>2 DEF Frame
  <2> QED BY <1>6, <1>8, <2>2, <2>3 DEF fuseReleasedir
<1>9. ASSUME NEW w \in Worker, takeDir(w) PROVE CallInv'
  <2>1. PICK s \in Stream :
          frame' = [frame EXCEPT ![w].pc = "rewind", ![w].dh = s, ![w].it = NoFd]
    BY <1>9 DEF takeDir, Second
  <2>2. /\ frame'[w] = [frame[w] EXCEPT !.pc = "rewind", !.dh = s, !.it = NoFd]
        /\ \A v \in Worker : v # w => frame'[v] = frame[v]
        /\ frame[w].pc = "found"
    BY <1>0, <1>9, <2>1 DEF takeDir, TypeOK, Frame
  <2>3. /\ frame'[w].pc = "rewind" /\ frame'[w].dh = s /\ frame'[w].it = NoFd
        /\ frame'[w].h = frame[w].h
    BY <1>0, <2>2 DEF Frame
  <2>4. frame' \in [Worker -> Frame] /\ dirState' = dirState
    BY <1>0, <1>9, <2>1, <2>2, FrameUpdates DEF TypeOK, takeDir
  <2>5. Served' /\ OneCallPerHandle'
    <3>1. \A v \in Worker : v # w => Goes(v)
      BY <2>2 DEF Goes
    <3>2. CallOK(frame'[w], dirState')
      <4>1. frame[w].h \in DirHandle /\ dirState[frame[w].h] = "open"
        BY <1>h, <2>2 DEF CallOK
      <4>2. frame'[w].dh \in Stream
        BY <2>1, <2>3
      <4>3. dirState'[frame'[w].h] = "open"
        BY <2>3, <2>4, <4>1
      <4> QED BY <2>3, <4>1, <4>2, <4>3 DEF CallOK
    <3>3. frame[w].pc # "idle" /\ frame'[w].pc # "idle"
      BY <2>2, <2>3
    <3>4. \A g \in DirHandle : dirState'[g] = dirState[g]
      BY <2>4
    <3> QED BY <1>h, <2>3, <3>1, <3>2, <3>3, <3>4, CallMoves
  <2> QED BY <1>9, <2>4, <2>5 DEF takeDir, TypeOK, InUse, HandleHasDir, StreamHasDir, Open
<1>10. ASSUME NEW w \in Worker, rewinddir(w) PROVE CallInv'
  <2>1. /\ frame[w].pc = "rewind" /\ frame[w].dh \in Stream
        /\ frame' = [frame EXCEPT ![w].pc = "list"]
        /\ stream' = [stream EXCEPT ![frame[w].dh].seen = {}]
        /\ UNCHANGED <<entries, fdDir, handles, reused>>
    BY <1>10, <1>h DEF rewinddir, CallOK
  <2>2. /\ frame'[w] = [frame[w] EXCEPT !.pc = "list"]
        /\ \A v \in Worker : v # w => frame'[v] = frame[v]
    BY <1>0, <2>1 DEF TypeOK, Frame
  <2>3. /\ frame'[w].pc = "list" /\ frame'[w].h = frame[w].h
        /\ frame'[w].dh = frame[w].dh /\ frame'[w].it = frame[w].it
    BY <1>0, <2>2 DEF Frame
  <2>4. frame' \in [Worker -> Frame]
    BY <1>0, <2>1, <2>2, FrameUpdates DEF TypeOK
  <2>5. /\ stream' \in [Stream -> [fd : Fd \cup {NoFd}, dir : Dir \cup {NoDir},
                                   seen : SUBSET Entry]]
        /\ StreamHasDir'
    BY <2>1 DEF TypeOK, StreamHasDir, Open
  <2>6. Served' /\ OneCallPerHandle'
    <3>1. \A v \in Worker : v # w => Goes(v)
      BY <2>2 DEF Goes
    <3>2. CallOK(frame'[w], dirState')
      BY <1>h, <2>1, <2>3 DEF CallOK
    <3> QED BY <1>h, <2>1, <2>3, <3>1, <3>2, CallMoves
  <2> QED BY <2>1, <2>4, <2>5, <2>6 DEF TypeOK, InUse, HandleHasDir
<1>11. ASSUME NEW w \in Worker, readdir(w) PROVE CallInv'
  <2>1. /\ frame[w].pc = "list" /\ frame[w].dh \in Stream
        /\ UNCHANGED <<entries, fdDir, handles, reused>>
    BY <1>11, <1>h DEF readdir, CallOK
  <2>2. PICK e \in Entry :
          /\ stream' = IF Open(frame[w].dh)
                       THEN [stream EXCEPT ![frame[w].dh].seen = @ \cup {e}]
                       ELSE stream
          /\ frame' = [frame EXCEPT ![w].listed = @ \cup {e}]
    BY <1>11, <2>1 DEF readdir, Unread, TypeOK, StreamHasDir
  <2>3. /\ frame'[w] = [frame[w] EXCEPT !.listed = frame[w].listed \cup {e}]
        /\ \A v \in Worker : v # w => frame'[v] = frame[v]
        /\ frame[w].listed \cup {e} \in SUBSET Entry
    BY <1>0, <2>2 DEF TypeOK, Frame
  <2>4. /\ frame'[w].pc = "list" /\ frame'[w].h = frame[w].h
        /\ frame'[w].dh = frame[w].dh /\ frame'[w].it = frame[w].it
    BY <1>0, <2>1, <2>3 DEF Frame
  <2>5. frame' \in [Worker -> Frame]
    BY <1>0, <2>2, <2>3, FrameUpdates DEF TypeOK
  <2>6. /\ stream' \in [Stream -> [fd : Fd \cup {NoFd}, dir : Dir \cup {NoDir},
                                   seen : SUBSET Entry]]
        /\ StreamHasDir'
    BY <2>1, <2>2 DEF TypeOK, StreamHasDir, Open
  <2>7. Served' /\ OneCallPerHandle'
    <3>1. \A v \in Worker : v # w => Goes(v)
      BY <2>3 DEF Goes
    <3>2. CallOK(frame'[w], dirState')
      BY <1>h, <2>1, <2>4 DEF CallOK
    <3> QED BY <1>h, <2>1, <2>4, <3>1, <3>2, CallMoves
  <2> QED BY <2>1, <2>5, <2>6, <2>7 DEF TypeOK, InUse, HandleHasDir
<1>12. ASSUME NEW w \in Worker, readdirEnd(w) \/ readdirFails(w)
       PROVE  CallInv'
  <2>1. /\ frame[w].pc = "list" /\ frame' = [frame EXCEPT ![w] = IdleFrame]
        /\ UNCHANGED <<entries, stream, fdDir, dirState, dirPath, fh, reused>>
        /\ \E cut \in BOOLEAN :
             reply' = [reply EXCEPT ![frame[w].h] = Listing(w, cut)]
    BY <1>12 DEF readdirEnd, readdirFails, Return
  <2>2. /\ frame'[w] = IdleFrame /\ frame' \in [Worker -> Frame]
        /\ \A v \in Worker : v # w => frame'[v] = frame[v]
    BY <1>0, <2>1 DEF TypeOK
  <2>3. reply' \in [DirHandle -> Reply]
    <3>1. \A cut \in BOOLEAN : Listing(w, cut) \in Reply
      BY <1>0 DEF Listing, Reply, Frame
    <3> QED BY <2>1, <3>1 DEF TypeOK
  <2>4. Served' /\ OneCallPerHandle'
    <3>1. \A v \in Worker : v # w => Goes(v)
      BY <2>2 DEF Goes
    <3> QED BY <1>0, <1>h, <2>1, <2>2, <3>1, CallMoves
  <2> QED BY <2>1, <2>2, <2>3, <2>4 DEF TypeOK, InUse, HandleHasDir, StreamHasDir, Open
<1>13. ASSUME NEW w \in Worker, storeDir(w) PROVE CallInv'
  <2>1. PICK h \in DirHandle, fd \in Fd, s \in Stream :
          /\ h = frame[w].h /\ fd = frame[w].fd /\ s = frame[w].dh
          /\ frame[w].pc = "store" /\ dirState[h] = "opening"
    BY <1>h, <1>13 DEF storeDir, CallOK
  <2>2. /\ frame' = [frame EXCEPT ![w] = IdleFrame]
        /\ reply' = [reply EXCEPT ![h] = [NoReply EXCEPT !.op = "opendir"]]
        /\ fh' = [fh EXCEPT ![h] = fd]
        /\ dirState' = [dirState EXCEPT ![h] = "open"]
        /\ UNCHANGED <<entries, stream, dirPath, reused>>
    BY <1>13, <2>1 DEF storeDir, Return
  <2>3. /\ frame'[w] = IdleFrame /\ frame' \in [Worker -> Frame]
        /\ \A v \in Worker : v # w => frame'[v] = frame[v]
    BY <1>0, <2>2 DEF TypeOK
  <2>4. TypeOK'
    <3>1. [NoReply EXCEPT !.op = "opendir"] \in Reply
      BY DEF NoReply, Reply
    <3>2. fdDir' \in [Fd -> Stream \cup {NoStream, Null}]
      BY <1>13, <2>1 DEF storeDir, TypeOK
    <3>3. \A g \in DirHandle : fh'[g] # NoFd <=> InUse(g)'
      BY <2>1, <2>2 DEF TypeOK, InUse
    <3> QED BY <2>1, <2>2, <2>3, <3>1, <3>2, <3>3 DEF TypeOK
  <2>5. Served' /\ OneCallPerHandle'
    <3>1. \A v \in Worker : v # w => Goes(v)
      BY <2>3 DEF Goes
    <3>2. \A g \in DirHandle : g # h => dirState'[g] = dirState[g]
      BY <2>2 DEF TypeOK
    <3>3. \A v \in Worker : v # w /\ frame[v].pc # "idle" => frame[v].h # h
      BY <1>h, <2>1
    <3> QED BY <1>0, <2>3, <3>1, <3>2, <3>3, CallMoves
  <2> QED BY <2>1, <2>2, <2>4, <2>5 DEF TypeOK, HandleHasDir, StreamHasDir, Open
<1>14. ASSUME NEW w \in Worker, NEW h \in DirHandle, fuseReleasedirMissing(w, h)
       PROVE  CallInv'
  <2>1. /\ Forgotten(h) /\ Quiet(h)
        /\ UNCHANGED <<entries, stream, fdDir, frame, reused>>
    BY <1>14 DEF fuseReleasedirMissing, ReleasedirRequest
  <2>2. TypeOK'
    BY <2>1 DEF TypeOK, Forgotten, InUse, NoReply, Reply
  <2>3. Served'
    BY <1>h, <2>1 DEF Served, CallOK, Forgotten, Quiet, TypeOK
  <2> QED BY <2>1, <2>2, <2>3 DEF OneCallPerHandle, HandleHasDir, StreamHasDir,
             Open, Forgotten, TypeOK
<1>15. ASSUME NEW w \in Worker, closedir(w) PROVE CallInv'
  <2>1. /\ frame[w].pc = "release" /\ frame' = [frame EXCEPT ![w].pc = "erase"]
        /\ UNCHANGED <<entries, fdDir, handles, reused>>
        /\ \E t \in Stream : stream' = [stream EXCEPT ![t] = Closed]
    BY <1>15 DEF closedir
  <2>2. /\ frame'[w] = [frame[w] EXCEPT !.pc = "erase"]
        /\ \A v \in Worker : v # w => frame'[v] = frame[v]
    BY <1>0, <2>1 DEF TypeOK, Frame
  <2>3. /\ frame'[w].pc = "erase" /\ frame'[w].h = frame[w].h
        /\ frame'[w].dh = frame[w].dh /\ frame'[w].it = frame[w].it
    BY <1>0, <2>2 DEF Frame
  <2>4. frame' \in [Worker -> Frame]
    BY <1>0, <2>1, <2>2, FrameUpdates DEF TypeOK
  <2>5. /\ stream' \in [Stream -> [fd : Fd \cup {NoFd}, dir : Dir \cup {NoDir},
                                   seen : SUBSET Entry]]
        /\ StreamHasDir'
    BY <2>1 DEF TypeOK, StreamHasDir, Open, Closed
  <2>6. Served' /\ OneCallPerHandle'
    <3>1. \A v \in Worker : v # w => Goes(v)
      BY <2>2 DEF Goes
    <3>2. CallOK(frame'[w], dirState')
      BY <1>h, <2>1, <2>3 DEF CallOK
    <3> QED BY <1>h, <2>1, <2>3, <3>1, <3>2, CallMoves
  <2> QED BY <2>1, <2>4, <2>5, <2>6 DEF TypeOK, InUse, HandleHasDir
<1>16. ASSUME NEW w \in Worker, eraseDir(w) PROVE CallInv'
  <2>1. PICK h \in DirHandle, nodes \in SUBSET Fd :
          h = frame[w].h /\ frame[w].pc = "erase" /\ Erased(w, nodes) /\ Forgotten(h)
          /\ UNCHANGED <<entries, stream, reused>>
    BY <1>h, <1>16 DEF eraseDir
  <2>2. frame'[w] = IdleFrame
    BY <2>1 DEF Erased
  <2>3. ASSUME NEW v \in Worker, v # w PROVE frame'[v] \in Frame /\ Goes(v)
    <3>1. CASE frame[v].it \in nodes
      <4>1. /\ frame'[v] = [frame[v] EXCEPT !.it = Dangling]
            /\ frame[v] # IdleFrame
        BY <2>1, <2>3, <3>1 DEF Erased, IdleFrame
      <4>2. /\ frame'[v].pc = frame[v].pc /\ frame'[v].h = frame[v].h
            /\ frame'[v].fd = frame[v].fd /\ frame'[v].dh = frame[v].dh
            /\ frame'[v].it = Dangling /\ frame[v].it \in Fd
        BY <1>0, <3>1, <4>1 DEF Frame
      <4> QED BY <1>0, <2>3, <4>1, <4>2, FrameUpdates DEF Goes
    <3>2. CASE frame[v].it \notin nodes
      <4>1. frame'[v] = frame[v]
        BY <2>1, <2>3, <3>2 DEF Erased
      <4> QED BY <1>0, <4>1 DEF Goes
    <3> QED BY <3>1, <3>2
  <2>4. frame' \in [Worker -> Frame]
    BY <1>0, <2>1, <2>2, <2>3 DEF Erased
  <2>5. TypeOK'
    <3>1. fdDir' \in [Fd -> Stream \cup {NoStream, Null}]
      BY <2>1 DEF Erased, TypeOK
    <3>2. NoReply \in Reply
      BY DEF NoReply, Reply
    <3>3. \A g \in DirHandle : fh'[g] # NoFd <=> InUse(g)'
      BY <2>1 DEF Forgotten, TypeOK, InUse
    <3> QED BY <2>1, <2>4, <3>1, <3>2, <3>3 DEF TypeOK, Forgotten
  <2>6. Served' /\ OneCallPerHandle'
    <3>1. \A g \in DirHandle : g # h => dirState'[g] = dirState[g]
      BY <2>1 DEF Forgotten, TypeOK
    <3>2. \A v \in Worker : v # w /\ frame[v].pc # "idle" => frame[v].h # h
      BY <1>h, <2>1
    <3> QED BY <1>0, <2>2, <2>3, <3>1, <3>2, CallMoves
  <2> QED BY <2>1, <2>5, <2>6 DEF Forgotten, HandleHasDir, StreamHasDir, Open, TypeOK
<1>17. CASE UNCHANGED vars
  BY <1>17 DEF vars, TypeOK, InUse, Served, OneCallPerHandle, HandleHasDir,
     StreamHasDir, Open
<1> QED BY <1>1, <1>2, <1>3, <1>4, <1>5, <1>7, <1>8, <1>9, <1>10, <1>11, <1>12,
           <1>13, <1>14, <1>15, <1>16, <1>17 DEF Next, Environment, Serve, Resume

(***************************************************************************)
(* For any number of threads, also after a number was reused too early.    *)
(***************************************************************************)
THEOREM TypeCorrect == Spec => []TypeOK
<1>1. CallInv /\ [Next]_vars => CallInv'
  BY CallStep
<1>2. CallInv => TypeOK
  BY DEF CallInv
<1> QED BY <1>1, <1>2, CallInitially, PTL DEF Spec

-----------------------------------------------------------------------------
(* Until a number is reused too early.  A handle is live until its stream  *)
(* is closed, and still in use until its node is erased.                   *)

Live(h) == InUse(h) /\ \A w \in Worker : frame[w].pc = "erase" => frame[w].h # h

Opener(w) == frame[w].pc \in {"insert", "store"}

HasNode == \A h \in DirHandle : InUse(h) => fdDir[fh[h]] \in Stream

OwnStream ==
  \A h \in DirHandle : Live(h) => /\ stream[fdDir[fh[h]]].fd = fh[h]
                                  /\ stream[fdDir[fh[h]]].dir = dirPath[h]

DistinctFds ==
  \A s, t \in Stream : Open(s) /\ stream[s].fd = stream[t].fd => s = t

DistinctHandles ==
  \A g, h \in DirHandle : InUse(g) /\ InUse(h) /\ fh[g] = fh[h] => g = h

(* The stream an opendir has got is no live handle's and no other call's.  *)
Opening ==
  \A w \in Worker : Opener(w) =>
    /\ stream[frame[w].dh].fd = frame[w].fd
    /\ stream[frame[w].dh].dir = dirPath[frame[w].h]
    /\ \A h \in DirHandle : Live(h) => fh[h] # frame[w].fd
    /\ \A v \in Worker : Opener(v) /\ frame[v].dh = frame[w].dh => v = w

(* The node it stores in is there, and no other handle's.                  *)
Storing ==
  \A w \in Worker : frame[w].pc = "store" =>
    /\ frame[w].it = frame[w].fd /\ fdDir[frame[w].fd] # NoStream
    /\ \A h \in DirHandle : InUse(h) => fh[h] # frame[w].fd

Finding ==
  \A w \in Worker :
    /\ frame[w].pc \in {"found", "release", "erase"} =>
         frame[w].it = fh[frame[w].h]
    /\ frame[w].pc \in {"rewind", "list"} =>
         frame[w].dh = fdDir[fh[frame[w].h]]

EntryOwned ==
  \A fd \in Fd : fdDir[fd] # NoStream =>
    \/ \E h \in DirHandle : InUse(h) /\ fh[h] = fd
    \/ \E w \in Worker : frame[w].pc = "store" /\ frame[w].fd = fd

StreamOwned ==
  \A s \in Stream : Open(s) =>
    \/ \E h \in DirHandle : Live(h) /\ fh[h] = stream[s].fd
    \/ \E w \in Worker : Opener(w) /\ frame[w].dh = s

CleanInv ==
  /\ HasNode /\ OwnStream /\ DistinctFds /\ DistinctHandles
  /\ Opening /\ Storing /\ Finding /\ EntryOwned /\ StreamOwned

LEMMA CleanInitially == Init => CleanInv
<1> SUFFICES ASSUME Init PROVE CleanInv
  OBVIOUS
<1> QED BY DEF Init, CleanInv, HasNode, OwnStream, DistinctFds, DistinctHandles,
   Opening, Storing, Finding, EntryOwned, StreamOwned, Live, InUse, Opener,
   Open, IdleFrame, Closed

(* What the properties say of it. *)
LEMMA CleanIsSafe ==
  ASSUME CallInv, CleanInv
  PROVE  OpenDirHasStream /\ StreamHasHandle /\ NoUseAfterFree
<1> USE DirSentinelAssumption DEF CallInv, CleanInv
<1>1. ASSUME NEW h \in DirHandle, dirState[h] = "open" PROVE Live(h)
  BY <1>1 DEF Live, InUse, Served, CallOK
<1>2. OpenDirHasStream
  BY <1>1 DEF OpenDirHasStream, HasNode, OwnStream, InUse
<1>3. StreamHasHandle
  BY DEF StreamHasHandle, StreamOwned, Live, Opener
<1>4. ASSUME NEW w \in Worker
      PROVE  /\ frame[w].it # Dangling
             /\ frame[w].pc \in {"rewind", "list"} => Open(frame[w].dh)
  <2>1. frame[w] \in Frame /\ IdleFrame.it = NoFd /\ IdleFrame.pc = "idle"
    BY DEF TypeOK, IdleFrame
  <2>2. CASE frame[w].pc = "idle"
    BY <2>1, <2>2 DEF Served
  <2>3. CASE frame[w].pc \in {"insert", "rewind", "list"}
    <3>1. frame[w].it = NoFd
      BY <2>3 DEF Served, CallOK
    <3>2. CASE frame[w].pc \in {"rewind", "list"}
      <4>1. frame[w].h \in DirHandle /\ dirState[frame[w].h] = "open"
        BY <3>2 DEF Served, CallOK
      <4>2. fh[frame[w].h] \in Fd
        BY <4>1 DEF TypeOK, InUse
      <4> QED BY <1>1, <3>1, <3>2, <4>1, <4>2 DEF OwnStream, Finding, Open
    <3> QED BY <2>3, <3>1, <3>2
  <2>4. CASE frame[w].pc = "store"
    BY <2>4 DEF Storing, Served, CallOK
  <2>5. CASE frame[w].pc \in {"found", "release", "erase"}
    <3>1. frame[w].h \in DirHandle /\ InUse(frame[w].h)
      BY <2>5 DEF Served, CallOK, InUse
    <3> QED BY <2>5, <3>1 DEF Finding, TypeOK
  <2> QED BY <2>1, <2>2, <2>3, <2>4, <2>5 DEF Frame
<1> QED BY <1>2, <1>3, <1>4 DEF NoUseAfterFree

(* Steps that open, store, close and erase nothing.                        *)
Kept ==
  /\ UNCHANGED <<fdDir, dirPath, fh>>
  /\ \A h \in DirHandle : InUse(h)' <=> InUse(h)
  /\ \A s \in Stream : /\ stream'[s].fd = stream[s].fd
                       /\ stream'[s].dir = stream[s].dir
  /\ \A v \in Worker :
       /\ \/ frame[v].pc \in {"insert", "store", "erase"}
          \/ frame'[v].pc \in {"insert", "store", "erase"}
          => /\ frame'[v].pc = frame[v].pc /\ frame'[v].h = frame[v].h
             /\ frame'[v].fd = frame[v].fd /\ frame'[v].dh = frame[v].dh
             /\ frame'[v].it = frame[v].it
       /\ frame'[v].pc \in {"found", "release"} =>
            frame'[v].it = fh[frame'[v].h]
       /\ frame'[v].pc \in {"rewind", "list"} =>
            frame'[v].dh = fdDir[fh[frame'[v].h]]

LEMMA KeptClean == ASSUME CallInv, CleanInv, Kept PROVE CleanInv'
<1> USE DEF CallInv, CleanInv
<1>1. \A h \in DirHandle : (Live(h)' <=> Live(h)) /\ (InUse(h)' <=> InUse(h))
  BY DEF Live, Kept
<1>2. \A s \in Stream : Open(s)' <=> Open(s)
  BY DEF Open, Kept
<1>3. \A w \in Worker : /\ Opener(w)' <=> Opener(w)
                        /\ Opener(w) => /\ frame'[w].h = frame[w].h
                                        /\ frame'[w].fd = frame[w].fd
                                        /\ frame'[w].dh = frame[w].dh
                                        /\ frame[w].h \in DirHandle
                                        /\ frame[w].dh \in Stream
  BY DEF Opener, Kept, Served, CallOK
<1>4. (HasNode /\ OwnStream)'
  BY <1>1 DEF Kept, HasNode, OwnStream, Live
<1>5. (DistinctFds /\ DistinctHandles)'
  BY <1>1, <1>2 DEF Kept, DistinctFds, DistinctHandles
<1>6. Opening'
  BY <1>1, <1>3 DEF Kept, Opening
<1>7. Storing'
  BY <1>1 DEF Kept, Storing
<1>8. Finding'
  BY DEF Kept, Finding
<1>9. EntryOwned'
  BY <1>1 DEF Kept, EntryOwned
<1>10. StreamOwned'
  <2>1. ASSUME NEW s \in Stream, Open(s)
        PROVE  \/ \E h \in DirHandle : Live(h)' /\ fh'[h] = stream'[s].fd
               \/ \E w \in Worker : Opener(w)' /\ frame'[w].dh = s
    <3>1. CASE \E h \in DirHandle : Live(h) /\ fh[h] = stream[s].fd
      BY <1>1, <3>1 DEF Kept
    <3>2. CASE \E w \in Worker : Opener(w) /\ frame[w].dh = s
      BY <1>3, <3>2
    <3> QED BY <2>1, <3>1, <3>2 DEF StreamOwned
  <2> QED BY <1>2, <2>1 DEF StreamOwned
<1> QED BY <1>4, <1>5, <1>6, <1>7, <1>8, <1>9, <1>10

LEMMA QuietSteps ==
  ASSUME CallInv, CleanInv
  PROVE  /\ \A d \in Dir, e \in Entry : Create(d, e) \/ Remove(d, e) => Kept
         /\ \A h \in DirHandle : Close(h) => Kept
         /\ \A w \in Worker, h \in DirHandle :
              \/ fuseOpendirFails(w, h) \/ fuseReaddirMissing(w, h)
              \/ fuseReaddir(w, h) \/ fuseReleasedir(w, h)
              => Kept
         /\ \A w \in Worker :
              \/ takeDir(w) \/ rewinddir(w) \/ readdir(w)
              \/ readdirEnd(w) \/ readdirFails(w)
              => Kept
         /\ UNCHANGED vars => Kept
<1> USE DirSentinelAssumption DEF CallInv, CleanInv, handles
<1>0. /\ IdleFrame.pc = "idle"
      /\ \A v \in Worker : frame[v] \in Frame
      /\ \A v \in Worker : frame[v].pc # "idle" => CallOK(frame[v], dirState)
  BY DEF TypeOK, IdleFrame, Served
<1>1. ASSUME NEW d \in Dir, NEW e \in Entry, Create(d, e) \/ Remove(d, e)
      PROVE  Kept
  BY <1>1, NamesChange DEF Kept, Goes, InUse, Finding
<1>2. ASSUME NEW h \in DirHandle, Close(h) PROVE Kept
  BY <1>2 DEF Close, Kept, InUse, TypeOK, Finding
<1>3. CASE UNCHANGED vars
  BY <1>3 DEF vars, Kept, InUse, Finding
<1>4. ASSUME NEW w \in Worker, NEW h \in DirHandle,
             fuseOpendirFails(w, h) \/ fuseReaddirMissing(w, h)
      PROVE  Kept
  BY <1>4 DEF fuseOpendirFails, fuseReaddirMissing, Kept, InUse, Finding
<1>5. ASSUME NEW w \in Worker, NEW h \in DirHandle,
             fuseReaddir(w, h) \/ fuseReleasedir(w, h)
      PROVE  Kept
  <2>1. /\ frame[w].pc = "idle" /\ frame'[w].pc \in {"found", "release"}
        /\ frame'[w].h = h /\ frame'[w].it = fh[h]
        /\ \A v \in Worker : v # w => frame'[v] = frame[v]
        /\ UNCHANGED <<stream, fdDir, handles>>
    <3>1. /\ frame[w].pc = "idle" /\ UNCHANGED <<stream, fdDir, handles>>
          /\ \A v \in Worker : v # w => frame'[v] = frame[v]
      BY <1>5 DEF fuseReaddir, fuseReleasedir, ReaddirRequest,
         ReleasedirRequest, Idle, TypeOK
    <3>2. /\ frame'[w].pc \in {"found", "release"}
          /\ frame'[w].h = h /\ frame'[w].it = fh[h]
      <4>1. CASE fuseReaddir(w, h)
        BY <4>1 DEF fuseReaddir, IdleFrame, TypeOK
      <4>2. CASE fuseReleasedir(w, h)
        BY <4>2 DEF fuseReleasedir, IdleFrame, TypeOK
      <4> QED BY <1>5, <4>1, <4>2
    <3> QED BY <3>1, <3>2
  <2> QED BY <2>1 DEF Kept, InUse, Finding
<1>6. ASSUME NEW w \in Worker, takeDir(w) PROVE Kept
  <2>1. PICK s \in Stream :
          /\ s \in Second(frame[w].it)
          /\ frame' = [frame EXCEPT ![w].pc = "rewind", ![w].dh = s, ![w].it = NoFd]
    BY <1>6 DEF takeDir, Second
  <2>2. /\ frame[w].pc = "found" /\ UNCHANGED <<stream, fdDir, handles>>
        /\ \A v \in Worker : v # w => frame'[v] = frame[v]
    BY <1>6, <2>1 DEF takeDir, TypeOK
  <2>3. /\ frame'[w].pc = "rewind" /\ frame'[w].h = frame[w].h
        /\ frame'[w].dh = s
    BY <1>0, <2>1 DEF TypeOK, Frame
  <2>4. s = fdDir[fh[frame[w].h]]
    <3>1. frame[w].it # Dangling
      BY CleanIsSafe DEF NoUseAfterFree
    <3> QED BY <2>1, <2>2, <3>1 DEF Second, Finding
  <2> QED BY <2>2, <2>3, <2>4 DEF Kept, InUse, Finding
<1>7. ASSUME NEW w \in Worker, rewinddir(w) \/ readdir(w) PROVE Kept
  <2>1. /\ frame[w].pc \in {"rewind", "list"} /\ frame'[w].pc = "list"
        /\ frame'[w].h = frame[w].h /\ frame'[w].dh = frame[w].dh
    <3>1. CASE rewinddir(w)
      BY <1>0, <3>1 DEF rewinddir, TypeOK, Frame
    <3>2. CASE readdir(w)
      <4>1. PICK e : frame' = [frame EXCEPT ![w].listed = @ \cup {e}]
        BY <3>2 DEF readdir
      <4> QED BY <1>0, <3>2, <4>1 DEF readdir, TypeOK, Frame
    <3> QED BY <1>7, <3>1, <3>2
  <2>2. /\ \A v \in Worker : v # w => frame'[v] = frame[v]
        /\ UNCHANGED <<fdDir, handles>>
    BY <1>7 DEF rewinddir, readdir, TypeOK
  <2>3. \A s \in Stream : /\ stream'[s].fd = stream[s].fd
                          /\ stream'[s].dir = stream[s].dir
    <3>1. PICK names : stream' = stream \/
            stream' = [stream EXCEPT ![frame[w].dh].seen = names]
      BY <1>7 DEF rewinddir, readdir
    <3> QED BY <3>1 DEF TypeOK
  <2> QED BY <2>1, <2>2, <2>3 DEF Kept, InUse, Finding
<1>8. ASSUME NEW w \in Worker, readdirEnd(w) \/ readdirFails(w) PROVE Kept
  <2>1. /\ frame[w].pc = "list" /\ frame'[w].pc = "idle"
        /\ \A v \in Worker : v # w => frame'[v] = frame[v]
        /\ UNCHANGED <<stream, fdDir, dirState, dirPath, fh>>
    BY <1>0, <1>8 DEF readdirEnd, readdirFails, Return, TypeOK
  <2> QED BY <2>1 DEF Kept, InUse, Finding
<1> QED BY <1>1, <1>2, <1>3, <1>4, <1>5, <1>6, <1>7, <1>8

(* A new number is no open stream's, and so no live handle's. *)
LEMMA OpendirClean ==
  ASSUME CallInv, CleanInv, NEW w \in Worker, NEW h \in DirHandle, NEW d \in Dir,
         NEW s \in Stream, NEW fd \in Fd, fuseOpendir(w, h, d, s, fd)
  PROVE  CleanInv'
<1> USE DirSentinelAssumption DEF CallInv, CleanInv
<1>1. /\ frame'[w].pc = "insert" /\ frame'[w].h = h
      /\ frame'[w].fd = fd /\ frame'[w].dh = s
  BY DEF fuseOpendir, IdleFrame, TypeOK
<1>2. /\ frame[w].pc = "idle" /\ dirState[h] = "free" /\ ~Open(s)
      /\ \A v \in Worker : v # w => frame'[v] = frame[v]
      /\ \A t \in Stream : stream[t].fd # fd
      /\ stream'[s].fd = fd /\ stream'[s].dir = d
      /\ \A t \in Stream : t # s => stream'[t] = stream[t]
      /\ dirState'[h] = "opening" /\ dirPath'[h] = d
      /\ \A g \in DirHandle : g # h => /\ dirState'[g] = dirState[g]
                                       /\ dirPath'[g] = dirPath[g]
      /\ UNCHANGED <<fdDir, fh>>
  BY DEF fuseOpendir, Idle, TypeOK
<1>3. \A g \in DirHandle : /\ InUse(g)' <=> InUse(g)
                           /\ Live(g)' <=> Live(g)
                           /\ InUse(g) => g # h
                           /\ Live(g) => InUse(g)
  BY <1>1, <1>2 DEF InUse, Live
<1>4. \A g \in DirHandle : Live(g) =>
        fdDir[fh[g]] \in Stream /\ fdDir[fh[g]] # s /\ fh[g] # fd
  BY <1>2, <1>3 DEF HasNode, OwnStream, Open, TypeOK, InUse
<1>5. (HasNode /\ OwnStream)'
  BY <1>2, <1>3, <1>4 DEF HasNode, OwnStream
<1>6. (DistinctFds /\ DistinctHandles)'
  BY <1>2, <1>3 DEF DistinctFds, DistinctHandles, Open
<1>7. ASSUME NEW v \in Worker, v # w, Opener(v)
      PROVE  /\ frame[v].dh \in Stream /\ frame[v].dh # s
             /\ frame[v].h \in DirHandle /\ frame[v].h # h
  BY <1>2, <1>7 DEF Opener, Served, CallOK, Opening, Open
<1>8. \A v \in Worker : Opener(v)' <=> v = w \/ Opener(v)
  BY <1>1, <1>2 DEF Opener
<1>9. Opening'
  BY <1>1, <1>2, <1>3, <1>4, <1>7, <1>8 DEF Opening
<1>10. (Storing /\ Finding)'
  <2>1. \A v \in Worker : v # w => frame'[v] = frame[v]
    BY <1>2
  <2> QED BY <1>1, <1>2, <1>3, <2>1 DEF Storing, Finding
<1>11. EntryOwned'
  BY <1>1, <1>2, <1>3 DEF EntryOwned
<1>12. StreamOwned'
  <2>1. ASSUME NEW t \in Stream, Open(t)'
        PROVE  \/ \E g \in DirHandle : Live(g)' /\ fh'[g] = stream'[t].fd
               \/ \E v \in Worker : Opener(v)' /\ frame'[v].dh = t
    <3>1. CASE t = s
      BY <1>1, <1>8, <3>1
    <3>2. CASE t # s
      <4>1. Open(t) /\ stream'[t] = stream[t]
        BY <1>2, <2>1, <3>2 DEF Open
      <4>2. CASE \E g \in DirHandle : Live(g) /\ fh[g] = stream[t].fd
        BY <1>2, <1>3, <4>1, <4>2
      <4>3. CASE \E v \in Worker : Opener(v) /\ frame[v].dh = t
        BY <1>2, <1>8, <4>3 DEF Opener
      <4> QED BY <4>1, <4>2, <4>3 DEF StreamOwned
    <3> QED BY <3>1, <3>2
  <2> QED BY <2>1 DEF StreamOwned
<1> QED BY <1>5, <1>6, <1>9, <1>10, <1>11, <1>12

(* The node is a new one: no handle is in use, or released, through it.    *)
LEMMA InsertClean ==
  ASSUME CallInv, CleanInv, NEW w \in Worker, insertDir(w), ~reused'
  PROVE  CleanInv'
<1> USE DirSentinelAssumption DEF CallInv, CleanInv
<1>1. PICK fd \in Fd : fd = frame[w].fd /\ frame[w].pc = "insert"
  BY DEF insertDir, Served, CallOK
<1>2. /\ fdDir[fd] = NoStream /\ fdDir'[fd] = Null
      /\ \A n \in Fd : n # fd => fdDir'[n] = fdDir[n]
      /\ UNCHANGED <<stream, dirState, dirPath, fh>>
      /\ \A v \in Worker : v # w => frame'[v] = frame[v]
  BY <1>1 DEF insertDir, handles, TypeOK
<1>3. /\ frame'[w].pc = "store" /\ frame'[w].it = fd /\ frame'[w].fd = fd
      /\ frame'[w].h = frame[w].h /\ frame'[w].dh = frame[w].dh
  BY <1>1 DEF insertDir, TypeOK, Frame
<1>4. \A g \in DirHandle : /\ InUse(g)' <=> InUse(g)
                           /\ Live(g)' <=> Live(g)
                           /\ InUse(g) => fh[g] \in Fd /\ fh[g] # fd
                           /\ Live(g) => InUse(g)
  BY <1>1, <1>2, <1>3 DEF InUse, Live, HasNode, TypeOK
<1>5. (HasNode /\ OwnStream /\ DistinctFds /\ DistinctHandles)'
  BY <1>2, <1>4 DEF HasNode, OwnStream, DistinctFds, DistinctHandles, Open
<1>6. \A v \in Worker : /\ Opener(v)' <=> Opener(v)
                        /\ frame'[v].h = frame[v].h /\ frame'[v].dh = frame[v].dh
                        /\ frame'[v].fd = frame[v].fd
  BY <1>1, <1>2, <1>3 DEF Opener
<1>7. Opening'
  BY <1>2, <1>4, <1>6 DEF Opening
<1>8. Storing'
  <2>1. ASSUME NEW v \in Worker, v # w, frame[v].pc = "store"
        PROVE  frame[v].fd \in Fd
    BY <2>1 DEF Served, CallOK
  <2> QED BY <1>1, <1>2, <1>3, <1>4, <2>1 DEF Storing
<1>9. Finding'
  <2>1. ASSUME NEW v \in Worker, v # w, frame[v].pc \in {"rewind", "list"}
        PROVE  frame[v].h \in DirHandle /\ InUse(frame[v].h)
    BY <2>1 DEF Served, CallOK, InUse
  <2> QED BY <1>2, <1>3, <1>4, <2>1 DEF Finding
<1>10. EntryOwned'
  <2>1. ASSUME NEW n \in Fd, fdDir'[n] # NoStream
        PROVE  \/ \E h \in DirHandle : InUse(h)' /\ fh'[h] = n
               \/ \E v \in Worker : frame'[v].pc = "store" /\ frame'[v].fd = n
    <3>1. CASE n = fd
      BY <1>3, <3>1
    <3>2. CASE n # fd
      <4>1. \/ \E h \in DirHandle : InUse(h) /\ fh[h] = n
            \/ \E v \in Worker : frame[v].pc = "store" /\ frame[v].fd = n
        BY <1>2, <2>1, <3>2 DEF EntryOwned
      <4> QED BY <1>1, <1>2, <1>4, <4>1
    <3> QED BY <3>1, <3>2
  <2> QED BY <2>1 DEF EntryOwned
<1>11. StreamOwned'
  BY <1>2, <1>4, <1>6 DEF StreamOwned, Open
<1> QED BY <1>5, <1>7, <1>8, <1>9, <1>10, <1>11

(* The handle gets its own number, node and stream at once. *)
LEMMA StoreClean ==
  ASSUME CallInv, CleanInv, NEW w \in Worker, storeDir(w) PROVE CleanInv'
<1> USE DirSentinelAssumption DEF CallInv, CleanInv
<1>1. PICK h \in DirHandle, fd \in Fd, s \in Stream :
        /\ h = frame[w].h /\ fd = frame[w].fd /\ s = frame[w].dh
        /\ frame[w].pc = "store" /\ frame[w].it = fd /\ Opener(w)
        /\ dirState[h] = "opening"
  BY DEF storeDir, Served, CallOK, Storing, Opener
<1>2. stream[s].fd = fd /\ stream[s].dir = dirPath[h]
  BY <1>1 DEF Opening
<1>3. /\ fdDir'[fd] = s /\ \A n \in Fd : n # fd => fdDir'[n] = fdDir[n]
      /\ fh'[h] = fd /\ dirState'[h] = "open"
      /\ \A g \in DirHandle : g # h => fh'[g] = fh[g] /\ dirState'[g] = dirState[g]
      /\ UNCHANGED <<stream, dirPath>>
  <2>1. fdDir' = [n \in Fd |-> IF n \in {fd} THEN s ELSE fdDir[n]]
    BY <1>1 DEF storeDir, Reached
  <2> QED BY <1>1, <2>1 DEF storeDir, TypeOK
<1>4. /\ frame'[w].pc = "idle"
      /\ \A v \in Worker : v # w => frame'[v] = frame[v]
  BY DEF storeDir, Return, IdleFrame, TypeOK
<1>5. \A g \in DirHandle :
        /\ InUse(g) => g # h /\ fh[g] \in Fd /\ fh[g] # fd
        /\ InUse(g)' <=> g = h \/ InUse(g)
  BY <1>1, <1>3 DEF Storing, InUse, TypeOK
<1>6. \A g \in DirHandle : Live(g)' <=> g = h \/ Live(g)
  <2>1. \A v \in Worker : v # w /\ frame[v].pc # "idle" => frame[v].h # h
    BY <1>1 DEF OneCallPerHandle
  <2> QED BY <1>1, <1>3, <1>4, <1>5, <2>1 DEF Live
<1>7. \A v \in Worker :
        /\ Opener(v)' <=> v # w /\ Opener(v)
        /\ Opener(v)' => /\ frame[v].fd # fd /\ frame[v].dh # s
                         /\ frame[v].dh \in Stream /\ frame[v].fd \in Fd
                         /\ frame[v].h \in DirHandle /\ frame[v].h # h
  <2>1. \A v \in Worker : Opener(v)' <=> v # w /\ Opener(v)
    BY <1>4 DEF Opener
  <2>2. ASSUME NEW v \in Worker, v # w, Opener(v)
        PROVE  /\ frame[v].fd # fd /\ frame[v].dh # s
               /\ frame[v].dh \in Stream /\ frame[v].fd \in Fd
               /\ frame[v].h \in DirHandle /\ frame[v].h # h
    <3>1. /\ frame[v].dh \in Stream /\ frame[v].fd \in Fd
          /\ frame[v].h \in DirHandle /\ frame[v].h # h
      BY <1>1, <2>2 DEF Opener, Served, CallOK, OneCallPerHandle
    <3>2. frame[v].dh # s /\ stream[frame[v].dh].fd = frame[v].fd
      BY <1>1, <2>2 DEF Opening
    <3>3. frame[v].fd # fd
      BY <1>2, <3>1, <3>2 DEF DistinctFds, Open
    <3> QED BY <3>1, <3>2, <3>3
  <2> QED BY <2>1, <2>2
<1>8. HasNode'
  BY <1>1, <1>3, <1>5 DEF HasNode
<1>9. OwnStream'
  BY <1>1, <1>2, <1>3, <1>5, <1>6 DEF OwnStream, Live
<1>10. (DistinctFds /\ DistinctHandles)'
  BY <1>3, <1>5 DEF DistinctFds, DistinctHandles, Open
<1>11. Opening'
  BY <1>3, <1>4, <1>6, <1>7 DEF Opening
<1>12. Storing'
  <2>1. ASSUME NEW v \in Worker, frame'[v].pc = "store"
        PROVE  v # w /\ Opener(v)' /\ frame'[v] = frame[v]
    BY <1>4, <2>1 DEF Opener
  <2> QED BY <1>3, <1>5, <1>7, <2>1 DEF Storing
<1>13. Finding'
  <2>1. ASSUME NEW v \in Worker, v # w,
               frame[v].pc \in {"found", "rewind", "list", "release", "erase"}
        PROVE  frame[v].h \in DirHandle /\ InUse(frame[v].h)
    BY <2>1 DEF Served, CallOK, InUse
  <2> QED BY <1>3, <1>4, <1>5, <2>1 DEF Finding
<1>14. EntryOwned'
  <2>1. ASSUME NEW n \in Fd, n # fd, fdDir[n] # NoStream
        PROVE  \/ \E g \in DirHandle : InUse(g)' /\ fh'[g] = n
               \/ \E v \in Worker : frame'[v].pc = "store" /\ frame'[v].fd = n
    <3>1. CASE \E g \in DirHandle : InUse(g) /\ fh[g] = n
      BY <1>3, <1>5, <3>1
    <3>2. CASE \E v \in Worker : frame[v].pc = "store" /\ frame[v].fd = n
      BY <1>1, <1>4, <2>1, <3>2
    <3> QED BY <2>1, <3>1, <3>2 DEF EntryOwned
  <2> QED BY <1>3, <1>5, <2>1 DEF EntryOwned
<1>15. StreamOwned'
  <2>1. ASSUME NEW t \in Stream, Open(t)
        PROVE  \/ \E g \in DirHandle : Live(g)' /\ fh'[g] = stream[t].fd
               \/ \E v \in Worker : Opener(v)' /\ frame'[v].dh = t
    <3>1. CASE t = s
      BY <1>2, <1>3, <1>6, <3>1
    <3>2. CASE \E g \in DirHandle : Live(g) /\ fh[g] = stream[t].fd
      BY <1>3, <1>5, <1>6, <3>2 DEF Live
    <3>3. CASE t # s /\ \E v \in Worker : Opener(v) /\ frame[v].dh = t
      BY <1>1, <1>4, <1>7, <3>3
    <3> QED BY <2>1, <3>1, <3>2, <3>3 DEF StreamOwned
  <2> QED BY <1>3, <2>1 DEF StreamOwned, Open
<1> QED BY <1>8, <1>9, <1>10, <1>11, <1>12, <1>13, <1>14, <1>15

(* What closedir closes is the stream of its own handle. *)
LEMMA ClosedirClean ==
  ASSUME CallInv, CleanInv, NEW w \in Worker, closedir(w) PROVE CleanInv'
<1> USE DirSentinelAssumption DEF CallInv, CleanInv
<1>1. PICK h \in DirHandle, s \in Stream :
        /\ h = frame[w].h /\ s = fdDir[fh[h]] /\ frame[w].it = fh[h]
        /\ frame[w].pc = "release" /\ dirState[h] = "closing"
  BY DEF closedir, Served, CallOK, HasNode, InUse, Finding
<1>2. /\ InUse(h) /\ Live(h) /\ fh[h] \in Fd
      /\ stream[s].fd = fh[h] /\ Open(s)
  <2>1. InUse(h) /\ fh[h] \in Fd
    BY <1>1 DEF InUse, TypeOK
  <2>2. Live(h)
    BY <1>1, <2>1 DEF Live, OneCallPerHandle
  <2> QED BY <1>1, <2>1, <2>2 DEF OwnStream, Open
<1>3. /\ ~Open(s)' /\ \A t \in Stream : t # s => stream'[t] = stream[t]
      /\ UNCHANGED <<fdDir, dirState, dirPath, fh>>
  <2>1. frame[w].it # Dangling
    BY CleanIsSafe DEF NoUseAfterFree
  <2>2. stream' = [stream EXCEPT ![s] = Closed]
    BY <1>1, <1>2, <2>1 DEF closedir, Second
  <2> QED BY <2>2 DEF closedir, handles, Open, Closed, TypeOK
<1>4. /\ frame'[w].pc = "erase" /\ frame'[w].h = h /\ frame'[w].it = fh[h]
      /\ \A v \in Worker : v # w => frame'[v] = frame[v]
  BY <1>1 DEF closedir, TypeOK, Frame
<1>5. \A g \in DirHandle : /\ InUse(g)' <=> InUse(g)
                           /\ Live(g)' <=> g # h /\ Live(g)
                           /\ Live(g) => InUse(g)
  BY <1>1, <1>3, <1>4 DEF InUse, Live
<1>6. ASSUME NEW g \in DirHandle, Live(g), g # h
      PROVE  fdDir[fh[g]] \in Stream /\ fdDir[fh[g]] # s
  BY <1>2, <1>5, <1>6 DEF HasNode, OwnStream, DistinctHandles
<1>7. \A v \in Worker :
        /\ Opener(v)' <=> Opener(v)
        /\ Opener(v) => v # w /\ frame[v].dh \in Stream /\ frame[v].dh # s
  <2>1. \A v \in Worker : (Opener(v)' <=> Opener(v)) /\ (Opener(v) => v # w)
    BY <1>1, <1>4 DEF Opener
  <2>2. ASSUME NEW v \in Worker, Opener(v)
        PROVE  frame[v].dh \in Stream /\ frame[v].dh # s
    <3>1. frame[v].dh \in Stream
      BY <2>2 DEF Opener, Served, CallOK
    <3> QED BY <1>2, <2>2, <3>1 DEF Opening
  <2> QED BY <2>1, <2>2
<1>8. (HasNode /\ OwnStream)'
  BY <1>3, <1>5, <1>6 DEF HasNode, OwnStream
<1>9. (DistinctFds /\ DistinctHandles)'
  BY <1>3, <1>5 DEF DistinctFds, DistinctHandles, Open
<1>10. Opening'
  BY <1>3, <1>4, <1>5, <1>7 DEF Opening
<1>11. (Storing /\ Finding)'
  BY <1>1, <1>3, <1>4, <1>5 DEF Storing, Finding
<1>12. EntryOwned'
  BY <1>1, <1>3, <1>4, <1>5 DEF EntryOwned
<1>13. StreamOwned'
  <2>1. ASSUME NEW t \in Stream, Open(t)'
        PROVE  \/ \E g \in DirHandle : Live(g)' /\ fh[g] = stream'[t].fd
               \/ \E v \in Worker : Opener(v)' /\ frame'[v].dh = t
    <3>1. t # s /\ Open(t) /\ stream'[t] = stream[t]
      BY <1>3, <2>1 DEF Open
    <3>2. CASE \E g \in DirHandle : Live(g) /\ fh[g] = stream[t].fd
      BY <1>2, <1>5, <3>1, <3>2 DEF DistinctFds
    <3>3. CASE \E v \in Worker : Opener(v) /\ frame[v].dh = t
      BY <1>4, <1>7, <3>3
    <3> QED BY <3>1, <3>2, <3>3 DEF StreamOwned
  <2> QED BY <1>3, <2>1 DEF StreamOwned
<1> QED BY <1>8, <1>9, <1>10, <1>11, <1>12, <1>13

(* The node is erased with the handle, and nobody else has found it.       *)
LEMMA EraseClean ==
  ASSUME CallInv, CleanInv, NEW w \in Worker, eraseDir(w) PROVE CleanInv'
<1> USE DirSentinelAssumption DEF CallInv, CleanInv
<1>1. PICK h \in DirHandle, fd \in Fd :
        /\ h = frame[w].h /\ fd = fh[h] /\ frame[w].it = fd
        /\ frame[w].pc = "erase" /\ dirState[h] = "closing" /\ InUse(h)
  BY DEF eraseDir, Served, CallOK, Finding, InUse, TypeOK
<1>2. Erased(w, {fd}) /\ Forgotten(h) /\ UNCHANGED <<entries, stream, reused>>
  BY <1>1 DEF eraseDir
<1>3. /\ fdDir'[fd] = NoStream /\ \A n \in Fd : n # fd => fdDir'[n] = fdDir[n]
      /\ dirState'[h] = "free" /\ UNCHANGED stream
      /\ \A g \in DirHandle : g # h => /\ fh'[g] = fh[g]
                                       /\ dirState'[g] = dirState[g]
                                       /\ dirPath'[g] = dirPath[g]
  BY <1>2 DEF Erased, Forgotten, TypeOK
<1>4. frame'[w].pc = "idle" /\ \A v \in Worker : v # w => frame'[v] = frame[v]
  <2>1. frame'[w].pc = "idle"
    BY <1>2 DEF Erased, IdleFrame
  <2>2. ASSUME NEW v \in Worker, v # w PROVE frame[v].it # fd
    <3>1. frame[v].pc # "idle" => CallOK(frame[v], dirState)
      BY DEF Served
    <3>2. CASE frame[v].pc = "idle"
      BY <3>2 DEF Served, IdleFrame
    <3>3. CASE frame[v].pc = "store"
      BY <1>1, <3>3 DEF Storing
    <3>4. CASE frame[v].pc \in {"found", "release", "erase"}
      <4>1. frame[v].h \in DirHandle /\ InUse(frame[v].h) /\ frame[v].h # h
        BY <1>1, <2>2, <3>1, <3>4 DEF CallOK, InUse, OneCallPerHandle
      <4> QED BY <1>1, <3>4, <4>1 DEF Finding, DistinctHandles
    <3>5. CASE frame[v].pc \in {"insert", "rewind", "list"}
      BY <3>1, <3>5 DEF CallOK
    <3>6. frame[v] \in Frame
      BY DEF TypeOK
    <3> QED BY <3>2, <3>3, <3>4, <3>5, <3>6 DEF Frame
  <2> QED BY <1>2, <2>1, <2>2 DEF Erased
<1>5. \A g \in DirHandle :
        /\ InUse(g)' <=> g # h /\ InUse(g)
        /\ InUse(g)' => fh[g] \in Fd /\ fh[g] # fd
  BY <1>1, <1>3 DEF InUse, DistinctHandles, TypeOK
<1>6. \A g \in DirHandle : /\ Live(g)' <=> Live(g)
                           /\ Live(g) => InUse(g)' /\ g # h
  BY <1>1, <1>4, <1>5 DEF Live
<1>7. \A v \in Worker :
        /\ Opener(v)' <=> Opener(v)
        /\ Opener(v) => /\ v # w /\ frame[v].h \in DirHandle /\ frame[v].h # h
                        /\ frame[v].dh \in Stream
  BY <1>1, <1>4 DEF Opener, Served, CallOK
<1>8. (HasNode /\ OwnStream)'
  BY <1>3, <1>5, <1>6 DEF HasNode, OwnStream
<1>9. (DistinctFds /\ DistinctHandles)'
  BY <1>3, <1>5 DEF DistinctFds, DistinctHandles, Open
<1>10. Opening'
  BY <1>3, <1>4, <1>6, <1>7 DEF Opening
<1>11. Storing'
  <2>1. ASSUME NEW v \in Worker, frame'[v].pc = "store"
        PROVE  v # w /\ frame'[v] = frame[v] /\ frame[v].fd \in Fd /\ frame[v].fd # fd
    BY <1>1, <1>4, <2>1 DEF Served, CallOK, Storing
  <2> QED BY <1>3, <1>5, <2>1 DEF Storing
<1>12. Finding'
  <2>1. ASSUME NEW v \in Worker, v # w,
               frame[v].pc \in {"found", "rewind", "list", "release", "erase"}
        PROVE  frame[v].h \in DirHandle /\ InUse(frame[v].h) /\ frame[v].h # h
    BY <1>1, <2>1 DEF Served, CallOK, InUse, OneCallPerHandle
  <2> QED BY <1>3, <1>4, <1>5, <2>1 DEF Finding
<1>13. EntryOwned'
  <2>1. ASSUME NEW n \in Fd, fdDir'[n] # NoStream
        PROVE  \/ \E g \in DirHandle : InUse(g)' /\ fh'[g] = n
               \/ \E v \in Worker : frame'[v].pc = "store" /\ frame'[v].fd = n
    <3>1. n # fd /\ fdDir[n] # NoStream
      BY <1>3, <2>1
    <3>2. CASE \E g \in DirHandle : InUse(g) /\ fh[g] = n
      BY <1>1, <1>3, <1>5, <3>1, <3>2
    <3>3. CASE \E v \in Worker : frame[v].pc = "store" /\ frame[v].fd = n
      BY <1>1, <1>4, <3>3
    <3> QED BY <3>1, <3>2, <3>3 DEF EntryOwned
  <2> QED BY <2>1 DEF EntryOwned
<1>14. StreamOwned'
  BY <1>3, <1>4, <1>6, <1>7 DEF StreamOwned, Open
<1> QED BY <1>8, <1>9, <1>10, <1>11, <1>12, <1>13, <1>14

LEMMA CleanStep ==
  ASSUME CallInv, CleanInv, [Next]_vars, ~reused' PROVE CleanInv'
<1>1. ASSUME NEW w \in Worker, NEW h \in DirHandle, fuseReleasedirMissing(w, h)
      PROVE  FALSE
  <2>1. InUse(h) /\ fdDir[fh[h]] = NoStream
    BY <1>1 DEF fuseReleasedirMissing, ReleasedirRequest, InUse
  <2> QED BY <2>1, DirSentinelAssumption DEF CleanInv, HasNode
<1>2. CASE Environment \/ UNCHANGED vars
  BY <1>2, QuietSteps, KeptClean DEF Environment
<1>3. ASSUME NEW w \in Worker, NEW h \in DirHandle, Serve(w, h) PROVE CleanInv'
  <2>1. CASE \/ fuseOpendirFails(w, h) \/ fuseReaddirMissing(w, h)
             \/ fuseReaddir(w, h) \/ fuseReleasedir(w, h)
    BY <2>1, QuietSteps, KeptClean
  <2>2. CASE \E d \in Dir, s \in Stream, fd \in Fd : fuseOpendir(w, h, d, s, fd)
    BY <2>2, OpendirClean
  <2> QED BY <1>1, <1>3, <2>1, <2>2 DEF Serve
<1>4. ASSUME NEW w \in Worker, Resume(w) PROVE CleanInv'
  <2>1. CASE \/ takeDir(w) \/ rewinddir(w) \/ readdir(w)
             \/ readdirEnd(w) \/ readdirFails(w)
    BY <2>1, QuietSteps, KeptClean
  <2> QED BY <1>4, <2>1, InsertClean, StoreClean, ClosedirClean, EraseClean
          DEF Resume
<1> QED BY <1>2, <1>3, <1>4 DEF Next

-----------------------------------------------------------------------------
(* Listings *)

Lister(r) == r.pc \in {"found", "rewind", "list"}

ListInv ==
  /\ \A w \in Worker :
       /\ frame[w].pc \in {"found", "rewind"} => frame[w].listed = {}
       /\ frame[w].pc = "list" =>
            stream[frame[w].dh].seen \subseteq frame[w].listed
       /\ Lister(frame[w]) =>
            /\ frame[w].stayed \subseteq entries[dirPath[frame[w].h]]
            /\ entries[dirPath[frame[w].h]] \subseteq frame[w].ever
            /\ frame[w].listed \subseteq frame[w].ever
  /\ ListingComplete /\ ListingSound

(* Steps that begin no listing and do not go on with one. *)
LEMMA ListKept ==
  ASSUME ListInv, UNCHANGED entries,
         \A h \in DirHandle : \/ reply'[h] = reply[h]
                              \/ reply'[h].stayed = {} /\ reply'[h].listed = {},
         \A v \in Worker : Lister(frame'[v]) =>
           /\ frame'[v].pc = frame[v].pc
           /\ frame'[v].h = frame[v].h /\ frame'[v].dh = frame[v].dh
           /\ frame'[v].listed = frame[v].listed
           /\ frame'[v].stayed = frame[v].stayed /\ frame'[v].ever = frame[v].ever
           /\ dirPath'[frame[v].h] = dirPath[frame[v].h]
           /\ frame[v].pc = "list" =>
                stream'[frame[v].dh].seen \subseteq stream[frame[v].dh].seen
  PROVE  ListInv'
<1>1. (ListingComplete /\ ListingSound)'
  BY DEF ListInv, ListingComplete, ListingSound
<1>2. ASSUME NEW w \in Worker
      PROVE  /\ frame'[w].pc \in {"found", "rewind"} => frame'[w].listed = {}
             /\ frame'[w].pc = "list" =>
                  stream'[frame'[w].dh].seen \subseteq frame'[w].listed
             /\ Lister(frame'[w]) =>
                  /\ frame'[w].stayed \subseteq entries'[dirPath'[frame'[w].h]]
                  /\ entries'[dirPath'[frame'[w].h]] \subseteq frame'[w].ever
                  /\ frame'[w].listed \subseteq frame'[w].ever
  BY DEF ListInv, Lister
<1> QED BY <1>1, <1>2 DEF ListInv

(* Two calls never list through one stream. *)
LEMMA OwnListing ==
  ASSUME CallInv, CleanInv, NEW v \in Worker, NEW w \in Worker, v # w,
         frame[v].pc \in {"rewind", "list"}, frame[w].pc \in {"rewind", "list"}
  PROVE  frame[v].dh # frame[w].dh
<1>1. /\ frame[v].h \in DirHandle /\ frame[w].h \in DirHandle
      /\ frame[v].h # frame[w].h
      /\ dirState[frame[v].h] = "open" /\ dirState[frame[w].h] = "open"
  BY DEF CallInv, Served, CallOK, OneCallPerHandle
<1>2. Live(frame[v].h) /\ Live(frame[w].h)
  BY <1>1 DEF Live, InUse, CallInv, Served, CallOK
<1>3. fh[frame[v].h] # fh[frame[w].h]
  BY <1>1, <1>2 DEF Live, CleanInv, DistinctHandles
<1> QED BY <1>1, <1>2, <1>3 DEF CleanInv, OwnStream, Finding

(* The stream a listing reads is one of the handle's directory. *)
LEMMA ListedStream ==
  ASSUME CallInv, CleanInv, NEW w \in Worker, frame[w].pc \in {"rewind", "list"}
  PROVE  /\ frame[w].dh \in Stream /\ Open(frame[w].dh)
         /\ stream[frame[w].dh].dir = dirPath[frame[w].h]
         /\ frame[w].h \in DirHandle /\ dirPath[frame[w].h] \in Dir
<1>1. /\ frame[w].h \in DirHandle /\ dirState[frame[w].h] = "open"
      /\ frame[w].dh \in Stream
  BY DEF CallInv, Served, CallOK
<1>2. Live(frame[w].h)
  BY <1>1 DEF Live, InUse, CallInv, Served, CallOK
<1>3. frame[w].dh = fdDir[fh[frame[w].h]]
  BY DEF CleanInv, Finding
<1>4. Open(frame[w].dh)
  BY CleanIsSafe DEF NoUseAfterFree
<1> QED BY <1>1, <1>2, <1>3, <1>4 DEF CallInv, CleanInv, OwnStream, HandleHasDir

LEMMA ListStep ==
  ASSUME CallInv, CleanInv, ListInv, [Next]_vars PROVE ListInv'
<1> USE DEF CallInv
<1>0. /\ IdleFrame.pc = "idle" /\ \A v \in Worker : frame[v] \in Frame
      /\ \A v \in Worker : Lister(frame[v]) =>
           /\ frame[v].h \in DirHandle /\ dirState[frame[v].h] = "open"
           /\ dirPath[frame[v].h] \in Dir
  BY DEF IdleFrame, TypeOK, Lister, Served, CallOK, HandleHasDir
<1>1. ASSUME NEW d \in Dir, NEW e \in Entry, Create(d, e) PROVE ListInv'
  <2>1. /\ \A c \in Dir : entries'[c] = IF c = d THEN entries[c] \cup {e} ELSE entries[c]
        /\ UNCHANGED <<stream, reply, dirPath>>
    BY <1>1 DEF Create, handles, TypeOK
  <2>2. ASSUME NEW w \in Worker
        PROVE  /\ frame'[w].stayed = frame[w].stayed
               /\ frame[w].ever \subseteq frame'[w].ever
               /\ Lists(w, d) => e \in frame'[w].ever
    BY <1>0, <1>1 DEF Create, Frame
  <2>3. ASSUME NEW w \in Worker, Lister(frame[w])
        PROVE  /\ frame'[w].stayed \subseteq entries'[dirPath[frame[w].h]]
               /\ entries'[dirPath[frame[w].h]] \subseteq frame'[w].ever
               /\ frame[w].listed \subseteq frame'[w].ever
    <3>1. /\ frame[w].stayed \subseteq entries[dirPath[frame[w].h]]
          /\ entries[dirPath[frame[w].h]] \subseteq frame[w].ever
          /\ frame[w].listed \subseteq frame[w].ever
      BY <2>3 DEF ListInv
    <3>2. dirPath[frame[w].h] = d => e \in frame'[w].ever
      BY <2>2, <2>3 DEF Lists, Lister
    <3>3. CASE dirPath[frame[w].h] = d
      <4>1. entries'[dirPath[frame[w].h]] = entries[dirPath[frame[w].h]] \cup {e}
        BY <2>1, <3>3
      <4> QED BY <2>2, <3>1, <3>2, <3>3, <4>1
    <3>4. CASE dirPath[frame[w].h] # d
      <4>1. entries'[dirPath[frame[w].h]] = entries[dirPath[frame[w].h]]
        BY <1>0, <2>1, <2>3, <3>4
      <4> QED BY <2>2, <3>1, <4>1
    <3> QED BY <3>3, <3>4
  <2>4. (ListingComplete /\ ListingSound)'
    BY <2>1 DEF ListInv, ListingComplete, ListingSound
  <2> QED BY <1>1, <2>1, <2>3, <2>4, NamesChange DEF ListInv, Lister, Goes
<1>2. ASSUME NEW d \in Dir, NEW e \in Entry, Remove(d, e) PROVE ListInv'
  <2>1. /\ \A c \in Dir : entries'[c] = IF c = d THEN entries[c] \ {e} ELSE entries[c]
        /\ UNCHANGED <<stream, reply, dirPath>>
    BY <1>2 DEF Remove, handles, TypeOK
  <2>2. ASSUME NEW w \in Worker
        PROVE  /\ frame'[w].ever = frame[w].ever
               /\ frame'[w].stayed \subseteq frame[w].stayed
               /\ Lists(w, d) => e \notin frame'[w].stayed
    BY <1>0, <1>2 DEF Remove, Frame
  <2>3. ASSUME NEW w \in Worker, Lister(frame[w])
        PROVE  /\ frame'[w].stayed \subseteq entries'[dirPath[frame[w].h]]
               /\ entries'[dirPath[frame[w].h]] \subseteq frame'[w].ever
               /\ frame[w].listed \subseteq frame'[w].ever
    <3>1. /\ frame[w].stayed \subseteq entries[dirPath[frame[w].h]]
          /\ entries[dirPath[frame[w].h]] \subseteq frame[w].ever
          /\ frame[w].listed \subseteq frame[w].ever
      BY <2>3 DEF ListInv
    <3>2. dirPath[frame[w].h] = d => e \notin frame'[w].stayed
      BY <2>2, <2>3 DEF Lists, Lister
    <3> QED BY <1>0, <2>1, <2>2, <2>3, <3>1, <3>2
  <2>4. (ListingComplete /\ ListingSound)'
    BY <2>1 DEF ListInv, ListingComplete, ListingSound
  <2> QED BY <1>2, <2>1, <2>3, <2>4, NamesChange DEF ListInv, Lister, Goes
<1>3. ASSUME NEW h \in DirHandle, Close(h) PROVE ListInv'
  BY <1>3, ListKept DEF Close
<1>4. CASE UNCHANGED vars
  BY <1>4, ListKept DEF vars, handles
<1>5. \A op, n : /\ [NoReply EXCEPT !.op = op, !.result = n].stayed = {}
                 /\ [NoReply EXCEPT !.op = op, !.result = n].listed = {}
                 /\ [NoReply EXCEPT !.op = op].stayed = {}
                 /\ [NoReply EXCEPT !.op = op].listed = {}
                 /\ NoReply.stayed = {} /\ NoReply.listed = {}
  BY DEF NoReply
<1>6. ASSUME NEW w \in Worker, NEW h \in DirHandle,
             fuseOpendirFails(w, h) \/ fuseReaddirMissing(w, h)
      PROVE  ListInv'
  <2>1. /\ UNCHANGED <<entries, stream, dirPath, frame>>
        /\ \E r : reply' = [reply EXCEPT ![h] = r] /\ r.stayed = {} /\ r.listed = {}
    <3>1. /\ UNCHANGED <<entries, stream, dirPath, frame>>
          /\ \E op, n : reply' = [reply EXCEPT ![h] =
                           [NoReply EXCEPT !.op = op, !.result = n]]
      <4>1. CASE fuseOpendirFails(w, h)
        BY <4>1, Zenon DEF fuseOpendirFails
      <4>2. CASE fuseReaddirMissing(w, h)
        BY <4>2, Zenon DEF fuseReaddirMissing
      <4> QED BY <1>6, <4>1, <4>2
    <3>2. PICK r : /\ reply' = [reply EXCEPT ![h] = r]
                   /\ \E op, n : r = [NoReply EXCEPT !.op = op, !.result = n]
      BY <3>1
    <3>3. r.stayed = {} /\ r.listed = {}
      BY <1>5, <3>2
    <3> QED BY <3>1, <3>2, <3>3
  <2> QED BY <2>1, ListKept DEF TypeOK
<1>7. ASSUME NEW w \in Worker, NEW h \in DirHandle, NEW d \in Dir,
             NEW s \in Stream, NEW fd \in Fd, fuseOpendir(w, h, d, s, fd)
      PROVE  ListInv'
  <2>1. /\ \A t \in Stream : t # s => stream'[t] = stream[t]
        /\ \A g \in DirHandle : g # h => dirPath'[g] = dirPath[g]
        /\ reply' = [reply EXCEPT ![h] = NoReply] /\ UNCHANGED entries
        /\ \A v \in Worker : v # w => frame'[v] = frame[v]
        /\ dirState[h] = "free" /\ ~Open(s)
    BY <1>7 DEF fuseOpendir, TypeOK
  <2>2. ~Lister(frame'[w])
    BY <1>7 DEF fuseOpendir, IdleFrame, TypeOK, Lister
  <2>3. ASSUME NEW v \in Worker, frame[v].pc = "list"
        PROVE  frame[v].dh \in Stream /\ frame[v].dh # s
    BY <2>1, <2>3, ListedStream
  <2>4. \A g \in DirHandle : \/ reply'[g] = reply[g]
                             \/ reply'[g].stayed = {} /\ reply'[g].listed = {}
    BY <1>5, <2>1 DEF TypeOK
  <2> QED BY <1>0, <2>1, <2>2, <2>3, <2>4, ListKept
<1>8. ASSUME NEW w \in Worker, insertDir(w) \/ closedir(w) PROVE ListInv'
  <2>1. /\ UNCHANGED <<entries, reply, dirPath>>
        /\ \A v \in Worker : v # w => frame'[v] = frame[v]
        /\ \A t \in Stream : stream'[t] = stream[t] \/ stream'[t].seen = {}
    BY <1>8 DEF insertDir, closedir, handles, TypeOK, Closed
  <2>2. ~Lister(frame'[w])
    BY <1>0, <1>8 DEF insertDir, closedir, TypeOK, Frame, Lister
  <2>3. \A v \in Worker : frame[v].pc = "list" => frame[v].dh \in Stream
    BY ListedStream
  <2> QED BY <2>1, <2>2, <2>3, ListKept
<1>9. ASSUME NEW w \in Worker, storeDir(w) PROVE ListInv'
  <2>1. /\ UNCHANGED <<entries, stream, dirPath>> /\ ~Lister(frame'[w])
        /\ \A v \in Worker : v # w => frame'[v] = frame[v]
        /\ \E r : /\ reply' = [reply EXCEPT ![frame[w].h] = r]
                  /\ r.stayed = {} /\ r.listed = {}
    BY <1>0, <1>5, <1>9 DEF storeDir, Return, Lister, TypeOK
  <2> QED BY <2>1, ListKept DEF TypeOK
<1>10. ASSUME NEW w \in Worker, NEW h \in DirHandle, fuseReleasedirMissing(w, h)
       PROVE  ListInv'
  <2>1. /\ UNCHANGED <<entries, stream, frame>>
        /\ reply' = [reply EXCEPT ![h] = NoReply]
        /\ \A g \in DirHandle : g # h => dirPath'[g] = dirPath[g]
        /\ \A v \in Worker : frame[v].h # h
    BY <1>10 DEF fuseReleasedirMissing, ReleasedirRequest, Forgotten, Quiet, TypeOK
  <2>2. \A g \in DirHandle : \/ reply'[g] = reply[g]
                             \/ reply'[g].stayed = {} /\ reply'[g].listed = {}
    BY <1>5, <2>1 DEF TypeOK
  <2> QED BY <1>0, <2>1, <2>2, ListKept
<1>11. ASSUME NEW w \in Worker, NEW h \in DirHandle, fuseReleasedir(w, h)
       PROVE  ListInv'
  <2>1. /\ UNCHANGED <<entries, stream, reply, dirPath>> /\ ~Lister(frame'[w])
        /\ \A v \in Worker : v # w => frame'[v] = frame[v]
    BY <1>11 DEF fuseReleasedir, handles, IdleFrame, Lister, TypeOK
  <2> QED BY <2>1, ListKept
<1>12. ASSUME NEW w \in Worker, eraseDir(w) PROVE ListInv'
  <2>1. PICK h \in DirHandle, nodes \in SUBSET Fd :
          /\ h = frame[w].h /\ Erased(w, nodes) /\ Forgotten(h)
          /\ frame[w].pc = "erase" /\ UNCHANGED <<entries, stream>>
    BY <1>12 DEF eraseDir, Served, CallOK
  <2>2. ~Lister(frame'[w])
    BY <1>0, <2>1 DEF Erased, Lister
  <2>3. ASSUME NEW v \in Worker, v # w
        PROVE  /\ frame'[v].pc = frame[v].pc /\ frame'[v].h = frame[v].h
               /\ frame'[v].dh = frame[v].dh /\ frame'[v].listed = frame[v].listed
               /\ frame'[v].stayed = frame[v].stayed /\ frame'[v].ever = frame[v].ever
    BY <1>0, <2>1, <2>3 DEF Erased, Frame
  <2>4. \A v \in Worker : v # w /\ Lister(frame[v]) => frame[v].h # h
    BY <2>1 DEF OneCallPerHandle, Lister
  <2>5. /\ \A g \in DirHandle : g # h => dirPath'[g] = dirPath[g]
        /\ \A g \in DirHandle : \/ reply'[g] = reply[g]
                                \/ reply'[g].stayed = {} /\ reply'[g].listed = {}
    BY <1>5, <2>1 DEF Forgotten, TypeOK
  <2>6. \A v \in Worker : Lister(frame'[v]) => v # w /\ Lister(frame[v])
    BY <2>2, <2>3 DEF Lister
  <2>7. ASSUME NEW v \in Worker, Lister(frame'[v])
        PROVE  /\ frame'[v].pc = frame[v].pc
               /\ frame'[v].h = frame[v].h /\ frame'[v].dh = frame[v].dh
               /\ frame'[v].listed = frame[v].listed
               /\ frame'[v].stayed = frame[v].stayed
               /\ frame'[v].ever = frame[v].ever
               /\ dirPath'[frame[v].h] = dirPath[frame[v].h]
    BY <1>0, <2>3, <2>4, <2>5, <2>6, <2>7
  <2> QED BY <2>1, <2>5, <2>7, ListKept
<1>13. ASSUME NEW w \in Worker, NEW h \in DirHandle, fuseReaddir(w, h)
       PROVE  ListInv'
  <2>1. /\ frame'[w].pc = "found" /\ frame'[w].listed = {} /\ frame'[w].h = h
        /\ frame'[w].stayed = entries[dirPath[h]]
        /\ frame'[w].ever = entries[dirPath[h]]
    BY <1>13 DEF fuseReaddir, IdleFrame, TypeOK
  <2>2. /\ \A v \in Worker : v # w => frame'[v] = frame[v]
        /\ UNCHANGED <<entries, stream, dirPath, reply>>
    BY <1>13 DEF fuseReaddir, handles, TypeOK
  <2> QED BY <2>1, <2>2 DEF ListInv, ListingComplete, ListingSound, Lister
<1>14. ASSUME NEW w \in Worker, takeDir(w) PROVE ListInv'
  <2>1. PICK s \in Stream :
          frame' = [frame EXCEPT ![w].pc = "rewind", ![w].dh = s, ![w].it = NoFd]
    BY <1>14 DEF takeDir, Second
  <2>2. /\ frame'[w].pc = "rewind" /\ frame[w].pc = "found"
        /\ frame'[w].h = frame[w].h /\ frame'[w].listed = frame[w].listed
        /\ frame'[w].stayed = frame[w].stayed /\ frame'[w].ever = frame[w].ever
    BY <1>0, <1>14, <2>1 DEF takeDir, TypeOK, Frame
  <2>3. /\ \A v \in Worker : v # w => frame'[v] = frame[v]
        /\ UNCHANGED <<entries, stream, dirPath, reply>>
    BY <1>14, <2>1 DEF takeDir, handles, TypeOK
  <2> QED BY <2>2, <2>3 DEF ListInv, ListingComplete, ListingSound, Lister
<1>15. ASSUME NEW w \in Worker, rewinddir(w) PROVE ListInv'
  <2>1. /\ frame'[w].pc = "list" /\ frame'[w].listed = frame[w].listed
        /\ frame'[w].h = frame[w].h /\ frame'[w].dh = frame[w].dh
        /\ frame'[w].stayed = frame[w].stayed /\ frame'[w].ever = frame[w].ever
        /\ frame[w].pc = "rewind"
    BY <1>0, <1>15 DEF rewinddir, TypeOK, Frame
  <2>2. /\ UNCHANGED <<entries, dirPath, reply>> /\ stream'[frame[w].dh].seen = {}
        /\ \A t \in Stream : t # frame[w].dh => stream'[t] = stream[t]
        /\ \A v \in Worker : v # w => frame'[v] = frame[v]
    BY <1>15, ListedStream DEF rewinddir, handles, TypeOK
  <2>3. ASSUME NEW v \in Worker, v # w, frame[v].pc \in {"rewind", "list"}
        PROVE  frame[v].dh \in Stream /\ frame[v].dh # frame[w].dh
    BY <2>1, <2>3, OwnListing, ListedStream
  <2>4. (ListingComplete /\ ListingSound)'
    BY <2>2 DEF ListInv, ListingComplete, ListingSound
  <2> QED BY <2>1, <2>2, <2>3, <2>4 DEF ListInv, Lister
<1>16. ASSUME NEW w \in Worker, readdir(w) PROVE ListInv'
  <2>1. /\ frame[w].pc = "list" /\ Open(frame[w].dh) /\ frame[w].dh \in Stream
        /\ stream[frame[w].dh].dir = dirPath[frame[w].h]
    BY <1>16, ListedStream DEF readdir
  <2>2. PICK e : /\ stream' = [stream EXCEPT ![frame[w].dh].seen = @ \cup {e}]
                 /\ frame' = [frame EXCEPT ![w].listed = @ \cup {e}]
                 /\ e \in entries[dirPath[frame[w].h]]
    BY <1>16, <2>1 DEF readdir, Unread
  <2>3. /\ UNCHANGED <<entries, dirPath, reply>>
        /\ stream'[frame[w].dh].seen = stream[frame[w].dh].seen \cup {e}
        /\ \A t \in Stream : t # frame[w].dh => stream'[t] = stream[t]
        /\ \A v \in Worker : v # w => frame'[v] = frame[v]
    BY <1>16, <2>1, <2>2 DEF readdir, handles, TypeOK
  <2>4. /\ frame'[w].pc = "list" /\ frame'[w].listed = frame[w].listed \cup {e}
        /\ frame'[w].h = frame[w].h /\ frame'[w].dh = frame[w].dh
        /\ frame'[w].stayed = frame[w].stayed /\ frame'[w].ever = frame[w].ever
    BY <1>0, <2>1, <2>2 DEF TypeOK, Frame
  <2>5. ASSUME NEW v \in Worker, v # w, frame[v].pc \in {"rewind", "list"}
        PROVE  frame[v].dh \in Stream /\ frame[v].dh # frame[w].dh
    BY <2>1, <2>5, OwnListing, ListedStream
  <2>6. (ListingComplete /\ ListingSound)'
    BY <2>3 DEF ListInv, ListingComplete, ListingSound
  <2>7. e \in frame[w].ever
    BY <2>1, <2>2 DEF ListInv, Lister
  <2> QED BY <2>1, <2>3, <2>4, <2>5, <2>6, <2>7 DEF ListInv, Lister
<1>17. ASSUME NEW w \in Worker, readdirEnd(w) \/ readdirFails(w) PROVE ListInv'
  <2>1. /\ frame[w].pc = "list" /\ Open(frame[w].dh)
        /\ stream[frame[w].dh].dir = dirPath[frame[w].h]
    BY <1>17, ListedStream DEF readdirEnd, readdirFails
  <2>2. PICK cut \in BOOLEAN :
          /\ reply' = [reply EXCEPT ![frame[w].h] = Listing(w, cut)]
          /\ ~cut => entries[dirPath[frame[w].h]] \subseteq stream[frame[w].dh].seen
    BY <1>17, <2>1 DEF readdirEnd, readdirFails, Return, Unread
  <2>3. /\ UNCHANGED <<entries, stream, dirPath>> /\ frame'[w].pc = "idle"
        /\ \A v \in Worker : v # w => frame'[v] = frame[v]
    BY <1>0, <1>17 DEF readdirEnd, readdirFails, Return, TypeOK
  <2>4. /\ ~cut => frame[w].stayed \subseteq frame[w].listed
        /\ frame[w].listed \subseteq frame[w].ever
    BY <2>1, <2>2 DEF ListInv, Lister
  <2>5. (ListingComplete /\ ListingSound)'
    BY <2>2, <2>4 DEF ListInv, ListingComplete, ListingSound, Listing, TypeOK
  <2> QED BY <2>3, <2>5 DEF ListInv, Lister
<1> QED BY <1>1, <1>2, <1>3, <1>4, <1>6, <1>7, <1>8, <1>9, <1>10, <1>11, <1>12,
           <1>13, <1>14, <1>15, <1>16, <1>17 DEF Next, Environment, Serve, Resume

-----------------------------------------------------------------------------
(***************************************************************************)
(* The inductive invariant: what is known of every call always, and of the *)
(* streams, nodes and listings until a number is reused too early.         *)
(***************************************************************************)
Inv == CallInv /\ (~reused => CleanInv /\ ListInv)

LEMMA ReusedStays == ASSUME [Next]_vars, reused PROVE reused'
BY DEF Next, Environment, Serve, Resume, vars, Create, Remove, Close,
     fuseOpendirFails, fuseOpendir, insertDir, storeDir, fuseReaddirMissing,
     fuseReaddir, takeDir, rewinddir, readdir, readdirEnd, readdirFails,
     fuseReleasedirMissing, fuseReleasedir, closedir, eraseDir

LEMMA InvStep == ASSUME Inv, [Next]_vars PROVE Inv'
<1>1. CallInv'
  BY CallStep DEF Inv
<1>2. ~reused' => ~reused
  BY ReusedStays
<1>3. ~reused' => CleanInv' /\ ListInv'
  BY <1>2, CleanStep, ListStep DEF Inv
<1> QED BY <1>1, <1>3 DEF Inv

LEMMA Invariance == Spec => []Inv
<1>1. Init => Inv
  <2>1. Init => ListInv
    BY DEF Init, ListInv, ListingComplete, ListingSound, NoReply, IdleFrame, Lister
  <2> QED BY <2>1, CallInitially, CleanInitially DEF Inv
<1>2. Inv /\ [Next]_vars => Inv'
  BY InvStep
<1> QED BY <1>1, <1>2, PTL DEF Spec

(***************************************************************************)
(* For any number of threads: until a number is reused too early, every    *)
(* open directory has its own open stream, and every open stream a handle. *)
(***************************************************************************)
THEOREM HandlesFollowed == Spec => []FollowsHandlesUnlessReused
<1>1. Inv => FollowsHandlesUnlessReused
  BY CleanIsSafe DEF Inv, FollowsHandlesUnlessReused
<1> QED BY <1>1, Invariance, PTL

(***************************************************************************)
(* For any number of threads: without such a reuse nobody uses a node that *)
(* another thread has erased, or reads a DIR that another has closed.      *)
(***************************************************************************)
THEOREM NothingUsedAfterFree == Spec => []NoUseAfterFreeUnlessReused
<1>1. Inv => NoUseAfterFreeUnlessReused
  BY CleanIsSafe DEF Inv, NoUseAfterFreeUnlessReused
<1> QED BY <1>1, Invariance, PTL

(***************************************************************************)
(* For any number of threads, with names created and removed meanwhile:    *)
(* without such a reuse listings are complete and sound.                   *)
(***************************************************************************)
THEOREM ListingsRight == Spec => []ListsRightUnlessReused
<1>1. Inv => ListsRightUnlessReused
  BY DEF Inv, ListInv, ListsRightUnlessReused
<1> QED BY <1>1, Invariance, PTL

-----------------------------------------------------------------------------
(* One thread *)

OneWorker == \A v, w \in Worker : v = w

(* What an opendir has got is no number in use, and nobody is releasing.   *)
LEMMA NeverReused ==
  ASSUME OneWorker, Inv, ~reused, [Next]_vars PROVE ~reused'
<1> USE DEF Inv, CallInv, CleanInv
<1>1. ASSUME NEW w \in Worker, insertDir(w) PROVE fdDir[frame[w].fd] = NoStream
  <2> SUFFICES ASSUME fdDir[frame[w].fd] # NoStream PROVE FALSE
    OBVIOUS
  <2>1. frame[w].pc = "insert" /\ frame[w].fd \in Fd
    BY <1>1 DEF insertDir, Served, CallOK
  <2>2. \A v \in Worker : frame[v].pc = "insert"
    BY <2>1 DEF OneWorker
  <2>3. PICK h \in DirHandle : InUse(h) /\ fh[h] = frame[w].fd
    BY <2>1, <2>2 DEF EntryOwned
  <2>4. Live(h)
    BY <2>2, <2>3 DEF Live
  <2> QED BY <2>1, <2>3, <2>4 DEF Opening, Opener
<1>2. ~reused'
  BY <1>1 DEF Next, Environment, Serve, Resume, vars, Create, Remove, Close,
     fuseOpendirFails, fuseOpendir, insertDir, storeDir, fuseReaddirMissing,
     fuseReaddir, takeDir, rewinddir, readdir, readdirEnd, readdirFails,
     fuseReleasedirMissing, fuseReleasedir, closedir, eraseDir
<1> QED BY <1>2

LEMMA SingleInvariance == OneWorker => (Spec => [](Inv /\ ~reused))
<1> SUFFICES ASSUME OneWorker PROVE Spec => [](Inv /\ ~reused)
  OBVIOUS
<1>1. Init => ~reused
  BY DEF Init
<1>2. Inv /\ ~reused /\ [Next]_vars => ~reused'
  BY NeverReused
<1> QED BY <1>1, <1>2, Invariance, PTL DEF Spec

(***************************************************************************)
(* With one thread ("-s"), for any number of handles and reused numbers:   *)
(* fi->fh of an open directory leads to its own stream, still open.        *)
(***************************************************************************)
THEOREM SingleHasStream == OneWorker => (Spec => []OpenDirHasStream)
<1>1. Inv /\ ~reused => OpenDirHasStream
  BY CleanIsSafe DEF Inv
<1> QED BY <1>1, SingleInvariance, PTL

(***************************************************************************)
(* With one thread, no stream stays open once its handle is released.      *)
(***************************************************************************)
THEOREM SingleLeaksNothing == OneWorker => (Spec => []StreamHasHandle)
<1>1. Inv /\ ~reused => StreamHasHandle
  BY CleanIsSafe DEF Inv
<1> QED BY <1>1, SingleInvariance, PTL

(***************************************************************************)
(* With one thread, a listing that no error cuts short is complete, also   *)
(* when the same handle is listed again.                                   *)
(***************************************************************************)
THEOREM SingleListsAll == OneWorker => (Spec => []ListingComplete)
<1>1. Inv /\ ~reused => ListingComplete
  BY DEF Inv, ListInv
<1> QED BY <1>1, SingleInvariance, PTL
=============================================================================
