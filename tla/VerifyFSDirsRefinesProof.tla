---------------------- MODULE VerifyFSDirsRefinesProof ----------------------
(***************************************************************************)
(* VerifyFSDirs implements DirectoryAccess, for every number of handles,   *)
(* directories, names and descriptors: with one thread for ever, and with  *)
(* more until a descriptor number is reused before its node is erased.     *)
(***************************************************************************)
EXTENDS VerifyFSDirsProof, VerifyFSDirsRefines

(* What holds of every state until a number is reused too early. *)
DirsInv == CallInv /\ CleanInv /\ ListInv

-----------------------------------------------------------------------------
(* What a client sees *)

LEMMA ListerIsServed ==
  ASSUME CallInv, NEW h \in DirHandle, NEW w \in Listers(h)
  PROVE  /\ w \in Worker /\ frame[w].pc \in {"found", "rewind", "list"}
         /\ frame[w].h = h /\ dirState[h] = "open" /\ dirPath[h] \in Dir
         /\ Listers(h) = {w}
         /\ Listings(h) = {[stayed |-> frame[w].stayed, ever |-> frame[w].ever]}
<1>1. /\ w \in Worker /\ frame[w].pc \in {"found", "rewind", "list"}
      /\ frame[w].h = h /\ dirState[h] = "open" /\ dirPath[h] \in Dir
  BY DEF Listers, CallInv, Served, CallOK, HandleHasDir
<1>2. Listers(h) = {w}
  BY <1>1 DEF Listers, CallInv, OneCallPerHandle
<1>3. Listings(h) = {[stayed |-> frame[w].stayed, ever |-> frame[w].ever]}
  BY <1>2 DEF Listings
<1> QED BY <1>1, <1>2, <1>3

LEMMA NoLister ==
  ASSUME NEW h \in DirHandle, Listers(h) = {} PROVE Listings(h) = {}
BY DEF Listings

(* A call changes the listing of its own handle at most. *)
CallOf(w, h) ==
  /\ frame[w].pc \in {"found", "rewind", "list"} => frame[w].h = h
  /\ frame'[w].pc \in {"found", "rewind", "list"} => frame'[w].h = h
  /\ \A v \in Worker : v # w =>
       /\ frame'[v].pc = frame[v].pc /\ frame'[v].h = frame[v].h
       /\ frame'[v].stayed = frame[v].stayed /\ frame'[v].ever = frame[v].ever

LEMMA OtherListings ==
  ASSUME NEW w \in Worker, NEW h \in DirHandle, CallOf(w, h),
         NEW g \in DirHandle, g # h
  PROVE  Listings(g)' = Listings(g)
<1>1. ASSUME NEW v \in Listers(g)
      PROVE  /\ v \in Listers(g)' /\ frame'[v].stayed = frame[v].stayed
             /\ frame'[v].ever = frame[v].ever
  BY <1>1 DEF CallOf, Listers
<1>2. ASSUME NEW v \in Listers(g)' PROVE v \in Listers(g)
  BY <1>2 DEF CallOf, Listers
<1>3. Listers(g)' = Listers(g)
  BY <1>1, <1>2
<1> QED BY <1>1, <1>3 DEF Listings

LEMMA ListingShown ==
  ASSUME NEW w \in Worker, NEW h \in DirHandle, CallOf(w, h)
  PROVE  /\ listingOf' = [listingOf EXCEPT ![h] = Listings(h)']
         /\ Listings(h)' = Listings(h) => listingOf' = listingOf
<1> DEFINE L == Listings(h)'
<1>1. \A g \in DirHandle : g # h => Listings(g)' = Listings(g)
  BY OtherListings
<1>2. /\ listingOf = [g \in DirHandle |-> Listings(g)]
      /\ listingOf' = [g \in DirHandle |-> Listings(g)']
  BY DEF listingOf
<1> QED BY <1>1, <1>2

LEMMA DirShown ==
  ASSUME NEW h \in DirHandle, NEW d,
         \A g \in DirHandle : g # h => /\ InUse(g)' = InUse(g)
                                       /\ InUse(g) => dirPath'[g] = dirPath[g],
         d = IF InUse(h)' THEN dirPath'[h] ELSE NoDir
  PROVE  /\ dirOf' = [dirOf EXCEPT ![h] = d]
         /\ dirOf[h] = d => dirOf' = dirOf
BY DEF dirOf

LEMMA ReplyShown ==
  ASSUME TypeOK, NEW h \in DirHandle, NEW r, reply' = [reply EXCEPT ![h] = r]
  PROVE  replyOf' = [replyOf EXCEPT ![h] = Shown(r)]
BY DEF TypeOK, replyOf

LEMMA Shows ==
  ASSUME DirsInv, NEW h \in DirHandle
  PROVE  /\ Access!Closed(h) <=> ~InUse(h)
         /\ Listers(h) = {} => listingOf[h] = {}
         /\ Quiet(h) => Listers(h) = {}
<1>1. Access!Closed(h) <=> ~InUse(h)
  BY DirSentinelAssumption
     DEF Access!Closed, dirOf, InUse, DirsInv, CallInv, HandleHasDir
<1>2. Listers(h) = {} => listingOf[h] = {}
  BY NoLister DEF listingOf
<1>3. Quiet(h) => Listers(h) = {}
  BY DEF Quiet, Listers
<1> QED BY <1>1, <1>2, <1>3

(* The answers DirectoryAccess speaks of are those of VerifyFSDirs. *)
LEMMA SameDirAnswers ==
  /\ Shown(NoReply) = Access!NoReply
  /\ Shown([NoReply EXCEPT !.op = "opendir"]) = Access!Answer("opendir", 0)
  /\ \A call \in {"opendir", "readdir"} :
       Shown([NoReply EXCEPT !.op = call, !.result = -ENOENT])
         = Access!Answer(call, -ENOENT)
  /\ Access!ENOENT = ENOENT
<1>1. Access!ENOENT = ENOENT
  BY DEF ENOENT, Access!ENOENT
<1>2. Shown(NoReply) = Access!NoReply
  BY DEF Shown, NoReply, Access!NoReply, Access!Answer
<1>3. ASSUME NEW call, NEW n, NEW r,
             r = [NoReply EXCEPT !.op = call, !.result = n]
      PROVE  Shown(r) = Access!Answer(call, n)
  <2>1. r.op = call /\ r.result = n /\ r.listed = {} /\ r.cut = FALSE
    BY <1>3 DEF NoReply
  <2> QED BY <2>1 DEF Shown, Access!Answer
<1>4. ASSUME NEW r, r = [NoReply EXCEPT !.op = "opendir"]
      PROVE  Shown(r) = Access!Answer("opendir", 0)
  <2>1. r.op = "opendir" /\ r.result = 0 /\ r.listed = {} /\ r.cut = FALSE
    BY <1>4 DEF NoReply
  <2> QED BY <2>1 DEF Shown, Access!Answer
<1> QED BY <1>1, <1>2, <1>3, <1>4
-----------------------------------------------------------------------------
(* Every step is one of DirectoryAccess *)

LEMMA CreateRefines ==
  ASSUME DirsInv, NEW d \in Dir, NEW e \in Entry, Create(d, e)
  PROVE  Access!Create(d, e)
<1> USE DEF DirsInv, CallInv
<1>1. /\ UNCHANGED <<dirState, dirPath, reply>>
      /\ entries' = [entries EXCEPT ![d] = @ \cup {e}]
  BY DEF Create, handles
<1>2. UNCHANGED <<dirOf, replyOf>>
  BY <1>1 DEF dirOf, replyOf, InUse
<1>3. ASSUME NEW h \in DirHandle
      PROVE  Listings(h)' =
               IF dirOf[h] = d THEN {[l EXCEPT !.ever = @ \cup {e}] : l \in Listings(h)}
               ELSE Listings(h)
  <2>1. Listers(h)' = Listers(h)
    BY NamesChange DEF Listers, Goes
  <2>2. CASE Listers(h) = {}
    BY <2>1, <2>2, NoLister DEF Listings
  <2>3. ASSUME NEW w \in Listers(h)
        PROVE  Listings(h)' =
               IF dirOf[h] = d THEN {[l EXCEPT !.ever = @ \cup {e}] : l \in Listings(h)}
               ELSE Listings(h)
    <3>1. /\ w \in Worker /\ frame[w].pc \in {"found", "rewind", "list"} /\ frame[w].h = h
          /\ dirOf[h] = dirPath[h] /\ Listers(h) = {w}
          /\ Listings(h) = {[stayed |-> frame[w].stayed, ever |-> frame[w].ever]}
      BY <2>3, ListerIsServed DEF dirOf, InUse
    <3>2. Listings(h)' = {[stayed |-> frame'[w].stayed, ever |-> frame'[w].ever]}
      BY <2>1, <3>1 DEF Listings
    <3>3. frame[w] \in Frame
      BY <3>1 DEF TypeOK
    <3>4. frame'[w] = IF dirPath[h] = d
                      THEN [frame[w] EXCEPT !.ever = @ \cup {e}] ELSE frame[w]
      BY <3>1 DEF Create, Lists
    <3>5. CASE dirPath[h] = d
      <4>1. frame'[w].stayed = frame[w].stayed
            /\ frame'[w].ever = frame[w].ever \cup {e}
        BY <3>3, <3>4, <3>5 DEF Frame
      <4> QED BY <3>1, <3>2, <3>5, <4>1
    <3>6. CASE dirPath[h] # d
      BY <3>1, <3>2, <3>4, <3>6
    <3> QED BY <3>5, <3>6
  <2> QED BY <2>2, <2>3
<1>4. listingOf' = [h \in DirHandle |->
        IF dirOf[h] = d THEN {[l EXCEPT !.ever = @ \cup {e}] : l \in listingOf[h]}
        ELSE listingOf[h]]
  BY <1>3 DEF listingOf
<1> QED BY <1>1, <1>2, <1>4 DEF Access!Create

LEMMA RemoveRefines ==
  ASSUME DirsInv, NEW d \in Dir, NEW e \in Entry, Remove(d, e)
  PROVE  Access!Remove(d, e)
<1> USE DEF DirsInv, CallInv
<1>1. /\ UNCHANGED <<dirState, dirPath, reply>>
      /\ entries' = [entries EXCEPT ![d] = @ \ {e}]
  BY DEF Remove, handles
<1>2. UNCHANGED <<dirOf, replyOf>>
  BY <1>1 DEF dirOf, replyOf, InUse
<1>3. ASSUME NEW h \in DirHandle
      PROVE  Listings(h)' =
               IF dirOf[h] = d THEN {[l EXCEPT !.stayed = @ \ {e}] : l \in Listings(h)}
               ELSE Listings(h)
  <2>1. Listers(h)' = Listers(h)
    BY NamesChange DEF Listers, Goes
  <2>2. CASE Listers(h) = {}
    BY <2>1, <2>2, NoLister DEF Listings
  <2>3. ASSUME NEW w \in Listers(h)
        PROVE  Listings(h)' =
               IF dirOf[h] = d THEN {[l EXCEPT !.stayed = @ \ {e}] : l \in Listings(h)}
               ELSE Listings(h)
    <3>1. /\ w \in Worker /\ frame[w].pc \in {"found", "rewind", "list"} /\ frame[w].h = h
          /\ dirOf[h] = dirPath[h] /\ Listers(h) = {w}
          /\ Listings(h) = {[stayed |-> frame[w].stayed, ever |-> frame[w].ever]}
      BY <2>3, ListerIsServed DEF dirOf, InUse
    <3>2. Listings(h)' = {[stayed |-> frame'[w].stayed, ever |-> frame'[w].ever]}
      BY <2>1, <3>1 DEF Listings
    <3>3. frame[w] \in Frame
      BY <3>1 DEF TypeOK
    <3>4. frame'[w] = IF dirPath[h] = d
                      THEN [frame[w] EXCEPT !.stayed = @ \ {e}] ELSE frame[w]
      BY <3>1 DEF Remove, Lists
    <3>5. CASE dirPath[h] = d
      <4>1. frame'[w].ever = frame[w].ever
            /\ frame'[w].stayed = frame[w].stayed \ {e}
        BY <3>3, <3>4, <3>5 DEF Frame
      <4> QED BY <3>1, <3>2, <3>5, <4>1
    <3>6. CASE dirPath[h] # d
      BY <3>1, <3>2, <3>4, <3>6
    <3> QED BY <3>5, <3>6
  <2> QED BY <2>2, <2>3
<1>4. listingOf' = [h \in DirHandle |->
        IF dirOf[h] = d THEN {[l EXCEPT !.stayed = @ \ {e}] : l \in listingOf[h]}
        ELSE listingOf[h]]
  BY <1>3 DEF listingOf
<1> QED BY <1>1, <1>2, <1>4 DEF Access!Remove

(* A directory is opened: asked for, refused, and handed over. *)
LEMMA OpendirRefines ==
  ASSUME DirsInv, NEW w \in Worker, NEW h \in DirHandle
  PROVE  /\ fuseOpendirFails(w, h) => Access!Refuse(h)
         /\ \A d \in Dir, s \in Stream, fd \in Fd :
              fuseOpendir(w, h, d, s, fd) => Access!Ask(h)
<1> USE DEF DirsInv, CallInv
<1>1. ASSUME fuseOpendirFails(w, h) PROVE Access!Refuse(h)
  <2>1. /\ ~InUse(h) /\ UNCHANGED <<entries, dirState, dirPath, frame>>
        /\ reply' = [reply EXCEPT ![h] = [NoReply EXCEPT !.op = "opendir",
                                                        !.result = -ENOENT]]
    BY <1>1 DEF fuseOpendirFails, InUse
  <2>2. UNCHANGED <<dirOf, listingOf>>
    BY <2>1 DEF dirOf, InUse, listingOf, Listings, Listers
  <2>3. replyOf' = [replyOf EXCEPT ![h] = Access!Answer("opendir", -ENOENT)]
    BY <2>1, ReplyShown, SameDirAnswers
  <2> QED BY <2>1, <2>2, <2>3, Shows, SameDirAnswers DEF Access!Refuse
<1>2. ASSUME NEW d \in Dir, NEW s \in Stream, NEW fd \in Fd,
             fuseOpendir(w, h, d, s, fd)
      PROVE  Access!Ask(h)
  <2>1. /\ ~InUse(h) /\ UNCHANGED entries
        /\ \A g \in DirHandle : InUse(g)' = InUse(g)
        /\ \A g \in DirHandle : InUse(g) => dirPath'[g] = dirPath[g]
        /\ reply' = [reply EXCEPT ![h] = NoReply]
    BY <1>2 DEF fuseOpendir, InUse, TypeOK
  <2>2. CallOf(w, h)
    BY <1>2 DEF fuseOpendir, CallOf, Idle, IdleFrame, TypeOK
  <2>3. Listers(h) = {} /\ Listers(h)' = {}
    <3>1. Listers(h) = {}
      BY <2>1, ListerIsServed DEF InUse
    <3>2. frame'[w].pc = "insert" /\ \A v \in Worker : v # w => frame'[v] = frame[v]
      BY <1>2 DEF fuseOpendir, IdleFrame, TypeOK
    <3> QED BY <3>1, <3>2 DEF Listers
  <2>4. listingOf' = listingOf
    BY <2>2, <2>3, ListingShown DEF Listings
  <2>5. dirOf' = dirOf
    BY <2>1 DEF dirOf
  <2> QED BY <2>1, <2>4, <2>5, Shows, ReplyShown, SameDirAnswers DEF Access!Ask
<1> QED BY <1>1, <1>2

LEMMA StoreRefines ==
  ASSUME DirsInv, NEW w \in Worker, storeDir(w)
  PROVE  \E h \in DirHandle, d \in Dir : Access!Open(h, d)
<1> USE DEF DirsInv, CallInv
<1>1. PICK h \in DirHandle :
        /\ h = frame[w].h /\ dirState[h] = "opening" /\ dirPath[h] \in Dir
        /\ frame[w].pc = "store"
  BY DEF storeDir, Served, CallOK, HandleHasDir
<1>2. /\ UNCHANGED <<entries, dirPath>>
      /\ dirState' = [dirState EXCEPT ![h] = "open"]
      /\ frame'[w].pc = "idle"
      /\ \A v \in Worker : v # w => frame'[v] = frame[v]
      /\ reply' = [reply EXCEPT ![h] = [NoReply EXCEPT !.op = "opendir"]]
  BY <1>1 DEF storeDir, Return, IdleFrame, TypeOK
<1>3. CallOf(w, h)
  BY <1>1, <1>2 DEF CallOf
<1>4. Listers(h)' = Listers(h) /\ Listings(h)' = Listings(h)
  <2>1. Listers(h) = {}
    BY <1>1, ListerIsServed
  <2>2. Listers(h)' = {}
    BY <1>2, <2>1 DEF Listers
  <2> QED BY <2>1, <2>2 DEF Listings
<1>5. listingOf' = listingOf
  BY <1>1, <1>3, <1>4, ListingShown
<1>6. dirOf' = [dirOf EXCEPT ![h] = dirPath[h]]
  <2>1. InUse(h)' /\ \A g \in DirHandle : g # h => InUse(g)' = InUse(g)
    BY <1>1, <1>2 DEF InUse, TypeOK
  <2> QED BY <1>1, <1>2, <2>1, DirShown
<1>7. replyOf' = [replyOf EXCEPT ![h] = Access!Answer("opendir", 0)]
  BY <1>1, <1>2, ReplyShown, SameDirAnswers
<1>8. Access!Closed(h)
  BY <1>1, Shows DEF InUse
<1> QED BY <1>1, <1>2, <1>5, <1>6, <1>7, <1>8 DEF Access!Open

(* A listing begins, and is not refused. *)
LEMMA ReaddirRefines ==
  ASSUME DirsInv, NEW w \in Worker, NEW h \in DirHandle
  PROVE  /\ ~fuseReaddirMissing(w, h)
         /\ fuseReaddir(w, h) => Access!BeginListing(h)
<1> USE DEF DirsInv, CallInv
<1>1. ASSUME ReaddirRequest(w, h)
      PROVE  /\ ~Access!Closed(h) /\ listingOf[h] = {} /\ Listers(h) = {}
             /\ InUse(h) /\ dirOf[h] = dirPath[h] /\ frame[w].pc = "idle"
             /\ dirPath[h] \in Dir
  BY <1>1, Shows
     DEF ReaddirRequest, InUse, dirOf, Idle, HandleHasDir
<1>2. ~fuseReaddirMissing(w, h)
  BY <1>1, DirSentinelAssumption DEF fuseReaddirMissing, CleanInv, HasNode
<1>3. ASSUME fuseReaddir(w, h) PROVE Access!BeginListing(h)
  <2>0. ReaddirRequest(w, h)
    BY <1>3 DEF fuseReaddir
  <2>1. /\ UNCHANGED <<entries, dirState, dirPath, reply>>
        /\ frame'[w].pc = "found" /\ frame'[w].h = h
        /\ frame'[w].stayed = entries[dirPath[h]]
        /\ frame'[w].ever = entries[dirPath[h]]
        /\ \A v \in Worker : v # w => frame'[v] = frame[v]
    BY <1>3 DEF fuseReaddir, handles, IdleFrame, TypeOK
  <2>2. UNCHANGED <<dirOf, replyOf>>
    BY <2>1 DEF dirOf, InUse, replyOf
  <2>3. CallOf(w, h)
    BY <1>1, <2>0, <2>1 DEF CallOf
  <2>4. Listers(h)' = {w}
    BY <1>1, <2>0, <2>1 DEF Listers
  <2>5. Listings(h)' = {[stayed |-> entries[dirOf[h]], ever |-> entries[dirOf[h]]]}
    BY <1>1, <2>0, <2>1, <2>4 DEF Listings
  <2> QED BY <1>1, <2>0, <2>1, <2>2, <2>3, <2>5, ListingShown
          DEF Access!BeginListing
<1> QED BY <1>2, <1>3

(* What comes between changes nothing a client sees. *)
LEMMA ListRefines ==
  ASSUME DirsInv, NEW w \in Worker, takeDir(w) \/ rewinddir(w) \/ readdir(w)
  PROVE  UNCHANGED Access!vars
<1> USE DEF DirsInv, CallInv
<1>1. /\ frame[w].h \in DirHandle /\ frame[w] \in Frame
      /\ frame[w].pc \in {"found", "rewind", "list"}
  BY DEF takeDir, rewinddir, readdir, Served, CallOK, TypeOK
<1>2. /\ UNCHANGED <<entries, dirState, dirPath, reply>>
      /\ \A v \in Worker : v # w => frame'[v] = frame[v]
      /\ frame'[w].h = frame[w].h /\ frame'[w].pc \in {"found", "rewind", "list"}
      /\ frame'[w].stayed = frame[w].stayed /\ frame'[w].ever = frame[w].ever
  <2>1. CASE rewinddir(w)
    BY <1>1, <2>1 DEF rewinddir, handles, TypeOK, Frame
  <2>2. CASE readdir(w)
    <3>1. PICK e : frame' = [frame EXCEPT ![w].listed = @ \cup {e}]
      BY <2>2 DEF readdir
    <3> QED BY <1>1, <2>2, <3>1 DEF readdir, handles, TypeOK, Frame
  <2>3. CASE takeDir(w)
    <3>1. PICK s : frame' = [frame EXCEPT ![w].pc = "rewind", ![w].dh = s,
                                          ![w].it = NoFd]
      BY <2>3 DEF takeDir
    <3> QED BY <1>1, <2>3, <3>1 DEF takeDir, handles, TypeOK, Frame
  <2> QED BY <2>1, <2>2, <2>3
<1>3. UNCHANGED <<dirOf, replyOf>>
  BY <1>2 DEF dirOf, InUse, replyOf
<1>4. ASSUME NEW g \in DirHandle PROVE Listings(g)' = Listings(g)
  <2>1. Listers(g)' = Listers(g)
    BY <1>1, <1>2 DEF Listers
  <2>2. \A v \in Listers(g) : /\ frame'[v].stayed = frame[v].stayed
                              /\ frame'[v].ever = frame[v].ever
    BY <1>2 DEF Listers
  <2> QED BY <2>1, <2>2 DEF Listings
<1>5. listingOf' = listingOf
  BY <1>4 DEF listingOf
<1> QED BY <1>2, <1>3, <1>5 DEF Access!vars

(* Its end gives the names read, all of those that stayed if no error came.*)
LEMMA ListEndRefines ==
  ASSUME DirsInv, NEW w \in Worker, readdirEnd(w) \/ readdirFails(w)
  PROVE  \E h \in DirHandle, names \in SUBSET Entry, cut \in BOOLEAN :
           Access!EndListing(h, names, cut)
<1> USE DEF DirsInv, CallInv
<1>1. /\ frame[w].pc = "list" /\ frame[w] \in Frame /\ frame[w].h \in DirHandle
      /\ frame[w].listed \in SUBSET Entry
  BY DEF readdirEnd, readdirFails, Served, CallOK, TypeOK, Frame
<1>2. PICK h \in DirHandle, names \in SUBSET Entry :
        h = frame[w].h /\ names = frame[w].listed
  BY <1>1
<1>3. PICK cut \in BOOLEAN :
        /\ reply' = [reply EXCEPT ![h] = Listing(w, cut)]
        /\ ~cut => entries[dirPath[h]] \subseteq stream[frame[w].dh].seen
  BY <1>1, <1>2, ListedStream DEF readdirEnd, readdirFails, Return, Unread
<1>4. /\ frame' = [frame EXCEPT ![w] = IdleFrame]
      /\ UNCHANGED <<entries, dirState, dirPath>>
  BY DEF readdirEnd, readdirFails, Return
<1>5. /\ frame'[w].pc = "idle"
      /\ \A v \in Worker : v # w => frame'[v] = frame[v]
  <2>1. IdleFrame.pc = "idle"
    BY DEF IdleFrame
  <2> QED BY <1>4, <2>1 DEF TypeOK
<1>6. /\ names \subseteq frame[w].ever
      /\ ~cut => frame[w].stayed \subseteq names
  BY <1>1, <1>2, <1>3 DEF ListInv, Lister
<1>7. w \in Listers(h)
  BY <1>1, <1>2 DEF Listers
<1>8. /\ listingOf[h] = {[stayed |-> frame[w].stayed, ever |-> frame[w].ever]}
      /\ Listers(h) = {w}
  BY <1>7, ListerIsServed DEF listingOf
<1>9. Listings(h)' = {}
  <2>1. Listers(h)' = {}
    BY <1>5, <1>8 DEF Listers
  <2> QED BY <2>1 DEF Listings
<1>10. listingOf' = [listingOf EXCEPT ![h] = {}]
  <2>1. CallOf(w, h)
    BY <1>2, <1>5 DEF CallOf
  <2> QED BY <1>9, <2>1, ListingShown
<1>11. replyOf' = [replyOf EXCEPT ![h] = [op |-> "readdir", result |-> 0,
                                         listed |-> names, cut |-> cut]]
  <2>1. Shown(Listing(w, cut)) = [op |-> "readdir", result |-> 0,
                                  listed |-> names, cut |-> cut]
    BY <1>2 DEF Shown, Listing
  <2> QED BY <1>3, <2>1, ReplyShown
<1>12. UNCHANGED dirOf
  BY <1>4 DEF dirOf, InUse
<1>13. \E l \in listingOf[h] : names \subseteq l.ever /\ (cut \/ l.stayed \subseteq names)
  BY <1>6, <1>8
<1>14. Access!EndListing(h, names, cut)
  BY <1>4, <1>10, <1>11, <1>12, <1>13 DEF Access!EndListing
<1> QED BY <1>14

(* A handle is forgotten when its releasedir ends. *)
LEMMA ForgottenRefines ==
  ASSUME DirsInv, NEW w \in Worker, NEW h \in DirHandle, dirState[h] = "closing",
         CallOf(w, h), Listings(h)' = {}, Forgotten(h), UNCHANGED entries
  PROVE  Access!Close(h)
<1> USE DEF DirsInv, CallInv
<1>1. ~Access!Closed(h)
  BY Shows DEF InUse
<1>2. Listers(h) = {} /\ listingOf[h] = {}
  BY ListerIsServed, Shows
<1>3. Listings(h) = {}
  BY <1>2, NoLister
<1>4. listingOf' = listingOf
  BY <1>3, ListingShown
<1>5. dirOf' = [dirOf EXCEPT ![h] = NoDir]
  <2>1. ~InUse(h)' /\ \A g \in DirHandle : g # h =>
          InUse(g)' = InUse(g) /\ dirPath'[g] = dirPath[g]
    BY DEF Forgotten, InUse, TypeOK
  <2> QED BY <2>1, DirShown
<1>6. replyOf' = [replyOf EXCEPT ![h] = Access!NoReply]
  BY ReplyShown, SameDirAnswers DEF Forgotten
<1> QED BY <1>1, <1>2, <1>4, <1>5, <1>6 DEF Access!Close

LEMMA ReleaseRefines ==
  ASSUME DirsInv, NEW w \in Worker, NEW h \in DirHandle
  PROVE  /\ ~fuseReleasedirMissing(w, h)
         /\ fuseReleasedir(w, h) => UNCHANGED Access!vars
<1> USE DEF DirsInv, CallInv
<1>1. ~fuseReleasedirMissing(w, h)
  BY DirSentinelAssumption DEF fuseReleasedirMissing, ReleasedirRequest, InUse,
     CleanInv, HasNode
<1>2. ASSUME fuseReleasedir(w, h) PROVE UNCHANGED Access!vars
  <2>1. /\ UNCHANGED <<entries, dirState, dirPath, reply>> /\ Listers(h) = {}
        /\ frame[w].pc = "idle" /\ frame'[w].pc = "release"
        /\ \A v \in Worker : v # w => frame'[v] = frame[v]
    BY <1>2, Shows DEF fuseReleasedir, ReleasedirRequest, handles, Idle,
       IdleFrame, TypeOK
  <2>2. CallOf(w, h) /\ Listers(h)' = {}
    BY <2>1 DEF CallOf, Listers
  <2>3. listingOf' = listingOf
    BY <2>1, <2>2, ListingShown DEF Listings
  <2> QED BY <2>1, <2>3 DEF Access!vars, dirOf, InUse, replyOf
<1> QED BY <1>1, <1>2

(* Neither does a step of a call that has no listing to show.              *)
LEMMA QuietRefines ==
  ASSUME DirsInv, NEW w \in Worker, insertDir(w) \/ closedir(w)
  PROVE  UNCHANGED Access!vars
<1> USE DEF DirsInv, CallInv
<1>1. /\ UNCHANGED <<entries, dirState, dirPath, reply>>
      /\ \A v \in Worker : v # w => frame'[v] = frame[v]
  BY DEF insertDir, closedir, handles, TypeOK
<1>2. /\ frame[w].pc \in {"insert", "release"}
      /\ frame'[w].pc \in {"store", "erase"}
  BY DEF insertDir, closedir, TypeOK, Frame
<1>3. ASSUME NEW g \in DirHandle PROVE Listings(g)' = Listings(g)
  <2>1. Listers(g)' = Listers(g)
    BY <1>1, <1>2 DEF Listers
  <2>2. \A v \in Listers(g) : frame'[v] = frame[v]
    BY <1>1, <1>2 DEF Listers
  <2> QED BY <2>1, <2>2 DEF Listings
<1> QED BY <1>1, <1>3 DEF Access!vars, dirOf, InUse, replyOf, listingOf

LEMMA CloseRefines ==
  ASSUME DirsInv, NEW h \in DirHandle, Close(h) PROVE UNCHANGED Access!vars
<1>1. UNCHANGED <<entries, dirPath, reply, frame>>
  BY DEF Close
<1>2. \A g \in DirHandle : InUse(g)' = InUse(g)
  BY DEF Close, InUse, DirsInv, CallInv, TypeOK
<1>3. dirOf' = dirOf /\ listingOf' = listingOf /\ replyOf' = replyOf
  BY <1>1, <1>2 DEF dirOf, listingOf, Listings, Listers, replyOf
<1> QED BY <1>1, <1>3 DEF Access!vars

LEMMA EraseRefines ==
  ASSUME DirsInv, NEW w \in Worker, eraseDir(w)
  PROVE  \E h \in DirHandle : Access!Close(h)
<1> USE DEF DirsInv, CallInv
<1>1. PICK h \in DirHandle : h = frame[w].h /\ dirState[h] = "closing"
  BY DEF eraseDir, Served, CallOK
<1>2. /\ frame[w].pc = "erase" /\ Forgotten(h) /\ UNCHANGED entries
      /\ frame'[w] = IdleFrame
      /\ \A v \in Worker : v # w => \/ frame'[v] = frame[v]
                                   \/ frame'[v] = [frame[v] EXCEPT !.it = Dangling]
  BY <1>1 DEF eraseDir, Erased
<1>3. frame'[w].pc = "idle"
  BY <1>2 DEF IdleFrame
<1>4. ASSUME NEW v \in Worker, v # w
      PROVE  /\ frame'[v].pc = frame[v].pc /\ frame'[v].h = frame[v].h
             /\ frame'[v].stayed = frame[v].stayed /\ frame'[v].ever = frame[v].ever
  <2>1. frame[v] \in Frame
    BY DEF TypeOK
  <2> QED BY <1>2, <1>4, <2>1 DEF Frame
<1>5. CallOf(w, h)
  BY <1>2, <1>3, <1>4 DEF CallOf
<1>6. Listings(h)' = {}
  <2>1. Listers(h) = {}
    BY <1>1, ListerIsServed
  <2>2. Listers(h)' = {}
    BY <1>3, <1>4, <2>1 DEF Listers
  <2> QED BY <2>2 DEF Listings
<1> QED BY <1>1, <1>2, <1>5, <1>6, ForgottenRefines

LEMMA DirsStepRefines ==
  ASSUME DirsInv, [Next]_vars
  PROVE  Access!Next \/ UNCHANGED Access!vars
<1>1. ASSUME NEW w \in Worker, Resume(w)
      PROVE  Access!Next \/ UNCHANGED Access!vars
  BY <1>1, QuietRefines, StoreRefines, EraseRefines, ListRefines, ListEndRefines
     DEF Resume, Access!Next
<1>2. ASSUME NEW w \in Worker, NEW h \in DirHandle, Serve(w, h)
      PROVE  Access!Next \/ UNCHANGED Access!vars
  BY <1>2, OpendirRefines, ReaddirRefines, ReleaseRefines DEF Serve, Access!Next
<1>3. ASSUME Environment PROVE Access!Next \/ UNCHANGED Access!vars
  BY <1>3, CloseRefines, CreateRefines, RemoveRefines
     DEF Environment, Access!Next
<1>4. CASE UNCHANGED vars
  BY <1>4 DEF vars, handles, Access!vars, dirOf, listingOf, Listings, Listers,
              replyOf, InUse
<1> QED BY <1>1, <1>2, <1>3, <1>4 DEF Next

LEMMA DirsInitRefines == Init => Access!Init
<1> SUFFICES ASSUME Init PROVE Access!Init
  OBVIOUS
<1>1. /\ entries \in [Dir -> SUBSET Entry]
      /\ dirOf = [h \in DirHandle |-> NoDir]
      /\ replyOf = [h \in DirHandle |-> Access!NoReply]
  BY SameDirAnswers DEF Init, dirOf, InUse, replyOf
<1>2. \A h \in DirHandle : Listers(h) = {}
  BY DEF Init, Listers, IdleFrame
<1>3. listingOf = [h \in DirHandle |-> {}]
  BY <1>2 DEF listingOf, Listings
<1> QED BY <1>1, <1>3 DEF Access!Init

(***************************************************************************)
(* For every number of threads: step by step until an opendir comes to a   *)
(* node that another thread has still to erase, opening, listing and       *)
(* releasing directories is what DirectoryAccess allows.                   *)
(***************************************************************************)
THEOREM ImplementedUntilReused == Spec => ImplementsUntilReused
<1>1. Init => Access!Init
  BY DirsInitRefines
<1>2. Inv /\ Inv' /\ [Next]_vars => [Access!Next \/ reused']_(Access!vars)
  <2> SUFFICES ASSUME Inv, [Next]_vars, ~reused'
               PROVE  Access!Next \/ UNCHANGED Access!vars
    OBVIOUS
  <2>1. ~reused
    BY ReusedStays
  <2> QED BY <2>1, DirsStepRefines DEF Inv, DirsInv
<1> QED BY <1>1, <1>2, Invariance, PTL DEF Spec, ImplementsUntilReused

(***************************************************************************)
(* With one thread ("-s"), for every number of handles, directories, names *)
(* and descriptors: fuseOpendir, fuseReaddir and fuseReleasedir implement  *)
(* DirectoryAccess, although numbers and DIR objects are reused.           *)
(***************************************************************************)
THEOREM DirectoriesImplemented == OneWorker => (Spec => ImplementsDirectories)
<1> SUFFICES ASSUME OneWorker PROVE Spec => ImplementsDirectories
  OBVIOUS
<1>1. Init => Access!Init
  BY DirsInitRefines
<1>2. Inv /\ ~reused /\ [Next]_vars => [Access!Next]_(Access!vars)
  BY DirsStepRefines DEF Inv, DirsInv
<1> QED BY <1>1, <1>2, SingleInvariance, PTL
        DEF Spec, ImplementsDirectories, Access!Spec
=============================================================================
