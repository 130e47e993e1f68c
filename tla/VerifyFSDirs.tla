---------------------------- MODULE VerifyFSDirs ----------------------------
(***************************************************************************)
(* The directories of a mounted VerifyFS: fuseOpendir, fuseReaddir and     *)
(* fuseReleasedir, run by the threads of libfuse's loop.  fdDir maps the   *)
(* number of a directory stream's descriptor, which is also the fi->fh of  *)
(* its handle, to the DIR, and nothing locks it.  The C library reuses the *)
(* numbers and the DIR objects of closed streams.                          *)
(*                                                                         *)
(* A step is one call of the C library or one access to fdDir or to a node *)
(* of it.  A node that another thread has erased, and a DIR that another   *)
(* has closed, may still be used: that is undefined, and the model has what*)
(* freed memory may lead to, save the end of the process.                  *)
(***************************************************************************)
EXTENDS Integers

CONSTANTS
  Dir,        \* directories of the untrusted folder
  Entry,      \* names in a directory
  Fd,         \* descriptor numbers the process may use
  Stream,     \* addresses of DIR objects
  DirHandle,  \* open directory descriptions of the kernel
  Worker,     \* threads of libfuse's loop
  NoDir, NoFd, NoStream, NoHandle, Dangling, Null

ASSUME DirSentinelAssumption ==
  /\ NoDir \notin Dir /\ NoFd \notin Fd /\ Dangling \notin Fd
  /\ NoStream \notin Stream /\ NoHandle \notin DirHandle /\ NoFd # Dangling
  /\ Null \notin Stream /\ Null # NoStream

ENOENT == 2

VARIABLES
  entries,  \* untrusted folder: the names in a directory
  stream,   \* the DIR at an address: its descriptor, directory, names read
  fdDir,    \* descriptor -> DIR*, Null in a new node, NoStream without a node
  dirState, \* kernel: life of a handle
  dirPath,  \* kernel: the directory of a handle
  fh,       \* kernel: fi->fh of a handle
  reply,    \* what the last call on a handle returned
  frame,    \* worker -> the call it runs, with its locals
  reused    \* history: an opendir has found the node of a handle that was
            \* still being released, as its number is free again before

handles == <<dirState, dirPath, fh, reply>>
vars == <<entries, stream, fdDir, handles, frame, reused>>

Closed == [fd |-> NoFd, dir |-> NoDir, seen |-> {}]
NoReply == [op |-> "none", result |-> 0, listed |-> {}, stayed |-> {},
            ever |-> {}, cut |-> FALSE]

(***************************************************************************)
(* fd is the number an opendir got, dh the DIR the call works with, it the *)
(* node of fdDir its iterator or reference points to, and listed the names *)
(* given to filler.  Of the properties only, as is the cut of a reply:     *)
(* stayed and ever, the names that have been in the handle's directory     *)
(* throughout, and at some time, since the listing began.                  *)
(***************************************************************************)
IdleFrame == [pc |-> "idle", h |-> NoHandle, fd |-> NoFd, dh |-> NoStream,
              it |-> NoFd, listed |-> {}, stayed |-> {}, ever |-> {}]

Init ==
  /\ entries \in [Dir -> SUBSET Entry]
  /\ stream = [s \in Stream |-> Closed]
  /\ fdDir = [fd \in Fd |-> NoStream]
  /\ dirState = [h \in DirHandle |-> "free"]
  /\ dirPath = [h \in DirHandle |-> NoDir]
  /\ fh = [h \in DirHandle |-> NoFd]
  /\ reply = [h \in DirHandle |-> NoReply]
  /\ frame = [w \in Worker |-> IdleFrame]
  /\ reused = FALSE

Idle(w) == frame[w].pc = "idle"
Quiet(h) == \A w \in Worker : frame[w].h # h
InUse(h) == dirState[h] \in {"open", "closing"}
Open(s) == stream[s].fd # NoFd

(* The DIRs i->second may give: a freed node keeps the old one until its   *)
(* memory becomes another node.                                            *)
Second(it) == IF it = Dangling THEN Stream ELSE {fdDir[it]} \cap Stream

Return(w, h, answer) ==
  /\ frame' = [frame EXCEPT ![w] = IdleFrame]
  /\ reply' = [reply EXCEPT ![h] = answer]

-----------------------------------------------------------------------------
(* Any process may create and remove names while a directory is listed. *)

Lists(w, d) ==
  frame[w].pc \in {"found", "rewind", "list"} /\ dirPath[frame[w].h] = d

Create(d, e) ==
  /\ entries' = [entries EXCEPT ![d] = @ \cup {e}]
  /\ frame' = [w \in Worker |->
       IF Lists(w, d) THEN [frame[w] EXCEPT !.ever = @ \cup {e}] ELSE frame[w]]
  /\ UNCHANGED <<stream, fdDir, handles, reused>>

Remove(d, e) ==
  /\ entries' = [entries EXCEPT ![d] = @ \ {e}]
  /\ frame' = [w \in Worker |->
       IF Lists(w, d) THEN [frame[w] EXCEPT !.stayed = @ \ {e}] ELSE frame[w]]
  /\ UNCHANGED <<stream, fdDir, handles, reused>>

-----------------------------------------------------------------------------
(* fuseOpendir *)

(* opendir(3) fails for any reason: the code answers ENOENT for all. *)
fuseOpendirFails(w, h) ==
  /\ Idle(w) /\ dirState[h] = "free"
  /\ reply' = [reply EXCEPT ![h] = [NoReply EXCEPT !.op = "opendir",
                                                  !.result = -ENOENT]]
  /\ UNCHANGED <<entries, stream, fdDir, dirState, dirPath, fh, frame, reused>>

fuseOpendir(w, h, d, s, fd) ==
  /\ Idle(w) /\ dirState[h] = "free"
  /\ ~Open(s) /\ \A t \in Stream : stream[t].fd # fd
  /\ stream' = [stream EXCEPT ![s] = [fd |-> fd, dir |-> d, seen |-> {}]]
  /\ dirState' = [dirState EXCEPT ![h] = "opening"]
  /\ dirPath' = [dirPath EXCEPT ![h] = d]
  /\ reply' = [reply EXCEPT ![h] = NoReply]
  /\ frame' = [frame EXCEPT ![w] =
         [IdleFrame EXCEPT !.pc = "insert", !.h = h, !.fd = fd, !.dh = s]]
  /\ UNCHANGED <<entries, fdDir, fh, reused>>

(* fdDir[fi->fh]: a reference to the node of the number, new or found.     *)
insertDir(w) ==
  LET fd == frame[w].fd IN
  /\ frame[w].pc = "insert"
  /\ fdDir' = [fdDir EXCEPT ![fd] = IF @ = NoStream THEN Null ELSE @]
  /\ reused' = (reused \/ fdDir[fd] # NoStream)
  /\ frame' = [frame EXCEPT ![w].pc = "store", ![w].it = fd]
  /\ UNCHANGED <<entries, stream, handles>>

(* Mutant: forgets to set fi->fh. *)
storeDirUnnumbered(w) ==
  LET h == frame[w].h IN
  /\ frame[w].pc = "store"
  /\ dirState' = [dirState EXCEPT ![h] = "open"]
  /\ Return(w, h, [NoReply EXCEPT !.op = "opendir"])
  /\ UNCHANGED <<entries, stream, fdDir, dirPath, fh, reused>>

(* The nodes a write through a reference may reach. *)
Reached(it) ==
  IF it = Dangling THEN {{}} \cup {{fd} : fd \in {n \in Fd : fdDir[n] # NoStream}}
  ELSE {{it}}

(* = dh, and opendir returns 0 with the number in fi->fh. *)
storeDir(w) ==
  LET h == frame[w].h IN
  /\ frame[w].pc = "store"
  /\ \E nodes \in Reached(frame[w].it) :
       fdDir' = [fd \in Fd |-> IF fd \in nodes THEN frame[w].dh ELSE fdDir[fd]]
  /\ fh' = [fh EXCEPT ![h] = frame[w].fd]
  /\ dirState' = [dirState EXCEPT ![h] = "open"]
  /\ Return(w, h, [NoReply EXCEPT !.op = "opendir"])
  /\ UNCHANGED <<entries, stream, dirPath, reused>>

-----------------------------------------------------------------------------
(* fuseReaddir *)

ReaddirRequest(w, h) == Idle(w) /\ dirState[h] = "open" /\ Quiet(h)

fuseReaddirMissing(w, h) ==
  /\ ReaddirRequest(w, h) /\ fdDir[fh[h]] = NoStream
  /\ reply' = [reply EXCEPT ![h] = [NoReply EXCEPT !.op = "readdir",
                                                  !.result = -ENOENT]]
  /\ UNCHANGED <<entries, stream, fdDir, dirState, dirPath, fh, frame, reused>>

(* fdDir.find(fi->fh) *)
fuseReaddir(w, h) ==
  /\ ReaddirRequest(w, h) /\ fdDir[fh[h]] # NoStream
  /\ frame' = [frame EXCEPT ![w] =
       [IdleFrame EXCEPT !.pc = "found", !.h = h, !.it = fh[h],
                         !.stayed = entries[dirPath[h]],
                         !.ever = entries[dirPath[h]]]]
  /\ UNCHANGED <<entries, stream, fdDir, handles, reused>>

(* DIR* fdir = i->second *)
takeDir(w) ==
  /\ frame[w].pc = "found"
  /\ \E s \in Second(frame[w].it) :
       frame' = [frame EXCEPT ![w].pc = "rewind", ![w].dh = s, ![w].it = NoFd]
  /\ UNCHANGED <<entries, stream, fdDir, handles, reused>>

(* Mutant: reads on from where the last listing stopped. *)
rewinddirNot(w) ==
  /\ frame[w].pc = "rewind"
  /\ frame' = [frame EXCEPT ![w].pc = "list"]
  /\ UNCHANGED <<entries, stream, fdDir, handles, reused>>

rewinddir(w) ==
  /\ frame[w].pc = "rewind"
  /\ stream' = [stream EXCEPT ![frame[w].dh].seen = {}]
  /\ frame' = [frame EXCEPT ![w].pc = "list"]
  /\ UNCHANGED <<entries, fdDir, handles, reused>>

(* What readdir(3) may give next: any name at all if the DIR was closed.   *)
Unread(s) ==
  IF Open(s) THEN entries[stream[s].dir] \ stream[s].seen ELSE Entry

readdir(w) ==
  LET s == frame[w].dh IN
  /\ frame[w].pc = "list"
  /\ \E e \in Unread(s) :
       /\ stream' = IF Open(s) THEN [stream EXCEPT ![s].seen = @ \cup {e}]
                    ELSE stream
       /\ frame' = [frame EXCEPT ![w].listed = @ \cup {e}]
  /\ UNCHANGED <<entries, fdDir, handles, reused>>

Listing(w, cut) ==
  [op |-> "readdir", result |-> 0, listed |-> frame[w].listed,
   stayed |-> frame[w].stayed, ever |-> frame[w].ever, cut |-> cut]

readdirEnd(w) ==
  LET s == frame[w].dh IN
  /\ frame[w].pc = "list" /\ (Open(s) => Unread(s) = {})
  /\ Return(w, frame[w].h, Listing(w, FALSE))
  /\ UNCHANGED <<entries, stream, fdDir, dirState, dirPath, fh, reused>>

(* Mutant: starts the listing again after an error. *)
readdirFailsRetried(w) ==
  /\ frame[w].pc = "list"
  /\ frame' = [frame EXCEPT ![w].pc = "rewind"]
  /\ UNCHANGED <<entries, stream, fdDir, handles, reused>>

(* readdir(3) returns nullptr for an error too, and the answer is again 0. *)
readdirFails(w) ==
  /\ frame[w].pc = "list"
  /\ Return(w, frame[w].h, Listing(w, TRUE))
  /\ UNCHANGED <<entries, stream, fdDir, dirState, dirPath, fh, reused>>

-----------------------------------------------------------------------------
(* fuseReleasedir *)

Close(h) ==
  /\ dirState[h] = "open" /\ Quiet(h)
  /\ dirState' = [dirState EXCEPT ![h] = "closing"]
  /\ UNCHANGED <<entries, stream, fdDir, dirPath, fh, reply, frame, reused>>

(* The kernel forgets the handle once the call that releases it has ended. *)
Forgotten(h) ==
  /\ dirState' = [dirState EXCEPT ![h] = "free"]
  /\ dirPath' = [dirPath EXCEPT ![h] = NoDir]
  /\ fh' = [fh EXCEPT ![h] = NoFd]
  /\ reply' = [reply EXCEPT ![h] = NoReply]

ReleasedirRequest(w, h) == Idle(w) /\ dirState[h] = "closing" /\ Quiet(h)

fuseReleasedirMissing(w, h) ==
  /\ ReleasedirRequest(w, h) /\ fdDir[fh[h]] = NoStream
  /\ Forgotten(h)
  /\ UNCHANGED <<entries, stream, fdDir, frame, reused>>

(* fdDir.find(fi->fh) *)
fuseReleasedir(w, h) ==
  /\ ReleasedirRequest(w, h) /\ fdDir[fh[h]] # NoStream
  /\ frame' = [frame EXCEPT ![w] =
                  [IdleFrame EXCEPT !.pc = "release", !.h = h, !.it = fh[h]]]
  /\ UNCHANGED <<entries, stream, fdDir, handles, reused>>

(* Mutant: no closedir. *)
closedirNot(w) ==
  /\ frame[w].pc = "release"
  /\ frame' = [frame EXCEPT ![w].pc = "erase"]
  /\ UNCHANGED <<entries, stream, fdDir, handles, reused>>

(* closedir(i->second) gives the descriptor back to the process.  Of a DIR *)
(* that is closed already it closes whatever has the number now, or none.  *)
closedir(w) ==
  /\ frame[w].pc = "release"
  /\ \E s \in Second(frame[w].it), t \in Stream :
       /\ Open(s) => t = s
       /\ stream' = [stream EXCEPT ![t] = Closed]
  /\ frame' = [frame EXCEPT ![w].pc = "erase"]
  /\ UNCHANGED <<entries, fdDir, handles, reused>>

(* The nodes go, and iterators to them dangle from here on. *)
Erased(w, nodes) ==
  /\ fdDir' = [fd \in Fd |-> IF fd \in nodes THEN NoStream ELSE fdDir[fd]]
  /\ frame' = [v \in Worker |->
       IF v = w THEN IdleFrame
       ELSE IF frame[v].it \in nodes THEN [frame[v] EXCEPT !.it = Dangling]
       ELSE frame[v]]

(* Mutant: erases every entry. *)
eraseDirAll(w) ==
  /\ frame[w].pc = "erase"
  /\ Erased(w, Fd)
  /\ Forgotten(frame[w].h)
  /\ UNCHANGED <<entries, stream, reused>>

(* fdDir.erase(i); of a node that is gone already it may take any others. *)
eraseDir(w) ==
  /\ frame[w].pc = "erase"
  /\ \E nodes \in SUBSET Fd :
       /\ frame[w].it # Dangling => nodes = {frame[w].it}
       /\ Erased(w, nodes)
  /\ Forgotten(frame[w].h)
  /\ UNCHANGED <<entries, stream, reused>>

-----------------------------------------------------------------------------
Resume(w) ==
  \/ insertDir(w) \/ storeDir(w)
  \/ takeDir(w) \/ rewinddir(w) \/ readdir(w)
  \/ readdirEnd(w) \/ readdirFails(w)
  \/ closedir(w) \/ eraseDir(w)

Serve(w, h) ==
  \/ fuseOpendirFails(w, h)
  \/ \E d \in Dir, s \in Stream, fd \in Fd : fuseOpendir(w, h, d, s, fd)
  \/ fuseReaddirMissing(w, h) \/ fuseReaddir(w, h)
  \/ fuseReleasedirMissing(w, h) \/ fuseReleasedir(w, h)

Environment ==
  \/ \E d \in Dir, e \in Entry : Create(d, e) \/ Remove(d, e)
  \/ \E h \in DirHandle : Close(h)

Next ==
  \/ \E w \in Worker : Resume(w)
  \/ \E w \in Worker, h \in DirHandle : Serve(w, h)
  \/ Environment

Spec == Init /\ [][Next]_vars

(* A thread goes on with its call, and a RELEASEDIR that is in the kernel's*)
(* queue is taken up by a thread that is idle again and again.             *)
Fairness ==
  /\ \A w \in Worker : WF_vars(Resume(w))
  /\ \A h \in DirHandle :
       SF_vars(\E w \in Worker :
                 fuseReleasedir(w, h) \/ fuseReleasedirMissing(w, h))

FairSpec == Spec /\ Fairness

-----------------------------------------------------------------------------
Frame == [pc : {"idle", "insert", "store", "found", "rewind", "list",
                "release", "erase"},
          h : DirHandle \cup {NoHandle}, fd : Fd \cup {NoFd},
          dh : Stream \cup {NoStream}, it : Fd \cup {NoFd, Dangling},
          listed : SUBSET Entry, stayed : SUBSET Entry, ever : SUBSET Entry]

Reply == [op : {"none", "opendir", "readdir"}, result : {0, -ENOENT},
          listed : SUBSET Entry, stayed : SUBSET Entry, ever : SUBSET Entry,
          cut : BOOLEAN]

(* Every variable has its type, and the kernel knows the fi->fh of a handle*)
(* exactly as long as it may pass it to readdir and releasedir.            *)
TypeOK ==
  /\ entries \in [Dir -> SUBSET Entry]
  /\ stream \in [Stream -> [fd : Fd \cup {NoFd}, dir : Dir \cup {NoDir},
                            seen : SUBSET Entry]]
  /\ fdDir \in [Fd -> Stream \cup {NoStream, Null}]
  /\ dirState \in [DirHandle -> {"free", "opening", "open", "closing"}]
  /\ dirPath \in [DirHandle -> Dir \cup {NoDir}]
  /\ fh \in [DirHandle -> Fd \cup {NoFd}]
  /\ reply \in [DirHandle -> Reply]
  /\ frame \in [Worker -> Frame]
  /\ reused \in BOOLEAN
  /\ \A h \in DirHandle : fh[h] # NoFd <=> InUse(h)

(***************************************************************************)
(* An open directory can be listed: the entry its fi->fh leads to is a     *)
(* stream of that directory, still open, on that very descriptor.  fdDir   *)
(* has one entry per number, and numbers are reused.                       *)
(***************************************************************************)
OpenDirHasStream ==
  \A h \in DirHandle : dirState[h] = "open" =>
    /\ fdDir[fh[h]] \in Stream
    /\ stream[fdDir[fh[h]]].fd = fh[h]
    /\ stream[fdDir[fh[h]]].dir = dirPath[h]

(***************************************************************************)
(* Descriptors do not leak: a DIR is open only for a handle still to be    *)
(* released, or for a call that is about to hand it over.                  *)
(***************************************************************************)
StreamHasHandle ==
  \A s \in Stream : Open(s) =>
    \/ \E h \in DirHandle : InUse(h) /\ fh[h] = stream[s].fd
    \/ \E w \in Worker : frame[w].pc \in {"insert", "store"} /\ frame[w].dh = s

(***************************************************************************)
(* A listing that no error cuts short holds every name that was there from *)
(* its beginning to its end, also when the same handle is listed again,    *)
(* whatever other threads open, list and close meanwhile.                  *)
(***************************************************************************)
ListingComplete ==
  \A h \in DirHandle :
    ~reply[h].cut => reply[h].stayed \subseteq reply[h].listed

(***************************************************************************)
(* A listing, complete or not, holds no name that was not in the directory *)
(* while it was made: nothing of another directory, through a descriptor   *)
(* number that was reused, and nothing left over from an earlier listing.  *)
(***************************************************************************)
ListingSound == \A h \in DirHandle : reply[h].listed \subseteq reply[h].ever

(* A listing ends although names come and go while it is under way, and so *)
(* does every other handler: the loop has few threads.                     *)
HandlersReturn == \A w \in Worker : ~Idle(w) ~> Idle(w)

(***************************************************************************)
(* Once a client has closed a directory the process gets its descriptor    *)
(* back, whatever else is opened and listed.                               *)
(***************************************************************************)
ClosedDirFreesFd ==
  \A h \in DirHandle, fd \in Fd :
    dirState[h] = "closing" /\ fh[h] = fd ~> \A s \in Stream : stream[s].fd # fd

(* No call holds an iterator to a node that is gone, or lists a directory *)
(* through a DIR that another call has closed.                             *)
NoUseAfterFree ==
  \A w \in Worker :
    /\ frame[w].it # Dangling
    /\ frame[w].pc \in {"rewind", "list"} => Open(frame[w].dh)

-----------------------------------------------------------------------------
(* Several threads.  closedir (line 95) frees the number before line 96    *)
(* erases it.  All is well until another thread's opendir gets the number  *)
(* and comes to the node in between; from then on anything may go wrong.   *)

(***************************************************************************)
(* However threads interleave, until a number is reused too early every    *)
(* open directory has its own open stream and every open stream a handle:  *)
(* no listing is refused and no descriptor leaks.                          *)
(***************************************************************************)
FollowsHandlesUnlessReused == ~reused => OpenDirHasStream /\ StreamHasHandle

(***************************************************************************)
(* Without such a reuse no thread erases a node that another thread has    *)
(* found, or closes a DIR that another thread reads.                       *)
(***************************************************************************)
NoUseAfterFreeUnlessReused == ~reused => NoUseAfterFree

(***************************************************************************)
(* Without such a reuse listings are complete and sound, whatever other    *)
(* threads open, list, close and are given the numbers of.                 *)
(***************************************************************************)
ListsRightUnlessReused == ~reused => ListingComplete /\ ListingSound
=============================================================================
