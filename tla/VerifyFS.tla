------------------------------ MODULE VerifyFS ------------------------------
(***************************************************************************)
(* The files of a mounted VerifyFS: fuseOpen with openAndVerify, fuseRead  *)
(* and fuseRelease, run by the threads of libfuse's loop (one with "-s",   *)
(* several by default) while other processes rewrite the untrusted folder. *)
(*                                                                         *)
(* Nothing in the class is locked, and each system call and each access to *)
(* mTrustedFiles is a step of its own.  One access to the std::map is one  *)
(* step; what a thread does through an iterator after another thread erased*)
(* or is filling the node is undefined behaviour and may return Garbage.   *)
(***************************************************************************)
EXTENDS FileAnswers, IFileVerifier

CONSTANTS
  Path,        \* names below the mount point, as the kernel passes them
  Inode,       \* files of the untrusted folder
  Byte,        \* values of a uint8_t
  MaxLen,      \* the most bytes one read(2) transfers
  Contents,    \* what other processes write into files
  Handle,      \* open file descriptions of the kernel
  Worker,      \* threads of libfuse's loop
  ReadAt,      \* the <<offset, size>> pairs clients read at
  Sharing,     \* which opens clients issue: see ClientMayOpen
  NoInode, NoPath, NoHandle, NotTrusted, Dangling, Garbage

Blob == UNION {[1..n -> Byte] : n \in 0..MaxLen}
SharingModes == {"any", "sequential", "exclusive"}

ASSUME BlobAssumption == MaxLen \in Nat /\ Contents \subseteq Seq(Byte)
ASSUME DigestAssumption == DOMAIN mDigests = Path
ASSUME ReadAtAssumption == ReadAt \subseteq Nat \X (Nat \ {0})
ASSUME SharingAssumption == Sharing \in SharingModes
ASSUME SentinelAssumption ==
  /\ NoInode \notin Inode
  /\ NoPath \notin Path /\ Dangling \notin Path /\ NoPath # Dangling
  /\ NoHandle \notin Handle
  /\ NotTrusted \notin Blob
  /\ Garbage \notin Byte

O_RDONLY == "O_RDONLY"
AccessMode == {O_RDONLY, "O_WRONLY", "O_RDWR"}

VARIABLES
  link,          \* untrusted folder: the inode a path names
  bytes,         \* untrusted folder: the bytes of an inode
  mTrustedFiles, \* path -> verified bytes, or NotTrusted
  fileState,     \* kernel: life of a handle
  filePath,      \* kernel: the path a handle was opened by
  reply,         \* what the last call on a handle returned to its client
  frame          \* worker -> the call it runs, with the call's locals

disk == <<link, bytes>>
vars == <<link, bytes, mTrustedFiles, fileState, filePath, reply, frame>>

(***************************************************************************)
(* The locals of a call.  h is the handle served, fd the inode behind the  *)
(* descriptor openAndVerify holds, st_size and buffer its locals, it the   *)
(* key of the map node a reference points to (Dangling once another thread *)
(* erased that node), and at the offset and size of a read.                *)
(***************************************************************************)
IdleFrame == [pc |-> "idle", h |-> NoHandle, fd |-> NoInode, st_size |-> 0,
              buffer |-> <<>>, it |-> NoPath, at |-> <<0, 0>>]

Init ==
  /\ link \in [Path -> Inode \cup {NoInode}]
  /\ bytes \in [Inode -> Contents]
  /\ mTrustedFiles = [p \in Path |-> NotTrusted]
  /\ fileState = [h \in Handle |-> "free"]
  /\ filePath = [h \in Handle |-> NoPath]
  /\ reply = [h \in Handle |-> NoReply]
  /\ frame = [w \in Worker |-> IdleFrame]

Idle(w) == frame[w].pc = "idle"
Quiet(h) == \A w \in Worker : frame[w].h # h

(* The handler of worker w returns to the client behind handle h. *)
Return(w, h, answer) ==
  /\ frame' = [frame EXCEPT ![w] = IdleFrame]
  /\ reply' = [reply EXCEPT ![h] = answer]

-----------------------------------------------------------------------------
(* The untrusted folder: any process may rename, unlink, link or write. *)

Relink(p) ==
  /\ \E i \in Inode \cup {NoInode} : link' = [link EXCEPT ![p] = i]
  /\ UNCHANGED <<bytes, mTrustedFiles, fileState, filePath, reply, frame>>

Overwrite(i) ==
  /\ \E c \in Contents : bytes' = [bytes EXCEPT ![i] = c]
  /\ UNCHANGED <<link, mTrustedFiles, fileState, filePath, reply, frame>>

-----------------------------------------------------------------------------
(***************************************************************************)
(* The opens clients issue: "any" lets several handles share a path,       *)
(* "sequential" has a client close its handle before it opens the path     *)
(* again, "exclusive" also waits until the kernel's RELEASE of the old     *)
(* handle has been handled.  close(2) itself does not wait for it.         *)
(***************************************************************************)
ClientMayOpen(p) ==
  \A h \in Handle : filePath[h] = p =>
    CASE Sharing = "any" -> TRUE
      [] Sharing = "sequential" -> fileState[h] = "closing"
      [] Sharing = "exclusive" -> FALSE

OpenRequest(w, h, p) == Idle(w) /\ fileState[h] = "free" /\ ClientMayOpen(p)

OpenError(h, errno) ==
  reply' = [reply EXCEPT ![h] = OpenAnswer(-errno)]

(* Only reading is permitted, and only of listed files. *)
fuseOpenRefused(w, h, p, mode) ==
  /\ OpenRequest(w, h, p)
  /\ mode # O_RDONLY \/ ~isValidFilePath(p)
  /\ OpenError(h, EACCES)
  /\ UNCHANGED <<disk, mTrustedFiles, fileState, filePath, frame>>

(* From here on the open is for reading.  open(2) fails: there is no such  *)
(* file, or the process is out of descriptors.                             *)
fuseOpenMissing(w, h, p) ==
  /\ OpenRequest(w, h, p) /\ isValidFilePath(p)
  /\ OpenError(h, ENOENT)
  /\ UNCHANGED <<disk, mTrustedFiles, fileState, filePath, frame>>

fuseOpen(w, h, p) ==
  /\ OpenRequest(w, h, p) /\ isValidFilePath(p)
  /\ link[p] # NoInode
  /\ fileState' = [fileState EXCEPT ![h] = "opening"]
  /\ filePath' = [filePath EXCEPT ![h] = p]
  /\ reply' = [reply EXCEPT ![h] = NoReply]
  /\ frame' = [frame EXCEPT ![w] =
       [IdleFrame EXCEPT !.pc = "fstat", !.h = h, !.fd = link[p]]]
  /\ UNCHANGED <<disk, mTrustedFiles>>

(***************************************************************************)
(* The result of fstat(2) is not looked at: after an error st_size is what *)
(* the stack held.  A size resize cannot provide ends the process, one too *)
(* large for one read(2) a shortRead.                                      *)
(***************************************************************************)
Uninitialized == 0..MaxLen

fstat(w) ==
  /\ frame[w].pc = "fstat"
  /\ \E size \in {Len(bytes[frame[w].fd])} \cup Uninitialized :
       frame' = [frame EXCEPT ![w].pc = "read", ![w].st_size = size]
  /\ UNCHANGED <<disk, mTrustedFiles, fileState, filePath, reply>>

(* read(2) is one call but not atomic: the file may change under it. *)
readByte(w) ==
  LET got == Len(frame[w].buffer) IN
  /\ frame[w].pc = "read"
  /\ got < frame[w].st_size /\ got < Len(bytes[frame[w].fd]) /\ got < MaxLen
  /\ frame' = [frame EXCEPT ![w].buffer =
                  Append(@, bytes[frame[w].fd][got + 1])]
  /\ UNCHANGED <<disk, mTrustedFiles, fileState, filePath, reply>>

(* Mutant: an open that fails also drops the path's entry. *)
OpenFailsErasing(w) ==
  LET h == frame[w].h IN
  /\ mTrustedFiles' = [mTrustedFiles EXCEPT ![filePath[h]] = NotTrusted]
  /\ fileState' = [fileState EXCEPT ![h] = "free"]
  /\ filePath' = [filePath EXCEPT ![h] = NoPath]
  /\ Return(w, h, OpenAnswer(-ENOENT))
  /\ UNCHANGED disk

(* openAndVerify has closed the descriptor and returns an error. *)
OpenFails(w) ==
  LET h == frame[w].h IN
  /\ fileState' = [fileState EXCEPT ![h] = "free"]
  /\ filePath' = [filePath EXCEPT ![h] = NoPath]
  /\ Return(w, h, OpenAnswer(-ENOENT))
  /\ UNCHANGED <<disk, mTrustedFiles>>

(* Mutant: tries again from the start when the size does not match. *)
shortReadRetried(w) ==
  /\ frame[w].pc = "read"
  /\ frame' = [frame EXCEPT ![w].pc = "fstat", ![w].buffer = <<>>]
  /\ UNCHANGED <<disk, mTrustedFiles, fileState, filePath, reply>>

(* read(2) stopped early: the file shrank or is larger than one read(2)    *)
(* transfers, a signal arrived, or it failed.                              *)
shortRead(w) ==
  /\ frame[w].pc = "read"
  /\ OpenFails(w)

ReadWhole(w) ==
  frame[w].pc = "read" /\ Len(frame[w].buffer) = frame[w].st_size

blobRejected(w) ==
  /\ ReadWhole(w)
  /\ ~isValidFileBlob(filePath[frame[w].h], frame[w].buffer)
  /\ OpenFails(w)

(* Mutant: looks the path up but does not compare the digest. *)
blobUncompared(w) ==
  /\ ReadWhole(w) /\ isValidFilePath(filePath[frame[w].h])
  /\ frame' = [frame EXCEPT ![w].pc = "insert", ![w].fd = NoInode]
  /\ UNCHANGED <<disk, mTrustedFiles, fileState, filePath, reply>>

(* Mutant: forgets close(fh). *)
blobAcceptedOpen(w) ==
  /\ ReadWhole(w)
  /\ isValidFileBlob(filePath[frame[w].h], frame[w].buffer)
  /\ frame' = [frame EXCEPT ![w].pc = "insert"]
  /\ UNCHANGED <<disk, mTrustedFiles, fileState, filePath, reply>>

blobAccepted(w) ==
  /\ ReadWhole(w)
  /\ isValidFileBlob(filePath[frame[w].h], frame[w].buffer)
  /\ frame' = [frame EXCEPT ![w].pc = "insert", ![w].fd = NoInode]
  /\ UNCHANGED <<disk, mTrustedFiles, fileState, filePath, reply>>

(* mTrustedFiles[fullpath]: finds the node or inserts an empty vector. *)
insertNode(w) ==
  LET p == filePath[frame[w].h] IN
  /\ frame[w].pc = "insert"
  /\ mTrustedFiles' = [mTrustedFiles EXCEPT
                          ![p] = IF @ = NotTrusted THEN <<>> ELSE @]
  /\ frame' = [frame EXCEPT ![w].pc = "assign", ![w].it = p]
  /\ UNCHANGED <<disk, fileState, filePath, reply>>

(* Worker w is between the insertion of p's node and the assignment to it. *)
Assigning(w, p) == frame[w].pc = "assign" /\ frame[w].it = p

(* ... = buffer, into the node found, and open returns 0. *)
assignNode(w) ==
  LET h == frame[w].h IN
  /\ frame[w].pc = "assign"
  /\ mTrustedFiles' = IF frame[w].it = Dangling THEN mTrustedFiles
                      ELSE [mTrustedFiles EXCEPT
                              ![frame[w].it] = frame[w].buffer]
  /\ fileState' = [fileState EXCEPT ![h] = "open"]
  /\ Return(w, h, OpenAnswer(0))
  /\ UNCHANGED <<disk, filePath>>

-----------------------------------------------------------------------------
(* fuseRead and fuseRelease *)

ReadRequest(w, h) == Idle(w) /\ fileState[h] = "open" /\ Quiet(h)

fuseReadMissing(w, h, at) ==
  /\ ReadRequest(w, h)
  /\ mTrustedFiles[filePath[h]] = NotTrusted
  /\ reply' = [reply EXCEPT ![h] = ReadError(at)]
  /\ UNCHANGED <<disk, mTrustedFiles, fileState, filePath, frame>>

fuseRead(w, h, at) ==
  /\ ReadRequest(w, h)
  /\ mTrustedFiles[filePath[h]] # NotTrusted
  /\ frame' = [frame EXCEPT ![w] =
       [IdleFrame EXCEPT !.pc = "copy", !.h = h, !.it = filePath[h],
                         !.at = at]]
  /\ UNCHANGED <<disk, mTrustedFiles, fileState, filePath, reply>>

(***************************************************************************)
(* The reference fileData is no longer, or not yet, safe to use: its node  *)
(* was erased, or another thread is filling its vector.  (An assignment to *)
(* a vector already filled rewrites the same bytes in place.)              *)
(***************************************************************************)
Racing(w) ==
  \/ frame[w].it = Dangling
  \/ /\ frame[w].it # Dangling /\ mTrustedFiles[frame[w].it] = <<>>
     /\ \E v \in Worker : Assigning(v, frame[w].it) /\ frame[v].buffer # <<>>

copyBytes(w) ==
  /\ frame[w].pc = "copy" /\ ~Racing(w)
  /\ Return(w, frame[w].h, ReadOf(mTrustedFiles[frame[w].it], frame[w].at))
  /\ UNCHANGED <<disk, mTrustedFiles, fileState, filePath>>

(* Freed memory that still holds the bytes reads as before the erase. *)
copyRaced(w) ==
  LET at == frame[w].at
      junk == Answer("read", at, at[2], [i \in 1..at[2] |-> Garbage])
  IN
  /\ frame[w].pc = "copy" /\ Racing(w)
  /\ \E answer \in {ReadError(at), junk} : Return(w, frame[w].h, answer)
  /\ UNCHANGED <<disk, mTrustedFiles, fileState, filePath>>

(* The client closes its last descriptor; the kernel queues a RELEASE. *)
Close(h) ==
  /\ fileState[h] = "open" /\ Quiet(h)
  /\ fileState' = [fileState EXCEPT ![h] = "closing"]
  /\ UNCHANGED <<disk, mTrustedFiles, filePath, reply, frame>>

Released(h) ==
  /\ fileState' = [fileState EXCEPT ![h] = "free"]
  /\ filePath' = [filePath EXCEPT ![h] = NoPath]
  /\ reply' = [reply EXCEPT ![h] = NoReply]

(* Mutant: leaves the bytes in the map. *)
fuseReleaseKeeping(w, h) ==
  /\ Idle(w) /\ fileState[h] = "closing"
  /\ Released(h)
  /\ UNCHANGED <<disk, mTrustedFiles, frame>>

(* Mutant: clears the map instead of erasing one key. *)
fuseReleaseClearing(w, h) ==
  /\ Idle(w) /\ fileState[h] = "closing"
  /\ mTrustedFiles' = [p \in Path |-> NotTrusted]
  /\ Released(h)
  /\ UNCHANGED <<disk, frame>>

(* Mutant: waits for an entry that an earlier release may have erased. *)
fuseReleaseFound(w, h) ==
  /\ Idle(w) /\ fileState[h] = "closing"
  /\ mTrustedFiles[filePath[h]] # NotTrusted
  /\ mTrustedFiles' = [mTrustedFiles EXCEPT ![filePath[h]] = NotTrusted]
  /\ frame' = [v \in Worker |->
       IF frame[v].it = filePath[h] THEN [frame[v] EXCEPT !.it = Dangling]
       ELSE frame[v]]
  /\ Released(h)
  /\ UNCHANGED disk

fuseRelease(w, h) ==
  LET p == filePath[h] IN
  /\ Idle(w) /\ fileState[h] = "closing"
  /\ mTrustedFiles' = [mTrustedFiles EXCEPT ![p] = NotTrusted]
  /\ frame' = [v \in Worker |->
       IF frame[v].it = p THEN [frame[v] EXCEPT !.it = Dangling]
       ELSE frame[v]]
  /\ Released(h)
  /\ UNCHANGED disk

-----------------------------------------------------------------------------
(* The rest of a call that has started. *)
Resume(w) ==
  \/ fstat(w) \/ readByte(w) \/ shortRead(w)
  \/ blobRejected(w) \/ blobAccepted(w) \/ insertNode(w) \/ assignNode(w)
  \/ copyBytes(w) \/ copyRaced(w)

Serve(w, h) ==
  \/ \E p \in Path, mode \in AccessMode : fuseOpenRefused(w, h, p, mode)
  \/ \E p \in Path : fuseOpenMissing(w, h, p) \/ fuseOpen(w, h, p)
  \/ \E at \in ReadAt : fuseReadMissing(w, h, at) \/ fuseRead(w, h, at)
  \/ fuseRelease(w, h)

Environment ==
  \/ \E p \in Path : Relink(p)
  \/ \E i \in Inode : Overwrite(i)
  \/ \E h \in Handle : Close(h)

Next ==
  \/ \E w \in Worker : Resume(w)
  \/ \E w \in Worker, h \in Handle : Serve(w, h)
  \/ Environment

Spec == Init /\ [][Next]_vars

(***************************************************************************)
(* A libfuse thread keeps running the call it has started, and a RELEASE   *)
(* is at some point taken off the kernel's queue by an idle thread,        *)
(* whatever other requests arrive: the queue is first in, first out.       *)
(* Nothing forces clients to act, nor other processes to leave files alone.*)
(***************************************************************************)
Fairness ==
  /\ \A w \in Worker : WF_vars(Resume(w))
  /\ \A h \in Handle : SF_vars(\E w \in Worker : fuseRelease(w, h))

FairSpec == Spec /\ Fairness

-----------------------------------------------------------------------------
Frame == [pc : {"idle", "fstat", "read", "insert", "assign", "copy"},
          h : Handle \cup {NoHandle}, fd : Inode \cup {NoInode},
          st_size : Nat, buffer : Blob,
          it : Path \cup {NoPath, Dangling}, at : ReadAt \cup {<<0, 0>>}]

Reply == [op : {"none", "open", "read"}, at : ReadAt \cup {<<0, 0>>},
          result : Int, data : Seq(Byte \cup {Garbage})]

DescriptorNeeded ==
  \A w \in Worker :
    frame[w].fd # NoInode <=> frame[w].pc \in {"fstat", "read"}

(* Every variable has its type, and openAndVerify has a descriptor open    *)
(* exactly while it needs one: none outlives the call on any path.         *)
TypeOK ==
  /\ link \in [Path -> Inode \cup {NoInode}]
  /\ bytes \in [Inode -> Seq(Byte)]
  /\ mTrustedFiles \in [Path -> Blob \cup {NotTrusted}]
  /\ fileState \in [Handle -> {"free", "opening", "open", "closing"}]
  /\ filePath \in [Handle -> Path \cup {NoPath}]
  /\ reply \in [Handle -> Reply]
  /\ frame \in [Worker -> Frame]
  /\ DescriptorNeeded

(***************************************************************************)
(* However the folder changes between open(2), fstat(2), read(2) and the   *)
(* check, and whichever threads open at once, the bytes kept for a path    *)
(* have the digest the list gives it (save for the empty vector operator[] *)
(* has inserted and the same thread is about to fill).                     *)
(***************************************************************************)
TrustedVerified ==
  \A p \in Path : mTrustedFiles[p] # NotTrusted =>
    \/ isValidFileBlob(p, mTrustedFiles[p])
    \/ mTrustedFiles[p] = <<>> /\ \E w \in Worker : Assigning(w, p)

(* A successful read of path p got what a listed file has at that offset. *)
AnswerVerified(answer, p) ==
  answer.op = "read" /\ answer.result >= 0 =>
    \E b \in Blob :
      /\ isValidFileBlob(p, b)
      /\ answer.at[1] < Len(b)
      /\ answer.result = bytesRead(b, answer.at)
      /\ answer.data = Slice(b, answer.at)

(***************************************************************************)
(* What the README promises of a read: bytes handed to a client are those  *)
(* a file with the listed digest has at that offset, no fewer and no more. *)
(***************************************************************************)
ReadVerified == \A h \in Handle : AnswerVerified(reply[h], filePath[h])

(***************************************************************************)
(* The two races on a map node are the only way to a wrong answer: whoever *)
(* shares a path and however many threads there are, a copy from a node    *)
(* that is neither erased nor being filled is a verified read.             *)
(***************************************************************************)
UnracedReadsVerified ==
  [][\A w \in Worker : copyBytes(w) =>
       AnswerVerified(reply'[frame[w].h], filePath[frame[w].h])]_vars

(* Handle h keeps p's bytes in memory: it has not been released yet. *)
Holds(h, p) ==
  /\ filePath[h] = p
  /\ \/ fileState[h] \in {"open", "closing"}
     \/ \E w \in Worker : frame[w].h = h /\ Assigning(w, p)

(***************************************************************************)
(* Nothing leaks: the bytes of a path are kept only while some handle of   *)
(* the path, in whatever order opens, failed opens and releases are served,*)
(* still has its RELEASE to come.                                          *)
(***************************************************************************)
TrustedHasHolder ==
  \A p \in Path : mTrustedFiles[p] # NotTrusted =>
    \E h \in Handle : Holds(h, p)

(***************************************************************************)
(* A handle whose open was answered 0 finds its bytes when it reads: what  *)
(* a program that opened a verified file relies on.  mTrustedFiles has one *)
(* entry per path and no count of the handles that use it.                 *)
(***************************************************************************)
OpenMeansTrusted ==
  \A h \in Handle : fileState[h] = "open" =>
    mTrustedFiles[filePath[h]] # NotTrusted

(***************************************************************************)
(* Verified bytes are dropped only by the release of a handle of that path:*)
(* a later open that fails, because the file has since been changed or     *)
(* removed, takes nothing away from the handles already open.              *)
(***************************************************************************)
DroppedOnlyByRelease ==
  [][\A p \in Path :
       mTrustedFiles[p] # NotTrusted /\ mTrustedFiles'[p] = NotTrusted =>
         \E h \in Handle : /\ filePath[h] = p
                           /\ fileState[h] = "closing"
                           /\ fileState'[h] = "free"]_vars

(***************************************************************************)
(* Every handler returns, even while the file it reads is rewritten again  *)
(* and again: openAndVerify reads once, for the size fstat gave.           *)
(***************************************************************************)
HandlersReturn == \A w \in Worker : ~Idle(w) ~> Idle(w)

(* The most steps a call still has to make. *)
StepsLeft(call) ==
  CASE call.pc = "idle" -> 0
    [] call.pc \in {"assign", "copy"} -> 1
    [] call.pc = "insert" -> 2
    [] call.pc = "read" -> 3 + MaxLen - Len(call.buffer)
    [] call.pc = "fstat" -> 4 + MaxLen

(***************************************************************************)
(* Why every handler returns: each step of a call leaves it fewer to make, *)
(* and nothing that other threads or processes do in between, neither a    *)
(* file that grows nor a release of the path, gives it more.               *)
(***************************************************************************)
CallsAdvance ==
  [][\A w \in Worker : ~Idle(w) =>
       /\ StepsLeft(frame'[w]) <= StepsLeft(frame[w])
       /\ Resume(w) => StepsLeft(frame'[w]) < StepsLeft(frame[w])]_vars

(* A closed handle is released, and with it its claim on the bytes. *)
ClosedIsReleased ==
  \A h \in Handle : fileState[h] = "closing" ~> fileState[h] = "free"
=============================================================================
