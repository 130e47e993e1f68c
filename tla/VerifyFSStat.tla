---------------------------- MODULE VerifyFSStat ----------------------------
(***************************************************************************)
(* fuseStat beside the handles.  The size of a file is that of the file in *)
(* the untrusted folder at the time of the getattr, the bytes of a handle  *)
(* are those verified when it was opened, and the kernel, which keeps the  *)
(* size for a while, cuts a client's reads off at it.  Handles are those   *)
(* of VerifiedAccess, which VerifyFS implements for clients that use one   *)
(* handle of a path at a time; a client reads its handle from the start to *)
(* the end of the file.  An open takes time: the file may be written, cut  *)
(* or replaced between the open(2), fstat(2) and read(2) of openAndVerify, *)
(* and between its read(2) and the client's hearing of it.                 *)
(***************************************************************************)
EXTENDS VerifiedAccess

CONSTANTS
  Byte,     \* values of a uint8_t
  Contents, \* what other processes write into files
  NoFile,   \* the path names nothing
  NoSize,   \* the kernel has no size, or no longer trusts the one it had
  Count     \* how many bytes a client asks for at once

ASSUME CountAssumption == Count \subseteq Nat \ {0}
ASSUME BytesAssumption == Contents \subseteq Blob /\ Blob \subseteq Seq(Byte)
ASSUME SentinelAssumption ==
  NoSize \notin Nat /\ NoFile \notin Contents /\ NoPath \notin Path

VARIABLES
  opening, \* the path whose open runs for a handle
  readable, \* the bytes openAndVerify may have read in it, or may still read
  file,    \* untrusted folder: the bytes a path names
  st_size, \* kernel: the cached size of a path
  got,     \* the bytes a client has read through a handle, in order
  ended,   \* the client was told that the file ends here
  since    \* since the open began the file was shortened ("changed"); or it
           \* was not, and the kernel "asked" for the size when the open had
           \* ended, or works with an "old" one

client == <<got, ended, since>>
open == <<opening, readable>>
allVars == <<name, snapshot, reply, open, file, st_size, client>>

StatInit ==
  /\ Init
  /\ opening = [h \in Handle |-> NoPath]
  /\ readable = [h \in Handle |-> {}]
  /\ file \in [Path -> Contents \cup {NoFile}]
  /\ st_size = [p \in Path |-> NoSize]
  /\ got = [h \in Handle |-> <<>>]
  /\ ended = [h \in Handle |-> FALSE]
  /\ since = [h \in Handle |-> "changed"]

Shorter(c, d) == c = NoFile \/ Len(c) < Len(d)

(* Another process writes into the file, or cuts it.  An open that is under*)
(* way may get any mixture of what was there and what is, of the size that *)
(* fstat(2) gave before or gives after.                                    *)
Write(p, c) ==
  /\ file[p] # NoFile
  /\ file' = [file EXCEPT ![p] = c]
  /\ readable' = [h \in Handle |->
       IF opening[h] = p
       THEN readable[h] \cup {b \in Blob : ~Shorter(c, b) \/ ~Shorter(file[p], b)}
       ELSE readable[h]]
  /\ since' = [h \in Handle |->
       IF \/ opening[h] = p /\ Shorter(c, file[p])
          \/ name[h] = p /\ Shorter(c, snapshot[h])
       THEN "changed" ELSE since[h]]
  /\ UNCHANGED <<name, snapshot, reply, opening, st_size, got, ended>>

(* Another process renames a file to the path, or removes it.  An open that*)
(* is under way may have the one that was there, and whatever it becomes.  *)
Replace(p, c) ==
  /\ file' = [file EXCEPT ![p] = c]
  /\ readable' = [h \in Handle |-> IF opening[h] = p THEN Blob ELSE readable[h]]
  /\ since' = [h \in Handle |->
       IF opening[h] = p \/ (name[h] = p /\ Shorter(c, snapshot[h]))
       THEN "changed" ELSE since[h]]
  /\ UNCHANGED <<name, snapshot, reply, opening, st_size, got, ended>>

(* The kernel's trust in a size ends, after a second by default. *)
Expire(p) ==
  /\ st_size' = [st_size EXCEPT ![p] = NoSize]
  /\ UNCHANGED <<name, snapshot, reply, open, file, client>>

Stat(p, size) ==
  /\ st_size' = [st_size EXCEPT ![p] = size]
  /\ since' = [h \in Handle |->
       IF name[h] = p /\ since[h] = "old" /\ size # NoSize
       THEN "asked" ELSE since[h]]
  /\ UNCHANGED <<name, snapshot, reply, open, file, got, ended>>

(* Mutant: answers 0 and leaves stbuf as libfuse cleared it. *)
fuseStatUnfilled(p) == file[p] # NoFile /\ Stat(p, 0)

(* stat(2) of the path in the untrusted folder, whatever was verified. *)
fuseStat(p) == file[p] # NoFile /\ Stat(p, Len(file[p]))

(* stat(2) fails: the file is gone, or another reason.  -1 is returned.    *)
fuseStatFails(p) == Stat(p, NoSize)

(* fuseOpen is called. *)
openBegins(h, p) ==
  /\ Ask(h) /\ opening[h] = NoPath
  /\ \A g \in Handle : name[g] # p /\ opening[g] # p
  /\ opening' = [opening EXCEPT ![h] = p]
  /\ readable' = [readable EXCEPT ![h] = {file[p]} \ {NoFile}]
  /\ got' = [got EXCEPT ![h] = <<>>]
  /\ ended' = [ended EXCEPT ![h] = FALSE]
  /\ since' = [since EXCEPT ![h] = "old"]
  /\ UNCHANGED <<file, st_size>>

openReturns(h) ==
  /\ opening[h] # NoPath
  /\ opening' = [opening EXCEPT ![h] = NoPath]
  /\ readable' = [readable EXCEPT ![h] = {}]
  /\ UNCHANGED <<file, st_size, client>>

(* openAndVerify has read bytes of the listed digest, and 0 is returned.   *)
openEnds(h) ==
  /\ openReturns(h)
  /\ Open(h, opening[h]) /\ snapshot'[h] \in readable[h]

openFails(h) == openReturns(h) /\ Refuse(h)

(* fuseRelease, the last call on a handle. *)
release(h) == Close(h) /\ UNCHANGED <<open, file, st_size, client>>

Reading(h) == ~Closed(h) /\ ~ended[h] /\ st_size[name[h]] # NoSize

(* The part of a client's read that the kernel passes on. *)
Cut(h, count) ==
  LET left == st_size[name[h]] - Len(got[h]) IN
  IF left < count THEN left ELSE count

(* fuseRead at the client's position; an error leaves what it has.         *)
read(h, count) ==
  /\ Reading(h) /\ Len(got[h]) < st_size[name[h]]
  /\ Read(h, <<Len(got[h]), Cut(h, count)>>)
  /\ got' = [got EXCEPT ![h] = @ \o reply'[h].data]
  /\ UNCHANGED <<open, file, st_size, ended, since>>

(* At the size it knows the kernel answers by itself: the end of the file. *)
readEnd(h) ==
  /\ Reading(h) /\ Len(got[h]) >= st_size[name[h]]
  /\ ended' = [ended EXCEPT ![h] = TRUE]
  /\ UNCHANGED <<name, snapshot, reply, open, file, st_size, got, since>>

StatNext ==
  \/ \E p \in Path :
       \/ \E c \in Contents : Write(p, c)
       \/ \E c \in Contents \cup {NoFile} : Replace(p, c)
       \/ Expire(p) \/ fuseStat(p) \/ fuseStatFails(p)
  \/ \E h \in Handle :
       \/ \E p \in Path : openBegins(h, p)
       \/ openEnds(h) \/ openFails(h) \/ release(h) \/ readEnd(h)
       \/ \E count \in Count : read(h, count)

StatSpec == StatInit /\ [][StatNext]_allVars

-----------------------------------------------------------------------------
(***************************************************************************)
(* Whatever sizes the kernel is given while the file changes, what a client*)
(* has read is the beginning of the verified bytes: a wrong size neither   *)
(* makes it skip or repeat bytes nor adds any.                             *)
(***************************************************************************)
ReadsPrefix ==
  \A h \in Handle : ~Closed(h) =>
    /\ Len(got[h]) <= Len(snapshot[h])
    /\ got[h] = SubSeq(snapshot[h], 1, Len(got[h]))

(***************************************************************************)
(* A client that is told the file ends has all of the verified bytes, if   *)
(* the kernel asked for the size after the open and if, from before fuse-  *)
(* Open ran, nobody shortened the file.  (A file that was replaced while   *)
(* the open ran counts as shortened: the path may name a shorter one.)     *)
(***************************************************************************)
ReadsWholeIfSteady ==
  [][\A h \in Handle :
       readEnd(h) /\ since[h] = "asked" => got[h] = snapshot[h]]_allVars
=============================================================================
