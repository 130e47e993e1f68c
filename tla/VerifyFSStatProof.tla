------------------------- MODULE VerifyFSStatProof -------------------------
(***************************************************************************)
(* Proofs about VerifyFSStat for every set of paths, handles, contents and *)
(* read sizes: what a client has read is the beginning of the bytes        *)
(* verified when it opened the file, and all of them at the end of a file  *)
(* that nobody shortened since the open began.                             *)
(***************************************************************************)
EXTENDS VerifyFSStat, SequenceTheorems, TLAPS

Types ==
  /\ name \in [Handle -> Path \cup {NoPath}]
  /\ snapshot \in [Handle -> Blob \cup {NotOpen}]
  /\ DOMAIN reply = Handle
  /\ opening \in [Handle -> Path \cup {NoPath}]
  /\ readable \in [Handle -> SUBSET Blob]
  /\ file \in [Path -> Contents \cup {NoFile}]
  /\ st_size \in [Path -> Nat \cup {NoSize}]
  /\ got \in [Handle -> Seq(Byte)]
  /\ DOMAIN since = Handle
  /\ \A h \in Handle : ~Closed(h) => snapshot[h] \in Blob

(* The file of that name is at least as long as those bytes. *)
Covers(p, s) == file[p] # NoFile /\ Len(file[p]) >= Len(s)

(* While an open runs and nobody has shortened the file, whatever it may   *)
(* have read is no longer than the file is.  Its client has no bytes yet.  *)
OpensCovered ==
  \A h \in Handle : opening[h] # NoPath =>
    /\ Closed(h) /\ since[h] # "asked" /\ got[h] = <<>>
    /\ since[h] # "changed" =>
         \A s \in readable[h] : Covers(opening[h], s)

(* That stays so for the snapshot, and a size the kernel asks for reaches  *)
(* to its end.                                                             *)
SizeCovers ==
  \A h \in Handle : ~Closed(h) =>
    /\ since[h] # "changed" => Covers(name[h], snapshot[h])
    /\ since[h] = "asked" =>
         st_size[name[h]] = NoSize \/ st_size[name[h]] >= Len(snapshot[h])

Inv == Types /\ ReadsPrefix /\ OpensCovered /\ SizeCovers

-----------------------------------------------------------------------------
(* Two consecutive parts of a sequence are one. *)
LEMMA ConsecutiveParts ==
  ASSUME NEW S, NEW s \in Seq(S), NEW l \in 0..Len(s), NEW m \in l..Len(s)
  PROVE  SubSeq(s, 1, l) \o SubSeq(s, l + 1, m) = SubSeq(s, 1, m)
<1> DEFINE first == SubSeq(s, 1, l)
           second == SubSeq(s, l + 1, m)
<1>1. Len(s) \in Nat /\ l \in Nat /\ m \in Nat /\ l <= m /\ m <= Len(s)
  OBVIOUS
<1>2. /\ first \in Seq(S) /\ Len(first) = l
      /\ \A i \in 1..l : first[i] = s[i]
  BY <1>1
<1>3. /\ second \in Seq(S) /\ Len(second) = m - l
      /\ \A i \in 1..(m - l) : second[i] = s[l + i]
  BY <1>1
<1>4. /\ SubSeq(s, 1, m) \in Seq(S) /\ Len(SubSeq(s, 1, m)) = m
      /\ \A i \in 1..m : SubSeq(s, 1, m)[i] = s[i]
  BY <1>1
<1>5. first \o second \in Seq(S) /\ Len(first \o second) = m
  BY <1>1, <1>2, <1>3
<1>6. ASSUME NEW i \in 1..m
      PROVE  (first \o second)[i] = s[i]
  <2>1. CASE i <= l
    BY <1>1, <1>2, <1>3, <2>1
  <2>2. CASE i > l
    <3>1. i - l \in 1..(m - l) /\ l + (i - l) = i
      BY <1>1, <2>2
    <3>2. (first \o second)[i] = second[i - l]
      BY <1>1, <1>2, <1>3, <2>2, <3>1
    <3> QED
      BY <1>3, <3>1, <3>2
  <2> QED
    BY <1>1, <2>1, <2>2
<1> HIDE DEF first, second
<1>7. first \o second = SubSeq(s, 1, m)
  BY <1>4, <1>5, <1>6, SeqEqual
<1> QED
  BY <1>7 DEF first, second

(* The kernel's part of a read, and what ReadOf gives for it: the bytes    *)
(* after those the client has, or none.                                    *)
LEMMA ReadContinues ==
  ASSUME Inv, NEW h \in Handle, NEW count \in Count, read(h, count)
  PROVE  /\ got'[h] \in Seq(Byte) /\ Len(got'[h]) <= Len(snapshot[h])
         /\ got'[h] = SubSeq(snapshot[h], 1, Len(got'[h]))
         /\ \A g \in Handle : g # h => got'[g] = got[g]
<1> DEFINE s == snapshot[h]
           l == Len(got[h])
           c == Cut(h, count)
           at == <<l, c>>
<1>1. s \in Seq(Byte) /\ got[h] \in Seq(Byte) /\ l \in 0..Len(s)
      /\ got[h] = SubSeq(s, 1, l)
  BY BytesAssumption DEF Inv, Types, ReadsPrefix, read, Reading
<1>2. st_size[name[h]] \in Nat /\ l < st_size[name[h]]
  BY DEF Inv, Types, Closed, read, Reading
<1>3. c \in Nat \ {0}
  <2>1. count \in Nat \ {0}
    BY CountAssumption
  <2>2. l \in Nat
    BY <1>1
  <2> QED
    BY <1>2, <2>1, <2>2 DEF Cut
<1>4. reply'[h] = ReadOf(s, at)
  BY DEF read, Read, Inv, Types
<1>5. /\ got'[h] = got[h] \o reply'[h].data
      /\ \A g \in Handle : g # h => got'[g] = got[g]
  BY DEF read, Inv, Types
<1>6. at[1] = l /\ at[2] = c
  OBVIOUS
<1> HIDE DEF s, l, c, at
<1>7. CASE l < Len(s)
  <2> DEFINE m == l + bytesRead(s, at)
  <2>1. Len(s) \in Nat /\ l \in Nat
    BY <1>1
  <2>2. bytesRead(s, at) \in Nat /\ m \in l..Len(s)
    BY <1>3, <1>6, <1>7, <2>1 DEF bytesRead
  <2>3. reply'[h].data = SubSeq(s, l + 1, m)
    <3>1. ReadOf(s, at) = Answer("read", at, bytesRead(s, at), Slice(s, at))
      BY <1>6, <1>7 DEF ReadOf
    <3>2. reply'[h].data = Slice(s, at)
      BY <1>4, <3>1 DEF Answer
    <3> QED
      BY <1>6, <3>2 DEF Slice
  <2>4. got'[h] = SubSeq(s, 1, m)
    BY <1>1, <1>5, <2>2, <2>3, ConsecutiveParts
  <2>5. got'[h] \in Seq(Byte) /\ Len(got'[h]) = m
    BY <1>1, <2>1, <2>2, <2>4
  <2> QED
    BY <1>5, <2>1, <2>2, <2>4, <2>5 DEF s
<1>8. CASE ~(l < Len(s))
  <2>1. reply'[h].data = <<>>
    BY <1>4, <1>6, <1>8 DEF ReadOf, ReadError, Answer
  <2>2. got'[h] = got[h]
    BY <1>1, <1>5, <2>1
  <2>3. Len(got'[h]) = l /\ got'[h] = SubSeq(s, 1, l)
    BY <1>1, <2>2 DEF l
  <2>4. l <= Len(s)
    BY <1>1
  <2> QED
    BY <1>1, <1>5, <2>2, <2>3, <2>4 DEF s
<1> QED
  BY <1>7, <1>8

-----------------------------------------------------------------------------
(* The initial states. *)
LEMMA InitInv == StatInit => Inv
  BY DEF StatInit, Init, Inv, Types, ReadsPrefix, OpensCovered, SizeCovers,
         Closed

(* What a step on the folder or on the kernel's sizes leaves alone. *)
LEMMA HandlesAlone ==
  ASSUME Inv, UNCHANGED <<name, snapshot, reply, opening, got>>,
         DOMAIN since' = Handle,
         readable' \in [Handle -> SUBSET Blob],
         file' \in [Path -> Contents \cup {NoFile}],
         st_size' \in [Path -> Nat \cup {NoSize}]
  PROVE  Types' /\ ReadsPrefix'
  BY DEF Inv, Types, ReadsPrefix, Closed

(* Inv is inductive. *)
LEMMA InvKept == Inv /\ [StatNext]_allVars => Inv'
<1> SUFFICES ASSUME Inv, [StatNext]_allVars PROVE Inv'
  OBVIOUS
<1>0. /\ \A s \in Blob : Len(s) \in Nat
      /\ \A p \in Path : file[p] # NoFile => Len(file[p]) \in Nat
  BY BytesAssumption DEF Inv, Types
<1>1. ASSUME NEW p \in Path, NEW c \in Contents, Write(p, c)
      PROVE  Inv'
  <2>1. /\ UNCHANGED <<name, snapshot, reply, opening, st_size, got>>
        /\ file[p] # NoFile /\ file' = [file EXCEPT ![p] = c] /\ c # NoFile
        /\ readable' = [h \in Handle |->
             IF opening[h] = p
             THEN readable[h] \cup
                    {s \in Blob : ~Shorter(c, s) \/ ~Shorter(file[p], s)}
             ELSE readable[h]]
        /\ DOMAIN since' = Handle
        /\ \A h \in Handle :
             IF \/ opening[h] = p /\ Shorter(c, file[p])
                \/ name[h] = p /\ Shorter(c, snapshot[h])
             THEN since'[h] = "changed" ELSE since'[h] = since[h]
    BY <1>1, SentinelAssumption DEF Write, Inv, Types
  <2>2. readable' \in [Handle -> SUBSET Blob]
        /\ file' \in [Path -> Contents \cup {NoFile}]
    BY <2>1 DEF Inv, Types
  <2>3. Types' /\ ReadsPrefix'
    BY <2>1, <2>2, HandlesAlone DEF Inv, Types
  <2>4. /\ c \in Blob /\ Len(c) \in Nat /\ Len(file[p]) \in Nat
        /\ file'[p] = c
        /\ \A q \in Path : q # p => file'[q] = file[q]
    BY <1>0, <2>1, BytesAssumption DEF Inv, Types
  <2>5. OpensCovered'
    <3> SUFFICES ASSUME NEW h \in Handle, opening[h] # NoPath
                 PROVE  /\ Closed(h) /\ since'[h] # "asked" /\ got[h] = <<>>
                        /\ since'[h] # "changed" =>
                             \A s \in readable'[h] : Covers(opening[h], s)'
      BY <2>1 DEF OpensCovered, Closed, Covers
    <3>1. Closed(h) /\ since'[h] # "asked" /\ got[h] = <<>>
      BY <2>1 DEF Inv, OpensCovered
    <3>2. ASSUME since'[h] # "changed", opening[h] = p, NEW s \in readable'[h]
          PROVE  Covers(p, s)'
      <4>1. ~Shorter(c, file[p]) /\ since[h] # "changed"
        BY <2>1, <3>2
      <4>2. Len(c) >= Len(file[p])
        BY <2>4, <4>1 DEF Shorter
      <4>3. s \in Blob /\ Len(s) \in Nat
        BY <1>0, <2>2, <3>2
      <4>4. \/ s \in readable[h]
            \/ Len(c) >= Len(s) \/ Len(file[p]) >= Len(s)
        BY <2>1, <2>4, <3>2, <4>3 DEF Shorter
      <4>5. s \in readable[h] => Len(file[p]) >= Len(s)
        BY <3>2, <4>1 DEF Inv, OpensCovered, Covers
      <4>6. Len(c) >= Len(s)
        BY <2>4, <4>2, <4>3, <4>4, <4>5
      <4> QED
        BY <2>1, <2>4, <4>6 DEF Covers
    <3>3. ASSUME since'[h] # "changed", opening[h] # p, NEW s \in readable'[h]
          PROVE  Covers(opening[h], s)'
      <4>1. readable'[h] = readable[h] /\ since[h] # "changed"
            /\ opening[h] \in Path /\ opening'[h] = opening[h]
        BY <2>1, <3>3 DEF Inv, Types
      <4>2. Covers(opening[h], s)
        BY <3>3, <4>1 DEF Inv, OpensCovered
      <4> QED
        BY <2>1, <2>4, <3>3, <4>1, <4>2 DEF Covers
    <3>4. ASSUME since'[h] # "changed", NEW s \in readable'[h]
          PROVE  Covers(opening[h], s)'
      <4>1. opening'[h] = opening[h]
        BY <2>1
      <4> QED
        BY <3>2, <3>3, <3>4, <4>1
    <3> QED
      BY <3>1, <3>4
  <2>6. SizeCovers'
    <3> SUFFICES ASSUME NEW h \in Handle, ~Closed(h)
                 PROVE  /\ since'[h] # "changed" =>
                             Covers(name[h], snapshot[h])'
                        /\ since'[h] = "asked" =>
                             \/ st_size[name[h]] = NoSize
                             \/ st_size[name[h]] >= Len(snapshot[h])
      BY <2>1 DEF SizeCovers, Closed, Covers
    <3>1. since'[h] = "asked" => since[h] = "asked"
      BY <2>1
    <3>2. since'[h] # "changed" => since[h] # "changed"
      BY <2>1
    <3>3. name[h] \in Path /\ Len(snapshot[h]) \in Nat
      BY <1>0 DEF Inv, Types, Closed
    <3>4. since[h] # "changed" => Covers(name[h], snapshot[h])
      BY DEF Inv, SizeCovers
    <3>5. since'[h] # "changed" /\ name[h] = p => Len(c) >= Len(snapshot[h])
      BY <2>1, <2>4, <3>3 DEF Shorter
    <3>6. since'[h] # "changed" => Covers(name[h], snapshot[h])'
      BY <2>1, <2>4, <3>2, <3>3, <3>4, <3>5 DEF Covers
    <3> QED
      BY <3>1, <3>6 DEF Inv, SizeCovers
  <2> QED
    BY <2>3, <2>5, <2>6 DEF Inv
<1>2. ASSUME NEW p \in Path, NEW c \in Contents \cup {NoFile},
             Replace(p, c)
      PROVE  Inv'
  <2>1. /\ UNCHANGED <<name, snapshot, reply, opening, st_size, got>>
        /\ file' = [file EXCEPT ![p] = c]
        /\ readable' = [h \in Handle |->
             IF opening[h] = p THEN Blob ELSE readable[h]]
        /\ DOMAIN since' = Handle
        /\ \A h \in Handle :
             IF opening[h] = p \/ (name[h] = p /\ Shorter(c, snapshot[h]))
             THEN since'[h] = "changed" ELSE since'[h] = since[h]
    BY <1>2 DEF Replace, Inv, Types
  <2>2. readable' \in [Handle -> SUBSET Blob]
        /\ file' \in [Path -> Contents \cup {NoFile}]
    BY <2>1 DEF Inv, Types
  <2>3. Types' /\ ReadsPrefix'
    BY <2>1, <2>2, HandlesAlone DEF Inv, Types
  <2>4. /\ file'[p] = c /\ c # NoFile => Len(c) \in Nat
        /\ \A q \in Path : q # p => file'[q] = file[q]
    BY <1>0, <2>1, BytesAssumption DEF Inv, Types
  <2>5. OpensCovered'
    BY <2>1, <2>4 DEF Inv, Types, OpensCovered, Closed, Covers
  <2>6. SizeCovers'
    <3> SUFFICES ASSUME NEW h \in Handle, ~Closed(h)
                 PROVE  /\ since'[h] # "changed" =>
                             Covers(name[h], snapshot[h])'
                        /\ since'[h] = "asked" =>
                             \/ st_size[name[h]] = NoSize
                             \/ st_size[name[h]] >= Len(snapshot[h])
      BY <2>1 DEF SizeCovers, Closed, Covers
    <3>1. since'[h] = "asked" => since[h] = "asked"
      BY <2>1
    <3>2. since'[h] # "changed" => since[h] # "changed"
      BY <2>1
    <3>3. name[h] \in Path /\ Len(snapshot[h]) \in Nat
      BY <1>0 DEF Inv, Types, Closed
    <3>4. since[h] # "changed" => Covers(name[h], snapshot[h])
      BY DEF Inv, SizeCovers
    <3>5. since'[h] # "changed" /\ name[h] = p =>
            c # NoFile /\ Len(c) >= Len(snapshot[h])
      BY <2>1, <2>4, <3>3 DEF Shorter
    <3>6. since'[h] # "changed" => Covers(name[h], snapshot[h])'
      BY <2>1, <2>4, <3>2, <3>3, <3>4, <3>5 DEF Covers
    <3> QED
      BY <3>1, <3>6 DEF Inv, SizeCovers
  <2> QED
    BY <2>3, <2>5, <2>6 DEF Inv
<1>3. ASSUME NEW p \in Path, Expire(p)
      PROVE  Inv'
  <2>1. Types' /\ ReadsPrefix'
    BY <1>3, HandlesAlone DEF Expire, client, open, Inv, Types
  <2>2. OpensCovered' /\ SizeCovers'
    BY <1>3
    DEF Expire, client, open, Inv, Types, OpensCovered, SizeCovers, Closed,
        Covers
  <2> QED
    BY <2>1, <2>2 DEF Inv
<1>4. ASSUME NEW p \in Path, NEW size \in Nat \cup {NoSize}, Stat(p, size),
             size # NoSize => file[p] # NoFile /\ size = Len(file[p])
      PROVE  Inv'
  <2>1. Types' /\ ReadsPrefix'
    BY <1>4, HandlesAlone DEF Stat, open, Inv, Types
  <2>2. OpensCovered'
    BY <1>4, SentinelAssumption
    DEF Stat, open, Inv, Types, OpensCovered, Closed, Covers
  <2>3. SizeCovers'
    BY <1>4 DEF Stat, open, Inv, Types, SizeCovers, Closed, Covers
  <2> QED
    BY <2>1, <2>2, <2>3 DEF Inv
<1>5. ASSUME NEW p \in Path, fuseStat(p)
      PROVE  Inv'
  BY <1>0, <1>4, <1>5 DEF fuseStat
<1>6. ASSUME NEW p \in Path, fuseStatFails(p)
      PROVE  Inv'
  BY <1>4, <1>6 DEF fuseStatFails
<1>7. ASSUME NEW h \in Handle, NEW p \in Path, openBegins(h, p)
      PROVE  Inv'
  <2>1. /\ Closed(h) /\ opening' = [opening EXCEPT ![h] = p]
        /\ readable' = [readable EXCEPT ![h] = {file[p]} \ {NoFile}]
        /\ got' = [got EXCEPT ![h] = <<>>]
        /\ since' = [since EXCEPT ![h] = "old"]
        /\ DOMAIN reply' = Handle
        /\ UNCHANGED <<name, snapshot, file, st_size>>
    BY <1>7 DEF openBegins, Ask, Inv, Types
  <2>2. <<>> \in Seq(Byte) /\ {file[p]} \ {NoFile} \in SUBSET Blob
    BY BytesAssumption DEF Inv, Types
  <2>3. Types' /\ ReadsPrefix'
    BY <2>1, <2>2 DEF Inv, Types, ReadsPrefix, Closed
  <2>4. \A s \in {file[p]} \ {NoFile} : Covers(p, s)'
    BY <1>0, <2>1 DEF Covers
  <2>5. OpensCovered'
    BY <2>1, <2>4 DEF Inv, Types, OpensCovered, Closed, Covers
  <2>6. SizeCovers'
    BY <2>1 DEF Inv, Types, SizeCovers, Closed, Covers
  <2> QED
    BY <2>3, <2>5, <2>6 DEF Inv
<1>8. ASSUME NEW h \in Handle, openEnds(h)
      PROVE  Inv'
  <2>1. PICK s \in Blob : snapshot' = [snapshot EXCEPT ![h] = s]
    BY <1>8 DEF openEnds, Open
  <2>2. /\ Closed(h) /\ opening[h] # NoPath
        /\ name' = [name EXCEPT ![h] = opening[h]]
        /\ opening' = [opening EXCEPT ![h] = NoPath]
        /\ readable' = [readable EXCEPT ![h] = {}]
        /\ DOMAIN reply' = Handle
        /\ UNCHANGED <<file, st_size, got, since>>
        /\ snapshot'[h] \in readable[h]
    BY <1>8 DEF openEnds, openReturns, Open, client, Inv, Types
  <2>3. snapshot'[h] = s /\ s \in readable[h]
    BY <2>1, <2>2 DEF Inv, Types
  <2>4. \A g \in Handle : g # h =>
          name'[g] = name[g] /\ snapshot'[g] = snapshot[g]
    BY <2>1, <2>2 DEF Inv, Types
  <2>5. name'[h] = opening[h] /\ opening[h] \in Path
    BY <2>2 DEF Inv, Types
  <2>6. Types'
    BY <2>1, <2>2, <2>3, <2>4 DEF Inv, Types, Closed
  <2>7. ReadsPrefix'
    <3>1. got[h] = <<>> /\ Len(<<>>) = 0
      BY <2>2 DEF Inv, OpensCovered
    <3>2. s \in Seq(Byte)
      BY BytesAssumption
    <3>3. Len(s) >= 0 /\ SubSeq(s, 1, 0) = <<>>
      BY <3>2
    <3> QED
      BY <2>2, <2>3, <2>4, <3>1, <3>3 DEF Inv, ReadsPrefix, Closed
  <2>8. OpensCovered'
    BY <2>2, <2>4 DEF Inv, Types, OpensCovered, Closed, Covers
  <2>9. SizeCovers'
    BY <2>2, <2>3, <2>4, <2>5
    DEF Inv, OpensCovered, SizeCovers, Closed, Covers
  <2> QED
    BY <2>6, <2>7, <2>8, <2>9 DEF Inv
<1>9. ASSUME NEW h \in Handle, openFails(h)
      PROVE  Inv'
  <2>1. /\ opening' = [opening EXCEPT ![h] = NoPath]
        /\ readable' = [readable EXCEPT ![h] = {}]
        /\ DOMAIN reply' = Handle
        /\ UNCHANGED <<name, snapshot, file, st_size, got, since>>
    BY <1>9 DEF openFails, openReturns, Refuse, client, Inv, Types
  <2> QED
    BY <2>1
    DEF Inv, Types, ReadsPrefix, OpensCovered, SizeCovers, Closed, Covers
<1>10. ASSUME NEW h \in Handle, release(h)
       PROVE  Inv'
  <2>1. /\ ~Closed(h) /\ name' = [name EXCEPT ![h] = NoPath]
        /\ snapshot' = [snapshot EXCEPT ![h] = NotOpen]
        /\ DOMAIN reply' = Handle
        /\ UNCHANGED <<opening, readable, file, st_size, got, since>>
    BY <1>10 DEF release, Close, open, client, Inv, Types
  <2>2. Types' /\ ReadsPrefix'
    BY <2>1 DEF Inv, Types, ReadsPrefix, Closed
  <2>3. OpensCovered' /\ SizeCovers'
    BY <2>1 DEF Inv, Types, OpensCovered, SizeCovers, Closed, Covers
  <2> QED
    BY <2>2, <2>3 DEF Inv
<1>11. ASSUME NEW h \in Handle, readEnd(h)
       PROVE  Inv'
  BY <1>11
  DEF readEnd, open, Inv, Types, ReadsPrefix, OpensCovered, SizeCovers, Closed,
      Covers
<1>12. ASSUME NEW h \in Handle, NEW count \in Count, read(h, count)
       PROVE  Inv'
  <2>1. /\ UNCHANGED <<name, snapshot, opening, readable, file, st_size, since>>
        /\ DOMAIN reply' = Handle /\ got' \in [Handle -> Seq(Byte)]
    <3>1. /\ DOMAIN got' = Handle /\ DOMAIN reply' = Handle
          /\ UNCHANGED <<name, snapshot, opening, readable, file, st_size,
                         since>>
          /\ got' = [g \in Handle |-> got'[g]]
      BY <1>12 DEF read, Read, open, Inv, Types
    <3>2. \A g \in Handle : got'[g] \in Seq(Byte)
      BY <1>12, ReadContinues DEF Inv, Types
    <3> QED
      BY <3>1, <3>2
  <2>2. ~Closed(h) /\ \A g \in Handle : g # h => got'[g] = got[g]
    BY <1>12, ReadContinues DEF read, Reading
  <2>3. Types' /\ SizeCovers'
    BY <2>1 DEF Inv, Types, SizeCovers, Closed, Covers
  <2>4. OpensCovered'
    BY <2>1, <2>2 DEF Inv, OpensCovered, Closed, Covers
  <2>5. ReadsPrefix'
    BY <1>12, <2>1, ReadContinues DEF Inv, ReadsPrefix, Closed
  <2> QED
    BY <2>3, <2>4, <2>5 DEF Inv
<1>13. CASE UNCHANGED allVars
  BY <1>13
  DEF allVars, open, client, Inv, Types, ReadsPrefix, OpensCovered, SizeCovers,
      Closed, Covers
<1> QED
  BY <1>1, <1>2, <1>3, <1>5, <1>6, <1>7, <1>8, <1>9, <1>10, <1>11, <1>12, <1>13
  DEF StatNext

(* Inv is an invariant. *)
LEMMA InvHolds == StatSpec => []Inv
  BY InitInv, InvKept, PTL DEF StatSpec

(* ReadsPrefix: what a client has read is the beginning of the verified    *)
(* bytes, whatever sizes fuseStat gave the kernel meanwhile.               *)
THEOREM ClientsReadPrefix == StatSpec => []ReadsPrefix
<1>1. Inv => ReadsPrefix
  BY DEF Inv
<1> QED
  BY InvHolds, <1>1, PTL

(* ReadsWholeIfSteady: at the end of a file that nobody shortened since    *)
(* fuseOpen was called, a client has all of the verified bytes.            *)
THEOREM ClientsReadWhole == StatSpec => ReadsWholeIfSteady
<1> DEFINE Whole == \A h \in Handle :
             readEnd(h) /\ since[h] = "asked" => got[h] = snapshot[h]
<1>1. Inv => Whole
  <2> SUFFICES ASSUME Inv, NEW h \in Handle, readEnd(h), since[h] = "asked"
               PROVE  got[h] = snapshot[h]
    OBVIOUS
  <2>1. ~Closed(h) /\ snapshot[h] \in Seq(Byte) /\ got[h] \in Seq(Byte)
    BY BytesAssumption DEF readEnd, Reading, Inv, Types
  <2>2. st_size[name[h]] >= Len(snapshot[h]) /\ st_size[name[h]] \in Nat
    BY <2>1 DEF readEnd, Reading, Inv, Types, SizeCovers, Closed
  <2>3. /\ Len(got[h]) >= Len(snapshot[h])
        /\ Len(got[h]) <= Len(snapshot[h])
        /\ got[h] = SubSeq(snapshot[h], 1, Len(got[h]))
    BY <2>1, <2>2 DEF readEnd, Inv, ReadsPrefix
  <2>4. Len(got[h]) = Len(snapshot[h])
    BY <2>1, <2>3
  <2>5. SubSeq(snapshot[h], 1, Len(snapshot[h])) = snapshot[h]
    BY <2>1, SubSeqFull
  <2> QED
    BY <2>3, <2>4, <2>5
<1>2. Inv => [Whole]_allVars
  BY <1>1
<1> QED
  BY InvHolds, <1>2, PTL DEF ReadsWholeIfSteady
=============================================================================
