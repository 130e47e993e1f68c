--------------------------- MODULE ManifestProof ---------------------------
(***************************************************************************)
(* Proofs about Manifest for every tree, every set of names and any number *)
(* of changes to the tree while its manifest is made.                      *)
(***************************************************************************)
EXTENDS Manifest, SequenceTheorems, TLAPS

Data == Seq(Block)

Types ==
  /\ content \in [Path -> Data \cup {NoFile}]
  /\ pc \in {"redirect", "glob", "find", "xargs", "done"}
  /\ toVisit \subseteq Path /\ found \subseteq Path
  /\ hashed \in Path \cup {<<>>} /\ linked \in BOOLEAN
  /\ behind \in Data /\ digested \in Data
  /\ had \in [Path -> SUBSET (Data \cup {NoFile})]
  /\ \A p \in Path : content[p] \in had[p]

(* The path of a torn file held two things. *)
TornChanged ==
  torn \subseteq Path /\ \A p \in torn : \E c, d \in had[p] : c # d

(* The file shasum has open is one its path named, and what was read of it *)
(* is pieced from what that path held; unless it was written meanwhile it  *)
(* is its beginning.                                                       *)
InHand ==
  IF hashed = <<>> THEN linked /\ digested = <<>>
  ELSE /\ pc \in {"find", "xargs"}
       /\ behind \in had[hashed]
       /\ linked => content[hashed] = behind
       /\ PiecedFrom(digested, had[hashed] \ {NoFile})
       /\ hashed \notin torn =>
            /\ Len(digested) <= Len(behind)
            /\ \A i \in 1..Len(digested) : digested[i] = behind[i]

(* What AcceptedWasThere asks of accepted bytes. *)
WasThere(p, b) ==
  (p \notin torn => b \in had[p]) /\ PiecedFrom(b, had[p] \ {NoFile})

(* Each line has the digest of such bytes, but for escaped paths and "-".  *)
LinesHeld ==
  \A f \in DOMAIN manifest :
    \/ f = <<"-">>
    \/ f \notin Path \ Escaped /\ manifest[f] = ShiftedHash
    \/ f \in Path \ Escaped
       /\ \E b \in Data : WasThere(f, b) /\ manifest[f] = DigestHex[b]

(* A steady file that find can see is on its way into the manifest.        *)
OnItsWay ==
  status = 0 /\ star \cap Dashed = {} =>
    \A p \in Path \ Escaped : Steady(p) /\ Head(p) \notin Hidden =>
      /\ pc = "find" => p \in toVisit \cup found \cup {hashed} \cup DOMAIN manifest
      /\ pc = "xargs" => p \in found \cup {hashed} \cup DOMAIN manifest
      /\ pc = "done" => p \in DOMAIN manifest

Inv == Types /\ TornChanged /\ InHand /\ LinesHeld /\ OnItsWay

-----------------------------------------------------------------------------
(* The initial states. *)
LEMMA InitInv == Init => Inv
  BY BlobAssumption
  DEF Init, Inv, Data, Types, TornChanged, InHand, LinesHeld, OnItsWay

(* A step adds to what paths held. *)
Adds ==
  /\ content' \in [Path -> Data \cup {NoFile}]
  /\ had' \in [Path -> SUBSET (Data \cup {NoFile})]
  /\ \A p \in Path : content'[p] \in had'[p] /\ had[p] \subseteq had'[p]
  /\ \A p \in Path : Steady(p)' => Steady(p)

(* Becomes does. *)
LEMMA BecomesAdds ==
  ASSUME Types, NEW p \in Path, NEW b \in Data \cup {NoFile}, Becomes(p, b)
  PROVE  Adds /\ content'[p] = b
              /\ \A q \in Path : q # p => content'[q] = content[q]
<1>1. /\ content' = [content EXCEPT ![p] = b]
      /\ had' = [had EXCEPT ![p] = had[p] \cup {b}]
  BY DEF Becomes
<1>2. /\ content' \in [Path -> Data \cup {NoFile}]
      /\ had' \in [Path -> SUBSET (Data \cup {NoFile})]
  BY <1>1 DEF Types
<1>3. /\ content'[p] = b
      /\ \A q \in Path : /\ content'[q] \in had'[q] /\ had[q] \subseteq had'[q]
                         /\ q # p => content'[q] = content[q] /\ had'[q] = had[q]
  BY <1>1 DEF Types
<1>4. ASSUME NEW q \in Path, had'[q] = {content'[q]}, content'[q] # NoFile
      PROVE  had[q] = {content[q]} /\ content[q] # NoFile
  <2>1. had[q] \subseteq {content'[q]}
    BY <1>3, <1>4
  <2>2. content[q] \in had[q] /\ content[q] = content'[q]
    BY <2>1 DEF Types
  <2> QED
    BY <1>4, <2>1, <2>2
<1>5. \A q \in Path : Steady(q)' => Steady(q)
  BY <1>4 DEF Steady
<1>6. Adds
  BY <1>2, <1>3, <1>5 DEF Adds
<1> QED
  BY <1>3, <1>6

(* So does a step that leaves the tree alone. *)
LEMMA StillAdds == ASSUME Types, UNCHANGED tree PROVE Adds
  BY DEF tree, Types, Adds, Steady

LEMMA FlushAdds == ASSUME Types, Flush PROVE Adds
<1>1. CASE UNCHANGED tree
  BY <1>1, StillAdds
<1>2. CASE OutFile \in Path /\ Becomes(OutFile, Partial)
  <2>1. Partial \in Data \cup {NoFile}
    BY BlobAssumption DEF Data
  <2> QED
    BY <1>2, <2>1, BecomesAdds
<1> QED
  BY <1>1, <1>2 DEF Flush

(* What adds to the history leaves what was right before right. *)
LEMMA PartsStay ==
  ASSUME Adds, NEW p \in Path, NEW b, PiecedFrom(b, had[p] \ {NoFile})
  PROVE  PiecedFrom(b, had'[p] \ {NoFile})
  BY DEF Adds, PiecedFrom

LEMMA LinesStay ==
  ASSUME Adds, LinesHeld, manifest' = manifest, torn \subseteq torn'
  PROVE  LinesHeld'
<1> SUFFICES ASSUME NEW f \in DOMAIN manifest, f \in Path \ Escaped,
                    NEW b \in Data, WasThere(f, b), manifest[f] = DigestHex[b]
             PROVE  WasThere(f, b)'
  BY DEF LinesHeld
<1>1. PiecedFrom(b, had'[f] \ {NoFile})
  BY PartsStay DEF WasThere
<1>2. f \notin torn' => b \in had'[f]
  BY DEF WasThere, Adds
<1> QED
  BY <1>1, <1>2 DEF WasThere

LEMMA TornStay ==
  ASSUME Adds, TornChanged, torn' = torn
  PROVE  TornChanged'
  BY DEF Adds, TornChanged

(* Most steps leave the file in hand, or work when there is none. *)
LEMMA InHandStays ==
  ASSUME InHand, UNCHANGED <<input, torn>>,
         \/ hashed = <<>>
         \/ UNCHANGED tree /\ pc' \in {"find", "xargs"}
  PROVE  InHand'
  BY DEF InHand, input, tree

-----------------------------------------------------------------------------
(* Another process writes into the file of a path. *)
LEMMA WriteKeeps ==
  ASSUME Inv, NEW p \in Path, NEW b \in Contents, Write(p, b)
  PROVE  Inv'
<1>1. b \in Data /\ content[p] # NoFile /\ content[p] # b
  BY BlobAssumption DEF Write, Data
<1>2. Adds /\ content'[p] = b
           /\ \A q \in Path : q # p => content'[q] = content[q]
  BY <1>1, BecomesAdds DEF Write, Inv
<1>3. /\ UNCHANGED <<pc, star, toVisit, found, hashed, digested, manifest,
                     status, linked>>
      /\ IF hashed = p /\ linked
         THEN behind' = b /\ torn' = torn \cup {p}
         ELSE behind' = behind /\ torn' = torn
  BY DEF Write, Disturb
<1>4. Types'
  BY <1>1, <1>2, <1>3 DEF Inv, Types, Adds
<1>5. TornChanged'
  <2>1. content[p] \in had'[p] /\ b \in had'[p]
    BY <1>2 DEF Inv, Types, Adds
  <2> QED
    BY <1>1, <1>2, <1>3, <2>1 DEF Inv, TornChanged, Adds
<1>6. InHand'
  <2>1. CASE hashed = <<>>
    BY <1>3, <2>1 DEF Inv, InHand
  <2>2. CASE hashed # <<>>
    <3>1. hashed \in Path /\ hashed' = hashed
      BY <1>3, <2>2 DEF Inv, Types
    <3>2. PiecedFrom(digested', had'[hashed] \ {NoFile})
      BY <1>2, <1>3, <2>2, <3>1, PartsStay DEF Inv, InHand
    <3>3. behind' \in had'[hashed]
      BY <1>2, <1>3, <2>2, <3>1 DEF Inv, InHand, Adds
    <3>4. linked' => content'[hashed] = behind'
      BY <1>2, <1>3, <2>2, <3>1 DEF Inv, InHand
    <3>5. hashed \notin torn' => behind' = behind /\ hashed \notin torn
      BY <1>3
    <3> QED
      BY <1>3, <2>2, <3>1, <3>2, <3>3, <3>4, <3>5 DEF Inv, InHand
  <2> QED
    BY <2>1, <2>2
<1>7. LinesHeld'
  BY <1>2, <1>3, LinesStay DEF Inv
<1>8. OnItsWay'
  BY <1>2, <1>3 DEF Inv, OnItsWay, Adds
<1> QED
  BY <1>4, <1>5, <1>6, <1>7, <1>8 DEF Inv

(* Another process gives the path another file, or none. *)
LEMMA ReplaceKeeps ==
  ASSUME Inv, NEW p \in Path, NEW b \in Contents \cup {NoFile}, Replace(p, b)
  PROVE  Inv'
<1>1. b \in Data \cup {NoFile}
  BY BlobAssumption DEF Data
<1>2. Adds /\ \A q \in Path : q # p => content'[q] = content[q]
  BY <1>1, BecomesAdds DEF Replace, Inv
<1>3. /\ UNCHANGED <<pc, star, toVisit, found, hashed, digested, manifest,
                     status, behind, torn>>
      /\ linked' = (linked /\ hashed # p)
  BY DEF Replace, Disturb
<1>4. Types'
  BY <1>2, <1>3 DEF Inv, Types, Adds
<1>5. TornChanged' /\ LinesHeld'
  BY <1>2, <1>3, TornStay, LinesStay DEF Inv
<1>6. InHand'
  <2>1. CASE hashed = <<>>
    BY <1>3, <2>1, PathAssumption DEF Inv, InHand
  <2>2. CASE hashed # <<>>
    <3>1. hashed \in Path /\ hashed' = hashed
      BY <1>3, <2>2 DEF Inv, Types
    <3>2. PiecedFrom(digested', had'[hashed] \ {NoFile})
      BY <1>2, <1>3, <2>2, <3>1, PartsStay DEF Inv, InHand
    <3>3. behind' \in had'[hashed]
      BY <1>2, <1>3, <2>2, <3>1 DEF Inv, InHand, Adds
    <3>4. linked' => content'[hashed] = behind'
      BY <1>2, <1>3, <2>2, <3>1 DEF Inv, InHand
    <3> QED
      BY <1>3, <2>2, <3>1, <3>2, <3>3, <3>4 DEF Inv, InHand
  <2> QED
    BY <2>1, <2>2
<1>7. OnItsWay'
  BY <1>2, <1>3 DEF Inv, OnItsWay, Adds
<1> QED
  BY <1>4, <1>5, <1>6, <1>7 DEF Inv

(* Another process writes into the file that shasum reads under a name it  *)
(* no longer has.                                                          *)
LEMMA WriteReplacedKeeps ==
  ASSUME Inv, NEW b \in Contents, WriteReplaced(b)
  PROVE  Inv'
<1>1. b \in Data /\ b # behind /\ ~linked
  BY BlobAssumption DEF WriteReplaced, Data
<1>2. hashed \in Path /\ hashed # <<>>
  BY <1>1 DEF Inv, InHand, Types
<1>3. /\ UNCHANGED <<pc, star, toVisit, found, hashed, digested, manifest,
                     status, content, linked>>
      /\ behind' = b /\ torn' = torn \cup {hashed}
      /\ had' = [had EXCEPT ![hashed] = had[hashed] \cup {b}]
  BY DEF WriteReplaced, Disturb
<1>4. /\ had' \in [Path -> SUBSET (Data \cup {NoFile})]
      /\ \A p \in Path : had[p] \subseteq had'[p]
      /\ \A p \in Path : p # hashed => had'[p] = had[p]
      /\ had'[hashed] = had[hashed] \cup {b}
  BY <1>1, <1>2, <1>3 DEF Inv, Types
<1>5. Adds
  BY <1>3, <1>4 DEF Inv, Types, Adds, Steady
<1>6. Types'
  BY <1>1, <1>3, <1>5 DEF Inv, Types, Adds
<1>7. TornChanged'
  <2>1. behind \in had'[hashed] /\ b \in had'[hashed]
    BY <1>2, <1>4 DEF Inv, InHand
  <2> QED
    BY <1>1, <1>2, <1>3, <1>4, <2>1 DEF Inv, TornChanged
<1>8. InHand'
  <2>1. PiecedFrom(digested', had'[hashed] \ {NoFile})
    BY <1>2, <1>3, <1>5, PartsStay DEF Inv, InHand
  <2> QED
    BY <1>1, <1>2, <1>3, <1>4, <2>1 DEF Inv, InHand
<1>9. LinesHeld'
  BY <1>3, <1>5, LinesStay DEF Inv
<1>10. OnItsWay'
  BY <1>3, <1>5 DEF Inv, OnItsWay, Adds
<1> QED
  BY <1>6, <1>7, <1>8, <1>9, <1>10 DEF Inv

-----------------------------------------------------------------------------
(* shasum opens a file. *)
LEMMA OpensKeeps ==
  ASSUME Inv, NEW p \in Path, shasumOpens(p)
  PROVE  Inv'
<1>1. /\ pc \in {"find", "xargs"} /\ hashed = <<>> /\ p \in found
      /\ content[p] # NoFile /\ found' = found \ {p} /\ hashed' = p
      /\ behind' = content[p] /\ linked /\ digested = <<>>
      /\ UNCHANGED <<tree, content, had, pc, star, toVisit, linked, digested,
                     manifest, status, torn>>
  BY DEF shasumOpens, tree, Inv, InHand
<1>2. Adds
  BY <1>1, StillAdds DEF Inv
<1>3. Types'
  BY <1>1 DEF Inv, Types
<1>4. TornChanged' /\ LinesHeld'
  BY <1>1, <1>2, TornStay, LinesStay DEF Inv
<1>5. InHand'
  <2>1. p # <<>> /\ content[p] \in Data /\ content[p] \in had[p]
    BY <1>1, PathAssumption DEF Inv, Types
  <2>2. Len(content[p]) \in Nat /\ Len(<<>>) = 0
    BY <2>1 DEF Data
  <2> QED
    BY <1>1, <2>1, <2>2 DEF InHand, PiecedFrom
<1>6. OnItsWay'
  <2>1. found \cup {hashed} \subseteq found' \cup {hashed'} \cup {<<>>}
    BY <1>1
  <2>2. \A q \in Path : Steady(q)' => Steady(q) /\ q # <<>>
    BY <1>2, PathAssumption DEF Adds
  <2> QED
    BY <1>1, <2>1, <2>2 DEF Inv, OnItsWay
<1> QED
  BY <1>3, <1>4, <1>5, <1>6 DEF Inv

(* shasum reads a block. *)
LEMMA ReadsKeeps ==
  ASSUME Inv, shasumReads
  PROVE  Inv'
<1> DEFINE n == Len(digested)
           m == Len(behind)
           block == behind[n + 1]
<1>1. /\ hashed # <<>> /\ n < m /\ digested' = Append(digested, block)
      /\ UNCHANGED <<tree, content, had, pc, star, toVisit, found, hashed,
                     linked, behind, manifest, status, torn>>
  BY DEF shasumReads, tree
<1>2. hashed \in Path /\ behind \in Data /\ digested \in Data
  BY <1>1 DEF Inv, Types
<1>3. n \in Nat /\ m \in Nat /\ n + 1 \in 1..m /\ block \in Block
  BY <1>1, <1>2 DEF Data
<1>4. /\ digested' \in Data /\ Len(digested') = n + 1
      /\ \A i \in 1..n : digested'[i] = digested[i]
      /\ digested'[n + 1] = block
  BY <1>1, <1>2, <1>3 DEF Data
<1>5. behind # NoFile /\ behind \in had[hashed]
  BY <1>1, <1>2, BlobAssumption DEF Inv, InHand, Data
<1> HIDE DEF n, m, block
<1>6. \A i \in 1..(n + 1) : i \in 1..n \/ i = n + 1
  BY <1>3
<1>7. PiecedFrom(digested', had'[hashed] \ {NoFile})
  <2> SUFFICES ASSUME NEW i \in 1..(n + 1)
               PROVE  \E c \in had[hashed] \ {NoFile} :
                        i \in 1..Len(c) /\ c[i] = digested'[i]
    BY <1>1, <1>4 DEF PiecedFrom
  <2>1. CASE i \in 1..n
    BY <1>1, <1>4, <2>1 DEF Inv, InHand, PiecedFrom, n
  <2>2. CASE i = n + 1
    BY <1>3, <1>4, <1>5, <2>2 DEF m, block
  <2> QED
    BY <1>6, <2>1, <2>2
<1>8. ASSUME hashed \notin torn
      PROVE  /\ n + 1 <= m
             /\ \A i \in 1..(n + 1) : digested'[i] = behind[i]
  <2>1. \A i \in 1..n : digested'[i] = behind[i]
    BY <1>1, <1>4, <1>8 DEF Inv, InHand, n
  <2> QED
    BY <1>3, <1>4, <1>6, <2>1 DEF block
<1>9. InHand'
  BY <1>1, <1>4, <1>7, <1>8 DEF Inv, InHand, m
<1>10. Adds
  BY <1>1, StillAdds DEF Inv
<1>11. Types' /\ OnItsWay'
  BY <1>1, <1>4 DEF Inv, Types, OnItsWay, Steady
<1>12. TornChanged' /\ LinesHeld'
  BY <1>1, <1>10, TornStay, LinesStay DEF Inv
<1> QED
  BY <1>9, <1>11, <1>12 DEF Inv

(* What shasum has read at the end of a file was there. *)
LEMMA EndWasThere ==
  ASSUME Inv, shasumLists
  PROVE  hashed \in Path /\ digested \in Data /\ WasThere(hashed, digested)
<1>1. /\ hashed # <<>> /\ hashed \in Path /\ behind \in Seq(Block)
      /\ digested \in Seq(Block) /\ Len(digested) >= Len(behind)
  BY DEF shasumLists, Inv, Types, Data
<1>2. ASSUME hashed \notin torn
      PROVE  digested \in had[hashed]
  <2>1. /\ Len(digested) <= Len(behind)
        /\ \A i \in 1..Len(digested) : digested[i] = behind[i]
        /\ behind \in had[hashed]
    BY <1>1, <1>2 DEF Inv, InHand
  <2>2. Len(digested) = Len(behind)
    BY <1>1, <2>1
  <2>3. digested = behind
    BY <1>1, <2>1, <2>2, SeqEqual
  <2> QED
    BY <2>1, <2>3
<1> QED
  BY <1>1, <1>2 DEF WasThere, Inv, InHand, Data

(* shasum prints the line of a file. *)
LEMMA ListsKeeps ==
  ASSUME Inv, shasumLists
  PROVE  Inv'
<1> DEFINE p == hashed
           f == filename(p)
           h == hash(p, digested)
<1>1. p \in Path /\ digested \in Data /\ WasThere(p, digested)
  BY EndWasThere
<1>2. /\ manifest' = [g \in DOMAIN manifest \cup {f} |->
                        IF g = f THEN h ELSE manifest[g]]
      /\ hashed' = <<>> /\ linked' = TRUE /\ behind' = <<>> /\ digested' = <<>>
      /\ UNCHANGED <<pc, star, toVisit, found, status, torn>>
  BY DEF shasumLists, List, Closes
<1>3. Adds
  BY FlushAdds DEF shasumLists, Inv
<1>4. Types' /\ TornChanged' /\ InHand'
  <2>1. <<>> \in Data
    BY DEF Data
  <2> QED
    BY <1>2, <1>3, <2>1, TornStay DEF Inv, Types, Adds, InHand
<1>5. /\ p \in Escaped => f \notin Path \ Escaped /\ h = ShiftedHash
      /\ p \notin Escaped => f = p /\ h = DigestHex[digested]
  BY ShiftedAssumption DEF filename, hash
<1>7. PiecedFrom(digested, had'[p] \ {NoFile})
  BY <1>1, <1>3, PartsStay DEF WasThere
<1>8. p \notin torn' => digested \in had'[p]
  BY <1>1, <1>2, <1>3 DEF WasThere, Adds
<1> HIDE DEF f, h
<1>9. DOMAIN manifest' = DOMAIN manifest \cup {f}
      /\ \A g \in DOMAIN manifest' :
           manifest'[g] = IF g = f THEN h ELSE manifest[g]
  BY <1>2
<1>10. LinesHeld'
  <2> SUFFICES ASSUME NEW g \in DOMAIN manifest'
               PROVE  \/ g = <<"-">>
                      \/ g \notin Path \ Escaped /\ manifest'[g] = ShiftedHash
                      \/ /\ g \in Path \ Escaped
                         /\ \E b \in Data : WasThere(g, b)'
                                            /\ manifest'[g] = DigestHex[b]
    BY DEF LinesHeld
  <2>1. CASE g = f /\ p \in Escaped
    BY <1>5, <1>9, <2>1
  <2>2. CASE g = f /\ p \notin Escaped
    <3>1. g = p /\ manifest'[g] = DigestHex[digested]
      BY <1>5, <1>9, <2>2
    <3> DEFINE d == digested
    <3>2. d \in Data /\ manifest'[g] = DigestHex[d] /\ g \in Path \ Escaped
      BY <1>1, <2>2, <3>1
    <3>3. /\ g \notin torn' => d \in had'[g]
          /\ PiecedFrom(d, had'[g] \ {NoFile})
      BY <1>7, <1>8, <3>1
    <3> QED
      BY <3>2, <3>3 DEF WasThere
  <2>3. CASE g # f
    <3>1. g \in DOMAIN manifest /\ manifest'[g] = manifest[g]
      BY <1>9, <2>3
    <3>2. ASSUME g \in Path \ Escaped, NEW b \in Data, WasThere(g, b)
          PROVE  WasThere(g, b)'
      <4>1. PiecedFrom(b, had'[g] \ {NoFile})
        BY <1>3, <3>2, PartsStay DEF WasThere
      <4>2. g \notin torn' => b \in had'[g]
        BY <1>2, <1>3, <3>2 DEF WasThere, Adds
      <4> QED
        BY <4>1, <4>2 DEF WasThere
    <3> QED
      BY <3>1, <3>2 DEF Inv, LinesHeld
  <2> QED
    BY <2>1, <2>2, <2>3
<1>11. OnItsWay'
  BY <1>2, <1>3, <1>5, <1>9 DEF Inv, OnItsWay, Adds
<1> QED
  BY <1>4, <1>10, <1>11 DEF Inv

-----------------------------------------------------------------------------
(* Inv is inductive. *)
LEMMA InvKept == Inv /\ [Next]_vars => Inv'
<1> SUFFICES ASSUME Inv, [Next]_vars PROVE Inv'
  OBVIOUS
<1>1. CASE redirect
  <2>1. /\ pc = "redirect" /\ pc' = "glob" /\ hashed = <<>>
        /\ UNCHANGED <<star, toVisit, found, input, manifest, status, torn>>
    BY <1>1 DEF redirect, Inv, InHand
  <2>2. Adds
    <3>1. <<>> \in Data
      BY DEF Data
    <3> QED
      BY <1>1, <3>1, BecomesAdds, StillAdds DEF redirect, Inv
  <2>3. TornChanged' /\ LinesHeld' /\ InHand'
    BY <2>1, <2>2, TornStay, LinesStay, InHandStays DEF Inv
  <2>4. Types' /\ OnItsWay'
    BY <2>1, <2>2 DEF Inv, Types, OnItsWay, Adds, input
  <2> QED
    BY <2>3, <2>4 DEF Inv
<1>2. CASE glob
  <2>1. /\ pc = "glob" /\ pc' = "find" /\ hashed = <<>>
        /\ UNCHANGED <<tree, found, input, manifest, status, torn>>
    BY <1>2 DEF glob, Inv, InHand
  <2>2. Adds
    BY <2>1, StillAdds DEF Inv
  <2>3. TornChanged' /\ LinesHeld' /\ InHand'
    BY <2>1, <2>2, TornStay, LinesStay, InHandStays DEF Inv
  <2>4. Types'
    BY <1>2, <2>1 DEF glob, tree, input, Inv, Types
  <2>5. ASSUME NEW p \in Path, Steady(p), Head(p) \notin Hidden,
               star' \cap Dashed = {}
        PROVE  p \in toVisit'
    BY <1>2, <2>5 DEF glob, Steady
  <2>6. OnItsWay'
    BY <2>1, <2>2, <2>5 DEF OnItsWay, Adds
  <2> QED
    BY <2>3, <2>4, <2>6 DEF Inv
<1>3. ASSUME NEW q \in Path, find(q)
      PROVE  Inv'
  <2>1. /\ pc = "find" /\ pc' = "find"
        /\ UNCHANGED <<tree, star, input, manifest, status, torn>>
    BY <1>3 DEF find
  <2>2. Adds
    BY <2>1, StillAdds DEF Inv
  <2>3. TornChanged' /\ LinesHeld' /\ InHand'
    BY <2>1, <2>2, TornStay, LinesStay, InHandStays DEF Inv
  <2>4. Types' /\ OnItsWay'
    BY <1>3, <2>1 DEF find, tree, input, Inv, Types, OnItsWay, Steady
  <2> QED
    BY <2>3, <2>4 DEF Inv
<1>4. CASE findEnds
  <2>1. /\ pc = "find" /\ pc' = "xargs" /\ toVisit = {}
        /\ UNCHANGED <<tree, star, toVisit, found, input, manifest, status, torn>>
    BY <1>4 DEF findEnds
  <2>2. Adds
    BY <2>1, StillAdds DEF Inv
  <2>3. TornChanged' /\ LinesHeld' /\ InHand'
    BY <2>1, <2>2, TornStay, LinesStay, InHandStays DEF Inv
  <2>4. Types' /\ OnItsWay'
    BY <2>1 DEF tree, input, Inv, Types, OnItsWay, Steady
  <2> QED
    BY <2>3, <2>4 DEF Inv
<1>5. ASSUME NEW p \in Path, shasumFails(p)
      PROVE  Inv'
  <2>1. /\ pc' = pc /\ status' = 123 /\ found' \subseteq found
        /\ UNCHANGED <<tree, star, toVisit, manifest, torn>>
        /\ \/ hashed = <<>> /\ UNCHANGED input
           \/ Closes
    BY <1>5 DEF shasumFails
  <2>2. Adds
    BY <2>1, StillAdds DEF Inv
  <2>3. TornChanged' /\ LinesHeld'
    BY <2>1, <2>2, TornStay, LinesStay DEF Inv
  <2>4. InHand'
    BY <2>1 DEF Inv, InHand, Closes, input
  <2>5. <<>> \in Data
    BY DEF Data
  <2>6. UNCHANGED input => Types'
    BY <2>1 DEF tree, input, Inv, Types
  <2>7. Closes => Types'
    BY <2>1, <2>5 DEF tree, Closes, Inv, Types
  <2>8. Types' => Inv'
    BY <2>1, <2>3, <2>4 DEF Inv, OnItsWay
  <2> QED
    BY <2>1, <2>6, <2>7, <2>8
<1>6. CASE shasumStdin
  <2>1. /\ DOMAIN manifest = {} /\ DOMAIN manifest' = {<<"-">>}
        /\ UNCHANGED <<tree, pc, star, toVisit, found, input, status, torn>>
        /\ hashed = <<>>
    BY <1>6 DEF shasumStdin, List
  <2>2. Adds
    BY <2>1, StillAdds DEF Inv
  <2>3. TornChanged' /\ InHand'
    BY <2>1, <2>2, TornStay, InHandStays DEF Inv
  <2>4. LinesHeld'
    BY <2>1 DEF LinesHeld
  <2>5. Types' /\ OnItsWay'
    BY <2>1 DEF tree, input, Inv, Types, OnItsWay, Steady
  <2> QED
    BY <2>3, <2>4, <2>5 DEF Inv
<1>7. CASE end
  <2>1. /\ pc = "xargs" /\ pc' = "done" /\ found = {} /\ hashed = <<>>
        /\ UNCHANGED <<star, toVisit, found, input, manifest, status, torn>>
    BY <1>7 DEF end
  <2>2. Adds
    BY <1>7, FlushAdds DEF end, Inv
  <2>3. TornChanged' /\ LinesHeld' /\ InHand'
    BY <2>1, <2>2, TornStay, LinesStay, InHandStays DEF Inv
  <2>4. Types' /\ OnItsWay'
    BY <2>1, <2>2, PathAssumption DEF input, Inv, Types, OnItsWay, Adds
  <2> QED
    BY <2>3, <2>4 DEF Inv
<1>8. CASE UNCHANGED vars
  <2>1. /\ UNCHANGED <<tree, pc, star, toVisit, found, input, manifest, status,
                       torn>>
    BY <1>8 DEF vars
  <2>2. Adds
    BY <2>1, StillAdds DEF Inv
  <2>3. TornChanged' /\ LinesHeld'
    BY <2>1, <2>2, TornStay, LinesStay DEF Inv
  <2>4. InHand'
    BY <2>1 DEF Inv, InHand, tree, input
  <2>5. Types' /\ OnItsWay'
    BY <2>1 DEF tree, input, Inv, Types, OnItsWay, Steady
  <2> QED
    BY <2>3, <2>4, <2>5 DEF Inv
<1> QED
  BY <1>1, <1>2, <1>3, <1>4, <1>5, <1>6, <1>7, <1>8, OpensKeeps, ReadsKeeps,
     ListsKeeps, WriteKeeps, ReplaceKeeps, WriteReplacedKeeps
  DEF Next, makeManifest

(* Inv is an invariant. *)
LEMMA InvHolds == Spec => []Inv
  BY InitInv, InvKept, PTL DEF Spec

-----------------------------------------------------------------------------
(* What a line for a path says. *)
LEMMA LineSays ==
  ASSUME Inv, NEW p \in Path \ Escaped, p \in DOMAIN manifest
  PROVE  \E b \in Data : WasThere(p, b) /\ manifest[p] = DigestHex[b]
  BY PathAssumption DEF Inv, LinesHeld

(* SteadyAccepted: a file that nobody touched can be opened with the       *)
(* manifest, whatever happened to the rest of the tree meanwhile, unless   *)
(* its path is one that shasum escapes.  (The digests of files are not what*)
(* marks an unlisted path.)                                                *)
THEOREM SteadyFilesAccepted ==
  ASSUME \A b \in Seq(Block) : DigestHex[b] # NotListed
  PROVE  Spec => []SteadyAccepted
<1>1. Inv => SteadyAccepted
  <2> SUFFICES ASSUME Inv, pc = "done", status = 0, star \cap Dashed = {},
                      NEW p \in Path \ Escaped, Steady(p),
                      Head(p) \notin Hidden
               PROVE  Verifier!isValidFileBlob(p, content[p])
    BY DEF SteadyAccepted
  <2>1. p \in DOMAIN manifest
    BY DEF Inv, OnItsWay
  <2>2. p \notin torn
    BY DEF Inv, TornChanged, Steady
  <2>3. PICK b \in Data : WasThere(p, b) /\ manifest[p] = DigestHex[b]
    BY <2>1, LineSays
  <2>4. b = content[p]
    BY <2>2, <2>3 DEF WasThere, Steady
  <2>5. manifest[p] = DigestHex[content[p]] /\ manifest[p] # NotListed
    BY <2>3, <2>4 DEF Data
  <2> QED
    BY <2>1, <2>5 DEF Verifier!isValidFileBlob
<1> QED
  BY InvHolds, <1>1, PTL

(* AcceptedWasThere: without a collision of digests no bytes are accepted  *)
(* for a path that did not hold them while the manifest was made, all at   *)
(* once or, for a file written while it was hashed, piece by piece.        *)
THEOREM AcceptedBytesWereThere ==
  ASSUME \A b, c \in Seq(Block) : DigestHex[b] = DigestHex[c] => b = c,
         \A b \in Seq(Block) : DigestHex[b] # ShiftedHash
  PROVE  Spec => []AcceptedWasThere
<1>1. Inv => AcceptedWasThere
  <2> SUFFICES ASSUME Inv, NEW p \in Path, NEW b \in Blob,
                      Verifier!isValidFileBlob(p, b)
               PROVE  WasThere(p, b)
    BY DEF AcceptedWasThere, WasThere
  <2>1. p \in DOMAIN manifest /\ manifest[p] = DigestHex[b]
    BY DEF Verifier!isValidFileBlob
  <2>2. b \in Seq(Block)
    BY BlobAssumption
  <2>3. p \notin Escaped
    <3>1. p \in Escaped => manifest[p] = ShiftedHash
      BY <2>1, PathAssumption DEF Inv, LinesHeld
    <3> QED
      BY <2>1, <2>2, <3>1
  <2>4. PICK c \in Data : WasThere(p, c) /\ manifest[p] = DigestHex[c]
    BY <2>1, <2>3, LineSays
  <2>5. b = c
    BY <2>1, <2>2, <2>4 DEF Data
  <2> QED
    BY <2>4, <2>5
<1> QED
  BY InvHolds, <1>1, PTL
=============================================================================
