------------------------- MODULE FileVerifierProof -------------------------
(***************************************************************************)
(* Theorems about the constructor of FileVerifier, for every digests file, *)
(* whatever its lines and the names in them look like.                     *)
(***************************************************************************)
EXTENDS FileVerifier, SequenceTheorems, WellFoundedInduction, TLAPS

(* A set of numbers up to n that is not empty has a greatest one. *)
LEMMA GreatestExists ==
  ASSUME NEW n \in Nat, NEW S, S \subseteq 0..n, S # {}
  PROVE  \E i \in S : \A j \in S : j <= i
<1> DEFINE T == {n - i : i \in S}
           R == {ss \in Nat \X Nat : ss[1] < ss[2]}
<1>1. IsWellFoundedOn(R, Nat)
  BY NatLessThanWellFounded DEF OpToRel
<1>2. \A i \in S : i \in Nat /\ n - i \in Nat
  OBVIOUS
<1>3. T \subseteq Nat
  BY <1>2
<1>4. T # {}
  <2>1. PICK i \in S : TRUE
    OBVIOUS
  <2>2. n - i \in T
    BY <2>1
  <2> QED BY <2>2
<1>5. \A x, y \in Nat : <<y, x>> \in R <=> y < x
  OBVIOUS
<1> HIDE DEF R
<1>6. PICK x \in T : \A y \in T : ~(<<y, x>> \in R)
  <2> HIDE DEF T
  <2> QED BY <1>1, <1>3, <1>4, WFMin
<1>7. \A y \in T : ~(y < x)
  <2> HIDE DEF T
  <2> QED BY <1>3, <1>5, <1>6
<1>8. PICK i \in S : x = n - i
  BY <1>6
<1>9. ASSUME NEW j \in S PROVE j <= i
  <2>1. n - j \in T
    OBVIOUS
  <2>2. ~(n - j < n - i)
    BY <1>7, <1>8, <2>1
  <2> QED BY <1>2, <2>2
<1> QED BY <1>9

(* LastOf finds it. *)
LEMMA LastOfGreatest ==
  ASSUME NEW n \in Nat, NEW S, S \subseteq 1..n
  PROVE  /\ LastOf(S) \in 0..n
         /\ LastOf(S) = 0 <=> S = {}
         /\ S # {} => LastOf(S) \in S
         /\ \A j \in S : j <= LastOf(S)
<1>1. CASE S = {}
  BY <1>1 DEF LastOf
<1>2. CASE S # {}
  <2>1. S \subseteq 0..n
    OBVIOUS
  <2>2. \E i \in S : \A j \in S : j <= i
    BY <1>2, <2>1, GreatestExists
  <2> DEFINE g == CHOOSE i \in S : \A j \in S : j <= i
  <2>3. g \in S /\ \A j \in S : j <= g
    BY <2>2
  <2>4. LastOf(S) = g
    BY <1>2 DEF LastOf
  <2> HIDE DEF g
  <2> QED BY <1>2, <2>3, <2>4
<1> QED BY <1>1, <1>2

-----------------------------------------------------------------------------
(* dirname *)

LEMMA TrimmedIs ==
  ASSUME NEW s \in Seq(Char)
  PROVE  \E k \in 0..Len(s) :
           /\ Trimmed(s) = SubSeq(s, 1, k)
           /\ k # 0 => s[k] # "/"
           /\ \A j \in (k + 1)..Len(s) : s[j] = "/"
<1> DEFINE S == {i \in 1..Len(s) : s[i] # "/"}
           k == LastOf(S)
<1>1. Len(s) \in Nat /\ S \subseteq 1..Len(s)
  OBVIOUS
<1>2. k \in 0..Len(s) /\ (k # 0 => k \in S) /\ \A j \in S : j <= k
  <2> HIDE DEF S
  <2> QED BY <1>1, LastOfGreatest
<1>3. Trimmed(s) = SubSeq(s, 1, k)
  BY DEF Trimmed
<1> HIDE DEF k
<1>4. k # 0 => s[k] # "/"
  BY <1>2
<1>5. \A j \in (k + 1)..Len(s) : s[j] = "/"
  <2> SUFFICES ASSUME NEW j \in (k + 1)..Len(s), s[j] # "/" PROVE FALSE
    OBVIOUS
  <2>1. j \in S
    BY <1>2
  <2> QED BY <1>2, <2>1
<1> QED BY <1>2, <1>3, <1>4, <1>5

LEMMA UpToSlashIs ==
  ASSUME NEW s \in Seq(Char)
  PROVE  \E k \in 0..Len(s) :
           /\ UpToSlash(s) = SubSeq(s, 1, k)
           /\ k # 0 => s[k] = "/"
           /\ \A j \in (k + 1)..Len(s) : s[j] # "/"
<1> DEFINE S == {i \in 1..Len(s) : s[i] = "/"}
           k == LastOf(S)
<1>1. Len(s) \in Nat /\ S \subseteq 1..Len(s)
  OBVIOUS
<1>2. k \in 0..Len(s) /\ (k # 0 => k \in S) /\ \A j \in S : j <= k
  <2> HIDE DEF S
  <2> QED BY <1>1, LastOfGreatest
<1>3. UpToSlash(s) = SubSeq(s, 1, k)
  BY DEF UpToSlash
<1> HIDE DEF k
<1>4. k # 0 => s[k] = "/"
  BY <1>2
<1>5. \A j \in (k + 1)..Len(s) : s[j] # "/"
  <2> SUFFICES ASSUME NEW j \in (k + 1)..Len(s), s[j] = "/" PROVE FALSE
    OBVIOUS
  <2>1. j \in S
    BY <1>2
  <2> QED BY <1>2, <2>1
<1> QED BY <1>2, <1>3, <1>4, <1>5

(* A prefix of a text, and a prefix of the prefix. *)
LEMMA PrefixIs ==
  ASSUME NEW s \in Seq(Char), NEW k \in 0..Len(s)
  PROVE  /\ SubSeq(s, 1, k) \in Seq(Char) /\ Len(SubSeq(s, 1, k)) = k
         /\ \A i \in 1..k : SubSeq(s, 1, k)[i] = s[i]
         /\ SubSeq(s, 1, k) = <<>> <=> k = 0
         /\ \A j \in 0..k : SubSeq(SubSeq(s, 1, k), 1, j) = SubSeq(s, 1, j)
OBVIOUS

(* Cut at the t-th, a-th and c-th character, with the slashes between.      *)
LEMMA DirnameCuts ==
  ASSUME NEW s \in Seq(Char)
  PROVE  \E t, a, c \in 0..Len(s) :
           /\ c <= a /\ a <= t
           /\ dirname(s) = CASE s # <<>> /\ t = 0 -> <<"/">>
                             [] a # 0 /\ c = 0    -> <<"/">>
                             [] c # 0             -> SubSeq(s, 1, c)
                             [] OTHER             -> <<".">>
           /\ t # 0 => s[t] # "/"
           /\ \A j \in (t + 1)..Len(s) : s[j] = "/"
           /\ a # 0 => s[a] = "/"
           /\ \A j \in (a + 1)..t : s[j] # "/"
           /\ c # 0 => s[c] # "/"
           /\ \A j \in (c + 1)..a : s[j] = "/"
<1>1. PICK t \in 0..Len(s) :
        /\ Trimmed(s) = SubSeq(s, 1, t)
        /\ t # 0 => s[t] # "/"
        /\ \A j \in (t + 1)..Len(s) : s[j] = "/"
  BY TrimmedIs
<1>2. PICK a \in 0..t :
        /\ UpToSlash(Trimmed(s)) = SubSeq(s, 1, a)
        /\ a # 0 => s[a] = "/"
        /\ \A j \in (a + 1)..t : s[j] # "/"
  <2> DEFINE u == SubSeq(s, 1, t)
  <2>1. u \in Seq(Char) /\ Len(u) = t /\ \A i \in 1..t : u[i] = s[i]
    BY PrefixIs
  <2> HIDE DEF u
  <2>2. PICK a \in 0..t : /\ UpToSlash(u) = SubSeq(u, 1, a)
                          /\ a # 0 => u[a] = "/"
                          /\ \A j \in (a + 1)..t : u[j] # "/"
    BY <2>1, UpToSlashIs
  <2>3. SubSeq(u, 1, a) = SubSeq(s, 1, a)
    BY PrefixIs DEF u
  <2> QED BY <1>1, <2>1, <2>2, <2>3 DEF u
<1>3. PICK c \in 0..a :
        /\ Trimmed(UpToSlash(Trimmed(s))) = SubSeq(s, 1, c)
        /\ c # 0 => s[c] # "/"
        /\ \A j \in (c + 1)..a : s[j] = "/"
  <2> DEFINE u == SubSeq(s, 1, a)
  <2> a \in 0..Len(s)
    OBVIOUS
  <2>1. u \in Seq(Char) /\ Len(u) = a /\ \A i \in 1..a : u[i] = s[i]
    BY PrefixIs
  <2> HIDE DEF u
  <2>2. PICK c \in 0..a : /\ Trimmed(u) = SubSeq(u, 1, c)
                          /\ c # 0 => u[c] # "/"
                          /\ \A j \in (c + 1)..a : u[j] = "/"
    BY <2>1, TrimmedIs
  <2>3. SubSeq(u, 1, c) = SubSeq(s, 1, c)
    BY PrefixIs DEF u
  <2> QED BY <1>2, <2>1, <2>2, <2>3 DEF u
<1>4. /\ Trimmed(s) = <<>> <=> t = 0
      /\ UpToSlash(Trimmed(s)) = <<>> <=> a = 0
      /\ Trimmed(UpToSlash(Trimmed(s))) = <<>> <=> c = 0
  <2>1. a \in 0..Len(s) /\ c \in 0..Len(s)
    OBVIOUS
  <2> QED BY <1>1, <1>2, <1>3, <2>1, PrefixIs
<1>5. dirname(s) = CASE s # <<>> /\ t = 0 -> <<"/">>
                     [] a # 0 /\ c = 0    -> <<"/">>
                     [] c # 0             -> SubSeq(s, 1, c)
                     [] OTHER             -> <<".">>
  <2>1. CASE s # <<>> /\ t = 0
    BY <1>4, <2>1 DEF dirname
  <2>2. CASE t # 0 /\ a # 0 /\ c = 0
    BY <1>4, <2>2 DEF dirname
  <2>3. CASE t # 0 /\ a # 0 /\ c # 0
    BY <1>3, <1>4, <2>3 DEF dirname
  <2>4. CASE a = 0 /\ c = 0 /\ (t # 0 \/ s = <<>>)
    BY <1>4, <2>4 DEF dirname
  <2>5. \/ s # <<>> /\ t = 0
        \/ t # 0 /\ a # 0 /\ c = 0
        \/ t # 0 /\ a # 0 /\ c # 0
        \/ a = 0 /\ c = 0 /\ (t # 0 \/ s = <<>>)
    OBVIOUS
  <2> QED BY <2>1, <2>2, <2>3, <2>4, <2>5
<1>6. t \in 0..Len(s) /\ a \in 0..Len(s) /\ c \in 0..Len(s) /\ c <= a /\ a <= t
  OBVIOUS
<1> HIDE DEF dirname
<1> QED BY <1>1, <1>2, <1>3, <1>5, <1>6

(* s is the name f itself, a directory above it, or the root of an absolute*)
(* name: where the walk up from f can be.                                  *)
Recorded(d, f) == Ancestor(d, f) \/ (d = <<"/">> /\ IsPrefix(d, f))
OnTheWay(s, f) == s = f \/ Recorded(s, f)

LEMMA RootIsPrefix ==
  ASSUME NEW f \in Seq(Char)
  PROVE  IsPrefix(<<"/">>, f) <=> f # <<>> /\ f[1] = "/"
<1>1. Len(<<"/">>) = 1 /\ SubSeq(<<"/">>, 1, 1) = <<"/">>
  <2>1. <<"/">> \in Seq(Char)
    BY CharAssumption
  <2> QED BY <2>1, SubSeqFull
<1>2. ASSUME f # <<>>
      PROVE  1 <= Len(f) /\ (SubSeq(f, 1, 1) = <<"/">> <=> f[1] = "/")
  <2> DEFINE u == SubSeq(f, 1, 1)
             r == <<"/">>
  <2>1. 1 \in 0..Len(f)
    BY <1>2
  <2>2. u \in Seq(Char) /\ Len(u) = 1 /\ u[1] = f[1]
    BY <2>1, PrefixIs
  <2>3. r \in Seq(Char) /\ Len(r) = 1 /\ r[1] = "/"
    BY CharAssumption
  <2> HIDE DEF u, r
  <2>4. ASSUME f[1] = "/" PROVE u = r
    <3>1. Len(u) = Len(r) /\ \A i \in 1..Len(u) : u[i] = r[i]
      BY <2>2, <2>3, <2>4
    <3> QED BY <2>2, <2>3, <3>1, SeqEqual
  <2>5. u = r <=> f[1] = "/"
    BY <2>2, <2>3, <2>4
  <2> QED BY <2>1, <2>5 DEF u, r
<1>3. ASSUME f = <<>> PROVE Len(f) = 0
  BY <1>3
<1> QED BY <1>1, <1>2, <1>3 DEF IsPrefix

(* What is on the way to a name begins like the name. *)
LEMMA OnTheWayFirst ==
  ASSUME NEW s \in Seq(Char), NEW f \in Seq(Char), OnTheWay(s, f), s # <<>>
  PROVE  s[1] = f[1] /\ f # <<>>
<1>1. CASE s = f
  BY <1>1
<1>2. CASE Ancestor(s, f)
  <2>1. Len(s) \in 0..Len(f) /\ s = SubSeq(f, 1, Len(s))
    BY <1>2 DEF Ancestor
  <2>2. \A i \in 1..Len(s) : SubSeq(f, 1, Len(s))[i] = f[i]
    BY <2>1, PrefixIs
  <2> QED BY <1>2, <2>1, <2>2 DEF Ancestor
<1>3. CASE s = <<"/">> /\ IsPrefix(s, f)
  BY <1>3, RootIsPrefix
<1> QED BY <1>1, <1>2, <1>3 DEF OnTheWay, Recorded

(* The walk is never twice at one place: a step up cuts something off,     *)
(* except from an absolute path.                                           *)
LEMMA DirnameShorter ==
  ASSUME NEW s \in Seq(Char), s = <<>> \/ s[1] # "/", ~AtTop(dirname(s))
  PROVE  Len(dirname(s)) < Len(s)
<1>1. PICK t, a, c \in 0..Len(s) :
         /\ c <= a /\ a <= t
         /\ dirname(s) = CASE s # <<>> /\ t = 0 -> <<"/">>
                           [] a # 0 /\ c = 0    -> <<"/">>
                           [] c # 0             -> SubSeq(s, 1, c)
                           [] OTHER             -> <<".">>
         /\ \A j \in (t + 1)..Len(s) : s[j] = "/"
         /\ a # 0 => s[a] = "/"
         /\ c # 0 => s[c] # "/"
         /\ \A j \in (c + 1)..a : s[j] = "/"
  BY DirnameCuts
<1>2. ~(s # <<>> /\ t = 0)
  <2> SUFFICES ASSUME s # <<>>, t = 0 PROVE FALSE
    OBVIOUS
  <2>1. 1 \in (t + 1)..Len(s)
    OBVIOUS
  <2> QED BY <1>1, <2>1
<1>3. ~(a # 0 /\ c = 0)
  <2> SUFFICES ASSUME a # 0, c = 0 PROVE FALSE
    OBVIOUS
  <2>1. 1 \in (c + 1)..a /\ Len(s) >= 1
    OBVIOUS
  <2> QED BY <1>1, <2>1
<1>4. CASE c # 0
  <2>1. dirname(s) = SubSeq(s, 1, c)
    BY <1>1, <1>2, <1>3, <1>4
  <2>2. c # a
    BY <1>1, <1>4
  <2>3. c < Len(s)
    BY <1>1, <2>2
  <2> QED BY <2>1, <2>3, PrefixIs
<1>5. CASE c = 0
  <2>1. dirname(s) = <<".">>
    BY <1>1, <1>2, <1>3, <1>5
  <2> QED BY <2>1 DEF AtTop
<1> QED BY <1>4, <1>5

(* One step up from anywhere on the way is a directory above the name.     *)
LEMMA DirnameRecorded ==
  ASSUME NEW s \in Seq(Char), NEW f \in Seq(Char), OnTheWay(s, f),
         ~AtTop(dirname(s))
  PROVE  /\ dirname(s) \in Seq(Char) /\ dirname(s) # <<>>
         /\ Recorded(dirname(s), f)
<1>1. PICK t, a, c \in 0..Len(s) :
         /\ c <= a /\ a <= t
         /\ dirname(s) = CASE s # <<>> /\ t = 0 -> <<"/">>
                           [] a # 0 /\ c = 0    -> <<"/">>
                           [] c # 0             -> SubSeq(s, 1, c)
                           [] OTHER             -> <<".">>
         /\ \A j \in (t + 1)..Len(s) : s[j] = "/"
         /\ a # 0 => s[a] = "/"
         /\ c # 0 => s[c] # "/"
         /\ \A j \in (c + 1)..a : s[j] = "/"
  BY DirnameCuts
<1>2. s # <<>> => s[1] = f[1] /\ f # <<>>
  BY OnTheWayFirst
<1>3. CASE dirname(s) = <<"/">> /\ s # <<>> /\ s[1] = "/"
  <2>1. f # <<>> /\ f[1] = "/"
    BY <1>2, <1>3
  <2> QED BY <1>3, <2>1, RootIsPrefix DEF Recorded
<1>4. CASE c # 0 /\ dirname(s) = SubSeq(s, 1, c)
  <2>0. c < a
    BY <1>1, <1>4
  <2>1. c < a /\ s[c + 1] = "/" /\ c + 1 <= Len(s) /\ c \in 1..Len(s)
    <3>1. c + 1 \in (c + 1)..a
      BY <2>0
    <3> QED BY <1>1, <1>4, <2>0, <3>1
  <2>2. /\ dirname(s) \in Seq(Char) /\ Len(dirname(s)) = c
        /\ dirname(s) # <<>>
    BY <1>4, <2>1, PrefixIs
  <2>3. SubSeq(s, 1, c) = SubSeq(f, 1, c) /\ f[c + 1] = "/" /\ c < Len(f)
    <3>1. CASE s = f
      BY <2>1, <3>1
    <3>2. CASE Ancestor(s, f)
      <4>1. Len(s) \in 0..Len(f) /\ s = SubSeq(f, 1, Len(s))
        BY <3>2 DEF Ancestor
      <4>2. /\ SubSeq(SubSeq(f, 1, Len(s)), 1, c) = SubSeq(f, 1, c)
            /\ SubSeq(f, 1, Len(s))[c + 1] = f[c + 1]
        BY <2>1, <4>1, PrefixIs
      <4> QED BY <2>1, <4>1, <4>2
    <3>3. CASE s = <<"/">>
      BY <2>1, <3>3
    <3> QED BY <3>1, <3>2, <3>3 DEF OnTheWay, Recorded
  <2> QED BY <1>4, <2>2, <2>3 DEF Recorded, Ancestor
<1>5. CASE dirname(s) = <<".">>
  BY <1>5 DEF AtTop
<1>6. (s # <<>> /\ t = 0) \/ (a # 0 /\ c = 0) => s # <<>> /\ s[1] = "/"
  <2>1. ASSUME s # <<>>, t = 0 PROVE s[1] = "/"
    <3>1. 1 \in (t + 1)..Len(s)
      BY <2>1
    <3> QED BY <1>1, <3>1
  <2>2. ASSUME a # 0, c = 0 PROVE s # <<>> /\ s[1] = "/"
    <3>1. 1 \in (c + 1)..a /\ Len(s) >= 1
      BY <2>2
    <3> QED BY <1>1, <3>1
  <2> QED BY <2>1, <2>2
<1> QED BY <1>1, <1>3, <1>4, <1>5, <1>6

(* From a cut of a plain name, the next cut is before its last slash.      *)
LEMMA DirnamePlain ==
  ASSUME NEW f \in Seq(Char), Plain(f),
         NEW m \in 1..Len(f), f[m] # "/"
  PROVE  \/ /\ AtTop(dirname(SubSeq(f, 1, m)))
            /\ \A j \in 1..m : f[j] # "/"
         \/ /\ ~AtTop(dirname(SubSeq(f, 1, m)))
            /\ \E c \in 1..(m - 1) :
                 /\ dirname(SubSeq(f, 1, m)) = SubSeq(f, 1, c)
                 /\ f[c] # "/" /\ f[c + 1] = "/"
                 /\ \A j \in (c + 2)..m : f[j] # "/"
<1> DEFINE s == SubSeq(f, 1, m)
<1>1. s \in Seq(Char) /\ Len(s) = m /\ \A i \in 1..m : s[i] = f[i]
  BY PrefixIs
<1> HIDE DEF s
<1>2. PICK t, a, c \in 0..Len(s) :
         /\ c <= a /\ a <= t
         /\ dirname(s) = CASE s # <<>> /\ t = 0 -> <<"/">>
                           [] a # 0 /\ c = 0    -> <<"/">>
                           [] c # 0             -> SubSeq(s, 1, c)
                           [] OTHER             -> <<".">>
         /\ \A j \in (t + 1)..Len(s) : s[j] = "/"
         /\ a # 0 => s[a] = "/"
         /\ \A j \in (a + 1)..t : s[j] # "/"
         /\ c # 0 => s[c] # "/"
         /\ \A j \in (c + 1)..a : s[j] = "/"
  BY <1>1, DirnameCuts
<1>3. t = m
  <2>1. t < m => m \in (t + 1)..Len(s)
    BY <1>1
  <2> QED BY <1>1, <1>2, <2>1
<1>4. s[1] # "/" /\ f[1] # "."
  BY <1>1 DEF Plain
<1>5. CASE a = 0
  <2>1. c = 0 /\ dirname(s) = <<".">>
    BY <1>2, <1>3, <1>5
  <2>2. \A j \in 1..m : f[j] # "/"
    BY <1>1, <1>2, <1>3, <1>5
  <2> QED BY <2>1, <2>2 DEF AtTop, s
<1>6. CASE a # 0
  <2>1. c # 0
    BY <1>2, <1>4, <1>6
  <2>2. c < a
    BY <1>2, <2>1
  <2>3. a = c + 1
    <3>1. SUFFICES ASSUME c + 1 < a PROVE FALSE
      BY <2>2
    <3>2. s[c + 1] = "/" /\ s[c + 2] = "/" /\ c + 2 <= m
      <4>1. c + 1 \in (c + 1)..a /\ c + 2 \in (c + 1)..a
        BY <3>1
      <4> QED BY <1>2, <1>3, <3>1, <4>1
    <3>3. f[c + 1] = "/" /\ f[c + 2] = "/" /\ c + 1 \in 1..(Len(f) - 1)
      BY <1>1, <3>2
    <3>4. ~(f[c + 1] = "/" /\ f[(c + 1) + 1] = "/")
      BY <3>3 DEF Plain
    <3> QED BY <3>3, <3>4
  <2>4. c \in 1..(m - 1) /\ c \in 0..m
    BY <1>2, <1>3, <2>1, <2>2
  <2>5. dirname(s) = SubSeq(f, 1, c) /\ dirname(s)[1] = f[1]
    <3>1. dirname(s) = SubSeq(s, 1, c)
      BY <1>1, <1>2, <1>3, <2>1
    <3>2. SubSeq(s, 1, c) = SubSeq(f, 1, c)
      BY <2>4, PrefixIs DEF s
    <3>3. SubSeq(f, 1, c)[1] = f[1]
      BY <2>4, PrefixIs
    <3> QED BY <3>1, <3>2, <3>3
  <2>6. f[c] # "/" /\ f[c + 1] = "/"
    BY <1>1, <1>2, <1>3, <2>3, <2>4
  <2>7. \A j \in (c + 2)..m : f[j] # "/"
    BY <1>1, <1>2, <1>3, <2>3
  <2> QED BY <1>4, <2>4, <2>5, <2>6, <2>7 DEF AtTop, s
<1> QED BY <1>5, <1>6

-----------------------------------------------------------------------------
(* The types, which need the lines taken to have been long enough. *)

Texts ==
  /\ pDirectory \in Seq(Char)
  /\ mDirectories \subseteq Seq(Char)
  /\ DOMAIN mDigests \subseteq Seq(Char)

TypeInv == TypeOK /\ Texts

LEMMA LineText ==
  ASSUME TypeOK, NEW i \in 1..Len(lines)
  PROVE  lines[i] \in Seq(Char) /\ lines \in Seq(Seq(Char))
BY DigestFilesAssumption DEF TypeOK

LEMMA LineParts ==
  ASSUME NEW line \in Seq(Char), ~TooShort(line)
  PROVE  /\ hash(line) \in Seq(Char) /\ Len(hash(line)) = HashLen
         /\ filename(line) \in Seq(Char)
<1>1. HashLen \in 0..Len(line)
  BY HashLenAssumption DEF TooShort
<1>2. filename(line) \in Seq(Char)
  BY HashLenAssumption, SubSeqProperties DEF filename
<1> QED BY <1>1, <1>2, PrefixIs DEF hash

LEMMA TypeInitially == Init => TypeInv
<1> SUFFICES ASSUME Init PROVE TypeInv
  OBVIOUS
<1>1. lines \in Seq(Seq(Char))
  BY DigestFilesAssumption DEF Init
<1> QED BY <1>1 DEF Init, TypeInv, TypeOK, Texts

(* The step that stores a line: what its name and hash are. *)
LEMMA SaveLineIs ==
  ASSUME TypeInv, saveLine
  PROVE  \E f, h \in Seq(Char) :
           /\ taken + 1 \in 1..Len(lines)
           /\ f = filename(lines[taken + 1]) /\ h = hash(lines[taken + 1])
           /\ Len(h) = HashLen /\ ~TooShort(lines[taken + 1])
           /\ taken' = taken + 1 /\ pDirectory' = f
           /\ DOMAIN mDigests' = DOMAIN mDigests \cup {f}
           /\ \A g \in DOMAIN mDigests' :
                mDigests'[g] = IF g = f THEN h ELSE mDigests[g]
<1>1. lines \in Seq(Seq(Char))
  BY DigestFilesAssumption DEF TypeInv, TypeOK
<1>2. taken + 1 \in 1..Len(lines)
  BY <1>1 DEF TypeInv, TypeOK, saveLine
<1>3. /\ filename(lines[taken + 1]) \in Seq(Char)
      /\ hash(lines[taken + 1]) \in Seq(Char)
      /\ Len(hash(lines[taken + 1])) = HashLen
  BY <1>1, <1>2, LineParts DEF saveLine
<1> QED BY <1>2, <1>3 DEF saveLine, Listed

(* The step that stores a directory. *)
LEMMA SaveDirectoryIs ==
  ASSUME TypeInv, saveDirectory, NEW f \in Seq(Char),
         OnTheWay(pDirectory, f)
  PROVE  /\ pDirectory' \in Seq(Char) /\ pDirectory' # <<>>
         /\ pDirectory'[1] # "." /\ Recorded(pDirectory', f)
         /\ mDirectories' = mDirectories \cup {pDirectory'}
BY DirnameRecorded DEF saveDirectory, TypeInv, Texts, AtTop

(* While a file's directories are recorded the walk is on the way up from *)
(* it, and every directory recorded is above a listed file.               *)
Walk ==
  /\ pc = "saveUniqueDirectories" =>
       /\ taken > 0 /\ filename(lines[taken]) \in DOMAIN mDigests
       /\ OnTheWay(pDirectory, filename(lines[taken]))
  /\ \A d \in mDirectories : \E f \in DOMAIN mDigests : Recorded(d, f)

LEMMA WalkInductive ==
  /\ Init => Walk
  /\ TypeInv /\ Walk /\ [Next]_vars => TypeInv' /\ Walk'
<1>1. Init => Walk
  BY DEF Init, Walk
<1>2. ASSUME TypeInv, Walk, [Next]_vars PROVE TypeInv' /\ Walk'
  <2> USE <1>2
  <2>1. CASE streamBad
    BY <2>1 DEF streamBad, TypeInv, TypeOK, Texts, Walk
  <2>2. CASE streamGood
    BY <2>2 DEF streamGood, TypeInv, TypeOK, Texts, Walk
  <2>3. CASE endOfStream
    BY <2>3 DEF endOfStream, TypeInv, TypeOK, Texts, Walk
  <2>4. CASE readFails
    BY <2>4 DEF readFails, TypeInv, TypeOK, Texts, Walk
  <2>5. CASE lineTooShort
    <3>1. lines \in Seq(Seq(Char)) /\ taken' \in 0..Len(lines)
      BY <2>5, DigestFilesAssumption DEF lineTooShort, TypeInv, TypeOK
    <3>2. 1..taken \subseteq 1..taken'
      BY <2>5, <3>1 DEF lineTooShort, TypeInv, TypeOK
    <3>3. TypeInv'
      BY <2>5, <3>1, <3>2 DEF lineTooShort, TypeInv, TypeOK, Texts
    <3>4. Walk'
      BY <2>5 DEF lineTooShort, Walk
    <3> QED BY <3>3, <3>4
  <2>6. CASE saveLine
    <3>1. PICK f, h \in Seq(Char) :
           /\ taken + 1 \in 1..Len(lines)
           /\ f = filename(lines[taken + 1])
           /\ Len(h) = HashLen
           /\ taken' = taken + 1 /\ pDirectory' = f
           /\ DOMAIN mDigests' = DOMAIN mDigests \cup {f}
           /\ \A g \in DOMAIN mDigests' :
                mDigests'[g] = IF g = f THEN h ELSE mDigests[g]
      BY <2>6, SaveLineIs
    <3>2. lines' = lines /\ mDirectories' = mDirectories /\ good' = good
          /\ pc' = "saveUniqueDirectories"
      BY <2>6 DEF saveLine
    <3>3. taken \in 0..Len(lines) /\ taken' \in 0..Len(lines) /\ taken' > 0
      BY <3>1 DEF TypeInv, TypeOK
    <3>4. DOMAIN mDigests' \subseteq {filename(lines[i]) : i \in 1..taken'}
      <4>1. taken' \in 1..taken' /\ 1..taken \subseteq 1..taken'
        BY <3>1, <3>3
      <4> QED BY <3>1, <4>1 DEF TypeInv, TypeOK
    <3>5. TypeOK'
      BY <3>1, <3>2, <3>3, <3>4 DEF TypeInv, TypeOK
    <3>6. Texts'
      BY <3>1, <3>2 DEF TypeInv, Texts
    <3>7. Walk'
      BY <3>1, <3>2, <3>3 DEF Walk, OnTheWay
    <3> QED BY <3>5, <3>6, <3>7 DEF TypeInv
  <2>7. CASE saveDirectory
    <3> DEFINE f == filename(lines[taken])
    <3>1. f \in DOMAIN mDigests /\ f \in Seq(Char) /\ OnTheWay(pDirectory, f)
      BY <2>7 DEF saveDirectory, Walk, TypeInv, Texts
    <3> HIDE DEF f
    <3>2. /\ pDirectory' \in Seq(Char) /\ pDirectory' # <<>>
          /\ pDirectory'[1] # "." /\ Recorded(pDirectory', f)
          /\ mDirectories' = mDirectories \cup {pDirectory'}
      BY <2>7, <3>1, SaveDirectoryIs
    <3>3. UNCHANGED <<good, lines, taken, pc, mDigests>>
      BY <2>7 DEF saveDirectory
    <3>4. TypeInv'
      BY <3>2, <3>3 DEF TypeInv, TypeOK, Texts
    <3>5. Walk'
      BY <3>1, <3>2, <3>3 DEF Walk, OnTheWay, f
    <3> QED BY <3>4, <3>5
  <2>8. CASE noMoreDirectories
    BY <2>8 DEF noMoreDirectories, TypeInv, TypeOK, Texts, Walk
  <2>9. CASE Done \/ UNCHANGED vars
    BY <2>9 DEF Done, vars, TypeInv, TypeOK, Texts, Walk
  <2> QED BY <2>1, <2>2, <2>3, <2>4, <2>5, <2>6, <2>7, <2>8, <2>9
        DEF Next, Construct
<1> QED BY <1>1, <1>2

(***************************************************************************)
(* The tables always hold what their types say, whatever the list is: no   *)
(* digest of another length, no directory path beginning with a dot.       *)
(***************************************************************************)
THEOREM TypeCorrect == Spec => []TypeOK
<1>1. Init => TypeInv /\ Walk
  BY TypeInitially, WalkInductive
<1>2. TypeInv /\ Walk /\ [Next]_vars => (TypeInv /\ Walk)'
  BY WalkInductive
<1>3. TypeInv => TypeOK
  BY DEF TypeInv
<1> QED BY <1>1, <1>2, <1>3, PTL DEF Spec

(***************************************************************************)
(* For every list, at every moment of its loading: a directory recorded is *)
(* on the way to a listed file or the root of an absolute one.             *)
(***************************************************************************)
THEOREM OnlyDirectoriesAbove == Spec => []DirectoriesOnlyAbove
<1>1. Init => TypeInv /\ Walk
  BY TypeInitially, WalkInductive
<1>2. TypeInv /\ Walk /\ [Next]_vars => (TypeInv /\ Walk)'
  BY WalkInductive
<1>3. Walk => DirectoriesOnlyAbove
  BY DEF Walk, DirectoriesOnlyAbove, Recorded
<1> QED BY <1>1, <1>2, <1>3, PTL DEF Spec

-----------------------------------------------------------------------------
(* What ConstructorAdvances says of one step. *)
Advances ==
  \/ Phase' < Phase
  \/ Phase' = Phase /\ taken < taken'
  \/ Phase' = Phase /\ taken' = taken /\ WalkLeft' < WalkLeft

LEMMA AdvanceStep ==
  ASSUME TypeInv, Walk, RelativeNames, Construct
  PROVE  Advances
<1>1. CASE streamBad \/ streamGood
  BY <1>1 DEF streamBad, streamGood, Phase, Advances
<1>2. CASE endOfStream \/ readFails
  BY <1>2 DEF endOfStream, readFails, Phase, Advances
<1>3. CASE lineTooShort
  BY <1>3 DEF lineTooShort, Phase, Advances
<1>4. CASE saveLine
  BY <1>4 DEF saveLine, Phase, Advances, TypeInv, TypeOK
<1>5. CASE saveDirectory
  <2> DEFINE f == filename(lines[taken])
  <2>1. /\ pc = "saveUniqueDirectories" /\ pc' = pc /\ taken' = taken
        /\ pDirectory' = dirname(pDirectory) /\ ~AtTop(dirname(pDirectory))
    BY <1>5 DEF saveDirectory
  <2>2. /\ taken \in 1..Len(lines) /\ pDirectory \in Seq(Char)
        /\ f \in Seq(Char) /\ OnTheWay(pDirectory, f)
    BY <2>1 DEF Walk, TypeInv, TypeOK, Texts
  <2>3. f = <<>> \/ f[1] # "/"
    BY <2>2 DEF RelativeNames
  <2>4. pDirectory = <<>> \/ pDirectory[1] # "/"
    <3> HIDE DEF f
    <3> QED BY <2>2, <2>3, OnTheWayFirst
  <2>5. Len(pDirectory') < Len(pDirectory)
    BY <2>1, <2>2, <2>4, DirnameShorter
  <2>6. pDirectory' \in Seq(Char)
    BY <1>5, WalkInductive DEF Next, Construct, TypeInv, Texts
  <2>7. WalkLeft' < WalkLeft
    BY <2>1, <2>2, <2>5, <2>6 DEF WalkLeft
  <2>8. Phase' = Phase
    BY <2>1 DEF Phase
  <2> QED BY <2>1, <2>7, <2>8 DEF Advances
<1>6. CASE noMoreDirectories
  <2>1. /\ pc = "saveUniqueDirectories" /\ pc' = "getline" /\ taken' = taken
        /\ pDirectory \in Seq(Char)
    BY <1>6 DEF noMoreDirectories, TypeInv, Texts
  <2>2. Phase' = 1 /\ Phase = 1
    BY <2>1 DEF Phase
  <2>3. WalkLeft' = 0 /\ WalkLeft > 0
    BY <2>1 DEF WalkLeft
  <2> QED BY <2>1, <2>2, <2>3 DEF Advances
<1> QED BY <1>1, <1>2, <1>3, <1>4, <1>5, <1>6 DEF Construct

(***************************************************************************)
(* The safety half of "the constructor ends", for every list of relative   *)
(* names, however long they are and wherever their slashes stand: phase,   *)
(* lines left and length of the path left to walk fall, in this order.     *)
(***************************************************************************)
THEOREM EveryStepAdvances == Spec => ConstructorAdvances
<1>1. Init => TypeInv /\ Walk
  BY TypeInitially, WalkInductive
<1>2. TypeInv /\ Walk /\ [Next]_vars => (TypeInv /\ Walk)'
  BY WalkInductive
<1>3. TypeInv /\ Walk => [Construct /\ RelativeNames => Advances]_vars
  BY AdvanceStep
<1>4. [][Construct /\ RelativeNames => Advances]_vars => ConstructorAdvances
  BY DEF ConstructorAdvances, Advances
<1> QED BY <1>1, <1>2, <1>3, <1>4, PTL DEF Spec

-----------------------------------------------------------------------------
(* Which hash the table holds *)

(* Line i is the last one taken that names f. *)
LastNaming(f, i) ==
  /\ i \in 1..taken /\ filename(lines[i]) = f
  /\ \A j \in (i + 1)..taken : filename(lines[j]) # f

Loaded ==
  pc # "terminated" =>
    /\ pc # "stream" => good
    /\ \A i \in 1..taken : /\ ~TooShort(lines[i])
                          /\ filename(lines[i]) \in DOMAIN mDigests
    /\ \A f \in DOMAIN mDigests : \E i \in 1..taken :
         LastNaming(f, i) /\ mDigests[f] = hash(lines[i])

LEMMA LoadedStep == TypeInv /\ Loaded /\ [Next]_vars => Loaded'
<1> SUFFICES ASSUME TypeInv, Loaded, [Next]_vars PROVE Loaded'
  OBVIOUS
<1>1. CASE streamBad \/ lineTooShort
  BY <1>1 DEF streamBad, lineTooShort, Loaded
<1>2. CASE streamGood \/ endOfStream \/ readFails \/ noMoreDirectories
  BY <1>2 DEF streamGood, endOfStream, readFails, noMoreDirectories, Loaded,
     LastNaming
<1>3. CASE saveDirectory
  BY <1>3 DEF saveDirectory, Loaded, LastNaming
<1>4. CASE saveLine
  <2>1. PICK f, h \in Seq(Char) :
           /\ taken + 1 \in 1..Len(lines)
           /\ f = filename(lines[taken + 1]) /\ h = hash(lines[taken + 1])
           /\ ~TooShort(lines[taken + 1])
           /\ taken' = taken + 1
           /\ DOMAIN mDigests' = DOMAIN mDigests \cup {f}
           /\ \A g \in DOMAIN mDigests' :
                mDigests'[g] = IF g = f THEN h ELSE mDigests[g]
    BY <1>4, SaveLineIs
  <2>2. lines' = lines /\ good' = good /\ pc = "getline"
    BY <1>4 DEF saveLine
  <2>3. taken \in Nat
    BY DEF TypeInv, TypeOK
  <2>4. \A i \in 1..taken' : i \in 1..taken \/ i = taken + 1
    BY <2>1, <2>3
  <2>5. \A i \in 1..taken' : /\ ~TooShort(lines'[i])
                           /\ filename(lines'[i]) \in DOMAIN mDigests'
    BY <2>1, <2>2, <2>4 DEF Loaded
  <2>6. ASSUME NEW g \in DOMAIN mDigests'
        PROVE  \E i \in 1..taken' :
                 LastNaming(g, i)' /\ mDigests'[g] = hash(lines[i])
    <3>1. CASE g = f
      <4>1. PICK i \in Nat : i = taken + 1
        BY <2>3
      <4>2. i \in 1..taken' /\ \A j \in (i + 1)..taken' : FALSE
        BY <2>1, <2>3, <4>1
      <4>3. LastNaming(g, i)'
        BY <2>1, <2>2, <3>1, <4>1, <4>2 DEF LastNaming
      <4> QED BY <2>1, <2>3, <3>1, <4>1, <4>2, <4>3
    <3>2. CASE g # f
      <4>1. PICK i \in 1..taken :
              LastNaming(g, i) /\ mDigests[g] = hash(lines[i])
        BY <2>1, <2>2, <3>2 DEF Loaded
      <4>2. \A j \in (i + 1)..taken' : filename(lines[j]) # g
        <5>1. \A j \in (i + 1)..taken' : j \in (i + 1)..taken \/ j = taken + 1
          BY <2>1, <2>3
        <5> QED BY <2>1, <3>2, <4>1, <5>1 DEF LastNaming
      <4>3. i \in 1..taken'
        BY <2>1, <2>3
      <4>4. LastNaming(g, i)'
        BY <2>2, <4>1, <4>2, <4>3 DEF LastNaming
      <4> QED BY <2>1, <3>2, <4>1, <4>3, <4>4
    <3> QED BY <3>1, <3>2
  <2> QED BY <2>2, <2>5, <2>6 DEF Loaded
<1>5. CASE Done \/ UNCHANGED vars
  BY <1>5 DEF Done, vars, Loaded, LastNaming
<1> QED BY <1>1, <1>2, <1>3, <1>4, <1>5 DEF Next, Construct

LEMMA LoadedAccepts == TypeInv /\ Loaded => AcceptsLastLine
<1> SUFFICES ASSUME TypeInv, Loaded, pc = "ready" PROVE
      /\ good /\ \A i \in 1..taken : ~TooShort(lines[i])
      /\ \A f \in Path :
           /\ Verifier!isValidFilePath(f) <=> LastLine(f) # 0
           /\ \A b \in DOMAIN DigestHex :
                Verifier!isValidFileBlob(f, b) <=>
                  LastLine(f) # 0 /\ DigestHex[b] = hash(lines[LastLine(f)])
  BY DEF AcceptsLastLine
<1>1. good /\ \A i \in 1..taken : ~TooShort(lines[i])
  BY DEF Loaded
<1>2. taken \in Nat /\ taken <= Len(lines) /\ lines \in Seq(Seq(Char))
  BY DigestFilesAssumption DEF TypeInv, TypeOK
<1>3. ASSUME NEW f \in Path
      PROVE  /\ f \in DOMAIN mDigests <=> LastLine(f) # 0
             /\ f \in DOMAIN mDigests =>
                  /\ mDigests[f] = hash(lines[LastLine(f)])
                  /\ mDigests[f] # NotListed
  <2> DEFINE S == {i \in 1..taken : filename(lines[i]) = f}
  <2>1. S \subseteq 1..taken
    OBVIOUS
  <2>2. LastLine(f) = LastOf(S)
    BY DEF LastLine
  <2>3. /\ LastOf(S) \in 0..taken
        /\ LastOf(S) = 0 <=> S = {}
        /\ S # {} => LastOf(S) \in S
        /\ \A j \in S : j <= LastOf(S)
    <3> HIDE DEF S
    <3> QED BY <1>2, <2>1, LastOfGreatest
  <2>4. ASSUME f \notin DOMAIN mDigests PROVE S = {}
    BY <2>4 DEF Loaded
  <2>5. ASSUME f \in DOMAIN mDigests
        PROVE  /\ S # {} /\ mDigests[f] = hash(lines[LastOf(S)])
               /\ mDigests[f] # NotListed
    <3>1. PICK i \in 1..taken : LastNaming(f, i) /\ mDigests[f] = hash(lines[i])
      BY <2>5 DEF Loaded
    <3>2. i \in S
      BY <3>1 DEF LastNaming
    <3>3. LastOf(S) \in S /\ LastOf(S) >= i /\ LastOf(S) \in 1..taken
      <4> HIDE DEF S
      <4> QED BY <2>1, <2>3, <3>2
    <3>4. LastOf(S) = i
      <4>1. LastOf(S) > i => LastOf(S) \in (i + 1)..taken
        BY <3>3
      <4>2. filename(lines[LastOf(S)]) = f
        BY <3>3
      <4> HIDE DEF S
      <4> QED BY <3>1, <3>3, <4>1, <4>2 DEF LastNaming
    <3>5. lines[i] \in Seq(Char) /\ ~TooShort(lines[i])
      BY <1>1, <1>2
    <3>6. hash(lines[i]) # NotListed
      BY <3>5, LineParts, NotListedAssumption
    <3> QED BY <3>1, <3>2, <3>4, <3>6
  <2> HIDE DEF S
  <2> QED BY <2>2, <2>3, <2>4, <2>5
<1> QED BY <1>1, <1>3
    DEF Verifier!isValidFilePath, Verifier!isValidFileBlob

(***************************************************************************)
(* For every list: the constructor returns only if every line it took was  *)
(* long enough, and then the verifier accepts for a path exactly the blobs *)
(* with the hash of the last of these lines that names the path.           *)
(***************************************************************************)
THEOREM LastLineAccepted == Spec => []AcceptsLastLine
<1>1. Init => TypeInv /\ Walk /\ Loaded
  <2>1. Init => Loaded
    BY DEF Init, Loaded
  <2> QED BY <2>1, TypeInitially, WalkInductive
<1>2. TypeInv /\ Walk /\ Loaded /\ [Next]_vars => (TypeInv /\ Walk /\ Loaded)'
  BY WalkInductive, LoadedStep
<1>3. TypeInv /\ Loaded => AcceptsLastLine
  BY LoadedAccepts
<1> QED BY <1>1, <1>2, <1>3, PTL DEF Spec

-----------------------------------------------------------------------------
(* Every directory is recorded *)

(* The directories above f of at least m characters are recorded. *)
CoveredFrom(f, m) ==
  \A k \in m..(Len(f) - 1) :
    f[k + 1] = "/" => SubSeq(f, 1, k) \in mDirectories

Walking(f) == pc = "saveUniqueDirectories" /\ f = filename(lines[taken])

Covered ==
  \A f \in DOMAIN mDigests : Plain(f) =>
    \/ ~Walking(f) /\ CoveredFrom(f, 1)
    \/ /\ Walking(f)
       /\ \E m \in 1..Len(f) : /\ pDirectory = SubSeq(f, 1, m)
                              /\ f[m] # "/" /\ CoveredFrom(f, m)

LEMMA CoveredStep ==
  TypeInv /\ Walk /\ Covered /\ [Next]_vars => Covered'
<1> SUFFICES ASSUME TypeInv, Walk, Covered, [Next]_vars,
                    NEW f \in DOMAIN mDigests', Plain(f)
             PROVE  \/ ~Walking(f)' /\ CoveredFrom(f, 1)'
                    \/ /\ Walking(f)'
                       /\ \E m \in 1..Len(f) : /\ pDirectory' = SubSeq(f, 1, m)
                                              /\ f[m] # "/" /\ CoveredFrom(f, m)'
  BY DEF Covered
<1>1. CASE streamBad \/ streamGood \/ endOfStream \/ readFails \/ lineTooShort
  BY <1>1 DEF streamBad, streamGood, endOfStream, readFails, lineTooShort,
     Covered, CoveredFrom, Walking
<1>2. CASE Done \/ UNCHANGED vars
  BY <1>2 DEF Done, vars, Covered, CoveredFrom, Walking
<1>3. CASE saveLine
  <2>1. PICK g \in Seq(Char) :
           /\ g = filename(lines[taken + 1])
           /\ taken' = taken + 1 /\ pDirectory' = g
           /\ DOMAIN mDigests' = DOMAIN mDigests \cup {g}
    BY <1>3, SaveLineIs
  <2>2. /\ lines' = lines /\ mDirectories' = mDirectories
        /\ pc = "getline" /\ pc' = "saveUniqueDirectories"
    BY <1>3 DEF saveLine
  <2>3. CASE f = g
    <3>1. Walking(f)'
      BY <2>1, <2>2, <2>3 DEF Walking
    <3>2. /\ Len(f) \in 1..Len(f) /\ f[Len(f)] # "/"
          /\ pDirectory' = SubSeq(f, 1, Len(f))
      BY <2>1, <2>3, SubSeqFull DEF Plain
    <3>3. CoveredFrom(f, Len(f))'
      BY <2>1, <2>3 DEF CoveredFrom
    <3> QED BY <3>1, <3>2, <3>3
  <2>4. CASE f # g
    BY <2>1, <2>2, <2>4 DEF Covered, Walking, CoveredFrom
  <2> QED BY <2>3, <2>4
<1>4. CASE saveDirectory \/ noMoreDirectories
  <2>1. /\ f \in DOMAIN mDigests /\ f \in Seq(Char)
        /\ lines' = lines /\ taken' = taken
    BY <1>4 DEF saveDirectory, noMoreDirectories, TypeInv, Texts
  <2>2. mDirectories \subseteq mDirectories'
    BY <1>4 DEF saveDirectory, noMoreDirectories
  <2>3. CASE ~Walking(f)
    <3>1. CoveredFrom(f, 1)'
      BY <2>1, <2>2, <2>3 DEF Covered, CoveredFrom
    <3>2. ~Walking(f)'
      BY <1>4, <2>3 DEF saveDirectory, noMoreDirectories, Walking
    <3> QED BY <3>1, <3>2
  <2>4. CASE Walking(f)
    <3>1. PICK m \in 1..Len(f) : /\ pDirectory = SubSeq(f, 1, m)
                                /\ f[m] # "/" /\ CoveredFrom(f, m)
      BY <2>1, <2>4 DEF Covered
    <3>2. CASE saveDirectory
      <4>1. ~AtTop(dirname(pDirectory)) /\ pDirectory' = dirname(pDirectory)
            /\ mDirectories' = mDirectories \cup {dirname(pDirectory)}
        BY <3>2 DEF saveDirectory
      <4>2. PICK c \in 1..(m - 1) :
              /\ dirname(SubSeq(f, 1, m)) = SubSeq(f, 1, c)
              /\ f[c] # "/" /\ \A j \in (c + 2)..m : f[j] # "/"
        BY <2>1, <3>1, <4>1, DirnamePlain
      <4>3. ASSUME NEW k \in c..(Len(f) - 1), f[k + 1] = "/"
            PROVE  SubSeq(f, 1, k) \in mDirectories'
        <5>1. CASE k = c
          BY <3>1, <4>1, <4>2, <5>1
        <5>2. CASE k # c /\ k < m
          <6>1. k + 1 \in (c + 2)..m
            BY <5>2
          <6> QED BY <4>2, <4>3, <6>1
        <5>3. CASE k >= m
          <6>1. k \in m..(Len(f) - 1)
            BY <2>1, <5>3
          <6> QED BY <2>2, <3>1, <4>3, <6>1 DEF CoveredFrom
        <5> QED BY <5>1, <5>2, <5>3
      <4>4. CoveredFrom(f, c)'
        BY <4>3 DEF CoveredFrom
      <4>5. Walking(f)' /\ c \in 1..Len(f)
        BY <2>1, <2>4, <3>2 DEF saveDirectory, Walking
      <4> QED BY <3>1, <4>1, <4>2, <4>4, <4>5
    <3>3. CASE noMoreDirectories
      <4>1. \A j \in 1..m : f[j] # "/"
        BY <2>1, <3>1, <3>3, DirnamePlain DEF noMoreDirectories
      <4>2. ASSUME NEW k \in 1..(Len(f) - 1), f[k + 1] = "/"
            PROVE  SubSeq(f, 1, k) \in mDirectories'
        <5>1. k + 1 \notin 1..m
          BY <4>1, <4>2
        <5>2. k \in m..(Len(f) - 1)
          BY <2>1, <5>1
        <5> QED BY <2>2, <3>1, <4>2, <5>2 DEF CoveredFrom
      <4>3. CoveredFrom(f, 1)' /\ ~Walking(f)'
        BY <3>3, <4>2 DEF CoveredFrom, Walking, noMoreDirectories
      <4> QED BY <4>3
    <3> QED BY <1>4, <3>2, <3>3
  <2> QED BY <2>3, <2>4
<1> QED BY <1>1, <1>2, <1>3, <1>4 DEF Next, Construct

LEMMA CoveredAncestors ==
  TypeInv /\ Walk /\ Covered => DirectoriesAreAncestors
<1> SUFFICES ASSUME TypeInv, Walk, Covered, pc = "ready",
                    \A f \in DOMAIN mDigests : Plain(f),
                    NEW d \in Path
             PROVE  Verifier!isValidDirectoryPath(d) <=>
                      \E f \in DOMAIN mDigests : Ancestor(d, f)
  BY DEF DirectoriesAreAncestors
<1>1. ASSUME d \in mDirectories PROVE \E f \in DOMAIN mDigests : Ancestor(d, f)
  <2>1. PICK f \in DOMAIN mDigests : Recorded(d, f)
    BY <1>1 DEF Walk
  <2>2. ~(f # <<>> /\ f[1] = "/") /\ f \in Seq(Char)
    BY DEF Plain, TypeInv, Texts
  <2> QED BY <2>1, <2>2, RootIsPrefix DEF Recorded
<1>2. ASSUME NEW f \in DOMAIN mDigests, Ancestor(d, f) PROVE d \in mDirectories
  <2>1. f \in Seq(Char) /\ d \in Seq(Char)
    BY PathAssumption DEF TypeInv, Texts
  <2>2. CoveredFrom(f, 1)
    BY DEF Covered, Walking
  <2>3. Len(d) \in 1..(Len(f) - 1) /\ d = SubSeq(f, 1, Len(d))
        /\ f[Len(d) + 1] = "/"
    BY <1>2, <2>1 DEF Ancestor
  <2> QED BY <2>2, <2>3 DEF CoveredFrom
<1> QED BY <1>1, <1>2 DEF Verifier!isValidDirectoryPath

(***************************************************************************)
(* For every list of plain names: the valid directory paths are exactly    *)
(* the directories on the way to the listed files, at every depth.         *)
(***************************************************************************)
THEOREM AncestorsExactly == Spec => []DirectoriesAreAncestors
<1>1. Init => TypeInv /\ Walk /\ Covered
  <2>1. Init => Covered
    BY DEF Init, Covered
  <2> QED BY <2>1, TypeInitially, WalkInductive
<1>2. TypeInv /\ Walk /\ Covered /\ [Next]_vars => (TypeInv /\ Walk /\ Covered)'
  BY WalkInductive, CoveredStep
<1>3. TypeInv /\ Walk /\ Covered => DirectoriesAreAncestors
  BY CoveredAncestors
<1> QED BY <1>1, <1>2, <1>3, PTL DEF Spec
=============================================================================
