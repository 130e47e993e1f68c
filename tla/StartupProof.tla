---------------------------- MODULE StartupProof ----------------------------
(***************************************************************************)
(* Proofs about Startup for every set of command lines, whatever texts and *)
(* options they are made of, and every content of the files they name.     *)
(*                                                                         *)
(* The argument: Fields says what the two fields and outargs are made of   *)
(* after any number of arguments; it is kept from one argument to the next *)
(* and is what parseEnds leaves behind.  When the parse fails instead, an  *)
(* unfinished option is in outargs, and fuseMounts is not possible.        *)
(***************************************************************************)
EXTENDS Startup, TLAPS

(* What is proved of the constructor holds of the one that main runs. *)
F == INSTANCE FileVerifierProof

Below == 1..(argctr - 1)

(* All options so far are kept; the texts so far are the empty ones, then  *)
(* the source, empty ones, the list, and after it those kept for FUSE.     *)
OptionsKept ==
  /\ outargs \subseteq Below
  /\ \A i \in Below : argv[i] \notin Text => i \in outargs
  /\ \A i \in Below : argv[i] # Unfinished

NoField ==
  /\ sourceMountPath = Empty /\ fileHashesPath = Empty
  /\ \A k \in Below : argv[k] \in Text => argv[k] = Empty /\ k \notin outargs

OneField ==
  /\ sourceMountPath # Empty /\ fileHashesPath = Empty
  /\ \E i \in Below :
       /\ argv[i] = sourceMountPath
       /\ \A k \in Below : argv[k] \in Text =>
            k \notin outargs /\ (k = i \/ argv[k] = Empty)

TwoFields ==
  /\ sourceMountPath # Empty /\ fileHashesPath # Empty
  /\ \E i, j \in Below :
       /\ i < j /\ argv[i] = sourceMountPath /\ argv[j] = fileHashesPath
       /\ i \notin outargs /\ j \notin outargs
       /\ \A k \in Below : argv[k] \in Text =>
            \/ k = i \/ k = j
            \/ k \notin outargs /\ argv[k] = Empty
            \/ k \in outargs /\ j < k

Fields == OptionsKept /\ (NoField \/ OneField \/ TwoFields)

Parse ==
  \/ Fields /\ (stage # "fuse_opt_parse" => argctr = Len(argv) + 1)
  \/ stage # "fuse_opt_parse" /\ \E i \in outargs : argv[i] = Unfinished

Types ==
  /\ argv \in Seq(Text \cup Option \cup {Unfinished})
  /\ argctr \in 1..(Len(argv) + 1)
  /\ sourceMountPath \in Text /\ fileHashesPath \in Text
  /\ outargs \subseteq DOMAIN argv
  /\ stage \in {"fuse_opt_parse", "ifstream", "FileVerifier", "fuse_main",
                "serving", "ended"}
  /\ mountpoint \in Text
  /\ good \in BOOLEAN /\ lines \in DigestFiles

(* The verifier is built from the list that the second field names, and    *)
(* gets past its first check only if there is one.                         *)
Verified ==
  /\ stage \in {"fuse_opt_parse", "ifstream"} => pc = "stream"
  /\ stage \notin {"fuse_opt_parse", "ifstream", "ended"} =>
       /\ good = (ListAt[fileHashesPath] # NoFile)
       /\ good => lines = ListAt[fileHashesPath]
       /\ pc \notin {"stream", "terminated"} => good
  /\ stage \in {"fuse_main", "serving"} => pc = "ready"

MountedOne ==
  Mounted =>
    /\ \A i \in outargs : argv[i] # Unfinished
    /\ \E i \in outargs : /\ Positional = {i} /\ argv[i] # Empty
                          /\ mountpoint = argv[i]

Inv == Types /\ Parse /\ Verified /\ MountedOne

-----------------------------------------------------------------------------
(* The initial states. *)
LEMMA InitInv == Init => Inv
<1> SUFFICES ASSUME Init PROVE Inv
  OBVIOUS
<1>1. Types
  <2>1. argv \in Seq(Text \cup Option \cup {Unfinished}) /\ argctr = 1
    BY CommandLineAssumption DEF Init
  <2>2. argctr \in 1..(Len(argv) + 1)
    <3>1. Len(argv) \in Nat
      BY <2>1
    <3> QED
      BY <2>1, <3>1
  <2> QED
    BY <2>1, <2>2, TextAssumption, ListAtAssumption DEF Init, Types
<1>2. Below = {}
  BY DEF Init, Below
<1>3. Parse
  BY <1>2 DEF Init, Parse, Fields, OptionsKept, NoField
<1>4. Verified /\ MountedOne
  BY DEF Init, Verified, MountedOne, Mounted
<1> QED
  BY <1>1, <1>3, <1>4 DEF Inv

(* Types are kept by every step. *)
LEMMA TypesKept == Types /\ [Next]_vars => Types'
<1> SUFFICES ASSUME Types, [Next]_vars PROVE Types'
  OBVIOUS
<1> USE DEF Types
<1>1. ASSUME Parsing(Text) \/ Parsing(Option)
      PROVE  /\ argctr + 1 \in 1..(Len(argv) + 1) /\ argctr \in DOMAIN argv
             /\ argv' = argv /\ stage' = stage /\ mountpoint' = mountpoint
             /\ good' = good /\ lines' = lines
  BY <1>1 DEF Parsing, verifierVars
<1>2. CASE keepOption
  BY <1>1, <1>2 DEF keepOption
<1>3. CASE takeSource
  <2>1. argv[argctr] \in Text
    BY <1>3 DEF takeSource, Parsing
  <2> QED
    BY <1>1, <1>3, <2>1 DEF takeSource
<1>4. CASE takeHashes
  <2>1. argv[argctr] \in Text
    BY <1>4 DEF takeHashes, Parsing
  <2> QED
    BY <1>1, <1>4, <2>1 DEF takeHashes
<1>5. CASE keepPositional
  BY <1>1, <1>5 DEF keepPositional
<1>6. CASE parseFails
  BY <1>6 DEF parseFails, parsed, verifierVars
<1>7. CASE parseEnds
  BY <1>7 DEF parseEnds, parsed, verifierVars
<1>8. CASE openDigests
  BY <1>8, ListAtAssumption DEF openDigests
<1>9. CASE construct
  BY <1>9 DEF construct, mainVars, V!Construct, V!streamBad, V!streamGood,
     V!endOfStream, V!readFails, V!lineTooShort, V!saveLine, V!saveDirectory,
     V!noMoreDirectories
<1>10. CASE uncaught
  BY <1>10 DEF uncaught, GoTo, verifierVars
<1>11. CASE constructed
  BY <1>11 DEF constructed, GoTo, verifierVars
<1>12. CASE fuseMounts
  BY <1>12 DEF fuseMounts, Positional, verifierVars
<1>13. CASE fuseRefuses
  BY <1>13 DEF fuseRefuses, GoTo, verifierVars
<1>14. CASE Done \/ UNCHANGED vars
  BY <1>14 DEF Done, vars, mainVars, verifierVars
<1> QED
  BY <1>2, <1>3, <1>4, <1>5, <1>6, <1>7, <1>8, <1>9, <1>10, <1>11, <1>12,
     <1>13, <1>14 DEF Next, Main

-----------------------------------------------------------------------------
(* One more argument. *)

(* What the next argument adds to the arguments below. *)
LEMMA OneMore ==
  ASSUME Types, Types', Parse,
         Parsing(Text) \/ Parsing(Option), argctr' = argctr + 1
  PROVE  /\ Below' = Below \cup {argctr} /\ argctr \notin Below
         /\ \A k \in Below : k < argctr /\ k \in Nat
         /\ argv' = argv /\ argctr \in Nat
         /\ stage = "fuse_opt_parse" /\ stage' = stage
         /\ Fields
<1>1. stage = "fuse_opt_parse" /\ stage' = stage /\ argv' = argv
  BY DEF Parsing
<1>2. argctr \in Nat /\ argctr >= 1
  BY DEF Types
<1>3. Below' = Below \cup {argctr}
  BY <1>2 DEF Below
<1>4. argctr \notin Below /\ \A k \in Below : k < argctr /\ k \in Nat
  BY <1>2 DEF Below
<1> QED
  BY <1>1, <1>2, <1>3, <1>4 DEF Parse

(* An option is kept. *)
LEMMA OptionParsed ==
  ASSUME Types, Types', Parse, keepOption PROVE Fields' /\ stage' = stage
<1>1. /\ Below' = Below \cup {argctr} /\ argctr \notin Below
      /\ \A k \in Below : k < argctr /\ k \in Nat
      /\ argv' = argv /\ argctr \in Nat /\ stage' = stage
      /\ Fields
  BY OneMore DEF keepOption
<1>2. argv[argctr] \in Option /\ argv[argctr] \notin Text
  BY OptionAssumption DEF keepOption, Parsing
<1>3. argv[argctr] # Unfinished
  BY <1>2, OptionAssumption
<1>4. /\ outargs' = outargs \cup {argctr}
      /\ sourceMountPath' = sourceMountPath
      /\ fileHashesPath' = fileHashesPath
  BY DEF keepOption
<1>5. OptionsKept'
  BY <1>1, <1>2, <1>3, <1>4 DEF OptionsKept, Fields
<1>6. CASE NoField
  <2>1. NoField'
    BY <1>1, <1>2, <1>4, <1>6 DEF NoField
  <2> QED
    BY <1>1, <1>5, <2>1 DEF Fields
<1>7. CASE OneField
  <2>1. OneField'
    BY <1>1, <1>2, <1>4, <1>7 DEF OneField
  <2> QED
    BY <1>1, <1>5, <2>1 DEF Fields
<1>8. CASE TwoFields
  <2>1. TwoFields'
    BY <1>1, <1>2, <1>4, <1>8 DEF TwoFields
  <2> QED
    BY <1>1, <1>5, <2>1 DEF Fields
<1> QED
  BY <1>1, <1>6, <1>7, <1>8 DEF Fields

(* A text is not an option that could be missing from outargs. *)
LEMMA TextParsed ==
  ASSUME Types, Types', Parse, Parsing(Text), argctr' = argctr + 1,
         outargs' \in {outargs, outargs \cup {argctr}}
  PROVE  OptionsKept' /\ argv[argctr] \in Text
<1>1. /\ Below' = Below \cup {argctr} /\ argctr \notin Below
      /\ argv' = argv /\ Fields
  BY OneMore
<1>2. argv[argctr] \in Text
  BY DEF Parsing
<1>3. argv[argctr] # Unfinished
  BY <1>2, OptionAssumption
<1> QED
  BY <1>1, <1>2, <1>3 DEF OptionsKept, Fields

(* A text is taken for the source, or is empty and dropped. *)
LEMMA SourceParsed ==
  ASSUME Types, Types', Parse, takeSource PROVE Fields' /\ stage' = stage
<1>1. /\ Below' = Below \cup {argctr} /\ argctr \notin Below
      /\ argv' = argv /\ argctr \in Nat /\ stage' = stage
      /\ Fields
  BY OneMore DEF takeSource
<1>2. OptionsKept' /\ argv[argctr] \in Text
  BY TextParsed DEF takeSource
<1>3. /\ sourceMountPath = Empty /\ sourceMountPath' = argv[argctr]
      /\ fileHashesPath' = fileHashesPath /\ outargs' = outargs
  BY DEF takeSource
<1>4. NoField
  BY <1>1, <1>3 DEF Fields, OneField, TwoFields
<1>5. argctr \notin outargs
  BY <1>1 DEF Fields, OptionsKept
<1>6. CASE argv[argctr] = Empty
  <2>1. NoField'
    BY <1>1, <1>3, <1>4, <1>5, <1>6 DEF NoField
  <2> QED
    BY <1>1, <1>2, <2>1 DEF Fields
<1>7. CASE argv[argctr] # Empty
  <2>1. OneField'
    BY <1>1, <1>3, <1>4, <1>5, <1>7 DEF NoField, OneField
  <2> QED
    BY <1>1, <1>2, <2>1 DEF Fields
<1> QED
  BY <1>6, <1>7

(* A text is taken for the list, or is empty and dropped. *)
LEMMA HashesParsed ==
  ASSUME Types, Types', Parse, takeHashes PROVE Fields' /\ stage' = stage
<1>1. /\ Below' = Below \cup {argctr} /\ argctr \notin Below
      /\ \A k \in Below : k < argctr /\ k \in Nat
      /\ argv' = argv /\ argctr \in Nat /\ stage' = stage
      /\ Fields
  BY OneMore DEF takeHashes
<1>2. OptionsKept' /\ argv[argctr] \in Text
  BY TextParsed DEF takeHashes
<1>3. /\ sourceMountPath # Empty /\ sourceMountPath' = sourceMountPath
      /\ fileHashesPath = Empty /\ fileHashesPath' = argv[argctr]
      /\ outargs' = outargs
  BY DEF takeHashes
<1>4. PICK i \in Below :
         /\ argv[i] = sourceMountPath
         /\ \A k \in Below : argv[k] \in Text =>
              k \notin outargs /\ (k = i \/ argv[k] = Empty)
  BY <1>1, <1>3 DEF Fields, NoField, OneField, TwoFields
<1>5. argctr \notin outargs
  BY <1>1 DEF Fields, OptionsKept
<1>6. CASE argv[argctr] = Empty
  <2>1. OneField'
    BY <1>1, <1>3, <1>4, <1>5, <1>6 DEF OneField
  <2> QED
    BY <1>1, <1>2, <2>1 DEF Fields
<1>7. CASE argv[argctr] # Empty
  <2>1. i \notin outargs
    BY <1>4 DEF Types
  <2>2. \A k \in Below' : argv[k] \in Text =>
          \/ k = i \/ k = argctr
          \/ k \notin outargs /\ argv[k] = Empty
    BY <1>1, <1>4
  <2>3. TwoFields'
    BY <1>1, <1>3, <1>4, <1>5, <1>7, <2>1, <2>2 DEF TwoFields
  <2> QED
    BY <1>1, <1>2, <2>3 DEF Fields
<1> QED
  BY <1>6, <1>7

(* A text after both fields are filled is kept for FUSE. *)
LEMMA PositionalParsed ==
  ASSUME Types, Types', Parse, keepPositional PROVE Fields' /\ stage' = stage
<1>1. /\ Below' = Below \cup {argctr} /\ argctr \notin Below
      /\ \A k \in Below : k < argctr /\ k \in Nat
      /\ argv' = argv /\ argctr \in Nat /\ stage' = stage
      /\ Fields
  BY OneMore DEF keepPositional
<1>2. OptionsKept' /\ argv[argctr] \in Text
  BY TextParsed DEF keepPositional
<1>3. /\ sourceMountPath # Empty /\ sourceMountPath' = sourceMountPath
      /\ fileHashesPath # Empty /\ fileHashesPath' = fileHashesPath
      /\ outargs' = outargs \cup {argctr}
  BY DEF keepPositional
<1>4. TwoFields
  BY <1>1, <1>3 DEF Fields, NoField, OneField
<1>5. TwoFields'
  BY <1>1, <1>3, <1>4 DEF TwoFields
<1> QED
  BY <1>1, <1>2, <1>5 DEF Fields

(* How the parse ends. *)
LEMMA ParseKept == Inv /\ [Next]_vars => Parse'
<1> SUFFICES ASSUME Inv, [Next]_vars PROVE Parse'
  OBVIOUS
<1>0. Types /\ Types' /\ Parse
  BY TypesKept DEF Inv
<1>1. CASE keepOption \/ takeSource \/ takeHashes \/ keepPositional
  <2>1. Fields' /\ stage' = stage
    BY <1>0, <1>1, OptionParsed, SourceParsed, HashesParsed, PositionalParsed
  <2>2. stage = "fuse_opt_parse"
    BY <1>1 DEF keepOption, takeSource, takeHashes, keepPositional, Parsing
  <2> QED
    BY <2>1, <2>2 DEF Parse
<1>2. CASE parseFails
  BY <1>0, <1>2 DEF parseFails, parsed, Parse, Types
<1>3. CASE parseEnds
  <2>1. Fields /\ stage' = "ifstream" /\ argctr = Len(argv) + 1
    BY <1>0, <1>3 DEF parseEnds, parsed, Parse, Types
  <2>2. UNCHANGED <<argv, argctr, sourceMountPath, fileHashesPath, outargs>>
    BY <1>3 DEF parseEnds, parsed
  <2> QED
    BY <2>1, <2>2 DEF Parse, Fields, OptionsKept, NoField, OneField,
       TwoFields, Below
<1>4. ASSUME UNCHANGED <<argv, argctr, sourceMountPath, fileHashesPath,
                         outargs>>,
             \/ stage # "fuse_opt_parse" /\ stage' # "fuse_opt_parse"
             \/ stage' = stage
      PROVE  Parse'
  BY <1>0, <1>4 DEF Parse, Fields, OptionsKept, NoField, OneField, TwoFields,
     Below
<1>5. CASE openDigests \/ construct
  BY <1>4, <1>5 DEF openDigests, construct, mainVars
<1>6. CASE uncaught \/ constructed \/ fuseRefuses
  BY <1>4, <1>6 DEF uncaught, constructed, fuseRefuses, GoTo
<1>7. CASE fuseMounts
  BY <1>4, <1>7 DEF fuseMounts
<1>8. CASE Done \/ UNCHANGED vars
  BY <1>4, <1>8 DEF Done, vars, mainVars
<1> QED
  BY <1>1, <1>2, <1>3, <1>5, <1>6, <1>7, <1>8 DEF Next, Main

-----------------------------------------------------------------------------
(* The rest of the invariant. *)
LEMMA RestKept ==
  Inv /\ [Next]_vars => Verified' /\ MountedOne'
<1> SUFFICES ASSUME Inv, [Next]_vars
             PROVE  Verified' /\ MountedOne'
  OBVIOUS
<1> USE DEF Inv, Types, Verified, MountedOne, Mounted, Positional
<1>1. ASSUME Parsing(Text) \/ Parsing(Option)
      PROVE  Verified' /\ MountedOne'
  BY <1>1 DEF Parsing, verifierVars
<1>2. CASE keepOption \/ takeSource \/ takeHashes \/ keepPositional
  BY <1>1, <1>2 DEF keepOption, takeSource, takeHashes, keepPositional
<1>3. CASE parseFails \/ parseEnds
  BY <1>3 DEF parseFails, parseEnds, parsed, verifierVars
<1>4. CASE openDigests
  BY <1>4 DEF openDigests
<1>5. CASE construct
  <2>1. stage = "FileVerifier" /\ UNCHANGED mainVars
    BY <1>5 DEF construct
  <2>2. /\ good' = good /\ lines' = lines
        /\ pc' \notin {"stream", "terminated"} => good
    BY <1>5, <2>1 DEF construct, V!Construct, V!streamBad, V!streamGood,
       V!endOfStream, V!readFails, V!lineTooShort, V!saveLine,
       V!saveDirectory, V!noMoreDirectories
  <2> QED
    BY <2>1, <2>2 DEF mainVars
<1>6. CASE uncaught
  BY <1>6 DEF uncaught, GoTo, verifierVars
<1>7. CASE constructed
  BY <1>7 DEF constructed, GoTo, verifierVars
<1>8. CASE fuseMounts
  BY <1>8 DEF fuseMounts, verifierVars
<1>9. CASE fuseRefuses
  BY <1>9 DEF fuseRefuses, GoTo, verifierVars
<1>10. CASE Done \/ UNCHANGED vars
  BY <1>10 DEF Done, vars, mainVars, verifierVars
<1> QED
  BY <1>2, <1>3, <1>4, <1>5, <1>6, <1>7, <1>8, <1>9, <1>10
  DEF Next, Main

(* Inv is an invariant. *)
LEMMA InvHolds == Spec => []Inv
<1>1. Inv /\ [Next]_vars => Inv'
  BY TypesKept, ParseKept, RestKept DEF Inv
<1> QED
  BY InitInv, <1>1, PTL DEF Spec

-----------------------------------------------------------------------------
(* What follows from it. *)

(* TypeOK: types hold, and the fields are arguments that are not kept.     *)
THEOREM TypeCorrect == Spec => []TypeOK
<1>1. Inv => TypeOK
  <2> SUFFICES ASSUME Inv PROVE TypeOK
    OBVIOUS
  <2>1. Types
    BY DEF Inv
  <2>2. ASSUME stage = "fuse_opt_parse"
        PROVE  Fields
    BY <2>2 DEF Inv, Parse
  <2>3. ASSUME stage = "fuse_opt_parse", fileHashesPath = Empty
        PROVE  Positional = {}
    BY <2>2, <2>3 DEF Fields, OptionsKept, NoField, OneField, TwoFields,
       Positional
  <2>4. ASSUME stage = "fuse_opt_parse", fileHashesPath # Empty
        PROVE  \E i, j \in 1..(argctr - 1) :
                 /\ i < j /\ {i, j} \cap outargs = {}
                 /\ argv[i] = sourceMountPath /\ argv[j] = fileHashesPath
    BY <2>2, <2>4 DEF Fields, NoField, OneField, TwoFields, Below
  <2> QED
    BY <2>1, <2>3, <2>4 DEF TypeOK, Types
<1> QED
  BY InvHolds, <1>1, PTL

(* Once mounted, both fields were filled, and Below is all of argv. *)
LEMMA MountedFields ==
  ASSUME Inv, Mounted
  PROVE  /\ Fields /\ TwoFields /\ Below = DOMAIN argv
         /\ fileHashesPath # Empty
<1>1. Fields /\ argctr = Len(argv) + 1
  BY DEF Inv, Parse, MountedOne, Mounted
<1>2. Below = DOMAIN argv
  BY <1>1 DEF Inv, Types, Below
<1>3. good /\ fileHashesPath # Empty
  BY ListAtAssumption DEF Inv, Verified, Mounted
<1> QED
  BY <1>1, <1>2, <1>3 DEF Fields, NoField, OneField

(* Inv says what is mounted. *)
LEMMA MountedIsAsked == Inv => MountedAsAsked
<1> SUFFICES ASSUME Inv, Mounted PROVE MountedAsAsked
  BY DEF MountedAsAsked
<1>1. Fields /\ TwoFields /\ Below = DOMAIN argv
  BY MountedFields
<1>2. PICK i, j \in DOMAIN argv :
        /\ i < j /\ argv[i] = sourceMountPath /\ argv[j] = fileHashesPath
        /\ i \notin outargs /\ j \notin outargs
        /\ \A k \in DOMAIN argv : argv[k] \in Text =>
             \/ k = i \/ k = j
             \/ k \notin outargs /\ argv[k] = Empty
             \/ k \in outargs /\ j < k
  BY <1>1 DEF TwoFields
<1>3. PICK k \in outargs : /\ Positional = {k} /\ argv[k] # Empty
                           /\ mountpoint = argv[k]
  BY DEF Inv, MountedOne
<1>4. k \in DOMAIN argv /\ argv[k] \in Text
  BY <1>3 DEF Inv, Types, Positional
<1>5. j < k
  BY <1>2, <1>3, <1>4
<1>6. argv[i] \in Text \ {Empty} /\ argv[j] \in Text \ {Empty}
  BY <1>1, <1>2 DEF TwoFields, Inv, Types
<1>7. Given = {i, j, k}
  <2>1. \A n \in Given : n \in {i, j, k}
    BY <1>2, <1>3 DEF Given, Positional
  <2>2. {i, j, k} \subseteq Given
    BY <1>2, <1>3, <1>4, <1>6 DEF Given
  <2> QED
    BY <2>1, <2>2
<1>8. {n \in DOMAIN argv : argv[n] \notin Text} \subseteq outargs
  BY <1>1 DEF Fields, OptionsKept
<1>9. \A n \in DOMAIN argv : argv[n] # Unfinished
  BY <1>1 DEF Fields, OptionsKept
<1>10. pc = "ready" /\ good /\ ListAt[fileHashesPath] = lines
  BY DEF Inv, Verified, Mounted
<1> QED
  BY <1>2, <1>3, <1>4, <1>5, <1>7, <1>8, <1>9, <1>10 DEF MountedAsAsked

(* MountedAsAsked, for every command line: the three non-empty texts are   *)
(* the source, the list and the mount point, and all options reach FUSE.   *)
THEOREM MountsWhatIsAsked == Spec => []MountedAsAsked
BY InvHolds, MountedIsAsked, PTL

-----------------------------------------------------------------------------
(* The verifier that main builds. *)

Early == stage \in {"fuse_opt_parse", "ifstream"}

Constructing == F!TypeInv /\ F!Walk /\ F!Loaded

(***************************************************************************)
(* Until the list is open the verifier's tables are as the constructor     *)
(* finds them; from then on what is proved of the constructor holds.       *)
(***************************************************************************)
Loading == (Early => F!Init) /\ (F!Init \/ Constructing)

(* FileVerifier's assumptions are those of Startup. *)
LEMMA VerifierAssumptions ==
  /\ F!HashLenAssumption /\ F!CharAssumption /\ F!DigestFilesAssumption
  /\ F!PathAssumption /\ F!NotListedAssumption
BY VerifierAssumption
DEF F!HashLenAssumption, F!CharAssumption, F!DigestFilesAssumption,
    F!PathAssumption, F!NotListedAssumption

(* The constructor starts well and keeps what is proved of it. *)
LEMMA ConstructorStarts == F!Init => Constructing
<1>1. F!Init => F!TypeInv /\ F!Walk
  BY VerifierAssumptions, F!TypeInitially, F!WalkInductive
<1>2. F!Init => F!Loaded
  BY DEF F!Init, F!Loaded
<1> QED
  BY <1>1, <1>2 DEF Constructing

LEMMA ConstructorGoesOn == Constructing /\ [F!Next]_F!vars => Constructing'
<1>1. F!TypeInv /\ F!Walk /\ [F!Next]_F!vars => F!TypeInv' /\ F!Walk'
  BY VerifierAssumptions, F!WalkInductive
<1>2. F!TypeInv /\ F!Loaded /\ [F!Next]_F!vars => F!Loaded'
  BY VerifierAssumptions, F!LoadedStep
<1> QED
  BY <1>1, <1>2 DEF Constructing

(* main gives it the list and touches nothing of it afterwards. *)
LEMMA LoadingKept == Inv /\ Loading /\ [Next]_vars => Loading'
<1> SUFFICES ASSUME Inv, Loading, [Next]_vars PROVE Loading'
  OBVIOUS
<1>1. ASSUME UNCHANGED verifierVars, Early' => Early PROVE Loading'
  <2>1. UNCHANGED F!vars /\ (F!Init => F!Init')
    BY <1>1 DEF verifierVars, F!vars, F!Init
  <2>2. Constructing => Constructing'
    BY <2>1, ConstructorGoesOn
  <2> QED
    BY <1>1, <2>1, <2>2 DEF Loading
<1>2. CASE keepOption \/ takeSource \/ takeHashes \/ keepPositional
  BY <1>1, <1>2 DEF keepOption, takeSource, takeHashes, keepPositional, Parsing,
                    Early
<1>3. CASE parseFails \/ parseEnds
  BY <1>1, <1>3 DEF parseFails, parseEnds, parsed, Early
<1>4. CASE openDigests
  <2>1. F!Init
    BY <1>4 DEF openDigests, Loading, Early
  <2>2. good' \in BOOLEAN /\ lines' \in DigestFiles
    BY TypesKept DEF Inv, Types
  <2>3. F!Init'
    BY <1>4, <2>1, <2>2 DEF openDigests, F!Init
  <2> QED
    BY <2>3 DEF Loading
<1>5. CASE construct
  <2>1. V!Construct => F!Construct
    BY DEF V!Construct, V!streamBad, V!streamGood, V!endOfStream, V!readFails,
       V!lineTooShort, V!saveLine, V!saveDirectory, V!noMoreDirectories,
       F!Construct, F!streamBad, F!streamGood, F!endOfStream, F!readFails,
       F!lineTooShort, F!saveLine, F!saveDirectory, F!noMoreDirectories,
       V!TooShort, F!TooShort, V!Listed, F!Listed, V!hash, F!hash, V!filename,
       F!filename, V!dirname, F!dirname, V!Trimmed, F!Trimmed, V!UpToSlash,
       F!UpToSlash, V!LastOf, F!LastOf, V!AtTop, F!AtTop
  <2>2. [F!Next]_F!vars
    BY <1>5, <2>1 DEF construct, F!Next
  <2>3. Constructing'
    BY <2>2, ConstructorStarts, ConstructorGoesOn DEF Loading
  <2>4. ~Early'
    BY <1>5 DEF construct, mainVars, Early
  <2> QED
    BY <2>3, <2>4 DEF Loading
<1>6. CASE uncaught \/ constructed \/ fuseRefuses
  BY <1>1, <1>6 DEF uncaught, constructed, fuseRefuses, GoTo, Early
<1>7. CASE fuseMounts
  BY <1>1, <1>7 DEF fuseMounts, Early
<1>8. CASE Done \/ UNCHANGED vars
  BY <1>1, <1>8 DEF Done, vars, mainVars, Early
<1> QED
  BY <1>2, <1>3, <1>4, <1>5, <1>6, <1>7, <1>8 DEF Next, Main

(* What the mounted verifier accepts, from what its tables hold. *)
LEMMA AcceptsAsLoaded ==
  ASSUME Constructing, pc = "ready", NEW f \in Path, NEW b \in DOMAIN DigestHex
  PROVE  V!Verifier!isValidFileBlob(f, b) <=>
           \E l \in 1..taken : /\ LastNaming(lines, f, l, taken)
                               /\ DigestHex[b] = V!hash(lines[l])
<1>1. /\ \A i \in 1..taken : ~F!TooShort(lines[i])
      /\ \A i \in 1..taken : F!filename(lines[i]) \in DOMAIN mDigests
      /\ \A g \in DOMAIN mDigests : \E i \in 1..taken :
           F!LastNaming(g, i) /\ mDigests[g] = F!hash(lines[i])
  BY DEF Constructing, F!Loaded
<1>2. \A line : V!filename(line) = F!filename(line) /\ V!hash(line) = F!hash(line)
  BY DEF V!filename, F!filename, V!hash, F!hash
<1>3. \A l \in 1..taken : LastNaming(lines, f, l, taken) <=> F!LastNaming(f, l)
  BY <1>2 DEF LastNaming, F!LastNaming
<1>4. taken \in 0..Len(lines) /\ lines \in Seq(Seq(Char))
  BY VerifierAssumption DEF Constructing, F!TypeInv, F!TypeOK
<1>5. ASSUME NEW l \in 1..taken PROVE F!hash(lines[l]) # NotListed
  <2>1. lines[l] \in Seq(Char) /\ ~F!TooShort(lines[l])
    BY <1>1, <1>4
  <2>2. F!hash(lines[l]) \in Seq(Char)
    BY <2>1, VerifierAssumptions, F!LineParts
  <2> QED
    BY <2>2, VerifierAssumption
<1>6. ASSUME NEW k \in 1..taken, NEW l \in 1..taken,
             F!LastNaming(f, k), F!LastNaming(f, l)
      PROVE  k = l
  <2>1. ~(k < l) /\ ~(l < k)
    <3>1. k < l => l \in (k + 1)..taken
      BY <1>4
    <3>2. l < k => k \in (l + 1)..taken
      BY <1>4
    <3> QED
      BY <1>6, <3>1, <3>2 DEF F!LastNaming
  <2> QED
    BY <2>1, <1>4
<1>7. V!Verifier!isValidFileBlob(f, b) <=>
        /\ f \in DOMAIN mDigests /\ mDigests[f] # NotListed
        /\ DigestHex[b] = mDigests[f]
  BY DEF V!Verifier!isValidFileBlob
<1>8. CASE f \in DOMAIN mDigests
  <2>1. PICK k \in 1..taken : F!LastNaming(f, k) /\ mDigests[f] = F!hash(lines[k])
    BY <1>1, <1>8
  <2> QED
    BY <2>1, <1>2, <1>3, <1>5, <1>6, <1>7, <1>8
<1>9. CASE f \notin DOMAIN mDigests
  BY <1>1, <1>3, <1>7, <1>9 DEF F!LastNaming
<1> QED
  BY <1>8, <1>9

(***************************************************************************)
(* For every command line and every content of the files it names: a       *)
(* mounted file system accepts exactly the blobs that the file named second*)
(* lists.  What is proved of the constructor carries over to main.         *)
(***************************************************************************)
THEOREM ServesListNamed == Spec => []ServesNamedList
<1>1. Init => Loading
  <2>1. Init => F!Init
    BY ListAtAssumption DEF Init, F!Init
  <2> QED
    BY <2>1 DEF Loading
<1>2. Inv /\ Loading => ServesNamedList
  <2> SUFFICES ASSUME Inv, Loading, Mounted PROVE ServesNamedList
    BY DEF ServesNamedList
  <2>1. PICK i, j, k \in DOMAIN argv :
          /\ i < j /\ j < k /\ Given = {i, j, k}
          /\ fileHashesPath = argv[j]
    BY MountedIsAsked DEF MountedAsAsked
  <2>2. pc = "ready" /\ good /\ ListAt[argv[j]] = lines
    BY <2>1, MountedIsAsked DEF MountedAsAsked
  <2>3. Constructing
    BY <2>2 DEF Loading, F!Init
  <2>4. lines # NoFile /\ taken \in 0..Len(lines)
    BY <2>3, ListAtAssumption DEF Constructing, F!TypeInv, F!TypeOK
  <2>5. \A f \in Path, b \in DOMAIN DigestHex :
          V!Verifier!isValidFileBlob(f, b) <=>
            \E l \in 1..taken : /\ LastNaming(lines, f, l, taken)
                                /\ DigestHex[b] = V!hash(lines[l])
    BY <2>2, <2>3, AcceptsAsLoaded
  <2>6. i \in Given /\ j \in Given /\ \A m \in Given : m \in {i, j} \/ j < m
    BY <2>1
  <2> QED
    BY <2>1, <2>2, <2>4, <2>5, <2>6 DEF ServesNamedList
<1> QED
  BY <1>1, <1>2, LoadingKept, InvHolds, PTL DEF Spec
=============================================================================
