------------------------------ MODULE Startup ------------------------------
(***************************************************************************)
(* main: the command line is parsed, the digests file named on it is       *)
(* opened, FileVerifier is constructed from it, and what is left of the    *)
(* command line is given to fuse_main, which mounts the file system.  The  *)
(* constructor is module FileVerifier, step by step.                       *)
(*                                                                         *)
(* An argument is an option (with its value, "-o ro" is one argument) or a *)
(* text; outargs is the set of the positions of argv that are kept, as     *)
(* they stay in order.                                                     *)
(***************************************************************************)
EXTENDS Integers, Sequences

CONSTANTS
  Text,         \* arguments that do not begin with a dash
  Empty,        \* the argument ""
  Option,       \* "-f", "-s" and other complete options
  Unfinished,   \* "-o" without a value, at the end of the command line
  CommandLine,  \* the argument sequences main may be given
  ListAt,       \* what is in the file a text names: lines, or NoFile
  NoFile,
  Char, DigestFiles, HashLen, Path, Hash, NotListed, DigestHex

ASSUME TextAssumption == Empty \in Text
ASSUME OptionAssumption ==
  /\ Unfinished \notin Option
  /\ Text \cap (Option \cup {Unfinished}) = {}
ASSUME CommandLineAssumption ==
  CommandLine \subseteq Seq(Text \cup Option \cup {Unfinished})
ASSUME ListAtAssumption ==
  /\ ListAt \in [Text -> DigestFiles \cup {NoFile}] /\ ListAt[Empty] = NoFile
  /\ NoFile \notin DigestFiles /\ <<>> \in DigestFiles
ASSUME VerifierAssumption ==
  /\ HashLen \in Nat \ {0} /\ {"/", "."} \subseteq Char
  /\ DigestFiles \subseteq Seq(Seq(Char)) /\ Path \subseteq Seq(Char)
  /\ NotListed \notin Seq(Char)

VARIABLES
  argv,             \* without the program's name
  argctr,           \* the argument fuse_opt_parse is at
  sourceMountPath, fileHashesPath,
  outargs,          \* the positions of argv that args holds
  stage,            \* where main is
  mountpoint,       \* where fuse_main has mounted, Empty before
  good, lines, taken, pc, pDirectory, mDigests, mDirectories

mainVars == <<argv, argctr, sourceMountPath, fileHashesPath, outargs, stage,
              mountpoint>>
verifierVars == <<good, lines, taken, pc, pDirectory, mDigests, mDirectories>>
vars == <<mainVars, verifierVars>>

V == INSTANCE FileVerifier

Init ==
  /\ argv \in CommandLine /\ argctr = 1
  /\ sourceMountPath = Empty /\ fileHashesPath = Empty
  /\ outargs = {} /\ stage = "fuse_opt_parse"
  /\ mountpoint = Empty
  /\ good = FALSE /\ lines = <<>> /\ taken = 0 /\ pc = "stream"
  /\ pDirectory = <<>> /\ mDigests = [f \in {} |-> <<>>] /\ mDirectories = {}

-----------------------------------------------------------------------------
(* fuse_opt_parse: verifyFSAdditionalArgs is called for each argument.      *)

Parsing(args) ==
  /\ stage = "fuse_opt_parse" /\ argctr <= Len(argv)
  /\ argv[argctr] \in args
  /\ UNCHANGED <<argv, stage, mountpoint, verifierVars>>

(* Mutant: options are not given back to FUSE. *)
keepOptionNot ==
  /\ Parsing(Option) /\ argctr' = argctr + 1
  /\ UNCHANGED <<sourceMountPath, fileHashesPath, outargs>>

keepOption ==
  /\ Parsing(Option) /\ argctr' = argctr + 1
  /\ outargs' = outargs \cup {argctr}
  /\ UNCHANGED <<sourceMountPath, fileHashesPath>>

(* An empty argument is taken and leaves the field empty. *)
takeSource ==
  /\ Parsing(Text) /\ argctr' = argctr + 1
  /\ sourceMountPath = Empty
  /\ sourceMountPath' = argv[argctr]
  /\ UNCHANGED <<fileHashesPath, outargs>>

(* Mutant: returns 1, so that the argument is also kept for FUSE. *)
takeHashesKept ==
  /\ Parsing(Text) /\ argctr' = argctr + 1
  /\ sourceMountPath # Empty /\ fileHashesPath = Empty
  /\ fileHashesPath' = argv[argctr]
  /\ outargs' = outargs \cup {argctr}
  /\ UNCHANGED sourceMountPath

takeHashes ==
  /\ Parsing(Text) /\ argctr' = argctr + 1
  /\ sourceMountPath # Empty /\ fileHashesPath = Empty
  /\ fileHashesPath' = argv[argctr]
  /\ UNCHANGED <<sourceMountPath, outargs>>

keepPositional ==
  /\ Parsing(Text) /\ argctr' = argctr + 1
  /\ sourceMountPath # Empty /\ fileHashesPath # Empty
  /\ outargs' = outargs \cup {argctr}
  /\ UNCHANGED <<sourceMountPath, fileHashesPath>>

parsed ==
  /\ stage' = "ifstream"
  /\ UNCHANGED <<argv, sourceMountPath, fileHashesPath, mountpoint,
                 verifierVars>>

(* Mutant: starts again, the fields keep what they have. *)
parseFailsRetried ==
  /\ stage = "fuse_opt_parse"
  /\ argctr <= Len(argv) /\ argv[argctr] = Unfinished
  /\ argctr' = 1 /\ outargs' = {}
  /\ UNCHANGED <<argv, sourceMountPath, fileHashesPath, stage, mountpoint,
                 verifierVars>>

(* fuse_opt_parse returns -1 and leaves args as they were; main goes on.   *)
parseFails ==
  /\ stage = "fuse_opt_parse"
  /\ argctr <= Len(argv) /\ argv[argctr] = Unfinished
  /\ outargs' = DOMAIN argv
  /\ UNCHANGED argctr /\ parsed

parseEnds ==
  /\ stage = "fuse_opt_parse" /\ argctr > Len(argv)
  /\ UNCHANGED <<argctr, outargs>> /\ parsed

-----------------------------------------------------------------------------
(* The rest of main: the list, the verifier, and fuse_main. *)

openDigests ==
  LET list == ListAt[fileHashesPath] IN
  /\ stage = "ifstream" /\ stage' = "FileVerifier"
  /\ good' = (list # NoFile)
  /\ lines' = IF list = NoFile THEN lines ELSE list
  /\ UNCHANGED <<argv, argctr, sourceMountPath, fileHashesPath, outargs,
                 mountpoint, taken, pc, pDirectory, mDigests, mDirectories>>

construct ==
  /\ stage = "FileVerifier" /\ V!Construct
  /\ UNCHANGED mainVars

GoTo(s) ==
  /\ stage' = s
  /\ UNCHANGED <<argv, argctr, sourceMountPath, fileHashesPath, outargs,
                 mountpoint, verifierVars>>

(* Nothing catches the constructor's exception. *)
uncaught == stage = "FileVerifier" /\ pc = "terminated" /\ GoTo("ended")

constructed == stage = "FileVerifier" /\ pc = "ready" /\ GoTo("fuse_main")

(* fuse_main's own parser takes one positional, which realpath(3) resolves,*)
(* and refuses a second one and an unfinished option.                      *)
Positional == {i \in outargs : argv[i] \in Text}

fuseMounts ==
  /\ stage = "fuse_main" /\ stage' = "serving"
  /\ \A i \in outargs : argv[i] # Unfinished
  /\ \E i \in outargs : /\ Positional = {i} /\ argv[i] # Empty
                        /\ mountpoint' = argv[i]
  /\ UNCHANGED <<argv, argctr, sourceMountPath, fileHashesPath, outargs,
                 verifierVars>>

(* fuse_main may also fail to mount for reasons of the kernel's. *)
fuseRefuses == stage = "fuse_main" /\ GoTo("ended")

Main ==
  \/ keepOption \/ takeSource \/ takeHashes \/ keepPositional
  \/ parseFails \/ parseEnds
  \/ openDigests \/ construct \/ uncaught \/ constructed
  \/ fuseMounts \/ fuseRefuses

(* The file system is up, or the process has ended. *)
Done == stage \in {"serving", "ended"} /\ UNCHANGED vars

Next == Main \/ Done

Spec == Init /\ [][Next]_vars

(* main is one thread, and nothing of it waits for anybody. *)
FairSpec == Spec /\ WF_vars(Main)

-----------------------------------------------------------------------------
(* Types hold, and while the command line is parsed each text that is      *)
(* neither dropped nor kept for FUSE is in one of the two fields.          *)
TypeOK ==
  /\ argv \in Seq(Text \cup Option \cup {Unfinished})
  /\ argctr \in 1..(Len(argv) + 1)
  /\ sourceMountPath \in Text /\ fileHashesPath \in Text
  /\ outargs \subseteq DOMAIN argv
  /\ stage \in {"fuse_opt_parse", "ifstream", "FileVerifier", "fuse_main",
                "serving", "ended"}
  /\ mountpoint \in Text
  /\ good \in BOOLEAN /\ lines \in DigestFiles
  /\ fileHashesPath = Empty => Positional = {} \/ stage # "fuse_opt_parse"
  /\ stage = "fuse_opt_parse" /\ fileHashesPath # Empty =>
       \E i, j \in 1..(argctr - 1) :
         /\ i < j /\ {i, j} \cap outargs = {}
         /\ argv[i] = sourceMountPath /\ argv[j] = fileHashesPath

Mounted == stage = "serving"

(* The arguments a user would count: texts that are not empty. *)
Given == {i \in DOMAIN argv : argv[i] \in Text \ {Empty}}

(***************************************************************************)
(* main.cpp:67: what is mounted is what a command line with exactly three  *)
(* texts says, in this order, whatever options stand between them; all     *)
(* options reach FUSE, the file the second text names was there, and the   *)
(* verifier was built from its lines without an exception.  The ignored    *)
(* result of fuse_opt_parse does no harm: nothing is mounted then.         *)
(***************************************************************************)
MountedAsAsked ==
  Mounted =>
    /\ \E i, j, k \in DOMAIN argv :
         /\ i < j /\ j < k /\ Given = {i, j, k}
         /\ sourceMountPath = argv[i] /\ fileHashesPath = argv[j]
         /\ mountpoint = argv[k]
    /\ {i \in DOMAIN argv : argv[i] \notin Text} \subseteq outargs
    /\ \A i \in DOMAIN argv : argv[i] # Unfinished
    /\ pc = "ready" /\ good /\ ListAt[fileHashesPath] = lines

(* Line l is the last of the first n lines of list that names f. *)
LastNaming(list, f, l, n) ==
  /\ l \in 1..n /\ V!filename(list[l]) = f
  /\ \A m \in (l + 1)..n : V!filename(list[m]) # f

(***************************************************************************)
(* From the command line to the digest check: what is mounted accepts a    *)
(* blob for a path exactly when the file that the second text named lists  *)
(* the blob's digest for the path, in the last of the lines taken that     *)
(* name it.  No other text, no option and no earlier failure has a part in *)
(* it.                                                                     *)
(***************************************************************************)
ServesNamedList ==
  Mounted =>
    \E i, j \in Given :
      /\ i < j /\ \A k \in Given : k \in {i, j} \/ j < k
      /\ ListAt[argv[j]] # NoFile /\ taken \in 0..Len(ListAt[argv[j]])
      /\ \A f \in Path, b \in DOMAIN DigestHex :
           V!Verifier!isValidFileBlob(f, b) <=>
             \E l \in 1..taken :
               /\ LastNaming(ListAt[argv[j]], f, l, taken)
               /\ DigestHex[b] = V!hash(ListAt[argv[j]][l])

(* Every start comes to an end: the file system is up or the process has   *)
(* ended, for every command line and every list without a leading slash.   *)
StartEnds == <>(stage \in {"serving", "ended"})
=============================================================================
