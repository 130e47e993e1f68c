---------------------------- MODULE FileVerifier ----------------------------
(***************************************************************************)
(* The constructor of FileVerifier: it reads the digests stream line by    *)
(* line into mDigests and derives mDirectories from the file names.  Lines *)
(* and names are sequences of characters, because what goes wrong here is  *)
(* a matter of positions in a line and of where the slashes are.           *)
(*                                                                         *)
(* An exception leaves the constructor, and main does not catch it: the    *)
(* process ends before anything is mounted (pc = "terminated").            *)
(***************************************************************************)
EXTENDS Integers, Sequences, SequencesExt

CONSTANTS
  Char,        \* the characters of lines and paths
  DigestFiles, \* the lists that may be given: sequences of lines
  HashLen,     \* 64: the characters of a printed SHA-256
  Path,        \* the file and directory paths the file system asks about
  Hash,        \* the first fields lists are made of
  NotListed, DigestHex

ASSUME HashLenAssumption == HashLen \in Nat \ {0}
ASSUME CharAssumption == {"/", "."} \subseteq Char
ASSUME DigestFilesAssumption == DigestFiles \subseteq Seq(Seq(Char))
ASSUME PathAssumption == Path \subseteq Seq(Char)
ASSUME NotListedAssumption == NotListed \notin Seq(Char)

VARIABLES
  good,         \* digestsStream.good(): the file could be opened
  lines,        \* the lines of the stream
  taken,        \* how many of them getline has taken
  pc,           \* where the constructor is
  pDirectory,   \* local of saveUniqueDirectories
  mDigests,     \* file name -> hash
  mDirectories  \* directory paths

vars == <<good, lines, taken, pc, pDirectory, mDigests, mDirectories>>

Init ==
  /\ good \in BOOLEAN /\ lines \in DigestFiles
  /\ taken = 0 /\ pc = "stream" /\ pDirectory = <<>>
  /\ mDigests = [f \in {} |-> <<>>] /\ mDirectories = {}

(* The text of a line is <hash> ++ two characters ++ <file name>. *)
hash(line) == SubSeq(line, 1, HashLen)
filename(line) == SubSeq(line, HashLen + 3, Len(line))

(* line.substr(66) throws out_of_range unless 66 <= line.size(). *)
TooShort(line) == Len(line) < HashLen + 2

-----------------------------------------------------------------------------
(* dirname(3): the path without its last component and trailing slashes. *)

(* The greatest of some positions in a sequence, 0 if there are none. *)
LastOf(positions) ==
  IF positions = {} THEN 0
  ELSE CHOOSE i \in positions : \A j \in positions : j <= i

Trimmed(s) == SubSeq(s, 1, LastOf({i \in 1..Len(s) : s[i] # "/"}))
UpToSlash(s) == SubSeq(s, 1, LastOf({i \in 1..Len(s) : s[i] = "/"}))

dirname(s) ==
  LET above == UpToSlash(Trimmed(s)) IN
  CASE s # <<>> /\ Trimmed(s) = <<>>         -> <<"/">>
    [] above # <<>> /\ Trimmed(above) = <<>> -> <<"/">>
    [] Trimmed(above) # <<>>                 -> Trimmed(above)
    [] OTHER                                 -> <<".">>

-----------------------------------------------------------------------------
streamBad ==
  /\ pc = "stream" /\ ~good
  /\ pc' = "terminated"
  /\ UNCHANGED <<good, lines, taken, pDirectory, mDigests, mDirectories>>

streamGood ==
  /\ pc = "stream" /\ good
  /\ pc' = "getline"
  /\ UNCHANGED <<good, lines, taken, pDirectory, mDigests, mDirectories>>

endOfStream ==
  /\ pc = "getline" /\ taken = Len(lines)
  /\ pc' = "ready"
  /\ UNCHANGED <<good, lines, taken, pDirectory, mDigests, mDirectories>>

(* getline also returns false when the stream cannot be read any further.  *)
readFails ==
  /\ pc = "getline" /\ taken < Len(lines)
  /\ pc' = "ready"
  /\ UNCHANGED <<good, lines, taken, pDirectory, mDigests, mDirectories>>

lineTooShort ==
  /\ pc = "getline" /\ taken < Len(lines)
  /\ TooShort(lines[taken + 1])
  /\ taken' = taken + 1
  /\ pc' = "terminated"
  /\ UNCHANGED <<good, lines, pDirectory, mDigests, mDirectories>>

(* Mutant: map::insert, which keeps the hash of an earlier line. *)
Listed1st(f, h) ==
  [g \in DOMAIN mDigests \cup {f} |->
     IF g \in DOMAIN mDigests THEN mDigests[g] ELSE h]

(* mDigests[filename] = hash *)
Listed(f, h) ==
  [g \in DOMAIN mDigests \cup {f} |-> IF g = f THEN h ELSE mDigests[g]]

saveLine ==
  LET line == lines[taken + 1] IN
  /\ pc = "getline" /\ taken < Len(lines)
  /\ ~TooShort(line)
  /\ taken' = taken + 1
  /\ mDigests' = Listed(filename(line), hash(line))
  /\ pDirectory' = filename(line)
  /\ pc' = "saveUniqueDirectories"
  /\ UNCHANGED <<good, lines, mDirectories>>

(* Mutant: walks up to "/", which is not above a relative name. *)
AtTopSlash(up) == up[1] = "/"

(* *pDirectory == '.': "." or any other path that begins with a dot. *)
AtTop(up) == up[1] = "."

(* Mutant: records the path before it steps up to its directory. *)
saveDirectoryFirst ==
  LET up == dirname(pDirectory) IN
  /\ pc = "saveUniqueDirectories" /\ ~AtTop(up)
  /\ mDirectories' = mDirectories \cup {pDirectory}
  /\ pDirectory' = up
  /\ UNCHANGED <<good, lines, taken, pc, mDigests>>

(* Mutant: "if" in place of "while". *)
saveDirectoryOnce ==
  LET up == dirname(pDirectory) IN
  /\ pc = "saveUniqueDirectories" /\ ~AtTop(up)
  /\ mDirectories' = mDirectories \cup {up}
  /\ pDirectory' = up
  /\ pc' = "getline"
  /\ UNCHANGED <<good, lines, taken, mDigests>>

saveDirectory ==
  LET up == dirname(pDirectory) IN
  /\ pc = "saveUniqueDirectories" /\ ~AtTop(up)
  /\ mDirectories' = mDirectories \cup {up}
  /\ pDirectory' = up
  /\ UNCHANGED <<good, lines, taken, pc, mDigests>>

noMoreDirectories ==
  /\ pc = "saveUniqueDirectories" /\ AtTop(dirname(pDirectory))
  /\ pc' = "getline"
  /\ UNCHANGED <<good, lines, taken, pDirectory, mDigests, mDirectories>>

(* The process goes on to mount the file system, or has ended. *)
Done ==
  /\ pc \in {"ready", "terminated"}
  /\ UNCHANGED vars

Construct ==
  \/ streamBad \/ streamGood
  \/ endOfStream \/ readFails \/ lineTooShort \/ saveLine
  \/ saveDirectory \/ noMoreDirectories

Next == Construct \/ Done

Spec == Init /\ [][Next]_vars

(* main runs the constructor on its only thread. *)
FairSpec == Spec /\ WF_vars(Construct)

-----------------------------------------------------------------------------
(* What the const methods answer once the constructor has returned. *)
Verifier == INSTANCE IFileVerifier WITH
  mDigests <- [f \in Path |-> IF f \in DOMAIN mDigests THEN mDigests[f]
                              ELSE NotListed]

(* shasum(1), text or binary mode: a name with a backslash is escaped and  *)
(* its line begins with one.                                               *)
shasum(h, f, mode) ==
  IF "\\" \notin {f[i] : i \in 1..Len(f)} THEN h \o <<" ", mode>> \o f
  ELSE <<"\\">> \o h \o <<" ", mode>>
         \o FlattenSeq([i \in 1..Len(f) |->
              IF f[i] = "\\" THEN <<"\\", "\\">> ELSE <<f[i]>>])

(* The tables hold what their types say, and the walk is at a file's       *)
(* directory exactly while a file's directories are being recorded.        *)
TypeOK ==
  /\ good \in BOOLEAN /\ lines \in DigestFiles /\ taken \in 0..Len(lines)
  /\ pc \in {"stream", "getline", "saveUniqueDirectories", "ready",
             "terminated"}
  /\ DOMAIN mDigests \subseteq {filename(lines[i]) : i \in 1..taken}
  /\ \A f \in DOMAIN mDigests : Len(mDigests[f]) = HashLen
  /\ \A d \in mDirectories : d # <<>> /\ d[1] # "."
  /\ pc = "saveUniqueDirectories" => taken > 0

(* The last line taken that names f, 0 if there is none. *)
LastLine(f) == LastOf({i \in 1..taken : filename(lines[i]) = f})

(***************************************************************************)
(* The file system comes up only after every line taken was long enough to *)
(* hold a file name, and then a blob is accepted for a path exactly when   *)
(* the last of these lines that names the path carries the blob's digest.  *)
(* Only the lines taken count: a read error ends the loop like the end of  *)
(* the list does.                                                          *)
(***************************************************************************)
AcceptsLastLine ==
  pc = "ready" =>
    /\ good /\ \A i \in 1..taken : ~TooShort(lines[i])
    /\ \A f \in Path :
         /\ Verifier!isValidFilePath(f) <=> LastLine(f) # 0
         /\ \A b \in DOMAIN DigestHex :
              Verifier!isValidFileBlob(f, b) <=>
                LastLine(f) # 0 /\ DigestHex[b] = hash(lines[LastLine(f)])

(* A relative path with one slash between names, as makeManifest lists it. *)
Plain(f) ==
  /\ f # <<>> /\ f[1] \notin {"/", "."} /\ f[Len(f)] # "/"
  /\ \A i \in 1..(Len(f) - 1) : ~(f[i] = "/" /\ f[i + 1] = "/")

(* d is a directory on the way from the root to f. *)
Ancestor(d, f) ==
  /\ Len(d) < Len(f) /\ d = SubSeq(f, 1, Len(d))
  /\ d # <<>> /\ f[Len(d) + 1] = "/"

(***************************************************************************)
(* Every directory above a listed file is a valid directory path, at every *)
(* depth, and nothing else is: no file, no sibling, no prefix of a name    *)
(* (FileVerifierTest.DirectoriesPresentInDigest, for every list of plain   *)
(* names).  Names that begin with a dot are outside: the walk takes their  *)
(* directory for "." and stops.                                            *)
(***************************************************************************)
DirectoriesAreAncestors ==
  pc = "ready" /\ (\A f \in DOMAIN mDigests : Plain(f)) =>
    \A d \in Path : Verifier!isValidDirectoryPath(d) <=>
                      \E f \in DOMAIN mDigests : Ancestor(d, f)

(***************************************************************************)
(* No recorded directory is foreign to the list, whatever the names look   *)
(* like: it is on the way to a listed file, or the root of an absolute one.*)
(***************************************************************************)
DirectoriesOnlyAbove ==
  \A d \in mDirectories : \E f \in DOMAIN mDigests :
    Ancestor(d, f) \/ (d = <<"/">> /\ IsPrefix(d, f))

(* The constructor ends, by returning or by an exception, for every list   *)
(* whose names have no leading slash (which the README rules out).         *)
ConstructorEnds == <>(pc \in {"ready", "terminated"})

Phase == CASE pc = "stream"                             -> 2
           [] pc \in {"getline", "saveUniqueDirectories"} -> 1
           [] pc \in {"ready", "terminated"}             -> 0

(* How long the walk up from the current file can still be. *)
WalkLeft == IF pc = "saveUniqueDirectories" THEN Len(pDirectory) + 1 ELSE 0

RelativeNames ==
  \A i \in 1..Len(lines) :
    LET f == filename(lines[i]) IN f = <<>> \/ f[1] # "/"

(***************************************************************************)
(* Why the constructor ends: each of its steps gets it to a later phase, to*)
(* the next of the list's lines, or to a shorter path in the walk up from  *)
(* the current one: dirname never stands still before it gets to ".",      *)
(* wherever slashes are doubled or trail, if the name does not start with  *)
(* one.                                                                    *)
(***************************************************************************)
ConstructorAdvances ==
  [][Construct /\ RelativeNames =>
       \/ Phase' < Phase
       \/ Phase' = Phase /\ taken < taken'
       \/ Phase' = Phase /\ taken' = taken /\ WalkLeft' < WalkLeft]_vars

(***************************************************************************)
(* README.md: the list is "formatted in same manner as the shasum          *)
(* command".  Every file shasum printed a line for can be opened once all  *)
(* lines are loaded.                                                       *)
(***************************************************************************)
ShasumNamesListed ==
  pc = "ready" /\ taken = Len(lines) =>
    \A f \in Path, h \in Hash, mode \in {" ", "*"} :
      (\E i \in 1..Len(lines) : lines[i] = shasum(h, f, mode)) =>
        Verifier!isValidFilePath(f)
=============================================================================
