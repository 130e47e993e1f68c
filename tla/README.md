# VerifyFS in TLA+

VerifyFS is a FUSE driver: it mounts an untrusted folder read-only and lets a
file be opened only if its SHA-256 is the one a given list has for its path.
This directory holds TLA+ modules for the parts of the program that keep state,
TLC configurations that check them on small instances, and TLAPS proofs of the
safety properties of every part for instances of every size. Paths like
`VerifyFS.cpp:140` are below `src/source/`, `makeManifest:50` is in
`src/test/`.

## The system

| part | state | operations | talks to |
|---|---|---|---|
| `VerifyFS`, files (`VerifyFS.cpp:103-176`) | `mTrustedFiles`: full path -> verified bytes | `fuseOpen` with `openAndVerify`, `fuseRead`, `fuseRelease` | the untrusted folder by system calls; `IFileVerifier`; FUSE |
| `VerifyFS`, directories (`VerifyFS.cpp:58-100`) | `fdDir`: descriptor number -> `DIR*` | `fuseOpendir`, `fuseReaddir`, `fuseReleasedir` | the C library's directory streams; FUSE |
| `VerifyFS`, attributes (`VerifyFS.cpp:51-56`) | none | `fuseStat` | `stat(2)`; the kernel's attribute cache |
| `FileVerifier` (`FileVerifier.cpp`) | `mDigests`, `mDirectories`, both constant once constructed | the constructor; `isValidFilePath`, `isValidFileBlob`, `isValidDirectoryPath` | the list's stream; called by `VerifyFS` through `IFileVerifier` |
| `FuseFSGlue` (`FuseFSGlue.cpp`) | the callback table | one function per callback, `startFuseFSProvider` | libfuse's loop, which runs callbacks on several threads unless `-s` is given |
| `main` (`main.cpp`) | the two texts taken from the command line, what is kept for FUSE | option parsing, construction, start | all of the above |
| `test/makeManifest` | none | `find`, `shasum` | writes the list |

What is hard here:

* **Threads without locks.** `fuse_main` (`FuseFSGlue.cpp:93`) is multithreaded
  by default, and `mTrustedFiles` and `fdDir` are plain `std::map`s. Iterators
  and references into them are used after other threads have erased the node.
* **Handles and paths.** The kernel has handles; the class has one entry per
  path and no count. `RELEASE` is sent after `close(2)` has returned.
* **A folder that changes.** Between `open`, `fstat`, `read` and the digest check
  any process may rename, truncate or rewrite the file.
* **Numbers that are reused.** `fdDir` is keyed by descriptor numbers, and a
  number is free again before its node is erased.
* **Two sizes.** `fuseStat` asks the folder for a file's size, reads are answered
  from the bytes in memory, and the kernel cuts the second off at the first.
* **Results that are not looked at.** Those of `fstat`, `fuse_opt_parse` and
  the stream after the last line, and an error of `readdir(3)`.
* **Positions in text.** The list is cut at fixed columns, directories are
  found by repeated `dirname`, and arguments are told apart by what is still empty.

What makes the parts correct:

* files: what is kept was verified; what is read is what was verified; an open
  handle finds its bytes; nothing is kept for no one; every call ends;
* directories: an open handle's number leads to its own open stream; no node or
  stream is used after it was freed, none stays open for no one; listings are of
  the right directory, complete, and end; descriptors come back;
* attributes: a wrong size never makes a client read anything but a beginning of
  the verified bytes;
* the list: the last line for a name counts; the valid directories are the
  ancestors of the listed files; the constructor ends;
* `main`: what is mounted is what the command line says, checked against the
  list it names, or nothing;
* `makeManifest`: files that nobody touched can be opened with the list it makes,
  and nothing is accepted that was not there.

The hazards are listed line by line, with the properties that cover them, in
`PROJECT.json`.

## The modules

| module | models | proofs |
|---|---|---|
| `FileAnswers` | the answers of the file handlers, shared by the next three | |
| `IFileVerifier` | the three queries over the loaded tables (constants) | |
| `VerifyFS` | files; EXTENDS both | `VerifyFSProof` |
| `VerifiedAccess` | abstract: what a verifying file system owes its clients | |
| `VerifyFSRefines` | `VerifyFS` as an implementation of `VerifiedAccess` | `VerifyFSRefinesProof` |
| `VerifyFSStat` | `fuseStat` and the kernel's size, composed with the handles of `VerifiedAccess` | `VerifyFSStatProof` |
| `VerifyFSDirs` | directories | `VerifyFSDirsProof` |
| `DirectoryAccess` | abstract: what a file system owes clients that list directories | |
| `VerifyFSDirsRefines` | `VerifyFSDirs` as an implementation of `DirectoryAccess` | `VerifyFSDirsRefinesProof` |
| `FileVerifier` | the constructor; instantiates `IFileVerifier` with its tables | `FileVerifierProof` |
| `Startup` | `main`; instantiates `FileVerifier` and runs it step by step | `StartupProof` |
| `Manifest` | `makeManifest`; instantiates `IFileVerifier` with the list it makes | `ManifestProof` |
| `MC...` | the instances TLC checks | |

Operators preceded by a comment "Mutant:" are variants of the
definition that follows them, with a plausible mistake in them. They are not
part of the specification; they show that a property can fail.

### VerifyFS

`mTrustedFiles` is the map, by path. In the code the key is
`mUntrustedPath + '/' + relative` in `openAndVerify` and
`mUntrustedPath + path` elsewhere; FUSE paths begin with a slash, so the two are
the same string and differ for different paths. `link` and `bytes` are the
untrusted folder, `fileState`, `filePath` and `reply` what the kernel knows of a
handle, `frame` the call a thread runs, with its locals.

A call is a sequence of steps with other threads' and processes' steps in
between:

| code | actions |
|---|---|
| `fuseOpen` until `open(2)` | `fuseOpenRefused`, `fuseOpenMissing`, `fuseOpen` |
| `fstat`, `resize` | `fstat` |
| `read(2)`, byte by byte, so that reads can be torn | `readByte` |
| `close`, the comparisons, `isValidFileBlob` | `shortRead`, `blobRejected`, `blobAccepted` |
| `mTrustedFiles[fullpath] = buffer` | `insertNode` (an empty vector appears), then `assignNode` |
| `fuseRead`: `find`, then length and copy | `fuseReadMissing`, or `fuseRead` then `copyBytes` or `copyRaced` |
| `fuseRelease` | `fuseRelease` |

`Relink` and `Overwrite` are other processes, `Close` and the choice of requests
are clients. The result of `fstat` is not looked at: after an error `st_size` is
what the stack held, here any size up to `MaxLen` (`Uninitialized`).
`frame[w].it` is the reference into the map. `fuseRelease` makes
every other reference to the node `Dangling`; a copy through it, or from a vector
another thread is filling (`Racing`), is undefined behaviour and returns an error
or `Garbage`. An assignment to an erased node has no effect in the model. One
operation of `std::map` is one step.

`Sharing` says what clients do: `any`, `sequential` (a path is opened again only
after `close(2)`), `exclusive` (only after the release has been handled too).
`DigestHex` stands for `SHA256` with the `%02x` loop; nothing is assumed of it,
so no property of `VerifyFS` rests on the absence of collisions. The MC module
makes it injective. `MaxLen` is what one `read(2)` can transfer; a longer file
always ends in `shortRead`, as does an interrupted read, which the code does not
retry.

Assumptions about FUSE: the kernel has one request on a handle under way at a
time (the model's restriction: parallel reads through one handle add nothing to
the races between handles), sends RELEASE once and after the last close, and
libfuse turns an interrupted open into an open followed by a release.

### VerifiedAccess and VerifyFSRefines

`VerifiedAccess` has no folder, threads or map: `Open` takes one snapshot with
the listed digest, every `Read` until `Close` is answered from it.
`VerifyFSRefines` says where these are in the code: a handle's name is its path
from the return of `fuseOpen` to the release (`nameOf`), its snapshot is the
entry of that path (`snapshotOf`). With exclusive clients `VerifyFS` implements
it (`ImplementsAccess`). With other clients it does not, since handles of a path
share the entry, and any release removes it.

### VerifyFSStat

`file` is what a path names in the folder, `st_size` the size the kernel has
cached, `got` what a client has read so far. `fuseStat` gives the size of the
folder's file, `fuseStatFails` is its error path, `Expire` the kernel's timeout.
The handles are those of `VerifiedAccess`, but an open takes time: it runs from
`openBegins` to `openEnds` or `openFails`, and other processes may change the
file before its `open(2)`, between its system calls, and after its `read(2)`.
`readable` is what it may have read: the file as it was when the open began; after
a `Write`, any bytes no longer than the file was before or is after, for a torn
read; after a `Replace`, when it may have either file, anything. The snapshot is
one of these. A read is cut off at the size (`Cut`), and at the size the kernel
itself answers that the file ends (`readEnd`). Of `struct stat` only the size is
modelled, and there is no page cache (`keep_cache` stays off, so the kernel drops
it at each open).

### VerifyFSDirs

`stream` is what the C library has at a `DIR*` (its descriptor, the directory,
the names read so far), `fdDir` the map, `fh` the number the kernel got. A step is
one call of the C library or one access to the map or to a node of it:

| code | actions |
|---|---|
| `opendir(3)` (line 61) | `fuseOpendirFails`, `fuseOpendir` |
| `fdDir[fi->fh] = dh` (65) | `insertDir` (a reference to a new or an old node), then `storeDir` |
| `fuseReaddir`: `find` (74) | `fuseReaddirMissing`, `fuseReaddir` |
| `i->second` (77) | `takeDir` |
| lines 78-84 | `rewinddir`, `readdir`, `readdirEnd`, `readdirFails` |
| `fuseReleasedir`: `find` (92) | `fuseReleasedirMissing`, `fuseReleasedir` |
| `closedir(i->second)` (95) | `closedir` |
| `erase(i)` (96) | `eraseDir` |

Numbers and `DIR` objects of closed streams are taken again in any order.
`eraseDir` makes the iterators and references of other threads to its node
`Dangling`. What they are used for afterwards is undefined behaviour, which the
model answers with what freed memory may lead to: `i->second` is any `DIR`
(`Second`), since the memory may be another node by now; the assignment has no
effect or changes any node (`Reached`); a second erase takes away any nodes; a
`DIR` that was closed gives any names; `closedir` of it closes the stream that is
there now, or another, or none. The end of the process is left out.

`reused` is a history variable for the properties: some `opendir` has got a number
whose node was still there, since the `releasedir` of its last owner was
between lines 95 and 96. Names appear and disappear during a listing; `stayed`
and `ever` record, for the properties only, those that were there all the time
and at some time, and `cut` that an error ended the listing, which the answer
does not show. `isValidDirectoryPath` does not occur because VerifyFS never calls
it: any directory can be opened, and listings are not limited to the list
(`README.md:44` has that as still to do).

### DirectoryAccess and VerifyFSDirsRefines

`DirectoryAccess` has no threads, streams, numbers or map: a handle has a
directory from `Open` to `Close`, and a listing has a beginning and an end, with
the names that stayed and that were ever there in between. What it gives is any
set of names between the two, or, after an error, any set below the second.
`VerifyFSDirsRefines` says where these are in the code: the directory of a
handle is its path from the return of `fuseOpendir` to the end of the release
(`dirOf`), its listing is in the frame of the thread that runs `fuseReaddir`
(`listingOf`). An open directory that answers `ENOENT` is not allowed. With one
thread the directory handlers implement it (`ImplementsDirectories`); with
several they do so step by step until a number is reused too early
(`ImplementsUntilReused`), and after that they do not (`dirs_reused`).

### FileVerifier

One action per step of the constructor: `streamBad`/`streamGood` (line 43),
`endOfStream`, `readFails` (both leave the loop in the same way),
`lineTooShort`, `saveLine` (lines 46-50), and `saveDirectory`/
`noMoreDirectories` for each turn of `saveUniqueDirectories`. A line is a
sequence of characters, the hash is its first `HashLen`, the name starts two
after. `dirname` is the C library's, by what it returns. An exception ends the
process, as `main` does not catch it. Names with an embedded NUL and the double
slash that POSIX lets `dirname` keep at the beginning of a path are left out.

### Startup

`fuse_opt_parse` calls `verifyFSAdditionalArgs` for one argument after another:
`keepOption`, `takeSource`, `takeHashes`, `keepPositional`; an empty argument is
taken and leaves its field empty. `outargs` is what stays in `args`. An
unfinished option makes the parse fail (`parseFails`): libfuse 2.9 then leaves
`args` as it was, and `main`, which ignores the result, goes on. `openDigests` is
the `ifstream`, `construct` a step of `FileVerifier`, `uncaught` its exception.
`fuseMounts` is what `fuse_main` asks of the arguments that are left (one
positional, which `realpath` must resolve, and no unfinished option).
An argument is a text or an option ("-o ro" is one argument, "--" is left out).

### Manifest

`redirect` truncates the manifest, `glob` expands `*`, `find` visits the paths
one by one while `shasum` hashes those it has printed. A file is a sequence of
blocks: `shasumOpens`, `shasumReads` for each block, `shasumLists` at the end of
the file. `hashed` is the path in hand, `behind` what the open file holds,
`digested` what was read of it. Meanwhile other processes write into a file
(`Write`), rename another over it or remove it (`Replace`), and go on writing into
the file that had the path, which `shasum` still has open (`WriteReplaced`).
`had` records what each path, or the file open for it, held since the start,
and `torn` the paths whose file was written while `shasum` had it open. The
manifest may lie in the tree, and `shasum`'s output reaches it some time or
other (`Flush`, `Partial`). `shasumFails` is a file that is gone; `shasumStdin`
is GNU `xargs` without names, which hashes its empty input.

A line is kept as `FileVerifier.cpp:48-49` will cut it: the columns of a plain
line are the digest and the path, those of a line that `shasum` escapes (paths in
`Escaped`, with a backslash or a newline) are shifted by one (`ShiftedHash`,
`ShiftedName`; `ShiftedAssumption`: the shifted name has a backslash, so it is
never a path that is not escaped). Names that `find` would take for predicates other than those with a
dash are left out; `PathAssumption` excludes a file called `-`.

## The runs

| run | configuration | result |
|---|---|---|
| `threads` | two threads, any sharing, two handles, a listed and an unlisted path, a file too long for one `read(2)`, `FairSpec` | pass |
| `exclusive` | two threads, exclusive clients, three paths (one unlisted), two inodes | pass |
| `races` | two threads, three handles of a path: `ReadVerified` | violated |
| `reopened` | two threads, sequential clients: `OpenMeansTrusted` | violated |
| `stat` | one listed file, two handles, four contents, changes during an open | pass |
| `dirs` | one thread, two directories, `FairSpec` | pass |
| `dirs_threads` | two threads, two directories of one name, two numbers and `DIR`s | pass |
| `dirs_reused` | two threads: `OpenDirHasStream` | violated |
| `verifier` | lists of up to two lines, `FairSpec` | pass |
| `escaped` | lists as shasum prints them: `ShasumNamesListed` | violated |
| `startup` | all command lines of up to five arguments, lists of which one has two digests for a file, `FairSpec` | pass |
| `manifest` | every tree of five paths, contents of up to two blocks, two changes | pass |

About files. With any number of threads the bytes that are *kept*
are right (`TrustedVerified`): the buffer that was checked is the buffer that is
stored, so changes to the folder and a wrong `st_size` do not matter. They are
kept only as long as some handle needs them (`TrustedHasHolder`) and are dropped
by releases only (`DroppedOnlyByRelease`). What is *read* is right with
exclusive clients, and with one thread for all clients (`ReadVerified`; the
second by proof, `ReadsAreVerified`). With any clients and any threads the two
races on a node are the only way to a wrong answer: a copy from a node that is
neither erased nor being filled is verified (`UnracedReadsVerified`).
`CallsAdvance` is why handlers return: a call has a number of steps left that
each step of its own makes smaller and nobody else makes larger, though files
grow and paths are released meanwhile. That an open handle can be
read at all (`OpenMeansTrusted`) needs exclusive clients. The violations are

* `reopened`: a program closes a file and opens it again; the first handle's
  RELEASE is handled after the second open has stored the bytes, erases them, and
  every read of the open handle returns `EACCES`. Two handles that are open
  together end like this even with one thread;
* `races`: a read has found the entry and another handle's release erases it
  before the copy.

About sizes. Clients read a beginning of the verified bytes (`ReadsPrefix`), and
all of them when nobody has shortened the file since `fuseOpen` was called (a
replacement counts while the open runs, and later if it is shorter) and the kernel
has asked for the size since it returned (`ReadsWholeIfSteady`). The conditions are needed: if the file is cut off after
`read(2)`, be it before or after the open has returned, the next `fuseStat` makes
the kernel end the client's reads early, though the whole bytes are in memory.

About directories. With one thread `fdDir` follows the handles exactly. With
several it does (`FollowsHandlesUnlessReused`), no thread uses a node or a stream
that another has freed (`NoUseAfterFreeUnlessReused`), and listings are right
(`ListsRightUnlessReused`), until one thing happens: `closedir` (line 95) frees a
number, and an `opendir` of another thread gets it and comes to the node before
line 96 erases it. Without that, the numbers and `DIR`s may be reused and calls
may interleave in any way. With it all three may fail: the erase takes the new
handle's entry away, so that its directory lists as `ENOENT` and its stream leaks
(`dirs_reused`), and a listing or a release that has found the node uses freed
memory. `ImplementsDirectories` and `ImplementsUntilReused` say the same of all
that clients see.

About the list. `AcceptsLastLine`, `DirectoriesAreAncestors` (for names as
`makeManifest` prints them) and `ConstructorEnds` hold, the last because every
step gets to a later phase, a later line or a shorter path
(`ConstructorAdvances`). `AcceptsLastLine` speaks
of the lines taken: a read error ends line 46's loop like the end of the list,
and the file system comes up with the lines it has. A name in shasum's escaped
form cannot be opened (`escaped`). Names with a leading slash, which the
program's README rules out, make line 97 loop for ever and are not among the
inputs; the directories of names that begin with a dot are not recorded at all,
which `DirectoriesAreAncestors` excludes by `Plain`.

About the start. Only a command line with exactly three non-empty texts is
mounted, and as it says (`MountedAsAsked`), although results are ignored.
`ServesNamedList` goes from the command line to the digest check: a blob is
accepted for a path exactly when the last line for the path, in the file that the
second text names, has its digest. The source folder is passed on as typed
(`main.cpp:77`): a relative one, without `-f`, names another folder once libfuse
has changed the working directory to `/`. That is libfuse's doing after the
mount and not part of the model.

About the manifest. Files nobody touched are accepted after a run that reports
success (`SteadyAccepted`), unless their path is escaped (`escaped` shows these
refused), their top-level name is hidden, which `*` leaves out, or some top-level
name begins with a dash: `find` then lists nothing, and the exit status is still
0, being that of `xargs`. `AcceptedWasThere` holds whatever changes meanwhile: what
is accepted for a path was there. For a file that is written while `shasum` reads
it that is true of each block only: the list can have the digest of bytes
the path never held as a whole. It needs digests without collisions.

### Bounds

* Files have up to two bytes of two values (three for "longer than one
  `read(2)`"): enough for a changed byte, a truncation, a growth between `fstat`
  and `read`, a torn read, and reads at the start, across the end and at the end.
* Two threads: every race above is between two calls. `threads` has two handles,
  as a third makes the liveness check too long; the safety properties it
  checks are proved for every number.
* Two inodes (`exclusive`) let a path be renamed over between `open` and `fstat`,
  and let two paths name one file.
* Two descriptors and two `DIR`s are the least that are reused while another is
  open. Both passing runs have two directories, so that a number can lead to the
  wrong one, and one name in each, which comes and goes during a listing. Two
  threads are enough for one to open, or list, between the two steps of the
  other's release; the properties are proved for every number.
* Names of up to five characters have two directories above them
  (`x/x/x`); lists of two lines have duplicates and a bad line first or last.
* Five arguments (`MaxArgs`) are the three texts with two options, empty or
  surplus arguments anywhere among them.
* Two changes (`MaxChanges`) let a file disappear and come back, or be replaced and
  then written; the two contents, one of two blocks and one of one, give a file
  read during such a write a digest of neither.
* Handles, threads and inodes are symmetric in the safety runs, for directories
  all sets are; no run of a liveness property uses symmetry.

### Fairness

`FairSpec` assumes that a thread goes on with the call it has started (weak
fairness of `Resume`) and that the RELEASE or RELEASEDIR of a closed handle is
taken up by some thread that becomes idle again and again (strong fairness per
handle: the kernel's queue is first in, first out). Clients and other processes
have no fairness: they may stop, or rewrite files for ever. The constructor and
`main` have weak fairness, as they are one thread that waits for nobody.

## The proofs

Each theorem holds for every value of the constants that the named ASSUMEs of
the module allow (what sentinels differ from, that contents are sequences, that
lists and command lines are sequences of their characters and arguments).

| theorem | statement |
|---|---|
| `VerifyFSProof!TypeCorrect` | `Spec => []TypeOK` |
| `TrustedIsVerified` | `Spec => []TrustedVerified` |
| `NothingLeaks` | `Spec => []TrustedHasHolder` |
| `DroppedByReleaseOnly` | `Spec => DroppedOnlyByRelease` |
| `ExclusiveOpenKeepsBytes` | `Exclusive => (Spec => []OpenMeansTrusted)` |
| `ReadsAreVerified` | `Exclusive \/ OneWorker => (Spec => []ReadVerified)` |
| `UnracedReadsAreVerified` | `Spec => UnracedReadsVerified` |
| `EveryCallAdvances` | `Spec => CallsAdvance` |
| `VerifyFSRefinesProof!ImplementsVerifiedAccess` | `Exclusive => (Spec => ImplementsAccess)` |
| `VerifyFSStatProof!ClientsReadPrefix`, `ClientsReadWhole` | `StatSpec => []ReadsPrefix`, `StatSpec => ReadsWholeIfSteady` |
| `VerifyFSDirsProof!TypeCorrect` | `Spec => []TypeOK` |
| `HandlesFollowed`, `NothingUsedAfterFree`, `ListingsRight` | `Spec => []` of `FollowsHandlesUnlessReused`, `NoUseAfterFreeUnlessReused`, `ListsRightUnlessReused` |
| `SingleHasStream`, `SingleLeaksNothing`, `SingleListsAll` | `OneWorker => (Spec => []` of `OpenDirHasStream`, `StreamHasHandle`, `ListingComplete`) |
| `VerifyFSDirsRefinesProof!ImplementedUntilReused` | `Spec => ImplementsUntilReused` |
| `DirectoriesImplemented` | `OneWorker => (Spec => ImplementsDirectories)` |
| `FileVerifierProof!TypeCorrect`, `LastLineAccepted`, `AncestorsExactly`, `OnlyDirectoriesAbove` | `Spec => []` of `TypeOK`, `AcceptsLastLine`, `DirectoriesAreAncestors`, `DirectoriesOnlyAbove` |
| `EveryStepAdvances` | `Spec => ConstructorAdvances` |
| `StartupProof!TypeCorrect`, `MountsWhatIsAsked`, `ServesListNamed` | `Spec => []` of `TypeOK`, `MountedAsAsked`, `ServesNamedList` |
| `ManifestProof!SteadyFilesAccepted` | if no digest is `NotListed`, `Spec => []SteadyAccepted` |
| `AcceptedBytesWereThere` | if digests do not collide and none is `ShiftedHash`, `Spec => []AcceptedWasThere` |

The inductive invariants and why they are needed:

* `VerifyFSProof`, in layers. `TypeInv`: types and `DescriptorNeeded`, with the
  bookkeeping that makes them inductive: a handle in use has a path, a call has a
  handle in the right state that no other call has, and a read's node is there
  until it dangles. `CheckedInv`: a thread between the check and the assignment
  holds bytes with the digest of its handle's path and a node of that path; with
  it `TrustedVerified` and `TrustedHasHolder` are inductive. `ExclusiveInv`, with
  exclusive clients: a path has one handle, so a release erases its own node
  only and no reference dangles. `CopyVerified`, when no two threads work on one
  path: what a read has found stays verified until it is copied.
  `UnracedReadsVerified` needs none of the assumptions on clients, since it looks at
  the copy alone: the node a read refers to is its own path's, and what is in it
  is verified unless a thread is between inserting and filling it
  (`NodeUnlessErased`). For `CallsAdvance` the steps left (`StepsLeft`) are
  natural numbers because a buffer never has more than `MaxLen` bytes.
* `VerifyFSRefinesProof` uses these: with exclusive clients no two handles have
  one path (`OtherPaths`), so what a call does to its entry no other handle sees;
  then each action is a step of
  `VerifiedAccess` (`assignNode` is `Open`, the two copies and
  `fuseReadMissing` are `Read`, `fuseRelease` is `Close`) or a stutter.
* `VerifyFSDirsProof`: `CallInv` ties calls to handles, whatever happens. The rest
  holds as long as `reused` is false, and is lost together. `CleanInv` says that
  numbers, nodes, streams and handles agree: a handle in use has a node
  (`HasNode`) with its own open stream until it is closed (`OwnStream`); no two
  open streams have one number, no two handles in use (`DistinctFds`,
  `DistinctHandles`); what a call holds is its own handle's (`Opening`, `Storing`,
  `Finding`); and every node and every open stream has an owner (`EntryOwned`,
  `StreamOwned`). The node of a handle that is closed but not erased still has that
  owner, so an `opendir` that gets its number either comes after the erase, or
  finds the node and sets `reused`. `ListInv` relates names seen and listed, those
  that stayed, those in the directory and those ever in it. One thread never
  sets `reused` (`NeverReused`): its own call is the only one.
* `VerifyFSDirsRefinesProof` needs all of these (`DirsInv`): a handle has at most
  one lister, so a step of a call changes the listing of its own handle only
  (`OtherListings`), and each action is a step of `DirectoryAccess` (`storeDir` is
  `Open`, `fuseReaddir` is `BeginListing`, `eraseDir` is `Close`) or a stutter.
  `fuseReaddirMissing` cannot happen, by `HasNode`.
* `FileVerifierProof`: `Walk` (the path in hand is on the way up from the last
  name) gives `DirectoriesOnlyAbove`. `Loaded` (the table is what the last lines
  taken say) gives `AcceptsLastLine`. `Covered` (all ancestors are recorded,
  save those still above the path in hand) gives `DirectoriesAreAncestors`; the
  lemmas before it are about `dirname`, for names of any length; that it makes a
  relative path shorter (`DirnameShorter`) gives `ConstructorAdvances`.
* `VerifyFSStatProof`: what was read is a beginning of the snapshot. Unless the file
  was shortened since the open began, whatever the open may have read is no longer
  than the file (`OpensCovered`), so the snapshot is not either, and a size that
  was asked for since reaches to its end (`SizeCovers`).
* `StartupProof`: `Parse` relates the arguments before `argctr` to the two fields
  and to what is kept; `Verified` and `MountedOne` hold from the later stages on. `ServesNamedList` comes from `AcceptsLastLine`: the module
  instantiates `FileVerifierProof`, as `Startup` instantiates `FileVerifier`, and
  reuses its invariant for the list that is opened, from the constructor's first
  step (`ConstructorStarts`) to the mount.
* `ManifestProof`: what `shasum` has read of the file in hand is its beginning
  or, if it was written meanwhile, is pieced together from what it held
  (`InHand`); so a line has a digest of something its path held (`LinesHeld`).
  `OnItsWay` (an untouched path is yet to be visited, found, in hand, or listed),
  with `TornChanged` (a torn path is not untouched), gives `SteadyAccepted`.

Only model-checked: liveness (`HandlersReturn`, `ClosedIsReleased`,
`ClosedDirFreesFd`, `ConstructorEnds`, `StartEnds`), which with its fairness and
ENABLED is beyond the prover, and the violations. Of `HandlersReturn` for files and
`ConstructorEnds`, the proofs have the half that is about the code: the measure
that every step lessens (`CallsAdvance`, `ConstructorAdvances`). That the steps
are taken, and that a natural number cannot fall for ever, is left to TLC.

## Not modelled

* `src/gmock-1.7.0`, the vendored googletest and googlemock: third-party code that
  only the tests link, and nearly all of the repository's lines. The
  system's own code, licence headers included, is 802 lines and a script; the
  modules map all of it that has behaviour. The unit tests and `makeTestData`
  were read, not modelled.
* The end of the process: `length_error` or `bad_alloc` from `resize` (line 156)
  and from the copy (line 166), which leave nothing behind that a restart reads.
* A torn `std::map` when two threads insert at once, and memory corrupted by
  undefined behaviour beyond the maps and streams themselves.
* The working directory, which libfuse changes to `/` in the background.
* `FuseFSGlue`'s table where it is NULL: libfuse answers those operations itself.
* The errno a failing `stat` leaves (its -1 is taken for `EPERM`), the other
  fields of `struct stat`, the kernel's page cache.
* The checks of `makeManifest` on its own arguments, which only print and exit.

Nothing else of the system's own code keeps state. What could be added
are larger instances of the liveness properties and, with a model of libfuse
itself, parallel reads through one handle.
