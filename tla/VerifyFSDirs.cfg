CONSTANTS
  Dir = {d1, d2}
  Entry = {e1}
  Fd = {f1, f2}
  Stream = {s1, s2}
  DirHandle = {h1, h2}
  Worker = {w1}
  NoDir = NoDir
  NoFd = NoFd
  NoStream = NoStream
  NoHandle = NoHandle
  Dangling = Dangling
  Null = Null
SPECIFICATION FairSpec
INVARIANTS
  TypeOK
  OpenDirHasStream
  StreamHasHandle
  ListingComplete
PROPERTIES
  HandlersReturn
  ClosedDirFreesFd
  ImplementsDirectories
