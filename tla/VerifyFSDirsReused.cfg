CONSTANTS
  Dir = {d1}
  Entry = {e1}
  Fd = {f1, f2}
  Stream = {s1, s2}
  DirHandle = {h1, h2}
  Worker = {w1, w2}
  NoDir = NoDir
  NoFd = NoFd
  NoStream = NoStream
  NoHandle = NoHandle
  Dangling = Dangling
  Null = Null
SPECIFICATION Spec
SYMMETRY MCSymmetry
INVARIANTS
  OpenDirHasStream
