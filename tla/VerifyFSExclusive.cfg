CONSTANTS
  whole = whole
  part = part
  stray = stray
  a = a
  b = b
  Path = {whole, part, stray}
  Inode = {i1, i2}
  Byte = {a, b}
  MaxLen = 2
  Contents <- MCLongContents
  Handle = {h1, h2}
  Worker = {w1, w2}
  ReadAt <- MCReadAt
  Sharing = "exclusive"
  NoInode = NoInode
  NoPath = NoPath
  NoHandle = NoHandle
  NotTrusted = NotTrusted
  Dangling = Dangling
  Garbage = Garbage
  NotListed = NotListed
  DigestHex <- MCDigestHex
  mDigests <- MCDigests
  mDirectories <- MCDirectories
SPECIFICATION Spec
SYMMETRY MCSymmetry
INVARIANTS
  ReadVerified
  OpenMeansTrusted
PROPERTIES
  ImplementsAccess
