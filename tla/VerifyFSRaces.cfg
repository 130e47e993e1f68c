CONSTANTS
  whole = whole
  part = part
  stray = stray
  a = a
  b = b
  Path = {whole}
  Inode = {i1}
  Byte = {a, b}
  MaxLen = 2
  Contents <- MCContents
  Handle = {h1, h2, h3}
  Worker = {w1, w2}
  ReadAt <- MCReadAt
  Sharing = "any"
  NoInode = NoInode
  NoPath = NoPath
  NoHandle = NoHandle
  NotTrusted = NotTrusted
  Dangling = Dangling
  Garbage = Garbage
  NotListed = NotListed
  DigestHex <- MCDigestHex
  mDigests <- MCDigests
  mDirectories <- MCDirectories
SPECIFICATION Spec
SYMMETRY MCSymmetry
INVARIANTS
  ReadVerified
