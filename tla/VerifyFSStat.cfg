CONSTANTS
  whole = whole
  a = a
  b = b
  Path = {whole}
  Handle = {h1, h2}
  Blob <- MCContents
  ReadAt <- MCReadAt
  Byte = {a, b}
  Contents <- MCContents
  Count = {1, 3}
  NoFile = NoFile
  NoSize = NoSize
  NoPath = NoPath
  NotOpen = NotOpen
  NotListed = NotListed
  DigestHex <- MCDigestHex
  mDigests <- MCDigests
  mDirectories <- MCDirectories
SPECIFICATION StatSpec
INVARIANTS
  ReadsPrefix
PROPERTIES
  ReadsWholeIfSteady
