CONSTANTS
  b1 = b1
  b2 = b2
  Char <- MCChar
  HashLen = 1
  Hash <- MCHash
  NotListed = NotListed
  DigestHex <- MCDigestHex
  DigestFiles <- MCShasumFiles
  Path <- MCShasumPath
SPECIFICATION Spec
INVARIANTS
  ShasumNamesListed
