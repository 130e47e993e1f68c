CONSTANTS
  b1 = b1
  b2 = b2
  Char <- MCChar
  HashLen = 1
  Hash <- MCHash
  NotListed = NotListed
  DigestHex <- MCDigestHex
  DigestFiles <- MCDigestFiles
  Path <- MCPath
SPECIFICATION FairSpec
INVARIANTS
  TypeOK
  AcceptsLastLine
  DirectoriesAreAncestors
  DirectoriesOnlyAbove
PROPERTIES
  ConstructorEnds
  ConstructorAdvances
