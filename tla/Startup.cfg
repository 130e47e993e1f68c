CONSTANTS
  MaxArgs = 5
  foreground = foreground
  single = single
  Unfinished = Unfinished
  b1 = b1
  b2 = b2
  NoFile = NoFile
  NotListed = NotListed
  Empty = ""
  HashLen = 1
  Text <- MCText
  Option <- MCOption
  CommandLine <- MCCommandLine
  ListAt <- MCListAt
  Char <- MCChar
  DigestFiles <- MCDigestFiles
  Path <- MCPath
  Hash <- MCHash
  DigestHex <- MCDigestHex
SPECIFICATION FairSpec
INVARIANTS
  TypeOK
  MountedAsAsked
  ServesNamedList
PROPERTIES
  StartEnds
