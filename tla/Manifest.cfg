CONSTANTS
  x = x
  y = y
  line = line
  Block = {x, y, line}
  NoFile = NoFile
  NotListed = NotListed
  ShiftedHash = ShiftedHash
  Path <- MCPath
  OutFile <- MCOutFile
  Hidden = {".h"}
  Dashed = {"-x"}
  Escaped <- MCEscaped
  ShiftedName <- MCShiftedName
  Blob <- MCBlob
  Contents <- MCContents
  Partial <- MCPartial
  MaxChanges = 2
  DigestHex <- MCDigestHex
SPECIFICATION Spec
INVARIANTS
  SteadyAccepted
  AcceptedWasThere
