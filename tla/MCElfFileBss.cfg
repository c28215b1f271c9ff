SPECIFICATION Spec
CONSTANTS
  text = text
  TEXT = TEXT
  rel = rel
  strtab = strtab
  nosuch = nosuch
  NoTable = NoTable
  ANY = ANY
  STOP = STOP
  HashSize = 2
  MaxCalls = 2
  MaxRefused = 1
  Images <- BssOnly
  HashOf <- MCHashOf
  FoldOf <- MCFoldOf
  Offsets <- MCOffsets
INVARIANTS
  LoadsGccFiles
CHECK_DEADLOCK FALSE
