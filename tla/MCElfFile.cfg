SPECIFICATION FairSpec
CONSTANTS
  text = text
  TEXT = TEXT
  rel = rel
  strtab = strtab
  nosuch = nosuch
  NoTable = NoTable
  ANY = ANY
  STOP = STOP
  HashSize = 2
  MaxCalls = 2
  MaxRefused = 1
  Images <- AllImages
  HashOf <- MCHashOf
  FoldOf <- MCFoldOf
  Offsets <- MCOffsets
INVARIANTS
  TypeOK
  SwappedOnce
  EveryBlockReached
  TablesBacked
  OneBareScan
  RefusedGivesBack
  DirectivesHeard
PROPERTIES
  ImplementsSectionScans
  ScansEnd
CHECK_DEADLOCK FALSE
