SPECIFICATION Spec
CONSTANTS
  text = text
  long = long
  rel = rel
  symtab = symtab
  strtab = strtab
  nosuch = nosuch
  RelName = rel
  SymName = symtab
  StrName = strtab
  NoTable = NoTable
  ANY = ANY
  STOP = STOP
  HashSize = 2
  RelocSize = 10
  OrlRelocSize = 40
  PointerSize = 8
  IOFails = TRUE
  MaxCalls = 2
  MaxLoads = 2
  Images <- AllImages
  HashOf <- MCHashOf
  FoldOf <- MCFoldOf
INVARIANTS
  TypeOK
  LinesConvertedOnce
  EveryBlockReached
  TablesBacked
  NothingTruncated
  DirectivesHeard
PROPERTIES
  ImplementsSectionScans
CHECK_DEADLOCK FALSE
