SPECIFICATION Spec
CONSTANTS
  text = text
  long = long
  rel = rel
  symtab = symtab
  strtab = strtab
  nosuch = nosuch
  RelName = rel
  SymName = symtab
  StrName = strtab
  NoTable = NoTable
  ANY = ANY
  STOP = STOP
  HashSize = 2
  RelocSize = 10
  OrlRelocSize = 40
  PointerSize = 8
  IOFails = FALSE
  MaxCalls = 1
  MaxLoads = 1
  Images <- ObjectsOnly
  HashOf <- MCHashOf
  FoldOf <- MCFoldOf
PROPERTIES
  RelocsScanned
CHECK_DEADLOCK FALSE
