SPECIFICATION Spec
CONSTANTS
  NameLens <- ShortNames
  DllLens = {5, 12}
  AllocFails = FALSE
INVARIANTS
  TypeOK
  StringsFit
  PointersMeetData
  RelocsMeetSymbols
  NamesFound
CHECK_DEADLOCK FALSE
