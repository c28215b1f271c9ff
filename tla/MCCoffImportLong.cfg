SPECIFICATION Spec
CONSTANTS
  NameLens <- LongNames
  DllLens = {5}
  AllocFails = FALSE
INVARIANTS
  StringsFit
CHECK_DEADLOCK FALSE
