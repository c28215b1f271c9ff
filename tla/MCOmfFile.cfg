SPECIFICATION Spec
CONSTANTS
  one = one
  One = One
  code = code
  bss = bss
  odd = odd
  NULL = NULL
  ANY = ANY
  CodeSize = 8
  OffsetRange = 32
  Radix = 4
  MaxBody = 3
  FoldOf <- MCFoldOf
  ClassOf <- MCClassOf
  Blocks <- MCBlocks
  Files <- MCFiles
INVARIANTS
  TypeOK
  IdentifiedInPlace
  ContentsMeet
  RelocsPlaced
  RelocsDesignate
  EveryBlockReached
  ScansMeet
  NeverBreaks
CHECK_DEADLOCK FALSE
