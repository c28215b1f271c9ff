SPECIFICATION Spec
CONSTANTS
  text = text
  TEXT = TEXT
  data = data
  bss = bss
  d1 = d1
  d2 = d2
  NoTable = NoTable
  Size = 2
  MaxBlocks = 8
  Keys <- MCKeys
  Datas <- MCDatas
  HashOf <- MCHashOf
  FoldOf <- MCFoldOf
INVARIANTS
  TypeOK
  OneEntryPerKey
  EveryBlockReached
PROPERTIES
  ImplementsSectionNames
