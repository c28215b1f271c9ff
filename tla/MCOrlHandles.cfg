SPECIFICATION Spec
CONSTANTS
  ORL = ORL
  ELF = ELF
  COFF = COFF
  OMF = OMF
  NULL = NULL
  a1 = a1
  a2 = a2
  a3 = a3
  a4 = a4
  a5 = a5
  a6 = a6
  Addr <- MCAddr
  Formats <- MCFormats
  Enabled <- MCEnabled
INVARIANTS
  TypeOK
  Owned
  SameOrder
  NothingLeft
PROPERTIES
  ImplementsOpenFiles
CHECK_DEADLOCK FALSE
