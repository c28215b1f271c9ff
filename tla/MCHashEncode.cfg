SPECIFICATION Spec
CONSTANTS
  TableSize = 53
  MaxLen = 8
  Chars <- MCChars
  ToUpper <- MCToUpper
  CharMap <- MCCharMap
INVARIANTS
  TypeOK
  EqualNamesSameBucket
CHECK_DEADLOCK FALSE
