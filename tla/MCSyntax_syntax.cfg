CONSTANTS
  Files <- MCFiles
  Digits <- MCDigits
  HexDigits <- MCHexDigits
  MaxPieces = 4
  MaxTokens = 12
  Endings <- Both
SPECIFICATION Spec
CHECK_DEADLOCK FALSE
INVARIANTS
  TypeOK
  NothingLost
  AtomsConvert
PROPERTIES
  Finishes
