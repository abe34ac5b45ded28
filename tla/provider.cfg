CONSTANTS
  Order <- MCOrder
  Matching <- MCMatching
  Supported <- MCSupported
  Request <- MCRequest
  Words <- MCWords
  Native <- MCNative
  ReservedTypeNames <- MCReservedTypeNames
  Files <- MCFiles
  Chunks <- MCChunks
  MaxNesting = 24
SPECIFICATION Spec
INVARIANTS
  TokensKept
  ErrorsInOrder
  FormatSettled
  ReadsBack
  ShapesDeclared
  BlocksWithinSchema
CHECK_DEADLOCK FALSE
