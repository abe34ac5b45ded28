CONSTANTS
  Identifiers <- MCIdentifiers
  EnvironmentNames <- MCEnvironmentNames
  Segments <- MCSegments
  OutOfRange <- MCOutOfRange
  MaxNesting = 11
  MaxDepth = 4
  Menu <- MCMenu
  MaxDeclarations = 3
  Scene <- MCScene
  Shown <- MCShown
  Handwritten <- MCHandwritten
  Self = "self"
  Backend <- MCBackend
SPECIFICATION Spec
INVARIANTS
  TypeOK
  GateSpeaksForTheCli
  OnlyKeysAndOutputsDiffer
  LoweredIsClosed
  NothingOverwritten
  MeaningKept
CHECK_DEADLOCK FALSE
