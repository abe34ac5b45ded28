CONSTANTS
  Identifiers <- MCIdentifiers
  EnvironmentNames <- MCEnvironmentNames
  Segments <- MCSegments
  OutOfRange <- MCOutOfRange
  MaxNesting = 11
  MaxDepth = 4
  Menu <- MovedMenu
  MaxDeclarations = 2
  Scene <- MCScene
  Shown = {}
  Handwritten = {}
  Self = "self"
  Backend <- MCBackend
SPECIFICATION Spec
INVARIANT RejectedInLean
CHECK_DEADLOCK FALSE
