CONSTANTS
  Identifiers <- MCIdentifiers
  EnvironmentNames <- MCEnvironmentNames
  Segments <- MCSegments
  OutOfRange <- MCOutOfRange
  MaxNesting = 11
  MaxDepth = 4
  Menu <- MCMenu
  MaxDeclarations = 1
  Scene <- MCScene
  Shown <- MCShown
  Handwritten <- MCHandwritten
  Self = "self"
  Backend <- MCBackend
SPECIFICATION Spec
INVARIANT AttributeOfAnyExpression
CHECK_DEADLOCK FALSE
