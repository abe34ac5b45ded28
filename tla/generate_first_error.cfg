SPECIFICATION Spec
CONSTANTS
  Packages <- BothFrontends
  Workers = 3
  None = None
CHECK_DEADLOCK FALSE
INVARIANT FirstErrorReturned
