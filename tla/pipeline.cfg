SPECIFICATION OrderedSpec
CONSTANTS
  g1 = g1  g2 = g2  g3 = g3  b1 = b1  b2 = b2  k1 = k1  p1 = p1  p2 = p2
  None = None
  Torn = Torn
  Proc = {p1, p2}
  Args <- AllArgs
  Source <- Sources
  Graph <- Graphs
  Gate = {k1}
  Backend = {b1, b2}
  Config <- Configs
  Foreign = {g2, g3}
  Valid = {g1, g2}
  Referring = {g2}
  Compiles <- Compiling
  MainGraph <- Main
  ProgramGraph <- Program
  GateHolds <- Holds
  TestsPass <- Passing
  MaxEdits = 1
CHECK_DEADLOCK FALSE
INVARIANTS TypeOK GateSound DeployedIsChecked MismatchIsReal TestsSound
PROPERTIES WorkspaceOnlyAfterChecks Terminates
