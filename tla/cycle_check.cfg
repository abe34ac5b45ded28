SPECIFICATION Spec
CONSTANTS
  N = 4
  Addresses <- Program
  References <- Reading
  Explicit <- Naming
CHECK_DEADLOCK FALSE
INVARIANTS VerdictsAreRight CyclesAreReal FuelNeverRunsOut
