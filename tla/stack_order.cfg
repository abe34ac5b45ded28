SPECIFICATION FairSpec
CONSTANTS
  apps = apps  data = data  edge = edge  core = core  ghost = ghost
  Stack <- Declared
  Name = {apps, data, edge, core, ghost}
  Keys <- ByName
  RefLists <- Reading
CHECK_DEADLOCK FALSE
INVARIANTS TypeOK Deployable CycleIsReal
PROPERTY KeepsPromise
