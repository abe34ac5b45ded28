\* Two configured stacks over time, ten configurations, six command lines of
\* provider generate; artifacts of a package of two sources and a built file.
SPECIFICATION Spec
CONSTANTS
  Cwd <- MCCwd
  Root <- MCRoot
  ComponentNames <- MCComponentNames
  BackendKinds <- MCBackendKinds
  LeanNames <- MCLeanNames
  SecretLike <- MCSecretLike
  Configs <- MCConfigs
  Bases <- MCBases
  Reads <- MCReads
  Requests <- MCRequests
  Sources = {s1, s2}
  Outputs = {o}
  MaxTime = 3
CONSTRAINT Apart
INVARIANT TypeOK
INVARIANT ReadsTheProducer
INVARIANT GraphRunKeepsState
INVARIANT LoadedIsUsable
INVARIANT CoreIsReached
INVARIANT TargetsApart
INVARIANT SilenceMeansFresh
INVARIANT AlarmIsReal
