SPECIFICATION FairSpec
CONSTANTS
  Packages <- BothFrontends
  Workers = 3
  None = None
CHECK_DEADLOCK FALSE
INVARIANTS TypeOK OneWriter SuccessIsWhole ManifestAfterModules JoinedOnce
PROPERTY Ends
