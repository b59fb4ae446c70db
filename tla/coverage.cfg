CONSTANTS
  app = app
  twin = twin
  dialog = dialog
  s0 = s0
  s1 = s1
  none = none
  Ids <- MCIds
  Jobs <- MCJobs
  Digest <- MCDigest
  CtrlQ <- MCCtrlQ
  Lacking <- MCLacking
  CurrentDesktop <- MCDesktop
  HasGio = TRUE
  ExpectedCommit = "head"
  None = none
  Worlds <- MCWorlds
SPECIFICATION Spec
INVARIANT TypeOK
INVARIANT PassedIsCovered
INVARIANT PassedIsOneBuild
INVARIANT PassedShardIsCounted
INVARIANT CleanMatrixPasses
CHECK_DEADLOCK FALSE
