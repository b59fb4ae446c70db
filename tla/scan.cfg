CONSTANTS
  mainApp = mainApp
  helper = helper
  shell = shell
  t = t
  s = s
  noApp = noApp
  Apps <- MCApps
  Owned <- MCOwned
  Windows <- MCWindows
  OwnerOf <- MCOwnerOf
  Target = t
  NoApp = noApp
SPECIFICATION FairSpec
INVARIANT TypeOK
INVARIANT NoAppMissed
INVARIANT AbsenceHasCause
PROPERTY ObserverEnds
CHECK_DEADLOCK FALSE
