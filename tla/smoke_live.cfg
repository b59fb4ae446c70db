CONSTANTS
  w1 = w1
  w2 = w2
  none = none
  Windows <- MCWindows
  Ineligible <- MCIneligible
  None = none
  Contracts <- MCLiveContracts
SPECIFICATION FairSpec
PROPERTY SessionEnds
CHECK_DEADLOCK FALSE
