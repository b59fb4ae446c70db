CONSTANTS
  w1 = w1
  w2 = w2
  none = none
  Windows <- MCWindows
  Ineligible <- MCIneligible
  None = none
  Contracts <- MCContracts
SPECIFICATION Spec
SYMMETRY MCSymmetry
INVARIANT ReadyIsWholeInTime
INVARIANT StandardPassIsNatural
PROPERTY OneKey
CHECK_DEADLOCK FALSE
