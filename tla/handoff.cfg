CONSTANTS
  p1 = p1
  p2 = p2
  Pids = {p1, p2}
  Stages <- MCStages
  MaxBirths = 3
  None = none
SPECIFICATION Spec
SYMMETRY MCSymmetry
INVARIANT PassedIsTheOne
INVARIANT AbsenceIsReal
CHECK_DEADLOCK FALSE
