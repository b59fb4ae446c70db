CONSTANTS
  desktop = desktop
  main = main
  shell = shell
  second = second
  win = win
  offscreen = offscreen
  other = other
  panel = panel
  a = a
  b = b
  none = none
  Desktop = desktop
  Apps <- MCApps
  Windows <- MCWindows
  Controls <- MCControls
  Owned = {main, second}
  Matching = {a, b}
  Parents <- MCParents
  Trees <- MCTrees
  Modes <- MCModes
  Scopes = {{main, second}, {main}}
  Hints = {0, 2}
  MaxChanges = 2
  NoNode = none
SPECIFICATION SearchSpec
INVARIANT SearchTypeOK
INVARIANT PassedIsUnique
INVARIANT AbsenceIsComplete
INVARIANT AmbiguityIsReal
CHECK_DEADLOCK FALSE
