CONSTANTS
  cmd = cmd
  helper = helper
  manager = manager
  panel = panel
  init = init
  Procs <- MCProcs
  Desktop <- MCDesktop
  DesktopParent <- MCParents
  Launched = cmd
  InitPid = init
  Displays <- MCDisplays
  Faults <- MCFaults
SPECIFICATION FairSpec
INVARIANT TypeOK
INVARIANT OwnedPidsGone
INVARIANT FullPassIsClean
PROPERTY DesktopUntouched
PROPERTY CleanupEnds
CHECK_DEADLOCK FALSE
