CONSTANTS
  root = root
  shell = shell
  p1 = p1
  p2 = p2
  init = init
  Pids <- MCPids
  Root = root
  Shell = shell
  InitPid = init
SPECIFICATION FairSpec
INVARIANT TypeOK
INVARIANT NothingImported
INVARIANT EndedUnlessBornLate
PROPERTY EndIsNoticed
CHECK_DEADLOCK FALSE
