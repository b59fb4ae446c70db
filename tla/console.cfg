CONSTANTS
  Kinds <- MCKinds
  Shared = {"probe", "handoff", "child"}
  Recovering = {"probe", "command"}
  MaxOps = 4
  Interrupt = etx
  Nothing = nothing
SPECIFICATION ConsoleSpec
INVARIANT ConsoleTypeOK
INVARIANT OwnUnlessBehind
INVARIANT ShellIsFree
CHECK_DEADLOCK FALSE
