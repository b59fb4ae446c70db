CONSTANTS
  Count = 2
  Payloads <- MCPayloads
  Metrics <- MCMetrics
  MaxSignals = 2
  Absent = absent
  Torn = torn
SPECIFICATION Spec
INVARIANT TypeOK
INVARIANT OkIsEarned
INVARIANT ExitIsHonest
INVARIANT ContainerReleased
CHECK_DEADLOCK FALSE
