CONSTANTS
  bios = bios
  shard0 = shard0
  shard1 = shard1
  Plans <- MCPlans
  Shards <- MCShards
  MaxAttempt = 2
SPECIFICATION FairSpec
INVARIANT VerdictIsEarned
INVARIANT CoverageIsCurrent
PROPERTY PublishedIsTested
PROPERTY RerunAddsUp
PROPERTY GateConcludes
CHECK_DEADLOCK FALSE
