SPECIFICATION FairSpec
CHECK_DEADLOCK FALSE
CONSTANTS
  Vectors = {"high", "low"}
  HpEvents = {{76, 78}}
  LpEvents = {{64}}
  Sources = {72, 73}
  Others = {3}
  Mode = 1
  Pids = {1}
  MaxWork = 1
  StatusBits = {0}
  MaxRounds = 4
  MayFail = TRUE
INVARIANTS BlocksExact StatusKept
PROPERTIES SourceServed QueueServed
