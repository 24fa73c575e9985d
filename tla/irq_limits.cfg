\* Ends with a counterexample.  The others of section 6 of the README on this
\* module are had with another property in the last line:
\*   PROPERTIES NoStarvation, BlockServed, NoLeak, OnlyToRegistered or
\*              ServedInParallel
SPECIFICATION FairSpec
CHECK_DEADLOCK FALSE
CONSTANTS
  Vectors = {"high", "low"}
  HpEvents = {{76, 78}}
  LpEvents = {{64}}
  Sources = {72, 73}
  Others = {}
  Mode = 1
  Pids = {1}
  MaxWork = 1
  StatusBits = {0}
  MaxRounds = 4
  MayFail = FALSE
PROPERTIES NoEventLost
