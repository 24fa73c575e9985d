CONSTANTS
  NumQueues = 1
  NumDesc = 4
  SeqMod = 6
  Faults = {"error", "oversize"}
SPECIFICATION Spec
INVARIANTS InOrder RestartOnlyAtEnd RxInv
PROPERTIES GivenBackRead
