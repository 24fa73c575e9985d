CONSTANTS
  NumQueues = 1
  NumDesc = 3
  SeqMod = 5
  Faults = {"error"}
SPECIFICATION Spec
PROPERTIES ResetKeepsChain
