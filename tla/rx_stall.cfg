CONSTANTS
  NumQueues = 1
  NumDesc = 3
  SeqMod = 5
  Faults = {"oversize"}
SPECIFICATION FairSpec
PROPERTIES FilledIsServed
