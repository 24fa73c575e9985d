CONSTANTS
  NumQueues = 2
  NumDesc = 3
  SeqMod = 5
  Faults = {}
SPECIFICATION FairSpec
PROPERTIES RefinesFifo FilledIsServed StoppedIsRestarted
