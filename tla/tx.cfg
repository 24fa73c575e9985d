CONSTANTS
  NumDesc = 3
  Senders = {s1, s2}
  RegUsers = {r1}
  ShardCounts = {0, 1, 2, 3}
  Payloads = {p1, p2}
  MaxAttempts = 2
  MaxCalls = 3
  None = None
SPECIFICATION FairSpec
INVARIANTS NoCorruption WholeFrame SkbAccounted RegAccessExclusive SentIntact
PROPERTIES OwnedDescStable XmitReturns
