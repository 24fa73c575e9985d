\* Ends with a counterexample.  The others of section 6 of the README on this
\* module are had with another property in the last line and, where it says so,
\* another constant:
\*   INVARIANTS RegAccessAlwaysExclusive or BytesExact
CONSTANTS
  NumDesc = 3
  Senders = {s1}
  RegUsers = {r1}
  ShardCounts = {1, 2}
  Payloads = {p1, p2}
  MaxAttempts = 1
  MaxCalls = 3
  None = None
SPECIFICATION Spec
INVARIANTS OwnedIntact
