SPECIFICATION Spec
CONSTANTS
  t1 = t1  t2 = t2  r1 = r1  r2 = r2  s1 = s1  a1 = a1  a2 = a2  a3 = a3
  TrapIds = {t1, t2}
  ReasonCodes = {r1, r2}
  RcsOf <- OwnRc
  Used = {"netdev"}
  Sockets = {s1}
  Addrs = {a1, a2, a3}
  CountMod = 2
  None = None
SYMMETRY Memory
INVARIANTS CountsOwnPackets
CHECK_DEADLOCK FALSE
