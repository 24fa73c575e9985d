SPECIFICATION FairSpec
CONSTANTS
  Threads = {t1}
  Privs = {p1, p2}
  MayFail = {"priv", "trap", "netlink", "client", "wq", "proc"}
  Quiet = TRUE
  None = None
INVARIANTS Released NothingOutlives
PROPERTIES CallsReturn
