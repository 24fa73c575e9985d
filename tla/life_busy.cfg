\* Requests, packets and readers come at any time, and the client socket can be bound.
SPECIFICATION Spec
CONSTANTS
  Threads = {t1}
  Privs = {p1, p2}
  MayFail = {"priv", "trap", "netlink", "wq", "proc"}
  Quiet = FALSE
  None = None
INVARIANTS Released UsersProtected
