SPECIFICATION NlFairSpec
CONSTANTS
  Namespaces = {n1, n2}
  Types = {"INTF_ADD", "LINK_ADD", "MIRROR_SET", "UNKNOWN"}
  MaxMessages = 3
  MaxHandled = 4
  Width = 65536
  None = None
INVARIANTS HandledInOrder NoneLeftOut
PROPERTIES Serialised RequestReturns
CHECK_DEADLOCK FALSE
