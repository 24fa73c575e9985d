SPECIFICATION NlSpec
CONSTANTS
  Namespaces = {n1}
  Types = {"INTF_ADD", "LINK_ADD", "MIRROR_SET", "UNKNOWN"}
  MaxMessages = 2
  MaxHandled = 3
  Width = 65536
  None = None
INVARIANTS HandledExactly
CHECK_DEADLOCK FALSE
