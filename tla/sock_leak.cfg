SPECIFICATION Spec
CONSTANTS
  Devs = {d1, d2}
  Headers = {h1}
  NoHeader = NoHeader
  MaxDatagrams = 1
  None = None
SYMMETRY Symmetry
INVARIANTS SocketSkbFreed
