SPECIFICATION FairSpec
CONSTANTS
  Devs = {d1}
  Headers = {h1}
  NoHeader = NoHeader
  MaxDatagrams = 1
  None = None
PROPERTIES BusyIsRetried
