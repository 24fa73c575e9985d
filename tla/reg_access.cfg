SPECIFICATION FairSpec
CONSTANTS
  Ioctls = {u}
  Procs = {p}
  Kernels = {k}
  Requests <- UserRequests
  KRequests <- KernelRequests
  PRequests <- ProcRequests
  Window = 16
  HwBytes = {9}
  ConfSize = 4
  Chunk = 4
  IdxMod = 2
  MaxActive = 2
  MayFault = TRUE
  Junk = Junk
  Zero = Zero
  None = None
PROPERTIES Atomic AccessReturns
