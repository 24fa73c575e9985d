\* Ends with a counterexample.  The others of section 6 of the README on this
\* module are had with another property in the last line and, where it says so,
\* another constant:
\*   Requests <- LongRequests
\*   Requests <- NeighbourRequests, HwBytes = {9}
\*   Requests <- NoRequests, Procs = {p, q}, PRequests <- ProcRequests
SPECIFICATION Spec
CONSTANTS
  Ioctls = {u}
  Procs = {}
  Kernels = {k}
  Requests <- ByteRequests
  KRequests <- NoRequests
  PRequests <- NoRequests
  Window = 16
  HwBytes = {}
  ConfSize = 4
  Chunk = 4
  IdxMod = 2
  MaxActive = 2
  MayFault = FALSE
  Junk = Junk
  Zero = Zero
  None = None
PROPERTIES Atomic
