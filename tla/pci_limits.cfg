\* Ends with a counterexample.  The others of section 6 of the README on this
\* module are had with another property in the last line and, where it says so,
\* another constant:
\*   LockReady, Released: Env = {"early_open"}
\*   UsersSafe: Env = {"unbind_used"}, Env = {"plug_late"} or DevId = "CNX88061_B0"
\*   ReleasesHeld: PMayFail = {"low"} or {"node"}
\*   FailedProbeLeavesNothing: PMayFail = {"dma"}
\*   LoadedIsRegistered: PMayFail = {"dma_parms"}
\*   BothServed: MsiApi = "range"
SPECIFICATION PSpec
CONSTANTS
  Threads = {t1, rm}
  Privs = {p1}
  MayFail = {}
  Quiet = TRUE
  None = None
  Rm = rm
  PMayFail = {}
  Env = {}
  IsrEnable = TRUE
  MaxUsers = 2
  MsiApi = "block"
  DevId = "CNX88091_B0"
INVARIANTS WindowMapped
