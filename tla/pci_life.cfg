SPECIFICATION PFairSpec
CONSTANTS
  Threads = {t1, rm}
  Privs = {p1}
  MayFail = {"priv", "trap", "netlink", "client", "wq"}
  Quiet = TRUE
  None = None
  Rm = rm
  PMayFail = {"class", "chrdev", "dma_priv", "dma_cdev", "dma_node", "dma_mask", "dma_parms", "driver",
              "priv", "dma", "msi", "regproc"}
  Env = {}
  IsrEnable = TRUE
  MaxUsers = 2
  MsiApi = "block"
  DevId = "CNX88091_B0"
INVARIANTS UsersSafe ReleasesHeld AllReleased Released NothingOutlives
PROPERTIES RemoveLeavesNothing EverythingReturns
