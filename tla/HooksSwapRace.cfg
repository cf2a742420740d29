\* Two threads at the first SD read of a raw emuMMC: who keeps sd_mutex.
SPECIFICATION Spec
CONSTANTS
  t1 = t1
  t2 = t2
  Threads = {t1, t2}
  NoOwner = NoOwner
  EMMC_Type = "SD_Raw"
  Calls <- AllCalls
  GppFiles = 1
  QuiescentClose = TRUE
CHECK_DEADLOCK FALSE
INVARIANT FsHandlesSdMutex
