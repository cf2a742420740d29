\* Raw emuMMC, three threads.  Deadlock is off: the code really deadlocks here,
\* when a thread waits for sd_mutex across the first SD read.
SPECIFICATION Spec
CONSTANTS
  t1 = t1
  t2 = t2
  t3 = t3
  Threads = {t1, t2, t3}
  NoOwner = NoOwner
  EMMC_Type = "SD_Raw"
  Calls <- AllCalls
  GppFiles = 1
  QuiescentClose = TRUE
SYMMETRY ThreadSymmetry
INVARIANTS
  OneDriverAtATime
  HekateOnlyWhileCustom
CHECK_DEADLOCK FALSE
