\* File based emuMMC in two GPP files, two threads: locks, initialization and
\* the files themselves.
SPECIFICATION Spec
CONSTANTS
  t1 = t1
  t2 = t2
  Threads = {t1, t2}
  NoOwner = NoOwner
  EMMC_Type = "SD_File"
  Calls <- AllCalls
  GppFiles = 2
  QuiescentClose = TRUE
SYMMETRY ThreadSymmetry
INVARIANTS
  TypeOK
  OneDriverAtATime
  AccessorIsCallers
  NoMutexLeak
  SdBeforeNand
  InitDoneOnlyAfterCut
  MountedFilesOpen
