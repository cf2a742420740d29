\* One thread, one GPP file: which handles the close leaves open.
SPECIFICATION Spec
CONSTANTS
  t1 = t1
  t2 = t2
  Threads = {t1}
  NoOwner = NoOwner
  EMMC_Type = "SD_File"
  Calls <- AllCalls
  GppFiles = 1
  QuiescentClose = TRUE
CHECK_DEADLOCK FALSE
INVARIANT AllHandlesClosed
