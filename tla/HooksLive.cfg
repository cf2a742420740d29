\* File based emuMMC in one GPP file, two threads: every call returns.
SPECIFICATION FairSpec
CONSTANTS
  t1 = t1
  t2 = t2
  Threads = {t1, t2}
  NoOwner = NoOwner
  EMMC_Type = "SD_File"
  Calls <- LiveCalls
  GppFiles = 1
  QuiescentClose = TRUE
PROPERTY CallsReturn
