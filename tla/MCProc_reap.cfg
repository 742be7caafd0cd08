SPECIFICATION FairSpec
CONSTANTS
  NPROC = 3
  NCPU = 2
  MaxPid = 3
  KillPids = {}
  Restorers = {}
PROPERTIES
  InitReaps
