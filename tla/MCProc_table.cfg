SPECIFICATION Spec
CONSTANTS
  NPROC = 3
  NCPU = 2
  MaxPid = 4
  KillPids = {3}
  Restorers = {2}
INVARIANTS
  HolderRuns
  OneCpu
  CircleNeedsRestore
  
  NoMissedExit
CHECK_DEADLOCK FALSE
