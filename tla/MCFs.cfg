SPECIFICATION Spec
CONSTANTS
  p1 = p1
  p2 = p2
  NoProc = NoProc
  Procs = {p1, p2}
  NInodes = 3
  NBlocks = 3
  NDIRECT = 1
  NINDIRECT = 1
  DPB = 3
  Calls <- MCCalls
INVARIANTS
  
  RefCounts
  BlocksAccounted
  NoLockCycle
  PanicByDotDot
CHECK_DEADLOCK FALSE
