SPECIFICATION Spec
CONSTANTS
  p1 = p1
  p2 = p2
  p3 = p3
  f1 = f1
  f2 = f2
  f3 = f3
  NoBuf = NoBuf
  NoProc = NoProc
  Procs = {p1, p2, p3}
  Bufs = {f1, f2, f3}
  Blocks = {1, 2, 3, 4}
  Values <- MCValues
  Writable = {1, 2}
  MaxPinned = 1
SYMMETRY Symmetry
INVARIANTS
  Coherent
  Written
  
  LockSleepers
CHECK_DEADLOCK FALSE
