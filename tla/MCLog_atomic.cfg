SPECIFICATION FairSpec
CONSTANTS
  p1 = p1
  p2 = p2
  b1 = b1
  b2 = b2
  b3 = b3
  b4 = b4
  b5 = b5
  v1 = v1
  v2 = v2
  NoBuf = NoBuf
  Torn = Torn
  Ops = {p1, p2}
  Blocks = {b1, b2}
  Values = {v1, v2}
  LOGBLOCKS = 4
  MAXOPBLOCKS = 2
  Quota <- QuotaExact
INVARIANTS
  CrashInv
  ReservationHolds
PROPERTIES
  AtomicGroups
  WriteAhead
  SleeperWakes
