SPECIFICATION FairSpec
CONSTANTS
  p1 = p1
  p2 = p2
  p3 = p3
  NoBuf = NoBuf
  NoProc = NoProc
  Procs = {p1, p2, p3}
  Blocks = {1, 2}
  Uses <- TwoWriters
  Writers = {p1, p2}
  NUM = 7
INVARIANTS
  Accounted
PROPERTIES
  Implements
  
