SPECIFICATION Spec
CONSTANTS
  MaxPages = 5
  PGSIZE = 2
  PTES = 3
  Vals = {0, 1}
  TEXT = 1
  Stores = {1, 4}
  Copies = {0, 3}
  MaxFrames = 12
INVARIANTS
  MemoryKept
  ChildAlike
  
CHECK_DEADLOCK FALSE
