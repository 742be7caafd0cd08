SPECIFICATION FairSpec
CONSTANTS
  w1 = w1
  w2 = w2
  r1 = r1
  Writers = {w1, w2}
  Readers = {r1}
  PIPESIZE = 2
  Wrap = 4
  Bytes = {0, 1}
  MaxN = 2
  Victims = {w1, r1}
INVARIANTS
  Sleepers
PROPERTIES
  Fifo
  DataDelivered
  WriterReturns
CHECK_DEADLOCK FALSE
