SPECIFICATION Spec
CONSTANTS
  r1 = r1
  r2 = r2
  q1 = q1
  Readers = {r1, r2}
  Writers = {q1}
  Wants <- TwoReaders
  Sends <- OneWriter
  Victims = {r2}
  Letters = {"a"}
  INPUT_BUF_SIZE = 2
  WRAP = 4
  Start = 3
  MaxTyped = 3
PROPERTIES
  Implements
  LineRead
  WriteReturns
CHECK_DEADLOCK FALSE
