SPECIFICATION Spec
CHECK_DEADLOCK FALSE
CONSTANTS
  NPROC = 8
  NOFILE = 6
  NFILE = 4
  NPIPE = 2
  PIPESIZE = 1
  NBUF = 18
  MAXARGS = 4
  MaxFail = 2
  MaxLen = 3
  Dirs <- MCDirs
  Texts <- AllTexts
INVARIANTS
  ParseRight
  OnlyStdFds
  ResultRight
PROPERTY Finishes
