SPECIFICATION FairSpec
CONSTANTS
  Procs = {p, q, r}
  Blocks = {a, b}
  Vals = {0, 1}
  Image <- MCImage
  LOGSIZE = 4
  MAXOPBLOCKS = 2
  size = 5
  OpBlocks = 1
  MaxCrashes = 2
INVARIANTS
  
  NoStuckOp
PROPERTIES
  AtomicCommit
  LogAvailable
CHECK_DEADLOCK FALSE
