SPECIFICATION FairSpec
CONSTANTS
  NPROC = 3
  MAX_SKIPLIST_LEVEL = 2
  Values <- MCValues
  Pids <- MCPids
INVARIANTS
  WellFormed
PROPERTIES
  ImplementsReadyQueue
  CallsReturn
