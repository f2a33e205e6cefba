SPECIFICATION BootSpec
CONSTANTS
  NPROC = 2
  MAX_SKIPLIST_LEVEL = 1
  Runnable <- MCRunnable
  Values <- MCValues
  Pids <- MCPids
PROPERTIES
  SchedulerLoops
