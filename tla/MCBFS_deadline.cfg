SPECIFICATION Spec
CONSTANTS
  NPROC = 2
  CPUs = {c0, c1}
  BootCPU = c0
  NoCPU = NoCPU
  BFS_DEFAULT_QUANTUM = 50
  PRIO_BASE = 21
  BFS_NICE_FIRST_LEVEL <- MCNiceFirst
  BFS_NICE_LAST_LEVEL = 19
  Calls = {"fork"}
  NiceArgs <- MCNiceArgs
  SleepArgs = {}
  MaxPid = 2
  MaxTicks = 1
PROPERTIES
  DeadlineIsProduct
