SPECIFICATION Spec
CONSTANTS
  NPROC = 2
  CPUs = {c0, c1}
  BootCPU = c0
  NoCPU = NoCPU
  BFS_DEFAULT_QUANTUM = 2
  PRIO_BASE = 3
  BFS_NICE_FIRST_LEVEL <- MCNiceFirst
  BFS_NICE_LAST_LEVEL = 19
  Calls = {"fork", "exit", "wait", "kill", "sleep", "read", "yield", "fault"}
  NiceArgs <- MCNiceArgs
  SleepArgs = {1}
  MaxPid = 2
  MaxTicks = 2
INVARIANTS
  NoMissedTick
  IInv
PROPERTIES
  EarliestDeadlineFirst
  DeadlineKept
