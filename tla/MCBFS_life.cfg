SPECIFICATION Spec
CONSTANTS
  NPROC = 4
  CPUs = {c0, c1}
  BootCPU = c0
  NoCPU = NoCPU
  BFS_DEFAULT_QUANTUM = 2
  PRIO_BASE = 3
  BFS_NICE_FIRST_LEVEL <- MCNiceFirst
  BFS_NICE_LAST_LEVEL = 19
  Calls = {"fork", "exit", "wait"}
  NiceArgs <- MCNiceArgs
  SleepArgs = {}
  MaxPid = 4
  MaxTicks = 0
INVARIANTS
  QueueIsFresh
  NoStuckWaiter
