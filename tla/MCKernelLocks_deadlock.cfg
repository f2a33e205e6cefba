SPECIFICATION KSpec
CONSTANTS
  CPUs = {c0, c1}
  NoCPU = NoCPU
  Procs = {p, q}
  Locks = {"outer", "ptable", "inner"}
  NoLock = "none"
  ptable = "ptable"
  Rank <- MCRank
  pipelock = "outer"
  idelock = "outer"
  slk = "outer"
  loglock = "outer"
  tickslock = "outer"
  cons = "inner"
  kmem = "inner"
  Prints = TRUE
  ConsoleInput = TRUE
SYMMETRY MCSymmetry
INVARIANT
  NoCyclicWait
