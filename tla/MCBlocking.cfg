SPECIFICATION Spec
CONSTANTS
  PipeProcs = {p, q}
  PIPESIZE = 2
  UintMax1 = 4
  Written <- MCWritten
  ReadSizes = {2}
  MaxCalls = 2
  BioProcs = {p, q}
  BlockNos = {x, y, z, u}
  Contents = {"new"}
  Bufs = {b1, b2, b3}
  MaxPinned = 1
  MaxUses = 4
  Readers = {p, q}
  INPUT_BUF = 2
  IndexMax1 = 4
  Typed = {"a", "newline", "ctl-D", "ctl-H", "ctl-U"}
  ReadCounts = {2}
  COLS = 2
  ROWS = 1
  MaxTyped = 4
  MaxReads = 2
  Keys = {"lctl", "rctl", "lshift", "prtsc", "a"}
INVARIANTS
  PipeNoLostWakeup
  PipeFreedLast
  
  InputReaches
  CursorOnScreen
  NoStuckModifier
PROPERTIES
  PipeIsFifo
  PipeHangup
  
  
  LinesKept
CHECK_DEADLOCK FALSE
