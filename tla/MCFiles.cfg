SPECIFICATION Spec
CONSTANTS
  IProcs = {ip, iq}
  NINODE = 5
  ninodes = 6
  Names = {"a", "d"}
  Requests <- MCRequests
  MaxRequests = 3
  FProcs = {x, y}
  NFILE = 3
  NOFILE = 3
  Pages = {1}
  FInodes = {i}
  ChunkMax = 2
  Lengths = {3}
  MaxSyscalls = 5
  FSSIZE = 8
  nmeta = 2
  BSIZE = 2
  NDIRECT = 1
  UintMax1 = 16
  FileInums = {1, 2}
  ImageSizes = {1, 5}
  Offsets = {0, 3}
  Counts = {2, 3, 15}
  Values = {8, 9}
  MaxFileOps = 3
  VProcs = {p, q}
  NPages = 14
  PGSIZE = 2
  NPTE = 3
  NPDE = 2
  Programs <- MCPrograms
  ArgBytes = {1, 3}
  Increments <- MCIncrements
  AddrMax1 = 32
  MaxVmCalls = 3
  HeapMax = 13
  MinCore = 4
  HdrBytes = 2
  MallocBytes = {1, 3, 9}
  MaxGaps = 1
  MaxCalls = 7
  SProcs = {1, 2, 3, 4, 5, 6, 7}
  Chars = {"a", "|", ">", "(", ")", ";", "&"}
  MaxLine = 4
  RunLines <- MCRunLines
  MAXARGS = 3
SYMMETRY MCSymmetry
INVARIANTS
  
  CountsExact
  ReferencesExact
  OffsetExact
  AllocationExact
  FilesKept
  PagesConserved
  AddressSpaceExact
  HeapExact
  ParserExact
  WiredAsWritten
  NoStuckCommand
CHECK_DEADLOCK FALSE
