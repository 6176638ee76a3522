SPECIFICATION Spec
CONSTANTS
  r1 = r1
  r2 = r2
  r3 = r3
  start = start
  query = query
  Reqs <- MCReqs3
  Starts = {start}
  Queries = {query}
  Modes <- MCAllPim
  BatchSz = 1
  DramCapacity = 2
  AguChunks = 2
  ProgramChunks <- MCChunks
  PauseCycles = 1
  ResumeCycles = 1
  CanFinish = TRUE
SYMMETRY MCSymmetry
INVARIANTS
  TypeOK
  BankExclusion
  HostOwnsQuietBank
  PimRequestsAccounted
  PauseAckedWhenHeld
  PauseProtocol
PROPERTIES
  ServesHostInOrder
  CpuGetsItsShare
