SPECIFICATION FairSpec
CONSTANTS
  r1 = r1
  r2 = r2
  r3 = r3
  start = start
  query = query
  Reqs <- MCReqs2
  Starts = {start}
  Queries = {}
  Modes <- MCShareOrHost
  BatchSz = 0
  DramCapacity = 2
  AguChunks = 2
  ProgramChunks <- MCChunks
  PauseCycles = 1
  ResumeCycles = 1
  CanFinish = FALSE
INVARIANTS
  HostOnlyKeepsProcessorOff
PROPERTIES
  RequestsComplete
  BootCompletes
  CpuNotStarved
