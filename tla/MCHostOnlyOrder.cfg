SPECIFICATION Spec
CONSTANTS
  r1 = r1
  r2 = r2
  r3 = r3
  start = start
  query = query
  Reqs <- MCReqs3
  Starts = {start}
  Queries = {query}
  Modes <- MCHostOnly
  BatchSz = 0
  DramCapacity = 1
  AguChunks = 2
  ProgramChunks <- MCChunks
  PauseCycles = 0
  ResumeCycles = 0
  CanFinish = FALSE
PROPERTIES
  ServesHostInOrder
