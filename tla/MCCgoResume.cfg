SPECIFICATION Spec
CONSTANTS
  r1 = r1
  r2 = r2
  r3 = r3
  start = start
  query = query
  Reqs <- MCReqs2
  Starts = {start}
  Queries = {query}
  Modes <- MCShare
  BatchSz = 0
  DramCapacity = 2
  AguChunks = 2
  ProgramChunks <- MCChunks
  PauseCycles = 0
  ResumeCycles = 4
  CanFinish = FALSE
INVARIANTS
  PimModeAfterResume
