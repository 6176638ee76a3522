SPECIFICATION FairSpec
CONSTANTS
  r1 = r1
  r2 = r2
  alu = alu
  load = load
  store = store
  Reqs <- MCReqs
  Insts <- MCInsts
  MemInsts <- MCMem
  PauseCycles = 1
  ResumeCycles = 2
  DramCapacity = 2
INVARIANTS
  TypeOK
  BankOwner
  PeRequestAccounted
PROPERTIES
  RequestsComplete
  ServesInTurn
