SPECIFICATION FairSpec
CONSTANTS
  PauseCycles = 1
  ResumeCycles = 1
  CanFinish = TRUE
  Lanes = 2
  W = 3
  OffBits = 2
  LineEntries = 2
  Descriptors <- MCDescriptors
  Programs <- MCPrograms
  Memories <- MCMemories
  PcBits = 3
  VRegs = {0, 1, 2}
  FRegs = {0, 1}
  Addrs <- MCAddrs
  MaxPauses = 2
INVARIANTS
  TypeOK
  RequestsAwaited
PROPERTIES
  ExecutesInOrder
  CoveredByCgoCpu
  NeverStuck
CHECK_DEADLOCK FALSE
