SPECIFICATION Spec
CONSTANTS
  PauseCycles = 1
  ResumeCycles = 1
  CanFinish = TRUE
  Lanes = 2
  W = 3
  OffBits = 2
  LineEntries = 2
  Descriptors <- MCDescriptors
  Programs <- MCCopy
  Memories <- MCMemories
  PcBits = 3
  VRegs = {0, 1, 2}
  FRegs = {0, 1}
  Addrs <- MCAddrs
  MaxPauses = 0
PROPERTIES
  ExecutesInOrder
CHECK_DEADLOCK FALSE
