SPECIFICATION Spec
CONSTANTS
  Insts <- MCInsts
  MemInsts <- MCMem
  Lanes = 2
  W = 2
  LineEntries = 2
  Addrs <- MCAddrs
  VRegs <- MCVRegs
  SRegs <- MCSRegs
  LineStarts <- MCLineStarts
  Lines <- MCLines
  MaxInsts = 4
INVARIANTS TypeOK OperandsCurrent
PROPERTIES TypedForEver ExecutesInOrder
