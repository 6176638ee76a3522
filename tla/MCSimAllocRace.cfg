SPECIFICATION Spec
CONSTANTS
  b1 = b1
  b2 = b2
  inside1 = inside1
  outside1 = outside1
  cgo1 = cgo1
  fgo1 = fgo1
  Banks <- MCBanks
  Outside = Outside
  MemReqs <- MCMemReqs
  BankOf <- MCBankOf
  Starts = {start}
  Queries = {query}
  Insts = {inst}
  Invalid = {invalid}
  Allocs <- MCAllocs
  KeyOf <- MCKeyOf
  NoKey <- MCNoKey
  QuietAlloc = FALSE
PROPERTIES
  MappedFromEngines
