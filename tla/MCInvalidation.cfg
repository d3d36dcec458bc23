SPECIFICATION LoopFairSpec
CONSTANTS
  N_COLS = 3
  N_ROWS = 2
  Programs <- MCPrograms
  StoreVals <- MCStoreHalt
  Addr = {a1, a2, a3, a4}
  f_dispatch = f_dispatch
  None = None
INVARIANTS
  IteratorValid
PROPERTIES
  ImplementsJit
  ReachesCode
