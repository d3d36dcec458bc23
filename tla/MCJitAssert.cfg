SPECIFICATION Spec
CONSTANTS
  N_COLS = 3
  N_ROWS = 2
  Programs <- MCOneBlock
  StoreVals <- MCStoreBlank
  Addr = {a1, a2, a3, a4}
  f_dispatch = f_dispatch
  None = None
INVARIANTS
  CodeMemoryFound
