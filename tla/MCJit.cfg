SPECIFICATION Spec
CONSTANTS
  N_COLS = 3
  N_ROWS = 2
  Programs <- MCSelfModifying
  StoreVals <- MCStoreVals
  Addr = {a1, a2, a3}
  f_dispatch = f_dispatch
  None = None
SYMMETRY AddrSymmetry
INVARIANTS
  TypeOK
  CodeIsFresh
  DependsMirror
  DependsExact
  CodeMemoryOwned
PROPERTIES
  StoreInvalidatesExactly
  ImplementsUncached
