SPECIFICATION MachineSpec
CONSTANTS
  N_COLS = 6
  N_ROWS = 2
  SignBit = 512
  Programs <- MCPrograms
  StoreVals <- MCByte
  Addr = {a1, a2, a3}
  f_dispatch = f_dispatch
  None = None
  Garbage = {0, 7}
  Inputs <- MCInputs
  Reserve = 4
  FrameLen = 1
  FrameWords = {300}
  StackLimit = 7
SYMMETRY AddrSymmetry
INVARIANTS
  MachineTypeOK
PROPERTIES
  AgreesWithCells
  OverwrittenByItself
  PutThenGet
