SPECIFICATION MachineFairSpec
CONSTANTS
  N_COLS = 9
  N_ROWS = 2
  SignBit = 512
  Programs <- MCCat
  StoreVals <- MCByte
  Addr = {a1, a2, a3, a4, a5}
  f_dispatch = f_dispatch
  None = None
  Garbage = {0, 255}
  Inputs <- MCLetter
  Reserve = 2
  FrameLen = 1
  FrameWords = {300}
  StackLimit = 6
PROPERTIES
  ProgramEnds
