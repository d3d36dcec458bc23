SPECIFICATION SizedFairSpec
CONSTANTS
  N_COLS = 4
  N_ROWS = 3
  SignBit = 512
  BufferSize = 206
  Programs <- MCPrograms
INVARIANTS
  TypeOK
  ReturnsCompile
  RegistersDeps
  FitsBuffer
PROPERTIES
  Returns
