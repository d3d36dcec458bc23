SPECIFICATION Spec
CONSTANTS
  N_COLS = 2
  N_ROWS = 2
  SignBit = 512
  Garbage = {0, 255}
  Numbers = {0, 7, 10, 511, 512, 1023}
  Characters = {33, 45, 48, 57, 127, 128, 255, 256, 810}
  MaxPrints = 3
INVARIANTS
  ReadsBack
