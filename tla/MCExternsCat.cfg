SPECIFICATION Spec
CONSTANTS
  N_COLS = 2
  N_ROWS = 2
  SignBit = 512
  Garbage = {0, 255}
  Numbers = {}
  Characters = {32, 33}
  MaxPrints = 3
INVARIANTS
  CopiesText
