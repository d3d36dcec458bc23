SPECIFICATION Spec
CONSTANTS
  N_COLS = 3
  N_ROWS = 2
  Texts <- MCTexts
INVARIANTS
  LoadsFile
  RejectsTooLarge
