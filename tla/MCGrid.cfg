SPECIFICATION Spec
CONSTANTS
  N_COLS = 80
  N_ROWS = 25
INVARIANTS
  ThunkNamesPosition
  ThunkInBounds
PROPERTIES
  MovesOnTorus
