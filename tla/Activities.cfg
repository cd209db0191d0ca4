SPECIFICATION Spec
CONSTANTS
  Rows = {1}
  News = {2}
  Fields = {f, g}
  Cap = 2
  RestoreLast = TRUE
  Slots = {1, 2, 3}
  MaxMixed = 2
  MaxOps = 3
  MaxVisits = 2
  MaxUpsets = 1
  Ops = {"create", "update", "archive", "undo", "reorder"}
  None = None
INVARIANTS Converges LastEditWins UndoWins NoEditStranded
SYMMETRY Symmetry
CHECK_DEADLOCK FALSE
