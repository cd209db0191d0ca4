SPECIFICATION Spec
CONSTANTS
  Sugs = {s1}
  Texts = {0, 1, 2}
  MaxTyped = 3
  MaxHides = 0
  MaxFaults = 0
  Ops = {"acceptAll", "reject", "agent", "retry", "leave", "blur"}
  None = None
INVARIANTS SavedMeansSaved
PROPERTY UnsavedStaysOnScreen
CHECK_DEADLOCK FALSE
