SPECIFICATION Spec
CONSTANTS
  Sugs = {s1}
  Texts = {0, 1}
  MaxTyped = 1
  MaxHides = 1
  MaxFaults = 1
  Ops = {"accept", "agent", "retry", "hide", "blur", "stale"}
  None = None
PROPERTY RetryPrevails
CHECK_DEADLOCK FALSE
