CONSTANTS
  Msgs = {m1, m2}
  MaxCalls = 5
  MaxAsks = 2
  MaxTurns = 3
  MaxFaults = 1
  Ops = {"steer", "stop", "regenerate", "error"}
  None = None
SYMMETRY Symmetry
SPECIFICATION Spec
CHECK_DEADLOCK FALSE
INVARIANTS NothingForgotten HeardOnce BubbleHasItsId ScreenMatches
