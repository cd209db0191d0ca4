CONSTANTS
  Msgs = {m1, m2}
  MaxCalls = 3
  MaxAsks = 2
  MaxTurns = 2
  MaxFaults = 1
  Ops = {"steer", "regenerate", "retry", "other", "reload", "drop", "timeout", "lose"}
  None = None
SPECIFICATION Spec
CHECK_DEADLOCK FALSE
INVARIANTS OneConsumer
PROPERTY Unblocks
