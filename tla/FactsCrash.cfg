CONSTANTS
  Pollers = {w1, w2}
  Clis = {}
  Kinds = {}
  Limited = {}
  Limit = 0
  Schools = {a, b}
  Faults = {"crash", "stop", "error"}
  MaxJobs = 2
  MaxClaims = 4
  MaxFaults = 2
  NoWorker = NoWorker
SPECIFICATION Spec
SYMMETRY Symmetry
INVARIANTS
  OpenRunIsReachable
  OutcomeTold
PROPERTIES
  PassCovers
  ClosedByItsWorker
  OncePerRun
