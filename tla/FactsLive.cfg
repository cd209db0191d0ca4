CONSTANTS
  Pollers = {w1}
  Clis = {c1}
  Kinds = {"remap"}
  Limited = {}
  Limit = 0
  Schools = {a}
  Faults = {"crash", "error"}
  MaxJobs = 2
  MaxClaims = 6
  MaxFaults = 2
  NoWorker = NoWorker
SPECIFICATION FairSpec
PROPERTIES
  JobsFinish
  FinishedByOwner
