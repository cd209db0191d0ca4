CONSTANTS
  t1 = t1
  t2 = t2
  t3 = t3
  s1 = s1
  s2 = s2
  Turns = {t1, t2, t3}
  Sessions = {s1, s2}
  SessionOf <- ChatAndGuest
  Readers = {r1}
  MaxSize = 2
  Budget = 3
  Sizes = {1, 2}
  MaxConsumers = 1
  MaxEvents = 3
  NoTurn = NoTurn
SPECIFICATION FairSpec
CHECK_DEADLOCK FALSE
INVARIANTS
  AccountingExact
  NothingSkipped
PROPERTIES
  DrivenStreamEnds
