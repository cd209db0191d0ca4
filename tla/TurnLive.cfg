CONSTANTS
  t1 = t1
  t2 = t2
  t3 = t3
  s1 = s1
  s2 = s2
  Turns = {t1, t2}
  Sessions = {s1}
  SessionOf <- OneChat
  Callers = {c1}
  Ops = {"cancel", "accept", "drain", "edit", "delete"}
  InitRecords <- Fresh
  MaxTurns = 2
  MaxGoalTurns = 1
  NoTurn = NoTurn
  NoCaller = NoCaller
  NoSession = NoSession
  LegacyId = LegacyId
  OldIds = {LegacyId}
SPECIFICATION FairSpec
CHECK_DEADLOCK FALSE
INVARIANTS
  TerminalTellsCause
  ClaimCoversWork
  RecordsHonest
PROPERTIES
  CallsReturn
  RecordsDurable
  KeepsPromiseLive
