CONSTANTS
  t1 = t1
  t2 = t2
  t3 = t3
  s1 = s1
  s2 = s2
  Turns = {t1, t2}
  Sessions = {s1}
  SessionOf <- OneChat
  Callers = {c1, c2}
  Ops = {"goal", "drain", "accept"}
  InitRecords <- GoalOrLegacy
  MaxTurns = 2
  MaxGoalTurns = 1
  NoTurn = NoTurn
  NoCaller = NoCaller
  NoSession = NoSession
  LegacyId = LegacyId
  OldIds = {LegacyId}
SPECIFICATION Spec
CHECK_DEADLOCK FALSE
SYMMETRY Symmetry
INVARIANTS
  OneRecordPerMessage
  AnsweredOnce
  NothingOutlivesDrain
PROPERTIES
  SettledRecordsStay
  KeepsPromise
