CONSTANTS
  Questions = {q1, q2}
  MaxPresses = 3
  MaxOpen = 2
  MaxLaunches = 2
  Steps = {s1}
  Vizzes = {v1}
  Steers = {"a"}
  MaxBeats = 4
SPECIFICATION Spec
SYMMETRY Symmetry
\* A turn ends, and the student may stop practising.
CHECK_DEADLOCK FALSE
INVARIANTS
  ReloadAgrees
  NoDoubleAttempt
  PageIsTrue
