SPECIFICATION Spec
CONSTANTS
  Users = {u1, u2}
  Slots = {s1, s2}
  MaxLogins = 2
  MaxFaults = 1
  None = None
  Unset = Unset
INVARIANTS CacheIsOwners WritesStayHome DisplayIsTrue
SYMMETRY Symmetry
