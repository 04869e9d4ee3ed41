SPECIFICATION Spec
CONSTANTS
  p1 = p1
  p2 = p2
  u1 = u1
  Unset = Unset
  Processes = {p1, p2}
  Users = {u1}
  Thresholds = {1, 2}
  Default = 1
  MaxActions = 3
  MaxUpdates = 2
  MaxRestarts = 1
SYMMETRY Symmetry
INVARIANTS
  TypeOK
  FreezesAreLogged
  LogAndListAgree
  EntriesAreKept
  OffProcessAgrees
  ThresholdsReadBack
