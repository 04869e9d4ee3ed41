SPECIFICATION Spec
CONSTANTS
  r1 = r1
  r2 = r2
  u1 = u1
  NoUser = NoUser
  Callers = {r1, r2}
  Users = {u1}
  Attempts = 1
  Routes = {"freeze", "unfreeze"}
  Faults = {}
  MaxCrashes = 0
  MaxNotes = 0
INVARIANTS
  FrozenUsersAreCurrent
