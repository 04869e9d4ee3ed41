SPECIFICATION Spec
CONSTANTS
  r1 = r1
  r2 = r2
  r3 = r3
  u1 = u1
  NoUser = NoUser
  Callers = {r1, r2, r3}
  Users = {u1}
  Attempts = 1
  Routes = {"freeze", "unfreeze", "freeze_all"}
  Faults = {"auth0"}
  MaxCrashes = 1
  MaxNotes = 1
SYMMETRY Symmetry
INVARIANTS
  TypeOK
  LogMatchesRegistry
  Inductive
  LedgerTrailsLog
  LedgerBackedByAuth0
  FlagsBelongToASweep
