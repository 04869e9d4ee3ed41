SPECIFICATION FairSpec
CONSTANTS
  r1 = r1
  r2 = r2
  u1 = u1
  NoUser = NoUser
  Callers = {r1, r2}
  Users = {u1}
  Attempts = 2
  Routes = {"freeze_blockchain", "unfreeze", "check_clusters", "freeze_all"}
  Faults = {"auth0", "ledger", "graph"}
  MaxCrashes = 1
  MaxNotes = 0
INVARIANTS
  DivergenceHasCause
  SuccessMeansApplied
PROPERTIES
  EveryRequestAnswered
