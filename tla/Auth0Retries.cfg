SPECIFICATION FairSpec
CONSTANTS
  r1 = r1
  r2 = r2
  u1 = u1
  Callers = {r1, r2}
  Users = {u1}
  Attempts = 2
  TokenLife = 5
  Margin = 3
  MaxTime = 0
  MaxTokens = 3
  MaxRevoked = 1
  MaxCrashes = 1
INVARIANTS
  GivesUpWithCause
PROPERTIES
  ImplementsBlockCalls
  EveryCallReturns
