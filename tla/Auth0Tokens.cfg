SPECIFICATION Spec
CONSTANTS
  r1 = r1
  r2 = r2
  u1 = u1
  Callers = {r1, r2}
  Users = {u1}
  Attempts = 2
  TokenLife = 2
  Margin = 1
  MaxTime = 3
  MaxTokens = 2
  MaxRevoked = 1
  MaxCrashes = 0
SYMMETRY Symmetry
INVARIANTS
  TypeOK
  MarginCoversDelays
  RejectedIsForgotten
