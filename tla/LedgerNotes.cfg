SPECIFICATION FairSpec
CONSTANTS
  c1 = c1
  c2 = c2
  p1 = p1
  p2 = p2
  u1 = u1
  Calls = {c1, c2}
  Processes = {p1, p2}
  Host <- TwoHosts
  Users = {u1}
  Kinds = {"FREEZE", "BADGE"}
  Timeout = 2
  MaxRound = 4
INVARIANTS
  TypeOK
  TimeoutIsLate
  RepeatsAreUnsettledBadges
PROPERTIES
  ImplementsLedgerCalls
  EveryCallEnds
