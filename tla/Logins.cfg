SPECIFICATION Spec
CONSTANTS
  l1 = l1
  l2 = l2
  l3 = l3
  p1 = p1
  p2 = p2
  Logins = {l1, l2, l3}
  Processes = {p1, p2}
  LastUser = 2
  LastHost = 1
  Users <- MCUsers
  Events <- MCEvents
  Hashes <- MCHashes
  Readings <- MCReadings
  ClusterSizes = {1}
  Thresholds <- MCThresholds
  MaxCrashes = 1
SYMMETRY Symmetry
INVARIANTS
  TypeOK
  RiskIsOfLastLogin
  FlaggedAreRisky
