SPECIFICATION Spec
CONSTANTS
  l1 = l1
  l2 = l2
  l3 = l3
  p1 = p1
  Logins = {l1, l2, l3}
  Processes = {p1}
  LastUser = 3
  LastHost = 1
  Users <- MCUsers
  Events <- MCEvents
  Hashes <- MCHashes
  Readings <- WorstReading
  ClusterSizes = {1}
  Thresholds <- MCThresholds
  MaxCrashes = 0
INVARIANTS
  BotsAreSuspicious
