SPECIFICATION Spec
CONSTANTS
  t1 = t1
  t2 = t2
  a1 = a1
  a2 = a2
  None = None
  Tabs = {t1, t2}
  Accounts = {a1, a2}
  Day = 1
  Month = 2
  MaxTime = 1
  MaxLoads = 1
  MaxHasty = 1
CHECK_DEADLOCK FALSE
SYMMETRY Symmetry
PROPERTIES
  RememberedIsKept
