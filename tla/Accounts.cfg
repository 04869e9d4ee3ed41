SPECIFICATION Spec
CONSTANTS
  p1 = p1
  p2 = p2
  al = al
  maria = maria
  e1 = e1
  e2 = e2
  MongoDB = MongoDB
  Env = Env
  AdminName <- MCAdmin
  Processes = {p1, p2}
  Names = {al, maria}
  Short = {al}
  Emails = {e1, e2}
  MaxAccounts = 3
  MaxRestarts = 2
CHECK_DEADLOCK FALSE
SYMMETRY Symmetry
INVARIANTS
  TypeOK
  NamesFindTheirAccounts
  SessionsFindTheirAccounts
  EmailsAreDistinct
  LastLoginIsTheirs
