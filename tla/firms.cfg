SPECIFICATION Spec
CONSTANTS
  p1 = p1
  p2 = p2
  t1 = t1
  t2 = t2
  People = {p1, p2}
  Tabs = {t1, t2}
  Shared = TRUE
  MaxFirms = 2
  MaxWrites = 2
  MaxRequests = 4
  MaxCrashes = 1
  None = None
  Torn = Torn
INVARIANTS
  FilesAreOfOneFirm
  StatementsAreKept
  SlotsAreIssued
SYMMETRY Alike
CHECK_DEADLOCK FALSE
