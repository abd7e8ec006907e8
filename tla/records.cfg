SPECIFICATION Spec
CONSTANTS
  d1 = d1
  t1 = t1
  t2 = t2
  Duties = {d1}
  Other = Other
  Allowed <- Terms
  Uploads <- Documents
  Threads = {t1, t2}
  LastDay = 3
  MaxItems = 3
  MaxRequests = 4
  MaxCrashes = 1
  None = None
  Torn = Torn
INVARIANTS
  RecordsFollowTheQueue
  RecordsWereRuled
  RunsAreKept
  NoPositionIsStale
SYMMETRY Alike
CHECK_DEADLOCK FALSE
