SPECIFICATION FairSpec
CONSTANTS
  Officers = {o1}
  Jobs = {j1, j2}
  Clerks = {}
  Benches = {b1}
  Rules = {r1, r2}
  None = None
  Orphaned = Orphaned
  MaxActs = 0
  MaxCrashes = 1
CHECK_DEADLOCK FALSE
INVARIANTS
  OnlyFinishedJobsWrite
PROPERTY JobEnds
