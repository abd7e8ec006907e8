SPECIFICATION Spec
CONSTANTS
  Threads = {t1, t2}
  Clauses = {1, 2, 3}
  old = old
  new = new
  one = one
  two = two
  link = link
  Texts = {old, new, one, two, link}
  Duties = {old, new, one, two}
  Gone = Gone
  None = None
  Names <- Pointers
  Editions <- Amendments
  MaxActs = 3
  MaxCalls = 3
  MaxTime = 1
  MaxCrashes = 1
CHECK_DEADLOCK FALSE
SYMMETRY Symmetry
INVARIANTS
  NoLossMissed
  ApprovedWorkExists
  OneOpenTask
  ClosedIsDealtWith
