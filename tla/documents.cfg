SPECIFICATION Spec
CONSTANTS
  p1 = p1
  p2 = p2
  d1 = d1
  d2 = d2
  t1 = t1
  t2 = t2
  Callers = {p1, p2}
  Threads = {t1, t2}
  Docs = {d1, d2}
  Size <- Sizes
  Quota = 2
  Limit = 1
  Window = 2
  MaxAge = 1
  None = None
  Torn = Torn
  MaxClock = 2
  MaxSignUps = 2
  MaxUploads = 2
  MaxCompiles = 1
  MaxCrashes = 1
  MaxRemovals = 1
INVARIANTS
  FoldersAreSound
  AccountsAreKept
  Paced
PROPERTIES
  UploadKeepsWork
SYMMETRY Alike
CHECK_DEADLOCK FALSE
