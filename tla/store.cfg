SPECIFICATION Spec
CONSTANTS
  Officers = {o1}
  Jobs = {j1}
  Clerks = {c1}
  Benches = {b1, b2}
  Rules = {r1}
  None = None
  Orphaned = Orphaned
  MaxActs = 2
  MaxCrashes = 1
CHECK_DEADLOCK FALSE
SYMMETRY Symmetry
INVARIANTS
  StoreIsSound
  AcknowledgedStays
