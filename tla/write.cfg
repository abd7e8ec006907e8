SPECIFICATION WriteSpec
CONSTANTS
  w1 = w1
  w2 = w2
  w3 = w3
  p1 = p1
  p2 = p2
  Writers <- MCWriters
  Processes = {p1, p2}
  Process <- MCProcess
  Locked = TRUE
  Inodes = {i1, i2, i3, i4}
  Old = Old
  Blank = Blank
  Nothing = Nothing
  MaxLosses = 1
SYMMETRY Symmetry
CHECK_DEADLOCK FALSE
INVARIANTS
  FileIsWhole
