SPECIFICATION Spec
CONSTANTS
  Threads = {t1, t2}
  r1 = r1
  e1 = e1
  Rules = {r1}
  Events = {e1}
  RuleOf <- OneRule
  DueDay <- DueTomorrow
  LastDay = 1
  None = None
  MaxCalls = 4
  MaxChanges = 3
CHECK_DEADLOCK FALSE
SYMMETRY Symmetry
INVARIANTS
  HistoryIsSound
PROPERTIES
  OpenedInBreach
  NotClosedInBreach
