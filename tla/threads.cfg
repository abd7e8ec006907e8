SPECIFICATION FairSpec
CONSTANTS
  Threads = {t1, t2}
  Rules = {r1}
  Bodies = {plain}
  Blocked = {}
  NoBody = NoBody
  NoSignature = NoSignature
  MaxLedger = 20
  MaxTime = 0
  NoThread = NoThread
  Genesis = Genesis
  MaxCalls = 2
CHECK_DEADLOCK FALSE
INVARIANTS
  StoreIsSound
PROPERTIES
  CallIsTransition
  Answered
