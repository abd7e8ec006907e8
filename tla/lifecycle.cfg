SPECIFICATION Spec
CONSTANTS
  Rules = {r1, r2}
  Bodies = {vague, plain}
  Blocked = {vague}
  NoBody = NoBody
  NoSignature = NoSignature
  MaxLedger = 5
  MaxTime = 1
CHECK_DEADLOCK FALSE
INVARIANTS
  NthEntryNthVersion
  SignaturesHold
  SupersededIsReplaced
  PresentIsCurrent
PROPERTIES
  PastIsFixed
  KeepsPromise
