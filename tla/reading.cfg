SPECIFICATION MCSpec
CONSTANTS
  Documents <- MCDocuments
  SectionMaxX = 4
  SectionMarginBand = 2
  FlatTolerance = 1
  Engines = {"rules", "llm"}
  TooShort = 2
  Subject = 2
  Cluster = 1
  MaxConditions = 4
  MaxLines = 4
  MaxWords = 2
INVARIANTS
  CompiledIsSound
  NothingIsLost
  DefinedOnce
  TreeIsSound
CHECK_DEADLOCK FALSE
