SPECIFICATION EngineSpec
CONSTANTS
  o1 = o1
  Ids = {o1}
  Shapes <- Rulebook
  StartDays <- Starts
  Run = 5
  ClockDays = 3
  MaxRecords = 2
  Window = 365
  Lookback = 400
  Horizon = 30
  MonthLengths <- Gregorian
  FirstMonth = 1
  FirstWeekday = 6
  Holidays <- Shut
  None = None
CHECK_DEADLOCK FALSE
INVARIANTS
  ReportIsWhole
  DueDatesAreSound
  OwedAndForetold
PROPERTIES
  FindingsStay
