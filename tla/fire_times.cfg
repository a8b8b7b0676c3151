SPECIFICATION FireTimesSpec
CONSTANTS
  Grace = 2
  ScanLimit = 2
  NoTime = NoTime
  MaxTime = 6
  Any = Any
  DayFields <- SmallDayFields
  DowFields <- AllFields
  MonthLength = 5
  LastDay = 34
INVARIANTS PlanIsExact ExitNeverForgotten PickedDaysFire FiresOnStoredDays
CHECK_DEADLOCK FALSE
