SPECIFICATION Spec
\* The bound on the days ends every behaviour.
CHECK_DEADLOCK FALSE
CONSTANTS
  StartDays = {0, 2, 4}
  Length = 24
  MaxMissing = 1
  MaxLag = 2
  MaxAfter = 2
  QuarterlyPrice = 15
  MonthsPrice = 17
  DailyPrice <- MCDailyPrice
  WeeklyPrice <- MCWeeklyPrice
  Paths <- MCPaths
INVARIANT WeeksTypeOK
INVARIANT EveryDayCountsOnce
INVARIANT DailyWeeksAreWhole
INVARIANT TrendIsStraight
PROPERTY OfficialAverageIsFinal
