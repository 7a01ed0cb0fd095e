SPECIFICATION FairSpec
CONSTANTS
  MaxMinute = 2
  MaxHour = 1
  WeekDays = 2
  MonthStart <- MCMonthStart
  Minutes <- MCMinutes
  Hours <- MCHours
  DaysOfMonth <- MCDaysOfMonth
  Months <- MCMonths
  DaysOfWeek <- MCDaysOfWeek
  Horizon = 36
  NULL = NULL
INVARIANT ResultMatches
INVARIANT FirstDay
INVARIANT EveryDayExact
PROPERTY Terminates
CHECK_DEADLOCK FALSE
