CONSTANTS
  W = 7
  UnixToInternal = 10
  Second = 4
  NowUnix = 5
  DefaultTTL = 4
  MaxTTLs <- MCMaxTTLs
  Numbers <- MCNumbers
  Numerals <- MCWords
  Durations <- MCDurations
  Dates <- MCDates
SPECIFICATION TimesSpec
INVARIANTS CapRespected
CHECK_DEADLOCK FALSE
