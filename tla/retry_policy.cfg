SPECIFICATION PolicySpec
CONSTANTS
  Width = 3
  NanosPerMilli = 2
  MillisPerSec = 2
  SecsPerMin = 2
  MinsPerHour = 2
  HoursPerDay = 2
  Policy <- SmallPolicies
  Header <- SmallHeaders
  Now <- Clocks
  NoHeader = NoHeader
INVARIANTS
  DateWaitIsExact
PROPERTIES
  BackoffIsExact
  ServerWaitKept
