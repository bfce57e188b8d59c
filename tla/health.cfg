SPECIFICATION HealthSpec
CONSTANTS
  LastHour = 4
  LastBucket = 2
  MaxSessions = 2
  WindowHours = 3
  SettleHours = 1
  MinSessions = 2
  RegressionPp = 50
INVARIANTS RereadIsFinal VerdictJust
