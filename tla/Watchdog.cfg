SPECIFICATION FairSpec
CONSTANTS
  a = a
  b = b
  Jobs = {a, b}
  Schedule <- TwoSchedules
  Starts = {3}
  Clamp <- Week
  Period = 2
  MaxTime = 10
  MaxFails <- FailuresOfOne
  MaxSuccesses = 1
INVARIANT WatchdogInv
INVARIANT StaleIsTold
INVARIANT FailureAlertsAreCurrent
PROPERTY AlertsEscalate
PROPERTY NoFalseAlarmIfSampled
PROPERTY StopEndsChecks
