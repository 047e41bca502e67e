SPECIFICATION Spec
CONSTANTS
  a = a
  b = b
  Jobs = {a}
  Schedule <- OfficeHours
  Starts = {8}
  Clamp <- Week
  Period = 1
  MaxTime = 14
  MaxFails <- NoFailures
  MaxSuccesses = 9
PROPERTY NoFalseAlarm
