SPECIFICATION Spec
CONSTANTS
  a = a
  Names = {a}
  Entries <- AllEntries
  DayLen = 2
  Shift = 1
  MaxTime = 4
  MaxRuns <- TwoOfA
INVARIANTS
  LatestIsNewest
