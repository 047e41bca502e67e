SPECIFICATION Spec
CONSTANTS
  a = a
  Names = {a}
  Entries <- AllEntries
  DayLen = 2
  Shift = 1
  MaxTime = 3
  MaxRuns <- ThreeOfA
INVARIANTS
  BackupStoreInv
  NewestSurvives
  CleanupCoversAll
  LatestRestoresReported
  VanishedWasReplaced
  LatestIsNewestByClock
PROPERTIES
  UnionPolicy
