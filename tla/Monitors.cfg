SPECIFICATION FairSpec
CONSTANTS
  a = a
  b = b
  Jobs = {a, b}
  Sizes <- ThreeAndOne
  Unmeasured = {b}
  Window = 2
  MinPoints = 2
  Threshold <- OneThreshold
  Clients = {1}
  Trusted = {1}
  Nobody = Nobody
  MaxRuns <- ManyAndOne
INVARIANT MonitorsInv
INVARIANT AnomaliesAreTrue
PROPERTY RepliesAreTrue
PROPERTY MonitoringNeverHangs
