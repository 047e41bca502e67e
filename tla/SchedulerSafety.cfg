SPECIFICATION Spec
CONSTANTS
  a = a
  b = b
  c = c
  r1 = r1
  r2 = r2
  r3 = r3
  Names = {a, b}
  Runs = {r1, r2, r3}
  NameOf <- SmallNameOf
  Slots = 1
INVARIANT SchedulerInv
INVARIANT JobMutex
INVARIANT MonitorsAgree
INVARIANT SlotAccounting
INVARIANT CleanDrainWaited
INVARIANT PanicNeedsLateRun
PROPERTY SkipHasPeer
SYMMETRY TwinTicks
