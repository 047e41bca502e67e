SPECIFICATION FairSpec
CONSTANTS
  a = a
  b = b
  c = c
  r1 = r1
  r2 = r2
  r3 = r3
  Names = {a, b, c}
  Runs = {r1, r2, r3}
  NameOf <- ThreeNamesNameOf
  Slots = 1
PROPERTY NoOvertaking
PROPERTY ImplementsBackupSlots
PROPERTY ShutdownCompletes
PROPERTY EveryRunEnds
