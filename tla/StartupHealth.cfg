SPECIFICATION Spec
CONSTANTS
  a = a
  b = b
  c = c
  x = x
  None = None
  Unnamed = Unnamed
  Files = {1, 2, 3, 4}
  Main = 1
  ConfigD = {3, 4}
  ConfigDir = ConfigDir
  Malformed = Malformed
  Comps = {x}
  Adapters = {"local", "s3", "nokeys", "ftp"}
  Accepted = {"local", "s3", "nokeys"}
  Makeable = {"local", "s3"}
  Local = {"local"}
  Names = {a, b, c, Unnamed}
  Clean <- CleanNames
  Wanted = c
  Disks <- SomeDisks
  Envs <- SomeEnvs
INVARIANT HealthAsConfigured
