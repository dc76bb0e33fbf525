\* A lease that runs out hands a job to a second worker while a browser launches too; two
\* workers and a user; one worker under every fault.
SPECIFICATION PartSpec
CONSTANTS
  NoOne = NoOne  t1 = t1  c1 = c1  w1 = w1
  Job = {j1}
  Tenant = {t1}
  TenantOf <- OneTenant
  Worker = {w1, w2}
  Browser = {b1}
  Client = {}
  InitJobs = {j1}
  ClientOps = {}
  Faults = {"lost"}
  MaxAttempts = 1
  Target = 1
  MinInterval = 1
  Interval = 1
  Jitter = 0
  BaseBackoff = 1
  MaxBackoff = 1
  Lease = 1
  HardCap = TRUE
  FreeSlots = 2
  MaxBatch = 2
  MaxUsed = 2
  MaxFailures = 1
  Horizon = 2
INVARIANTS FreeCap RowsTrue
PROPERTIES LaunchesExclude LaunchFloor
