\* The user deletes a job while it is attempted and creates another for the tenant.
SPECIFICATION FairSpec
CONSTANTS
  NoOne = NoOne  t1 = t1
  Job = {j1, j2}
  Tenant = {t1}
  TenantOf <- OneTenant
  Worker = {w1}
  Browser = {}
  Client = {c1}
  InitJobs = {j1}
  ClientOps = {"create", "delete"}
  Faults = {}
  MaxAttempts = 1
  Target = 1
  MinInterval = 1
  Interval = 1
  Jitter = 0
  BaseBackoff = 1
  MaxBackoff = 1
  Lease = 2
  HardCap = FALSE
  FreeSlots = 1
  MaxBatch = 1
  MaxUsed = 0
  MaxFailures = 1
  Horizon = 1
PROPERTIES JobsEnd
