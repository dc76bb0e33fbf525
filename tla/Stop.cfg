\* One job, one worker, a user who stops, resumes and deletes it, a browser that launches, every fault.
SPECIFICATION Spec
CONSTANTS
  NoOne = NoOne  t1 = t1
  Job = {j1}
  Tenant = {t1}
  TenantOf <- OneTenant
  Worker = {w1}
  Browser = {b1}
  Client = {c1}
  InitJobs = {j1}
  ClientOps = {"stop", "resume", "delete"}
  Faults = {"crash", "prep", "raise", "lost", "db", "nolock"}
  MaxAttempts = 2
  Target = 2
  MinInterval = 2
  Interval = 2
  Jitter = 0
  BaseBackoff = 2
  MaxBackoff = 3
  Lease = 4
  HardCap = TRUE
  FreeSlots = 1
  MaxBatch = 1
  MaxUsed = 1
  MaxFailures = 1
  Horizon = 1
INVARIANTS TypeOK JobKept
PROPERTIES CooldownHolds
