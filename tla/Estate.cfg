\* Tenants, backup and restore, the desktop program's files and scheduler.
SPECIFICATION PartSpec
CONSTANTS
  None = None  ann = ann  bob = bob  cid = cid
  t1 = t1  t2 = t2  t3 = t3  q1 = q1  q2 = q2  k1 = k1  k2 = k2
  i1 = i1  i2 = i2  i3 = i3  i4 = i4
  Tenants = {"ann", "bob"}
  MaxAttempts = 2
  Interval = 1
  Retries = {"old", "new"}
  Newest <- NewFirst
  TenantOf <- TwoOfAnn
  Backoff = 1
  LaterRetries = {"old"}
  LaterNewest <- JustOld
  LaterTenantOf <- OneOfAnn
  LaterBackoff = 2
  Jitter = 1
  Schedules = {"office"}
  TimeOfDay <- AtOne
  Day = 2
  Users = {ann, bob}
  Bodies = {"x", "y"}
  Foreign <- Strange
  FileIds = {i1, i2, i3, i4}
  TornNames = {ann, bob, cid}
  TornFiles <- Torn
  TornArchives <- BundlesOfCid
  WholeNames = {ann, bob}
  WholeFiles <- Whole
  WholeArchives <- BundlesOfBob
  ArchiveIds = {i1, i2, i3, i4}
  FirstRows = {i1, i2}
  TenantIds = {t1, t2, t3}
  KeptIds = {t1, t2}
  KeptKeys = {k1}
  Requests = {q1, q2}
  Accounts = {"acme", "bolt"}
  Keys = {k1, k2}
  Regions = {"tokyo", "osaka"}
  HomeOf <- TwoHomes
  MaxBegun = 3
SYMMETRY Interchangeable
INVARIANTS RowsBelong RestoredWell FileSticks OneAtATime
PROPERTIES NothingGoesSilently CooldownLasts
CHECK_DEADLOCK FALSE
