\* The dedicated connection drops, lock files are missing or unusable now and then.
SPECIFICATION Spec
CONSTANTS
  NoOne = NoOne  a1 = a1  a2 = a2  w = w  api = api  worker = worker
  k1 = k1  k2 = k2  s1 = s1  s2 = s2
  Thread = {a1, a2, w}
  Process = {api, worker}
  ProcessOf <- Where
  Tenant = {k1, k2}
  Slot = {s1, s2}
  SlotOf <- OwnSlots
  Databases = {"postgresql", "sqlite"}
  PoolSize = 4
  MaxDepth = 1
  Faults = {"kill", "connect", "drop", "nofile"}
PROPERTIES IsProcessMutex
