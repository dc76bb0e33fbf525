\* The allowance, the firewall, tags, launch metadata, public addresses and notifications.
SPECIFICATION PartSpec
CONSTANTS
  None = None  x1 = x1  x2 = x2  x3 = x3
  FreeA1 = 2  PaidA1 = 4  FreeE2 = 2  FreeDisk = 4  MaxDisk = 6
  Settings <- Everyone
  Subnets = {"one", "two"}  Lists = {1, 2}  Groups = {11, 12, 13}  ListsOf <- Shared  Mine = {1}
  TagRequests = {x1, x2, x3}
  Launching <- FreeLaunches  Growing <- FreeVolumes  Judging <- FreeRules
  Repairing <- TwoRepairs  Editing <- TwoEdits  Reporting <- OneVerdict
  Rotating <- TwoAddresses  Overlapping <- TwoAskers  Dying <- OneAfterOther
  Recording <- TwoRuns  Handling <- KilledRuns  Publishing <- TwoWriters
  SeveralPages <- TwoPages  OnePage <- SinglePage
SYMMETRY Interchangeable
INVARIANTS WithinFree VerdictsAgree AddressesHold MetadataRight NoticesAreTrue
PROPERTIES NothingElseGoes NobodyIsHit TruthIsTold
CHECK_DEADLOCK FALSE
