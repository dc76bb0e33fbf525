\* Accounts, limits, web SSH and its host keys, bans.
SPECIFICATION PartSpec
CONSTANTS
  None = None  c1 = c1  c2 = c2  s1 = s1  s2 = s2
  Conns = {c1, c2}
  Names = {"ann", "bob"}  Fold <- LowerCase  Password = {"p", "q"}  Secrets = {"s", "t"}
  Browsers = {"r1", "r2"}  MaxKeys = 1
  FewNames = {"ann"}  FewSecrets = {"s"}  FewBrowsers = {"r1"}
  MaxOneByOne = 5  MaxSecondFactor = 6  MaxElected = 4
  Sessions = {s1, s2}  Users = {"ann", "bob"}  Instances = {"box"}  Owned <- OwnedBy
  MaxPerUser = 1  MaxPerInstance = 1
  Guessing <- SomeGuessing  Trail <- SomeTrail  Barring <- SomeBans
  Types = {"ed25519", "rsa"}
  Rank <- RankOf
  MaxGen = 2  MaxForgets = 1  MaxTries = 2
SYMMETRY Interchangeable
INVARIANTS SignedInRightly GuardsHold LimitsHold OneKeyPerPin
PROPERTIES RevokedStays
CHECK_DEADLOCK FALSE
