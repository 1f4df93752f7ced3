CONSTANTS
  c1 = c1
  c2 = c2
  Callers = {c1, c2}
  SqlCIDRs = {"b1", "b2", "b3"}
  SqlKeys = {"k1"}
  SeedPools <- MCSeedPools
  SeedAccounts <- MCSeedAccounts
  Connections <- MCConnections
  MaxRows = 4
  MaxStarts = 2
  MaxErrors = 1
  Nil = Nil
  Admins = {a1, a2}
  MaxTriggers = 2
  MaxCrashes = 1
  Missing = Missing
  Questions = {"q1"}
  Capacity = 2
  MaxDeltas = 3
  Replicas = {p1, p2}
  Deployments <- MCDeployments
  Releases = {1, 2}
  Setups = {"s1", "root"}
  MaxTroubles = 1
  Unset = Unset
SPECIFICATION StreamsSpec
INVARIANTS
  NoTwins
  MigratedOnce
  SetupByRaceOnly
PROPERTIES
  SqlDeletesClean
  CallsReturn
  UpgradeEnds
  RequestLostOnlyByRace
  ChatEnds
  StartedServes
CHECK_DEADLOCK FALSE
