CONSTANTS
  c1 = c1
  c2 = c2
  Callers = {c1, c2}
  SqlCIDRs = {"b1", "b2", "b3"}
  SqlKeys = {"k1"}
  SeedPools <- MCSeedPools
  SeedAccounts <- MCSeedAccounts
  Connections <- MCOneConnection
  MaxRows = 4
  MaxStarts = 1
  MaxErrors = 0
  Nil = Nil
SPECIFICATION Spec
PROPERTIES CallsReturn
CHECK_DEADLOCK FALSE
