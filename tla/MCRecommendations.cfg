SPECIFICATION PlanningSpec
CONSTANTS
  AddrBits = 3
  MinPrefix = 1
  MaxPrefix = 3
  Reserved <- MCReserved
  CIDRs <- MCCIDRs
  Keys = {}
  Metas = {m1}
  Schemas = {}
  Clients = {c1}
  StoreErrors = TRUE
  MaxPools = 3
  MaxAccounts = 0
  None = None
  MaxSubnetExpansion = 2
  Planners = {g1, g2}
  Private <- MCPrivate
  Targets = {1}
  Stored <- MCStored
  ParentMetas = {}
  MaxRecs = 2
  Installations <- MCInstallations
  Plans <- MCPlans
  MaxFile = 3
  MaxBulk = 2
  MaxOthers = 1
SYMMETRY Symmetry
INVARIANTS
  FreeSpaceExact
  AllocationsSound
  TreeCopied
PROPERTIES
  SettledStays
CHECK_DEADLOCK FALSE
