CONSTANTS
  AddrBits = 4
  MinPrefix = 1
  MaxPrefix = 4
  Reserved = {}
  None = None
  Clients = {c}
  CIDRs <- MCCIDRs
  Keys = {"k"}
  Metas <- MCMetas
  Schemas = {}
  StoreErrors = TRUE
  MaxPools = 3
  MaxAccounts = 2
  Workers = {w1, w2}
  Resources = {1, 2, 3}
  Data <- MCData
  Names = {"v", "s", "u"}
  Selections <- MCSelections
  MaxDetections = 2
  HierarchyScope = "account"
  DuplicateScope = "global"
  InitialPools <- MCInitialPools
  InitialAccounts <- MCInitialAccounts
  MaxObjects = 2
  MaxTurns = 2
  Assets = {1, 2, 3}
  AssetData <- MCAssetData
  AccountProvider <- MCAccountProvider
  OrgMembers <- MCOrgMembers
  OrgExcluded = {}
  ScanRegions <- MCScanRegions
  PageSize = 1
  OrgRetries = 1
  Servers = {v1, v2}
  InitialRows <- MCInitialRows
  MaxRuns = 2
  MaxUpsets = 2
  NoScan = NoScan
SPECIFICATION CloudSpec
INVARIANTS
  ActionAllOrNothing
  ScanExact
PROPERTIES
  ImportsSound
  DriftSound
  ReportKept
SYMMETRY MCSymmetry
CHECK_DEADLOCK FALSE
