SPECIFICATION InventorySpec
CONSTANTS
  AddrBits = 3
  MinPrefix = 1
  MaxPrefix = 2
  Reserved <- MCReserved
  CIDRs <- MCCIDRs
  Keys = {k1}
  Metas = {m1}
  Schemas <- MCSchemas
  Clients = {c1, c2}
  StoreErrors = TRUE
  MaxPools = 2
  MaxAccounts = 1
  None = None
  Configs <- MCConfigs
  Addresses = {"A", "P", "C"}
  Untracked = Untracked
  Nothing = Nothing
  MaxObjects = 6
  MaxApplies = 2
  MaxForeign = 1
  MaxLost = 1
  ObjectHandlers = {o1, o2}
  FirstThings <- MCThings
  Creations <- MCCreations
  Patches <- MCPatches
  ConflictIds = {x}
  MaxThings = 2
  MaxTasks = 2
  MaxChanges = 1
SYMMETRY InventorySymmetry
INVARIANTS
  TypeOK
  TreeIntact
  OverlapOnlyByRace
  RequestsSound
  AppliedExact
  UntrackedOnlyByLoss
PROPERTIES
  DeletesClean
  Tombstones
  AskedStands
CHECK_DEADLOCK FALSE
