SPECIFICATION AccessSpec
CONSTANTS
  AddrBits = 3
  MinPrefix = 1
  MaxPrefix = 2
  Reserved <- MCReserved
  CIDRs <- MCCIDRs
  Keys = {k1}
  Metas = {m1}
  Schemas <- MCOneSchema
  Clients = {c1}
  StoreErrors = TRUE
  MaxPools = 3
  MaxAccounts = 1
  None = None
  Users = {u1}
  Handlers = {h1, h2}
  ActiveTTL = 1
  AccountLockoutAttempts = 1
  LockoutCooldown = 1
  MaxLag = 1
  SessionLimits = {1, 2}
  DefaultSessions = 2
  MaxLogins = 2
  MaxAdmin = 1
  MaxFailures = 1
  Absent = Absent
  Browsers = {h1, h2}
  Staff = {s1}
  Subjects = {"s"}
  CustomRoles = {"r"}
  MaxSignIns = 2
  MaxRequests = 2
  MaxUsers = 2
  Nobody = Nobody
  KeyHandlers = {h1, h2}
  Owners = {"u"}
  Admin = "admin"
  Policies <- MCPolicies
  Requested = {0, 3, Unasked}
  FirstKeys <- MCFirstKeys
  MaxRing = 1
  MaxAsks = 3
  MaxDay = 2
  Unasked = Unasked
SYMMETRY MCAccessSymmetry
INVARIANTS
  SessionsTrimmed
  DisabledWithin
  CacheFollowsStore
  RemindedByRaceOnly
PROPERTIES
  ImplementsRegistry
  TwinsOnlyByRace
  RolesInUseStay
  RevokedStays
CHECK_DEADLOCK FALSE
