SPECIFICATION ScenarioSpec
CONSTANTS
  Accounts = {x1}
  Names = {n1, n2}
  Agents = {a1, a2}
  OperatorWorkers = {w1, w4}
  AgentWorkers = {w2, w3}
  Decisions = {}
  StoreErrors = TRUE
  CloudChanges = TRUE
  MaxJobs = 3
  MaxTime = 3
  Bootstrapped = {}
  MaxRetries = 1
  Faults = {"timeout", "crash", "scan"}
  AgentAccount <- OneAccount
  a1 = a1
  a2 = a2
  x1 = x1
  x2 = x2
  None = None
SYMMETRY AgentSymmetry
INVARIANTS
  TypeOK
  WorkOwned
PROPERTIES
  JobLifecycle
  LocalSyncExact
CHECK_DEADLOCK FALSE
