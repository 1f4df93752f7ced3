SPECIFICATION Spec
CONSTANTS
  Accounts = {x1}
  Names = {n1}
  Agents = {a1}
  OperatorWorkers = {w1}
  AgentWorkers = {w2, w3}
  Decisions = {}
  StoreErrors = FALSE
  CloudChanges = FALSE
  MaxJobs = 2
  MaxTime = 2
  Bootstrapped = {}
  MaxRetries = 1
  Faults = {}
  AgentAccount <- OneAccount
  a1 = a1
  a2 = a2
  x1 = x1
  x2 = x2
  None = None
INVARIANT SeenIsActive
CHECK_DEADLOCK FALSE
