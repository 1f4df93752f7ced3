SPECIFICATION FairSpec
CONSTANTS
  Accounts = {x1}
  Names = {n1}
  Agents = {a1}
  OperatorWorkers = {w1}
  AgentWorkers = {w2}
  Decisions = {"approved"}
  StoreErrors = FALSE
  CloudChanges = TRUE
  MaxJobs = 2
  MaxTime = 1
  Bootstrapped = {a1}
  MaxRetries = 1
  Faults = {"timeout", "crash"}
  AgentAccount <- OneAccount
  a1 = a1
  a2 = a2
  x1 = x1
  x2 = x2
  None = None
PROPERTIES
  PendingIsClaimed
CHECK_DEADLOCK FALSE
