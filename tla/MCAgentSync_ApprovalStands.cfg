SPECIFICATION Spec
CONSTANTS
  Accounts = {x1}
  Names = {}
  Agents = {a1}
  OperatorWorkers = {w1}
  AgentWorkers = {w2}
  Decisions = {"approved", "rejected"}
  StoreErrors = FALSE
  CloudChanges = FALSE
  MaxJobs = 2
  MaxTime = 2
  Bootstrapped = {a1}
  MaxRetries = 1
  Faults = {}
  AgentAccount <- OneAccount
  a1 = a1
  a2 = a2
  x1 = x1
  x2 = x2
  None = None
PROPERTY ApprovalStands
CHECK_DEADLOCK FALSE
