SPECIFICATION Spec
CONSTANTS
  AddrBits = 3
  MinPrefix = 1
  MaxPrefix = 2
  Reserved <- MCReserved
  CIDRs <- MCCIDRs
  Keys = {k1}
  Metas = {m1}
  Schemas <- MCNoSchemas
  Clients = {c1, c2}
  StoreErrors = FALSE
  MaxPools = 2
  MaxAccounts = 1
  None = None
INVARIANT NoSiblingOverlap
