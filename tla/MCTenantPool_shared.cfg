CONSTANTS
  t1 = t1
  t2 = t2
  c1 = c1
  c2 = c2
  h1 = h1
  h2 = h2
  Tenants <- MCTenants
  Zero <- MCZero
  Existing <- MCExisting
  Callers <- MCCallers
  Handles <- MCHandles
  NoHandle = NoHandle
  TotalLimit = 1
  IdleTimeout = 1
  Horizon = 2
SPECIFICATION FairSpec
INVARIANTS
  TypeOK
  OneOwner
  LimitHolds
  EvictedIsIdle
  ServedHasSchema
PROPERTY GetReturns
CHECK_DEADLOCK FALSE
