SPECIFICATION FairSpec
CONSTANTS
  j1 = j1
  t1 = t1
  t2 = t2
  None = None
  Jobs = {j1}
  Workers = {w1, w2}
  Tenants = {t1, t2}
  TenantOf <- OneTenant
  SoftGuarded = {j1}
  Eager = FALSE
  MaxRedeliveries = 2
  MaxCrashes = 1
INVARIANTS QueuedHasCarrier RunningHasExecutor SingleExecution OneVerdict
PROPERTIES ImplementsBoard RunningSettles QueuedIsServed
CHECK_DEADLOCK FALSE
