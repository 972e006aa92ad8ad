SPECIFICATION Spec
CONSTANTS
  g1 = g1
  g2 = g2
  t1 = t1
  t2 = t2
  h1 = h1
  h2 = h2
  Goroutine = {g1, g2}
  Tenant = {t1, t2}
  Host = {h1, h2}
  TenantOf <- MCTenantOf
  Free = {1, 2}
  None = None
  MaxChanges = 1
INVARIANTS TypeOK OnePool OwnPool
PROPERTIES Answered SuspendedGoesQuiet
