SPECIFICATION FairSpec
CONSTANTS
  s1 = s1
  s2 = s2
  t1 = t1
  e1 = e1
  Tenants = {t1}
  Subscriptions = {s1, s2}
  Events = {e1}
  TenantOf <- MCTenantOf
  FilterOf <- MCFilterOf
  TypeOf <- MCTypeOf
  Dispatchers = {d1}
  Workers = {w1}
  Replayers = {r1}
  MaxRetries = 2
  BatchSize = 2
  ReplayLimit = 2
INVARIANT AttemptLeft
PROPERTIES ImplementsLifecycle EventuallySettled
