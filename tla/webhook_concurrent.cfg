SPECIFICATION Spec
CONSTANTS
  s1 = s1
  s2 = s2
  t1 = t1
  e1 = e1
  Tenants = {t1}
  Subscriptions = {s1}
  Events = {e1}
  TenantOf <- MCTenantOf
  FilterOf <- MCFilterOf
  TypeOf <- MCTypeOf
  Dispatchers = {d1, d2}
  Workers = {w1, w2}
  Replayers = {r1, r2}
  MaxRetries = 3
  BatchSize = 1
  ReplayLimit = 1
SYMMETRY SessionSymmetry
INVARIANTS TypeOK DeliveredWasAcknowledged DeadLetterJustified AnsweredIsQueued
PROPERTIES PendingAgainByReplay
