SPECIFICATION Spec
CONSTANTS
  Tenants = {t1, t2}
  Models = {m1, m2}
  Labels = {v1, v2}
  Ids = {i1, i2, i3}
  Sessions = {s1, s2}
  None = None
SYMMETRY RegistrySymmetry
INVARIANTS TypeOK SomeActive OneActivePerAuthor RollbackSound
PROPERTY HistoryKept
