SPECIFICATION Spec
CONSTANTS
  Tenants = {t1}
  References = {x1}
  Carriers = {champ}
  Cases = {c1}
  Discrepancies = {d1}
  Disputes = {i1, i2}
  Sessions = {s1, s2}
  None = None
SYMMETRY CaseSymmetry
INVARIANTS TypeOK AcceptedIsRegistered RegisteredOnce SubscribersAgree
PROPERTY ImplementsCaseLifecycle
