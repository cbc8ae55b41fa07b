SPECIFICATION Spec
CONSTANTS
  Tenants = {t1, t2}
  Users = {u1}
  Roles = {r1, r2}
  Tokens = {k1, k2, k3, k4}
  Sessions = {s1, s2}
  None = None
SYMMETRY TokenSymmetry
INVARIANTS TypeOK RevokedWhenRefreshed OneSuccessorPerSession MembershipBacksToken
PROPERTY CommittedStays
