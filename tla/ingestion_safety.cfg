SPECIFICATION Spec
CONSTANTS
  c1 = c1
  c2 = c2
  c3 = c3
  k1 = k1
  k2 = k2
  p1 = p1
  p2 = p2
  p3 = p3
  None = None
  KeyOf <- MCKeyOf
  PayloadOf <- MCPayloadOf
  Clients = {c1, c2, c3}
  Keys = {k1, k2}
  Payloads = {p1, p2, p3}
  Malformed = {p3}
  Sessions = {s1, s2}
  Documents = {d1, d2, d3, d4}
  MaxFailures = 2
SYMMETRY IntakeSymmetry
INVARIANTS TypeOK SameAnswer CommittedIsComplete
PROPERTY ImplementsIdempotentStore
