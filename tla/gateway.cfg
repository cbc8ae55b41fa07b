SPECIFICATION Spec
CONSTANTS
  Requests = {q1, q2}
  Clients = {c1}
  Limited = {p1}
  Scrape = Scrape
  MaxRequests = 2
  Window = 2
  MaxClock = 4
  MaxTotal = 3
SYMMETRY GatewaySymmetry
INVARIANTS TypeOK WindowNeverExceeded AnswerFitsTogether
PROPERTY ImplementsSlidingWindow
