SPECIFICATION FairSpec
CONSTANTS
  Documents = {d1}
  Tasks = {k1, k2}
  Queuers = {q1, q2}
  Reviewers = {r1}
  None = None
INVARIANTS TypeOK OneOpenPerAuthor
PROPERTIES ImplementsReviewLifecycle EventuallyCompleted
