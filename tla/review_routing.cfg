SPECIFICATION Spec
CONSTANTS
  Documents = {d1}
  Tasks = {k1, k2}
  Queuers = {q1, q2}
  Reviewers = {r1}
  None = None
SYMMETRY QueueSymmetry
PROPERTY FailedCheckIsQueued
