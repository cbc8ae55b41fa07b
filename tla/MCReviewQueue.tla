---------------------------- MODULE MCReviewQueue ----------------------------
(* The model-checked instances of ReviewQueue: requests, reviewers and task *)
(* ids are interchangeable.                                                 *)
EXTENDS ReviewQueue, TLC

QueueSymmetry ==
  Permutations(Queuers) \cup Permutations(Reviewers) \cup Permutations(Tasks)

=============================================================================
