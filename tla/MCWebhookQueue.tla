--------------------------- MODULE MCWebhookQueue ---------------------------
(* Constants of the model-checked instances of WebhookQueue.                *)
EXTENDS WebhookQueue, TLC

CONSTANTS s1, s2, t1, e1

MCTenantOf == [s \in Subscriptions |-> t1]

MCFilterOf == [s \in Subscriptions |-> "document.received"]

MCTypeOf == [e \in Events |-> "document.received"]

(* Two dispatch requests are interchangeable, and so are two worker runs and *)
(* two replays.                                                              *)
SessionSymmetry ==
  Permutations(Dispatchers) \cup Permutations(Workers) \cup Permutations(Replayers)

=============================================================================
