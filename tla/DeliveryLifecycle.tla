------------------------- MODULE DeliveryLifecycle -------------------------
(***************************************************************************)
(* What the webhook queue promises for each delivery, without sessions,    *)
(* batches, retries or timestamps: a delivery is queued once, is marked    *)
(* delivered only after its receiver acknowledged it and then stays so,    *)
(* and is given up only when its attempts are used up or its subscription  *)
(* is switched off; a delivery that was given up may be queued again.      *)
(***************************************************************************)
EXTENDS Naturals

CONSTANTS
  Keys,        \* the idempotency keys, one per delivery
  MaxRetries   \* settings.webhook_max_retries

VARIABLES
  stage,         \* stage[k]: where delivery k stands
  acknowledged,  \* the receiver of k answered a POST of k with success
  tried,         \* POSTs made for k, counted up to MaxRetries
  unwanted       \* the subscription of k is switched off

vars == <<stage, acknowledged, tried, unwanted>>

Stages == {"none", "queued", "delivered", "dead"}

Init ==
  /\ stage = [k \in Keys |-> "none"]
  /\ acknowledged = [k \in Keys |-> FALSE]
  /\ tried = [k \in Keys |-> 0]
  /\ unwanted = [k \in Keys |-> FALSE]

(* The moves one delivery may make in a step; a committed transaction moves *)
(* several deliveries at once.                                              *)
Enqueue(k) == stage[k] = "none" /\ stage'[k] = "queued"

Deliver(k) == stage[k] = "queued" /\ acknowledged[k] /\ stage'[k] = "delivered"

GiveUp(k) ==
  /\ stage[k] = "queued"
  /\ tried[k] = MaxRetries \/ unwanted[k]
  /\ stage'[k] = "dead"

Requeue(k) == stage[k] = "dead" /\ stage'[k] = "queued"

Stay(k) == stage'[k] = stage[k]

Move ==
  /\ stage' \in [Keys -> Stages]
  /\ \A k \in Keys : Stay(k) \/ Enqueue(k) \/ Deliver(k) \/ GiveUp(k) \/ Requeue(k)
  /\ UNCHANGED <<acknowledged, tried, unwanted>>

(* One POST is made for a delivery, and its receiver may acknowledge it. *)
Post ==
  /\ \E k \in Keys :
       /\ stage[k] = "queued"
       /\ tried' = [tried EXCEPT ![k] = IF @ < MaxRetries THEN @ + 1 ELSE @]
       /\ acknowledged' \in {acknowledged, [acknowledged EXCEPT ![k] = TRUE]}
  /\ UNCHANGED <<stage, unwanted>>

(* Subscriptions are switched off for good, each with all its deliveries. *)
SwitchOff ==
  /\ unwanted' \in [Keys -> BOOLEAN]
  /\ \A k \in Keys : unwanted[k] => unwanted'[k]
  /\ UNCHANGED <<stage, acknowledged, tried>>

Next == Move \/ Post \/ SwitchOff

Spec == Init /\ [][Next]_vars

=============================================================================
