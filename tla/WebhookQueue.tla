---------------------------- MODULE WebhookQueue ----------------------------
(***************************************************************************)
(* The outbound webhook queue: services/webhooks/service.py behind the     *)
(* /api/v1/webhooks endpoints of apps/api-gateway/main.py, over the tables *)
(* webhook_subscriptions and webhook_deliveries.                           *)
(*                                                                         *)
(* Every request runs in a database session of its own and ends in one     *)
(* commit.  Nothing is locked: a session selects rows, works on the copies *)
(* it loaded and writes back, at commit, the columns it changed.  Several  *)
(* sessions of each kind (dispatch, worker run, replay) run at once.       *)
(***************************************************************************)
EXTENDS Naturals, FiniteSets

CONSTANTS
  Tenants,        \* tenant ids
  Subscriptions,  \* webhook_subscriptions ids
  Events,         \* events to dispatch: an event type with a payload
  TenantOf,       \* TenantOf[s]: tenant of subscription s
  FilterOf,       \* FilterOf[s]: event_filter of subscription s
  TypeOf,         \* TypeOf[e]: event type of event e
  Dispatchers,    \* concurrent dispatch requests
  Workers,        \* concurrent worker runs
  Replayers,      \* concurrent dead-letter replays
  MaxRetries,     \* settings.webhook_max_retries
  BatchSize,      \* batch_size of a worker run
  ReplayLimit     \* limit of a replay

ASSUME BoundsAssumption ==
  /\ MaxRetries \in Nat \ {0}
  /\ BatchSize \in Nat \ {0}
  /\ ReplayLimit \in Nat \ {0}

ASSUME SubscriptionAssumption ==
  /\ TenantOf \in [Subscriptions -> Tenants]
  /\ DOMAIN FilterOf = Subscriptions
  /\ DOMAIN TypeOf = Events

ASSUME SessionAssumption == Workers \cap Replayers = {}

VARIABLES
  subscription,  \* subscription[s]: "none" before it is created, then active or not
  row,           \* row[k]: the committed webhook_deliveries row of key k, or NoRow
  request,       \* request[d]: the open dispatch request of d
  seen,          \* seen[s][k]: the row as session s loaded it
  outcome,       \* outcome[s][k]: what session s did to it so far
  answered,      \* keys of the deliveries that dispatch requests answered for
  acknowledged,  \* acknowledged[k]: the receiver answered a POST of k with success
  tried          \* POSTs made of k, counted up to MaxRetries

vars == <<subscription, row, request, seen, outcome, answered, acknowledged, tried>>

(* The idempotency key of a delivery: subscription, event type and payload  *)
(* digest.  The table has a unique constraint on it, so it names the row.   *)
Keys == Subscriptions \X Events

Sessions == Workers \cup Replayers

Queued == {"pending", "retry_scheduled"}

Statuses == Queued \cup {"absent", "delivered", "dead_lettered"}

(* next_attempt_at is kept as whether it has passed, the other timestamps as *)
(* whether they are set; last_error, which no code reads, is left out.       *)
Row == [status : Statuses, attempt_count : Nat, due : BOOLEAN,
        delivered_at : BOOLEAN, dead_lettered_at : BOOLEAN]

NoRow == [status |-> "absent", attempt_count |-> 0, due |-> FALSE,
          delivered_at |-> FALSE, dead_lettered_at |-> FALSE]

NewRow == [NoRow EXCEPT !.status = "pending", !.due = TRUE]

Outcomes == {"none", "selected", "delivered", "retry", "exhausted", "inactive", "replay"}

Request == [open : BOOLEAN, matched : SUBSET Keys, todo : SUBSET Keys, adding : SUBSET Keys]

Closed == [open |-> FALSE, matched |-> {}, todo |-> {}, adding |-> {}]

Active(k) == subscription[k[1]] = "active"

Exists(k) == row[k].status # "absent"

TypeOK ==
  /\ subscription \in [Subscriptions -> {"none", "active", "inactive"}]
  /\ row \in [Keys -> Row]
  /\ request \in [Dispatchers -> Request]
  /\ seen \in [Sessions -> [Keys -> Row]]
  /\ outcome \in [Sessions -> [Keys -> Outcomes]]
  /\ answered \in SUBSET Keys
  /\ acknowledged \in [Keys -> BOOLEAN]
  /\ tried \in [Keys -> 0..MaxRetries]

Idle(s) == outcome[s] = [k \in Keys |-> "none"]

Init ==
  /\ subscription = [s \in Subscriptions |-> "none"]
  /\ row = [k \in Keys |-> NoRow]
  /\ request = [d \in Dispatchers |-> Closed]
  /\ seen = [s \in Sessions |-> [k \in Keys |-> NoRow]]
  /\ outcome = [s \in Sessions |-> [k \in Keys |-> "none"]]
  /\ answered = {}
  /\ acknowledged = [k \in Keys |-> FALSE]
  /\ tried = [k \in Keys |-> 0]

-----------------------------------------------------------------------------
(* Subscriptions. *)

CreateSubscription(s) ==
  /\ subscription[s] = "none"
  /\ subscription' = [subscription EXCEPT ![s] = "active"]
  /\ UNCHANGED <<row, request, seen, outcome, answered, acknowledged, tried>>

(* No endpoint clears webhook_subscriptions.active, which every query tests: *)
(* an operator does, in the database.                                        *)
Deactivate(s) ==
  /\ subscription[s] = "active"
  /\ subscription' = [subscription EXCEPT ![s] = "inactive"]
  /\ UNCHANGED <<row, request, seen, outcome, answered, acknowledged, tried>>

-----------------------------------------------------------------------------
(* Dispatch: select the subscriptions, look each key up, insert the new ones *)
(* in one transaction.                                                       *)

DispatchSelect(d, t, e) ==
  /\ ~request[d].open
  /\ LET matched == {k \in Keys : /\ k[2] = e
                                  /\ Active(k)
                                  /\ TenantOf[k[1]] = t
                                  /\ FilterOf[k[1]] = TypeOf[e]}
     IN request' = [request EXCEPT ![d] =
                      [open |-> TRUE, matched |-> matched, todo |-> matched, adding |-> {}]]
  /\ UNCHANGED <<subscription, row, seen, outcome, answered, acknowledged, tried>>

DispatchCheck(d, k) ==
  /\ k \in request[d].todo
  /\ request' = [request EXCEPT ![d].todo = @ \ {k},
                                ![d].adding = IF Exists(k) THEN @ ELSE @ \cup {k}]
  /\ UNCHANGED <<subscription, row, seen, outcome, answered, acknowledged, tried>>

\* Mutant: the insert overwrites a row that is there (ON CONFLICT UPDATE).
DispatchUpsert(d) ==
  /\ request[d].open
  /\ request[d].todo = {}
  /\ row' = [k \in Keys |-> IF k \in request[d].adding THEN NewRow ELSE row[k]]
  /\ answered' = answered \cup request[d].matched
  /\ request' = [request EXCEPT ![d] = Closed]
  /\ UNCHANGED <<subscription, seen, outcome, acknowledged, tried>>

(* The commit inserts every new row or, when one of the keys is taken by now, *)
(* none (DispatchAbort).                                                      *)
DispatchCommit(d) ==
  /\ request[d].open
  /\ request[d].todo = {}
  /\ \A k \in request[d].adding : ~Exists(k)
  /\ row' = [k \in Keys |-> IF k \in request[d].adding THEN NewRow ELSE row[k]]
  /\ answered' = answered \cup request[d].matched
  /\ request' = [request EXCEPT ![d] = Closed]
  /\ UNCHANGED <<subscription, seen, outcome, acknowledged, tried>>

\* Mutant: the request swallows the error and answers all the same.
DispatchSwallow(d) ==
  /\ request[d].open
  /\ answered' = answered \cup request[d].matched
  /\ request' = [request EXCEPT ![d] = Closed]
  /\ UNCHANGED <<subscription, row, seen, outcome, acknowledged, tried>>

(* IntegrityError on the unique constraint, a lost connection, a crash. *)
DispatchAbort(d) ==
  /\ request[d].open
  /\ request' = [request EXCEPT ![d] = Closed]
  /\ UNCHANGED <<subscription, row, seen, outcome, answered, acknowledged, tried>>

-----------------------------------------------------------------------------
(* Worker runs and replays: a session loads a batch, works on its copies,   *)
(* and commits them together.                                               *)

Load(s, batch, as) ==
  /\ seen' = [seen EXCEPT ![s] = [k \in Keys |-> IF k \in batch THEN row[k] ELSE NoRow]]
  /\ outcome' = [outcome EXCEPT ![s] = [k \in Keys |-> IF k \in batch THEN as ELSE "none"]]

Close(s) ==
  /\ seen' = [seen EXCEPT ![s] = [k \in Keys |-> NoRow]]
  /\ outcome' = [outcome EXCEPT ![s] = [k \in Keys |-> "none"]]

\* Mutant: only dead-lettered rows are left out.
DueWhateverStatus(t) ==
  {k \in Keys : TenantOf[k[1]] = t /\ Exists(k) /\ row[k].status # "dead_lettered" /\ row[k].due}

\* Mutant: retries are not picked up.
DuePending(t) == {k \in Keys : TenantOf[k[1]] = t /\ row[k].status = "pending" /\ row[k].due}

(* Due rows, oldest first, at most BatchSize.  Which of the due rows are     *)
(* oldest is left open: any full batch of them may be picked.                *)
Due(t) == {k \in Keys : TenantOf[k[1]] = t /\ row[k].status \in Queued /\ row[k].due}

WorkerSelect(w, t, batch) ==
  /\ Idle(w)
  /\ batch \subseteq Due(t)
  /\ batch # {}
  /\ Cardinality(batch) <= BatchSize
  /\ batch = Due(t) \/ Cardinality(batch) = BatchSize
  /\ Load(w, batch, "selected")
  /\ UNCHANGED <<subscription, row, request, answered, acknowledged, tried>>

(* _attempt_delivery when the subscription is gone: no POST, nothing counted. *)
AttemptInactive(w, k) ==
  /\ outcome[w][k] = "selected"
  /\ ~Active(k)
  /\ outcome' = [outcome EXCEPT ![w][k] = "inactive"]
  /\ UNCHANGED <<subscription, row, request, seen, answered, acknowledged, tried>>

CountPost(k) == tried' = [tried EXCEPT ![k] = IF @ < MaxRetries THEN @ + 1 ELSE @]

(* The POST is answered with success. *)
AttemptSuccess(w, k) ==
  /\ outcome[w][k] = "selected"
  /\ Active(k)
  /\ CountPost(k)
  /\ acknowledged' = [acknowledged EXCEPT ![k] = TRUE]
  /\ outcome' = [outcome EXCEPT ![w][k] = "delivered"]
  /\ UNCHANGED <<subscription, row, request, seen, answered>>

\* Mutant: an error answer is taken for a success (no raise_for_status).
FailureUnchecked(attempts) == "delivered"

\* Mutant: one attempt too few.
FailureOffByOne(attempts) == IF attempts + 1 >= MaxRetries THEN "exhausted" ELSE "retry"

\* Mutant: one attempt too many.
FailureTooLate(attempts) == IF attempts > MaxRetries THEN "exhausted" ELSE "retry"

Failure(attempts) == IF attempts >= MaxRetries THEN "exhausted" ELSE "retry"

(* The POST times out, is refused or answered with an error; the attempt     *)
(* counts, and the last one allowed dead-letters the delivery.               *)
AttemptFailure(w, k) ==
  /\ outcome[w][k] = "selected"
  /\ Active(k)
  /\ CountPost(k)
  /\ outcome' = [outcome EXCEPT ![w][k] =
                   Failure(seen[w][k].attempt_count + 1)]
  /\ UNCHANGED <<subscription, row, request, seen, answered, acknowledged>>

\* Mutant: a replay by ids does not look at the status.
ReplayableById(t) == {k \in Keys : TenantOf[k[1]] = t /\ Exists(k)}

Replayable(t) == {k \in Keys : TenantOf[k[1]] = t /\ row[k].status = "dead_lettered"}

(* Dead-lettered rows of the tenant, the ones named or the latest.  Any set   *)
(* of at most ReplayLimit rows can be named.                                  *)
ReplaySelect(r, t, batch) ==
  /\ Idle(r)
  /\ batch \subseteq Replayable(t)
  /\ batch # {}
  /\ Cardinality(batch) <= ReplayLimit
  /\ Load(r, batch, "replay")
  /\ UNCHANGED <<subscription, row, request, answered, acknowledged, tried>>

(* A column is in the UPDATE only when its new value differs from the loaded *)
(* one; every timestamp assigned is a new value.                             *)
Net(loaded, new, current) == IF new = loaded THEN current ELSE new

AfterDelivery(was, now) ==
  [now EXCEPT !.status = "delivered", !.delivered_at = TRUE,
              !.attempt_count = was.attempt_count + 1]

AfterRetry(was, now) ==
  [now EXCEPT !.status = Net(was.status, "retry_scheduled", @), !.due = FALSE,
              !.attempt_count = was.attempt_count + 1]

\* Mutant: the exhausted delivery gets a status that no query knows.
AfterExhaustionFailed(was, now) ==
  [now EXCEPT !.status = "failed", !.dead_lettered_at = TRUE,
              !.attempt_count = was.attempt_count + 1]

AfterExhaustion(was, now) ==
  [now EXCEPT !.status = "dead_lettered", !.dead_lettered_at = TRUE,
              !.attempt_count = was.attempt_count + 1]

AfterInactive(was, now) ==
  [now EXCEPT !.status = "dead_lettered", !.dead_lettered_at = TRUE]

\* Mutant: the attempts made before the replay go on counting.
AfterReplayCounted(was, now) ==
  [now EXCEPT !.status = "pending", !.due = TRUE,
              !.dead_lettered_at = Net(was.dead_lettered_at, FALSE, @)]

AfterReplay(was, now) ==
  [now EXCEPT !.status = "pending", !.due = TRUE,
              !.attempt_count = Net(was.attempt_count, 0, @),
              !.dead_lettered_at = Net(was.dead_lettered_at, FALSE, @)]

(* The row after the UPDATE of a session that loaded it as was. *)
Written(o, was, now) ==
  CASE o = "delivered" -> AfterDelivery(was, now)
    [] o = "retry"     -> AfterRetry(was, now)
    [] o = "exhausted" -> AfterExhaustion(was, now)
    [] o = "inactive"  -> AfterInactive(was, now)
    [] o = "replay"    -> AfterReplay(was, now)
    [] OTHER           -> now

Commit(s) ==
  /\ ~Idle(s)
  /\ \A k \in Keys : outcome[s][k] # "selected"
  /\ row' = [k \in Keys |-> Written(outcome[s][k], seen[s][k], row[k])]
  /\ Close(s)
  /\ UNCHANGED <<subscription, request, answered, acknowledged, tried>>

(* The request dies before its commit: the process is killed, the connection *)
(* is lost, resolve_secret raises.  Nothing is written; POSTs stay made.     *)
Abort(s) ==
  /\ ~Idle(s)
  /\ Close(s)
  /\ UNCHANGED <<subscription, row, request, answered, acknowledged, tried>>

(* Time reaches next_attempt_at. *)
Elapse(k) ==
  /\ Exists(k)
  /\ ~row[k].due
  /\ row' = [row EXCEPT ![k].due = TRUE]
  /\ UNCHANGED <<subscription, request, seen, outcome, answered, acknowledged, tried>>

-----------------------------------------------------------------------------
Next ==
  \/ \E s \in Subscriptions : CreateSubscription(s) \/ Deactivate(s)
  \/ \E d \in Dispatchers :
       \/ \E t \in Tenants, e \in Events : DispatchSelect(d, t, e)
       \/ \E k \in Keys : DispatchCheck(d, k)
       \/ DispatchCommit(d)
       \/ DispatchAbort(d)
  \/ \E w \in Workers :
       \/ \E t \in Tenants, batch \in SUBSET Keys : WorkerSelect(w, t, batch)
       \/ \E k \in Keys : AttemptInactive(w, k) \/ AttemptSuccess(w, k) \/ AttemptFailure(w, k)
  \/ \E r \in Replayers, t \in Tenants, batch \in SUBSET Keys : ReplaySelect(r, t, batch)
  \/ \E s \in Sessions : Commit(s) \/ Abort(s)
  \/ \E k \in Keys : Elapse(k)

Spec == Init /\ [][Next]_vars

-----------------------------------------------------------------------------
(* Fairness.  Worker runs keep being started (a scheduled job, or the API)   *)
(* and pick a due delivery sooner or later, because rows are taken oldest    *)
(* first; each POST ends, by its timeout at the latest; a run with no POST   *)
(* left commits.                                                             *)
FairWorkers ==
  \A w \in Workers :
    /\ WF_vars(Commit(w))
    /\ \A k \in Keys :
         /\ SF_vars(\E t \in Tenants, batch \in SUBSET Keys :
                      k \in batch /\ WorkerSelect(w, t, batch))
         /\ WF_vars(AttemptInactive(w, k) \/ AttemptSuccess(w, k) \/ AttemptFailure(w, k))

(* Runs are killed any number of times, but not forever: a run that dies      *)
(* counts no attempt, so a queue whose every run dies makes no progress.     *)
KillsCease == <>[][\A w \in Workers : ~Abort(w)]_vars

FairTime == \A k \in Keys : WF_vars(Elapse(k))

FairSpec == Spec /\ FairWorkers /\ FairTime /\ KillsCease

-----------------------------------------------------------------------------
(* Safety, for any number of sessions of each kind. *)

(* A delivery is recorded as delivered only when its receiver acknowledged a *)
(* POST of it: no stale write, batch or replay marks one it never reached.   *)
DeliveredWasAcknowledged == \A k \in Keys : row[k].status = "delivered" => acknowledged[k]

(* A delivery is dead-lettered only after webhook_max_retries POSTs of it, or *)
(* because its subscription is off, whatever sessions overlapped and whatever *)
(* they wrote over each other's attempt_count.                                *)
DeadLetterJustified ==
  \A k \in Keys : row[k].status = "dead_lettered" =>
    tried[k] = MaxRetries \/ subscription[k[1]] = "inactive"

(* The column that says when is set whenever the status says so.             *)
StatusStamped ==
  \A k \in Keys : /\ row[k].status = "delivered" => row[k].delivered_at
                  /\ row[k].status = "dead_lettered" => row[k].dead_lettered_at

(* Every subscription a dispatch request was answered for has its delivery:  *)
(* a request that finds the key taken relies on a row that is committed.     *)
AnsweredIsQueued == \A k \in answered : Exists(k)

(* A delivery that was picked up goes back to pending only by a replay that   *)
(* found it dead-lettered: dispatching the same event again, even while it is *)
(* tried or after it was delivered, re-sends nothing, nor does a stale write. *)
PendingAgainByReplay ==
  [][\A k \in Keys :
       Exists(k) /\ row[k].status # "pending" /\ row'[k].status = "pending" =>
         \E r \in Replayers : outcome[r][k] = "replay" /\ seen[r][k].status = "dead_lettered"]_vars

-----------------------------------------------------------------------------
(* Safety when worker runs do not overlap each other and replays do not      *)
(* either.                                                                   *)

OneAtATime(S) == \A s, u \in S : s = u

Serial == OneAtATime(Workers) /\ OneAtATime(Replayers)

(* A session that has rows in hand has them as they are in the table, but    *)
(* for the time that has passed: nothing it writes back is stale.            *)
SeenIsCurrent ==
  \A s \in Sessions, k \in Keys : outcome[s][k] # "none" =>
    /\ row[k].status = seen[s][k].status
    /\ row[k].attempt_count = seen[s][k].attempt_count

(* Delivered is final: no replay, retry or second run re-opens a delivery.   *)
DeliveredIsFinal ==
  [][\A k \in Keys : row[k].status = "delivered" => row'[k].status = "delivered"]_vars

(* The timestamps tell the status: a row carries dead_lettered_at exactly    *)
(* while it is dead-lettered and delivered_at exactly when it is delivered.  *)
StampsMatch ==
  \A k \in Keys : /\ row[k].delivered_at <=> row[k].status = "delivered"
                  /\ row[k].dead_lettered_at <=> row[k].status = "dead_lettered"

(* With at most one worker run and one replay at a time a delivery in the    *)
(* queue has attempts left: one whose last attempt failed does not linger    *)
(* there to be sent once too often, and a replayed one starts afresh instead *)
(* of being dead-lettered by its first failure, whatever is killed.          *)
AttemptLeft ==
  \A k \in Keys : row[k].status \in Queued => row[k].attempt_count < MaxRetries

(* The queue as its users see it. *)
StageOf(status) ==
  CASE status \in Queued -> "queued"
    [] status = "absent" -> "none"
    [] status = "delivered" -> "delivered"
    [] status = "dead_lettered" -> "dead"

Lifecycle == INSTANCE DeliveryLifecycle WITH
               stage <- [k \in Keys |-> StageOf(row[k].status)],
               unwanted <- [k \in Keys |-> subscription[k[1]] = "inactive"]

(* The table, the sessions and their commits implement the life cycle.       *)
ImplementsLifecycle == Lifecycle!Spec

(* Every delivery in the queue is eventually delivered or dead-lettered,     *)
(* though runs are killed, endpoints fail and commits are lost.              *)
EventuallySettled ==
  \A k \in Keys : (row[k].status \in Queued) ~> (row[k].status \in {"delivered", "dead_lettered"})

(* RISKS R-006 calls dead_lettered a terminal state: short of an explicit    *)
(* replay, a delivery whose attempts were used up stays there.               *)
DeadLetterIsTerminal ==
  [][\A k \in Keys :
       row[k].status = "dead_lettered" /\ row'[k].status # "dead_lettered" /\ Active(k)
         => \E r \in Replayers : Commit(r)]_vars

=============================================================================
