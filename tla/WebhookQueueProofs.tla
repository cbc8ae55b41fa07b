------------------------- MODULE WebhookQueueProofs -------------------------
(***************************************************************************)
(* Theorems about the webhook queue, for every set of subscriptions,       *)
(* events and sessions and every limit.                                    *)
(***************************************************************************)
EXTENDS WebhookQueue, TLAPS

(* The UPDATE of each outcome. *)
LEMMA WrittenByOutcome ==
  ASSUME NEW was, NEW now
  PROVE  /\ Written("none", was, now) = now
         /\ Written("selected", was, now) = now
         /\ Written("delivered", was, now) = AfterDelivery(was, now)
         /\ Written("retry", was, now) = AfterRetry(was, now)
         /\ Written("exhausted", was, now) = AfterExhaustion(was, now)
         /\ Written("inactive", was, now) = AfterInactive(was, now)
         /\ Written("replay", was, now) = AfterReplay(was, now)
BY DEF Written

(* What each UPDATE writes is a row, and no UPDATE deletes one. *)
LEMMA UpdateType ==
  ASSUME NEW was \in Row, NEW now \in Row
  PROVE  /\ AfterDelivery(was, now) \in Row /\ AfterDelivery(was, now).status = "delivered"
         /\ AfterRetry(was, now) \in Row
         /\ AfterRetry(was, now).status \in {now.status, "retry_scheduled"}
         /\ AfterExhaustion(was, now) \in Row
         /\ AfterExhaustion(was, now).status = "dead_lettered"
         /\ AfterInactive(was, now) \in Row
         /\ AfterInactive(was, now).status = "dead_lettered"
         /\ AfterReplay(was, now) \in Row /\ AfterReplay(was, now).status = "pending"
<1> USE DEF Row, Statuses, Queued
<1>1. was.attempt_count + 1 \in Nat
  OBVIOUS
<1>2. AfterDelivery(was, now) \in Row /\ AfterDelivery(was, now).status = "delivered"
  BY <1>1 DEF AfterDelivery
<1>3. /\ AfterRetry(was, now) \in Row
      /\ AfterRetry(was, now).status \in {now.status, "retry_scheduled"}
  BY <1>1 DEF AfterRetry, Net
<1>4. /\ AfterExhaustion(was, now) \in Row
      /\ AfterExhaustion(was, now).status = "dead_lettered"
  BY <1>1 DEF AfterExhaustion
<1>5. AfterInactive(was, now) \in Row /\ AfterInactive(was, now).status = "dead_lettered"
  BY DEF AfterInactive
<1>6. AfterReplay(was, now) \in Row /\ AfterReplay(was, now).status = "pending"
  BY DEF AfterReplay, Net
<1> QED
  BY <1>2, <1>3, <1>4, <1>5, <1>6

LEMMA WrittenType ==
  ASSUME NEW o \in Outcomes, NEW was \in Row, NEW now \in Row
  PROVE  /\ Written(o, was, now) \in Row
         /\ now.status # "absent" => Written(o, was, now).status # "absent"
BY WrittenByOutcome, UpdateType DEF Outcomes

LEMMA RowConstants == NoRow \in Row /\ NewRow \in Row /\ Closed \in Request
BY DEF NoRow, NewRow, Row, Statuses, Queued, Closed, Request

LEMMA FailureOutcome ==
  ASSUME NEW n \in Nat
  PROVE  /\ Failure(n) \in {"exhausted", "retry"}
         /\ Failure(n) = "exhausted" => n >= MaxRetries
BY BoundsAssumption DEF Failure

LEMMA TypeInit == Init => TypeOK
BY RowConstants, BoundsAssumption DEF Init, TypeOK, Outcomes

LEMMA TypeNext == TypeOK /\ [Next]_vars => TypeOK'
<1> SUFFICES ASSUME TypeOK, [Next]_vars PROVE TypeOK'
  OBVIOUS
<1> USE DEF TypeOK
<1>1. ASSUME NEW s \in Subscriptions, CreateSubscription(s) \/ Deactivate(s) PROVE TypeOK'
  BY <1>1 DEF CreateSubscription, Deactivate
<1>2. ASSUME NEW d \in Dispatchers, NEW t \in Tenants, NEW e \in Events, DispatchSelect(d, t, e)
      PROVE TypeOK'
  <2> DEFINE matched == {k \in Keys : /\ k[2] = e
                                      /\ Active(k)
                                      /\ TenantOf[k[1]] = t
                                      /\ FilterOf[k[1]] = TypeOf[e]}
  <2>1. [open |-> TRUE, matched |-> matched, todo |-> matched, adding |-> {}] \in Request
    BY DEF Request
  <2> QED
    BY <1>2, <2>1 DEF DispatchSelect
<1>3. ASSUME NEW d \in Dispatchers, NEW k \in Keys, DispatchCheck(d, k) PROVE TypeOK'
  <2> DEFINE todo == request[d].todo \ {k}
             adding == IF Exists(k) THEN request[d].adding ELSE request[d].adding \cup {k}
  <2>1. todo \in SUBSET Keys /\ adding \in SUBSET Keys /\ request[d] \in Request
    BY DEF Request
  <2>2. request' = [request EXCEPT ![d] = [request[d] EXCEPT !.todo = todo, !.adding = adding]]
    BY <1>3, Zenon DEF DispatchCheck
  <2> HIDE DEF todo, adding
  <2>3. [request[d] EXCEPT !.todo = todo, !.adding = adding] \in Request
    BY <2>1 DEF Request
  <2> QED
    BY <1>3, <2>2, <2>3 DEF DispatchCheck
<1>4. ASSUME NEW d \in Dispatchers, DispatchCommit(d) PROVE TypeOK'
  <2>1. request[d].matched \in SUBSET Keys
    BY DEF Request
  <2> QED
    BY <1>4, <2>1, RowConstants DEF DispatchCommit
<1>5. ASSUME NEW d \in Dispatchers, DispatchAbort(d) PROVE TypeOK'
  BY <1>5, RowConstants DEF DispatchAbort
<1>6. ASSUME NEW s \in Sessions, NEW batch \in SUBSET Keys, NEW as \in {"selected", "replay"},
             Load(s, batch, as),
             UNCHANGED <<subscription, row, request, answered, acknowledged, tried>>
      PROVE TypeOK'
  BY <1>6, RowConstants DEF Load, Outcomes
<1>7. ASSUME NEW w \in Workers, NEW t \in Tenants, NEW batch \in SUBSET Keys,
             WorkerSelect(w, t, batch)
      PROVE TypeOK'
  BY <1>6, <1>7 DEF WorkerSelect, Sessions
<1>8. ASSUME NEW r \in Replayers, NEW t \in Tenants, NEW batch \in SUBSET Keys,
             ReplaySelect(r, t, batch)
      PROVE TypeOK'
  BY <1>6, <1>8 DEF ReplaySelect, Sessions
<1>9. ASSUME NEW w \in Workers, NEW k \in Keys, AttemptInactive(w, k) PROVE TypeOK'
  BY <1>9 DEF AttemptInactive, Sessions, Outcomes
<1>10. ASSUME NEW k \in Keys, CountPost(k) PROVE tried' \in [Keys -> 0..MaxRetries]
  BY <1>10, BoundsAssumption DEF CountPost
<1>11. ASSUME NEW w \in Workers, NEW k \in Keys, AttemptSuccess(w, k) PROVE TypeOK'
  BY <1>10, <1>11 DEF AttemptSuccess, Sessions, Outcomes
<1>12. ASSUME NEW w \in Workers, NEW k \in Keys, AttemptFailure(w, k) PROVE TypeOK'
  <2>1. seen[w][k].attempt_count + 1 \in Nat
    BY DEF Row, Sessions
  <2>2. Failure(seen[w][k].attempt_count + 1) \in Outcomes
    BY <2>1, FailureOutcome DEF Outcomes
  <2> QED
    BY <1>10, <1>12, <2>2 DEF AttemptFailure, Sessions
<1>13. ASSUME NEW s \in Sessions, Close(s)
       PROVE /\ seen' \in [Sessions -> [Keys -> Row]]
             /\ outcome' \in [Sessions -> [Keys -> Outcomes]]
  BY <1>13, RowConstants DEF Close, Outcomes
<1>14. ASSUME NEW s \in Sessions, Commit(s) PROVE TypeOK'
  <2>1. row' \in [Keys -> Row]
    BY <1>14, WrittenType DEF Commit
  <2> QED
    BY <1>13, <1>14, <2>1 DEF Commit
<1>15. ASSUME NEW s \in Sessions, Abort(s) PROVE TypeOK'
  BY <1>13, <1>15 DEF Abort
<1>16. ASSUME NEW k \in Keys, Elapse(k) PROVE TypeOK'
  BY <1>16 DEF Elapse, Row
<1>17. CASE UNCHANGED vars
  BY <1>17 DEF vars
<1> QED
  BY <1>1, <1>2, <1>3, <1>4, <1>5, <1>7, <1>8, <1>9, <1>11, <1>12, <1>14, <1>15, <1>16, <1>17
     DEF Next

(* The variables keep their types, attempt_count being any natural number:   *)
(* a stale write can push it past webhook_max_retries.                       *)
THEOREM TypeCorrect == Spec => []TypeOK
BY TypeInit, TypeNext, PTL DEF Spec

-----------------------------------------------------------------------------
(* The inductive invariant.  What a row says is backed by what happened to   *)
(* its delivery; so is what a session holds in hand and has yet to commit,   *)
(* which is why a commit, however stale, cannot break it.                    *)

(* An attempt count n of delivery k stands for as many POSTs. *)
Backed(n, k) == n <= tried[k] \/ tried[k] = MaxRetries

RowBacked(k) ==
  /\ row[k].status = "delivered" => acknowledged[k] /\ row[k].delivered_at
  /\ row[k].status = "dead_lettered" =>
       /\ tried[k] = MaxRetries \/ subscription[k[1]] = "inactive"
       /\ row[k].dead_lettered_at
  /\ Backed(row[k].attempt_count, k)
  /\ Exists(k) => subscription[k[1]] # "none"

InHandBacked(s, k) ==
  /\ Backed(seen[s][k].attempt_count, k)
  /\ outcome[s][k] # "none" => subscription[k[1]] # "none"
  /\ outcome[s][k] \in {"delivered", "retry", "exhausted"} =>
       Backed(seen[s][k].attempt_count + 1, k)
  /\ outcome[s][k] = "delivered" => acknowledged[k]
  /\ outcome[s][k] = "exhausted" => tried[k] = MaxRetries
  /\ outcome[s][k] = "inactive" => subscription[k[1]] = "inactive"

RequestBacked(d) ==
  /\ request[d].todo \cup request[d].adding \subseteq request[d].matched
  /\ \A k \in request[d].matched :
       /\ subscription[k[1]] # "none"
       /\ k \in request[d].todo \cup request[d].adding \/ Exists(k)

Inv ==
  /\ TypeOK
  /\ \A k \in Keys : RowBacked(k)
  /\ \A s \in Sessions, k \in Keys : InHandBacked(s, k)
  /\ \A d \in Dispatchers : RequestBacked(d)
  /\ AnsweredIsQueued

-----------------------------------------------------------------------------
(* What a step may do to one row, and to what one session has in hand.       *)

RowStep(k) ==
  \/ row'[k] = row[k]
  \/ row'[k] = [row[k] EXCEPT !.due = TRUE]
  \/ /\ row'[k] = NewRow
     /\ \E d \in Dispatchers : k \in request[d].adding
  \/ \E s \in Sessions : row'[k] = Written(outcome[s][k], seen[s][k], row[k])

HandStep(s, k) ==
  \/ outcome'[s][k] = outcome[s][k] /\ seen'[s][k] = seen[s][k]
  \/ outcome'[s][k] = "none" /\ seen'[s][k] = NoRow
  \/ /\ outcome'[s][k] \in {"selected", "replay"}
     /\ Exists(k)
     /\ seen'[s][k] = row[k]
  \/ /\ outcome[s][k] = "selected"
     /\ seen'[s][k] = seen[s][k]
     /\ AttemptInactive(s, k) \/ AttemptSuccess(s, k) \/ AttemptFailure(s, k)

(* Nothing that backs a row or a session is ever taken back. *)
Grows(k) ==
  /\ tried[k] <= tried'[k]
  /\ acknowledged[k] => acknowledged'[k]
  /\ subscription[k[1]] # "none" => subscription'[k[1]] # "none"
  /\ subscription[k[1]] = "inactive" => subscription'[k[1]] = "inactive"

LEMMA RowSteps ==
  ASSUME TypeOK, [Next]_vars, NEW k \in Keys
  PROVE  RowStep(k)
<1> USE DEF RowStep, TypeOK
<1>1. ASSUME NEW d \in Dispatchers, DispatchCommit(d) PROVE RowStep(k)
  BY <1>1 DEF DispatchCommit
<1>2. ASSUME NEW s \in Sessions, Commit(s) PROVE RowStep(k)
  BY <1>2 DEF Commit
<1>3. ASSUME NEW j \in Keys, Elapse(j) PROVE RowStep(k)
  BY <1>3 DEF Elapse
<1>4. CASE row' = row
  BY <1>4
<1> QED
  BY <1>1, <1>2, <1>3, <1>4
     DEF Next, vars, CreateSubscription, Deactivate, DispatchSelect, DispatchCheck, DispatchAbort,
         WorkerSelect, AttemptInactive, AttemptSuccess, AttemptFailure, ReplaySelect, Abort

LEMMA HandSteps ==
  ASSUME TypeOK, [Next]_vars, NEW s \in Sessions, NEW k \in Keys
  PROVE  HandStep(s, k)
<1> USE DEF HandStep, TypeOK
<1>1. ASSUME NEW w \in Workers, NEW t \in Tenants, NEW batch \in SUBSET Keys,
             WorkerSelect(w, t, batch)
      PROVE  HandStep(s, k)
  BY <1>1 DEF WorkerSelect, Load, Due, Exists, Queued, Sessions
<1>2. ASSUME NEW r \in Replayers, NEW t \in Tenants, NEW batch \in SUBSET Keys,
             ReplaySelect(r, t, batch)
      PROVE  HandStep(s, k)
  BY <1>2 DEF ReplaySelect, Load, Replayable, Exists, Sessions
<1>3. ASSUME NEW w \in Workers, NEW j \in Keys,
             AttemptInactive(w, j) \/ AttemptSuccess(w, j) \/ AttemptFailure(w, j)
      PROVE  HandStep(s, k)
  <2>1. CASE s = w /\ j = k
    BY <1>3, <2>1 DEF AttemptInactive, AttemptSuccess, AttemptFailure
  <2>2. CASE ~(s = w /\ j = k)
    BY <1>3, <2>2 DEF AttemptInactive, AttemptSuccess, AttemptFailure, Sessions
  <2> QED
    BY <2>1, <2>2
<1>4. ASSUME NEW u \in Sessions, Commit(u) \/ Abort(u) PROVE HandStep(s, k)
  <2>1. Close(u)
    BY <1>4 DEF Commit, Abort
  <2>2. CASE u = s
    BY <2>1, <2>2 DEF Close
  <2>3. CASE u # s
    BY <2>1, <2>3 DEF Close
  <2> QED
    BY <2>2, <2>3
<1>5. CASE UNCHANGED <<outcome, seen>>
  BY <1>5
<1> QED
  BY <1>1, <1>2, <1>3, <1>4, <1>5
     DEF Next, vars, CreateSubscription, Deactivate, DispatchSelect, DispatchCheck,
         DispatchCommit, DispatchAbort, Elapse

LEMMA CountPostEffect ==
  ASSUME TypeOK, NEW j \in Keys, CountPost(j)
  PROVE  /\ \A k \in Keys : tried[k] <= tried'[k]
         /\ tried[j] < MaxRetries => tried'[j] = tried[j] + 1
         /\ tried[j] = MaxRetries => tried'[j] = MaxRetries
BY BoundsAssumption DEF TypeOK, CountPost

LEMMA Growth ==
  ASSUME TypeOK, [Next]_vars, NEW k \in Keys
  PROVE  Grows(k)
<1> USE DEF Grows, TypeOK
<1>1. k[1] \in Subscriptions
  BY DEF Keys
<1>2. ASSUME NEW s \in Subscriptions, CreateSubscription(s) \/ Deactivate(s) PROVE Grows(k)
  BY <1>1, <1>2 DEF CreateSubscription, Deactivate
<1>3. ASSUME NEW w \in Workers, NEW j \in Keys, AttemptSuccess(w, j) \/ AttemptFailure(w, j)
      PROVE  Grows(k)
  <2>1. tried[k] <= tried'[k]
    BY <1>3, CountPostEffect DEF AttemptSuccess, AttemptFailure
  <2>2. acknowledged[k] => acknowledged'[k]
    BY <1>3 DEF AttemptSuccess, AttemptFailure
  <2> QED
    BY <1>3, <2>1, <2>2 DEF AttemptSuccess, AttemptFailure
<1>4. CASE UNCHANGED <<subscription, acknowledged, tried>>
  BY <1>4
<1> QED
  BY <1>2, <1>3, <1>4
     DEF Next, vars, DispatchSelect, DispatchCheck, DispatchCommit, DispatchAbort, WorkerSelect,
         AttemptInactive, ReplaySelect, Commit, Abort, Elapse

LEMMA RowsStay ==
  ASSUME TypeOK, [Next]_vars, NEW k \in Keys, Exists(k)
  PROVE  Exists(k)'
<1>1. row[k] \in Row /\ \A s \in Sessions : seen[s][k] \in Row /\ outcome[s][k] \in Outcomes
  BY DEF TypeOK
<1>2. [row[k] EXCEPT !.due = TRUE].status = row[k].status
  BY <1>1 DEF Row
<1>3. NewRow.status # "absent"
  BY DEF NewRow, NoRow
<1> QED
  BY <1>1, <1>2, <1>3, RowSteps, WrittenType DEF RowStep, Exists

-----------------------------------------------------------------------------
(* The invariant is inductive. *)

LEMMA BackedStays ==
  ASSUME TypeOK, TypeOK', NEW k \in Keys, Grows(k), NEW n \in Nat, Backed(n, k)
  PROVE  n <= tried'[k] \/ tried'[k] = MaxRetries
BY BoundsAssumption DEF TypeOK, Grows, Backed

LEMMA InvInit == Init => Inv
<1> SUFFICES ASSUME Init PROVE Inv
  OBVIOUS
<1>1. TypeOK
  BY TypeInit
<1>2. \A k \in Keys : RowBacked(k)
  BY BoundsAssumption DEF Init, RowBacked, Backed, Exists, NoRow
<1>3. \A s \in Sessions, k \in Keys : InHandBacked(s, k)
  BY BoundsAssumption DEF Init, InHandBacked, Backed, NoRow
<1>4. (\A d \in Dispatchers : RequestBacked(d)) /\ AnsweredIsQueued
  BY DEF Init, RequestBacked, Closed, AnsweredIsQueued
<1> QED
  BY <1>1, <1>2, <1>3, <1>4 DEF Inv

(* A commit writes what its session can back. *)
LEMMA RowsBacked ==
  ASSUME Inv, [Next]_vars, TypeOK', NEW k \in Keys
  PROVE  RowBacked(k)'
<1>1. /\ TypeOK /\ RowBacked(k) /\ Grows(k) /\ RowStep(k)
      /\ row[k] \in Row /\ row'[k] \in Row
  BY Growth, RowSteps DEF Inv, TypeOK
<1>2. ASSUME row'[k].status = row[k].status, row'[k].attempt_count = row[k].attempt_count,
             row'[k].delivered_at = row[k].delivered_at,
             row'[k].dead_lettered_at = row[k].dead_lettered_at
      PROVE  RowBacked(k)'
  <2>1. row[k].attempt_count <= tried'[k] \/ tried'[k] = MaxRetries
    BY <1>1, BackedStays DEF RowBacked, Row
  <2>2. tried[k] = MaxRetries => tried'[k] = MaxRetries
    BY <1>1, BoundsAssumption DEF TypeOK, Grows
  <2> QED
    BY <1>1, <1>2, <2>1, <2>2 DEF RowBacked, Grows, Exists, Backed
<1>3. CASE row'[k] = row[k]
  BY <1>2, <1>3
<1>4. CASE row'[k] = [row[k] EXCEPT !.due = TRUE]
  BY <1>1, <1>2, <1>4 DEF Row
<1>5. ASSUME NEW d \in Dispatchers, k \in request[d].adding, row'[k] = NewRow
      PROVE  RowBacked(k)'
  <2>1. subscription[k[1]] # "none"
    BY <1>5 DEF Inv, RequestBacked
  <2>2. tried'[k] \in Nat
    BY BoundsAssumption DEF TypeOK
  <2> QED
    BY <1>1, <1>5, <2>1, <2>2 DEF RowBacked, Grows, NewRow, NoRow, Backed
<1>6. ASSUME NEW s \in Sessions, row'[k] = Written(outcome[s][k], seen[s][k], row[k])
      PROVE  RowBacked(k)'
  <2> DEFINE o == outcome[s][k]
             was == seen[s][k]
             now == row[k]
  <2>1. /\ o \in Outcomes /\ was \in Row /\ now \in Row /\ InHandBacked(s, k)
        /\ was.attempt_count \in Nat /\ was.attempt_count + 1 \in Nat
    BY DEF Inv, TypeOK, Row
  <2>2. CASE o \in {"none", "selected"}
    BY <1>3, <1>6, <2>2, WrittenByOutcome
  <2> DEFINE BackedNext(n) == n <= tried'[k] \/ tried'[k] = MaxRetries
  <2>3. /\ BackedNext(now.attempt_count) /\ BackedNext(0)
        /\ o \in {"delivered", "retry", "exhausted"} => BackedNext(was.attempt_count + 1)
    <3>1. Backed(now.attempt_count, k) /\ now.attempt_count \in Nat
      BY <1>1, <2>1 DEF RowBacked, Row
    <3>2. tried'[k] \in Nat
      BY BoundsAssumption DEF TypeOK
    <3>3. o \in {"delivered", "retry", "exhausted"} => Backed(was.attempt_count + 1, k)
      BY <2>1 DEF InHandBacked
    <3> QED
      BY <1>1, <2>1, <3>1, <3>2, <3>3, BackedStays
  <2>4. subscription'[k[1]] # "none" \/ o = "none"
    BY <1>1, <2>1 DEF InHandBacked, Grows
  <2>5. tried[k] = MaxRetries => tried'[k] = MaxRetries
    BY <1>1, BoundsAssumption DEF TypeOK, Grows
  <2>6. CASE o = "delivered"
    <3>1. row'[k] = AfterDelivery(was, now)
      BY <1>6, <2>6, WrittenByOutcome
    <3> QED
      BY <1>1, <2>1, <2>3, <2>4, <2>6, <3>1
         DEF AfterDelivery, RowBacked, InHandBacked, Grows, Row, Backed
  <2>7. CASE o = "retry"
    <3>1. row'[k] = AfterRetry(was, now)
      BY <1>6, <2>7, WrittenByOutcome
    <3> QED
      BY <1>1, <2>1, <2>3, <2>4, <2>5, <2>7, <3>1
         DEF AfterRetry, Net, RowBacked, InHandBacked, Grows, Row, Backed
  <2>8. CASE o = "exhausted"
    <3>1. row'[k] = AfterExhaustion(was, now)
      BY <1>6, <2>8, WrittenByOutcome
    <3> QED
      BY <1>1, <2>1, <2>3, <2>4, <2>5, <2>8, <3>1
         DEF AfterExhaustion, RowBacked, InHandBacked, Grows, Row, Backed
  <2>9. CASE o = "inactive"
    <3>1. row'[k] = AfterInactive(was, now)
      BY <1>6, <2>9, WrittenByOutcome
    <3> QED
      BY <1>1, <2>1, <2>3, <2>4, <2>9, <3>1
         DEF AfterInactive, RowBacked, InHandBacked, Grows, Row, Backed
  <2>10. CASE o = "replay"
    <3>1. row'[k] = AfterReplay(was, now)
      BY <1>6, <2>10, WrittenByOutcome
    <3> QED
      BY <1>1, <2>1, <2>3, <2>4, <2>10, <3>1
         DEF AfterReplay, Net, RowBacked, InHandBacked, Grows, Row, Backed
  <2> QED
    BY <2>1, <2>2, <2>6, <2>7, <2>8, <2>9, <2>10 DEF Outcomes
<1> QED
  BY <1>1, <1>3, <1>4, <1>5, <1>6 DEF RowStep

(* A session loads rows that are backed, and each attempt backs its outcome. *)
LEMMA HandsBacked ==
  ASSUME Inv, [Next]_vars, TypeOK', NEW s \in Sessions, NEW k \in Keys
  PROVE  InHandBacked(s, k)'
<1>1. /\ TypeOK /\ InHandBacked(s, k) /\ Grows(k) /\ HandStep(s, k)
      /\ seen[s][k].attempt_count \in Nat
      /\ seen[s][k].attempt_count + 1 \in Nat
      /\ row[k].attempt_count \in Nat
      /\ tried[k] \in Nat /\ tried'[k] \in Nat
      /\ tried[k] <= MaxRetries /\ tried'[k] <= MaxRetries
  BY Growth, HandSteps, BoundsAssumption DEF Inv, TypeOK, Row
<1>2. tried[k] = MaxRetries => tried'[k] = MaxRetries
  BY <1>1, BoundsAssumption DEF Grows
<1>3. CASE outcome'[s][k] = outcome[s][k] /\ seen'[s][k] = seen[s][k]
  BY <1>1, <1>2, <1>3, BackedStays DEF InHandBacked, Grows, Backed
<1>4. CASE outcome'[s][k] = "none" /\ seen'[s][k] = NoRow
  BY <1>1, <1>4 DEF InHandBacked, NoRow, Backed
<1>5. CASE /\ outcome'[s][k] \in {"selected", "replay"}
           /\ Exists(k)
           /\ seen'[s][k] = row[k]
  <2>1. Backed(row[k].attempt_count, k) /\ subscription[k[1]] # "none"
    BY <1>5 DEF Inv, RowBacked
  <2> QED
    BY <1>1, <1>5, <2>1, BackedStays DEF InHandBacked, Grows, Backed
<1>6. CASE /\ outcome[s][k] = "selected"
           /\ seen'[s][k] = seen[s][k]
           /\ AttemptInactive(s, k) \/ AttemptSuccess(s, k) \/ AttemptFailure(s, k)
  <2> DEFINE n == seen[s][k].attempt_count
  <2>1. subscription'[k[1]] # "none"
    BY <1>1, <1>6 DEF InHandBacked, Grows
  <2>2. n <= tried'[k] \/ tried'[k] = MaxRetries
    BY <1>1, BackedStays DEF InHandBacked
  <2>3. CASE AttemptInactive(s, k)
    <3>1. outcome'[s][k] = "inactive" /\ UNCHANGED subscription
      BY <2>3 DEF AttemptInactive, TypeOK, Inv
    <3>2. subscription[k[1]] = "inactive"
      BY <1>1, <1>6, <2>3 DEF AttemptInactive, Active, InHandBacked, TypeOK, Keys
    <3> QED
      BY <1>6, <2>1, <2>2, <3>1, <3>2 DEF InHandBacked, Backed
  <2>4. ASSUME CountPost(k) PROVE n + 1 <= tried'[k] \/ tried'[k] = MaxRetries
    BY <1>1, <2>4, CountPostEffect, BoundsAssumption DEF InHandBacked, Backed
  <2>5. CASE AttemptSuccess(s, k)
    <3>1. outcome'[s][k] = "delivered" /\ acknowledged'[k]
      BY <1>1, <2>5 DEF AttemptSuccess, TypeOK
    <3>2. n + 1 <= tried'[k] \/ tried'[k] = MaxRetries
      BY <2>4, <2>5 DEF AttemptSuccess
    <3> QED
      BY <1>6, <2>1, <2>2, <3>1, <3>2 DEF InHandBacked, Backed
  <2>6. CASE AttemptFailure(s, k)
    <3>1. outcome'[s][k] = Failure(n + 1)
      BY <1>1, <2>6 DEF AttemptFailure, TypeOK
    <3>2. n + 1 <= tried'[k] \/ tried'[k] = MaxRetries
      BY <2>4, <2>6 DEF AttemptFailure
    <3>3. /\ outcome'[s][k] \in {"exhausted", "retry"}
          /\ outcome'[s][k] = "exhausted" => tried'[k] = MaxRetries
      BY <1>1, <3>1, <3>2, FailureOutcome, BoundsAssumption
    <3> QED
      BY <1>6, <2>1, <2>2, <3>2, <3>3 DEF InHandBacked, Backed
  <2> QED
    BY <1>6, <2>3, <2>5, <2>6
<1> QED
  BY <1>1, <1>3, <1>4, <1>5, <1>6 DEF HandStep

(* A request looks up every subscription it matched before it commits. *)
LEMMA RequestsBacked ==
  ASSUME Inv, [Next]_vars, TypeOK', NEW d \in Dispatchers
  PROVE  RequestBacked(d)'
<1>1. /\ TypeOK /\ RequestBacked(d)
      /\ request[d] \in Request
      /\ \A k \in request[d].matched : k \in Keys
  BY DEF Inv, TypeOK, Request
<1>2. \A k \in Keys : /\ subscription[k[1]] # "none" => subscription'[k[1]] # "none"
                      /\ Exists(k) => Exists(k)'
  BY <1>1, Growth, RowsStay DEF Grows
<1>3. CASE request'[d] = request[d]
  BY <1>1, <1>2, <1>3 DEF RequestBacked
<1>4. CASE request'[d] = Closed
  BY <1>4 DEF RequestBacked, Closed
<1>5. ASSUME NEW c \in Dispatchers, NEW t \in Tenants, NEW e \in Events, DispatchSelect(c, t, e)
      PROVE  RequestBacked(d)'
  <2>1. CASE c # d
    BY <1>1, <1>3, <1>5, <2>1 DEF DispatchSelect, TypeOK
  <2>2. CASE c = d
    <3>1. /\ request'[d].adding = {}
          /\ request'[d].todo = request'[d].matched
          /\ \A k \in request'[d].matched : k \in Keys /\ Active(k)
      BY <1>1, <1>5, <2>2 DEF DispatchSelect, TypeOK
    <3> QED
      BY <1>2, <3>1 DEF RequestBacked, Active
  <2> QED
    BY <2>1, <2>2
<1>6. ASSUME NEW c \in Dispatchers, NEW j \in Keys, DispatchCheck(c, j)
      PROVE  RequestBacked(d)'
  <2>1. CASE c # d
    BY <1>1, <1>3, <1>6, <2>1 DEF DispatchCheck, TypeOK
  <2>2. CASE c = d
    <3>1. /\ j \in request[d].todo
          /\ request'[d] = [request[d] EXCEPT
                 !.todo = @ \ {j},
                 !.adding = IF Exists(j) THEN @ ELSE @ \cup {j}]
      BY <1>1, <1>6, <2>2, Zenon DEF DispatchCheck, TypeOK
    <3>2. /\ request'[d].matched = request[d].matched
          /\ request'[d].todo = request[d].todo \ {j}
          /\ request'[d].adding = IF Exists(j) THEN request[d].adding
                                               ELSE request[d].adding \cup {j}
      BY <1>1, <3>1 DEF Request
    <3>3. j \in request[d].matched
      BY <1>1, <3>1 DEF RequestBacked
    <3> QED
      BY <1>1, <1>2, <3>2, <3>3 DEF RequestBacked
  <2> QED
    BY <2>1, <2>2
<1>7. ASSUME NEW c \in Dispatchers, DispatchCommit(c) \/ DispatchAbort(c)
      PROVE  RequestBacked(d)'
  BY <1>1, <1>3, <1>4, <1>7 DEF DispatchCommit, DispatchAbort, TypeOK
<1> QED
  BY <1>3, <1>5, <1>6, <1>7
     DEF Next, vars, CreateSubscription, Deactivate, WorkerSelect, AttemptInactive,
         AttemptSuccess, AttemptFailure, ReplaySelect, Commit, Abort, Elapse

LEMMA AnsweredStays ==
  ASSUME Inv, [Next]_vars, TypeOK'
  PROVE  AnsweredIsQueued'
<1>1. TypeOK /\ answered \subseteq Keys /\ AnsweredIsQueued
  BY DEF Inv, TypeOK
<1>2. \A k \in Keys : Exists(k) => Exists(k)'
  BY <1>1, RowsStay
<1>3. CASE answered' = answered
  BY <1>1, <1>2, <1>3 DEF AnsweredIsQueued
<1>4. ASSUME NEW d \in Dispatchers, DispatchCommit(d) PROVE AnsweredIsQueued'
  <2>1. \A k \in request[d].matched : k \in Keys /\ (k \in request[d].adding \/ Exists(k))
    BY <1>1, <1>4 DEF Inv, RequestBacked, DispatchCommit, TypeOK, Request
  <2>2. \A k \in Keys : k \in request[d].adding => row'[k] = NewRow
    BY <1>4 DEF DispatchCommit
  <2>3. NewRow.status # "absent"
    BY DEF NewRow, NoRow
  <2> QED
    BY <1>1, <1>2, <1>4, <2>1, <2>2, <2>3 DEF AnsweredIsQueued, DispatchCommit, Exists
<1> QED
  BY <1>3, <1>4
     DEF Next, vars, CreateSubscription, Deactivate, DispatchSelect, DispatchCheck, DispatchAbort,
         WorkerSelect, AttemptInactive, AttemptSuccess, AttemptFailure, ReplaySelect, Commit,
         Abort, Elapse

LEMMA InvNext == Inv /\ [Next]_vars => Inv'
<1> SUFFICES ASSUME Inv, [Next]_vars PROVE Inv'
  OBVIOUS
<1>1. TypeOK'
  BY TypeNext DEF Inv
<1>2. \A k \in Keys : RowBacked(k)'
  BY <1>1, RowsBacked
<1>3. \A s \in Sessions, k \in Keys : InHandBacked(s, k)'
  BY <1>1, HandsBacked
<1>4. \A d \in Dispatchers : RequestBacked(d)'
  BY <1>1, RequestsBacked
<1>5. AnsweredIsQueued'
  BY <1>1, AnsweredStays
<1> QED
  BY <1>1, <1>2, <1>3, <1>4, <1>5 DEF Inv

THEOREM Invariance == Spec => []Inv
BY InvInit, InvNext, PTL DEF Spec

(* Delivered rows were acknowledged, dead-lettered ones had their attempts or *)
(* lost their subscription, and the timestamps say so, whatever the overlap   *)
(* of dispatches, worker runs and replays.                                    *)
THEOREM QueueSafety ==
  Spec => [](DeliveredWasAcknowledged /\ DeadLetterJustified /\ StatusStamped)
<1>1. Inv => DeliveredWasAcknowledged /\ DeadLetterJustified /\ StatusStamped
  BY DEF Inv, RowBacked, DeliveredWasAcknowledged, DeadLetterJustified, StatusStamped
<1> QED
  BY <1>1, Invariance, PTL

(* No overlap of runs delivers a row whose receiver never acknowledged it     *)
(* (_attempt_delivery).                                                       *)
THEOREM AcknowledgedDelivery == Spec => []DeliveredWasAcknowledged
BY QueueSafety, PTL

(* Every dispatch that was answered left a delivery for each subscription it  *)
(* matched, through all the conflicts with concurrent dispatches.             *)
THEOREM DispatchSafety == Spec => []AnsweredIsQueued
<1>1. Inv => AnsweredIsQueued
  BY DEF Inv
<1> QED
  BY <1>1, Invariance, PTL

-----------------------------------------------------------------------------
(* A session that is about to re-open a row is a replay that loaded it       *)
(* dead-lettered.                                                            *)
ReplaysSound ==
  \A s \in Sessions, k \in Keys : outcome[s][k] = "replay" =>
    s \in Replayers /\ seen[s][k].status = "dead_lettered"

LEMMA ReplaysInit == Init => ReplaysSound
  BY DEF Init, ReplaysSound

LEMMA ReplaysNext == TypeOK /\ ReplaysSound /\ [Next]_vars => ReplaysSound'
<1> SUFFICES ASSUME TypeOK, ReplaysSound, [Next]_vars, NEW s \in Sessions, NEW k \in Keys,
                    outcome'[s][k] = "replay"
             PROVE  s \in Replayers /\ seen'[s][k].status = "dead_lettered"
  BY DEF ReplaysSound
<1> USE DEF TypeOK, ReplaysSound
<1>1. CASE outcome'[s][k] = outcome[s][k] /\ seen'[s][k] = seen[s][k]
  BY <1>1
<1>2. ASSUME NEW w \in Workers, NEW t \in Tenants, NEW batch \in SUBSET Keys,
             WorkerSelect(w, t, batch)
      PROVE  s \in Replayers /\ seen'[s][k].status = "dead_lettered"
  BY <1>2 DEF WorkerSelect, Load, Sessions
<1>3. ASSUME NEW r \in Replayers, NEW t \in Tenants, NEW batch \in SUBSET Keys,
             ReplaySelect(r, t, batch)
      PROVE  s \in Replayers /\ seen'[s][k].status = "dead_lettered"
  <2>1. CASE s = r
    BY <1>3, <2>1 DEF ReplaySelect, Load, Replayable
  <2>2. CASE s # r
    BY <1>1, <1>3, <2>2 DEF ReplaySelect, Load, Sessions
  <2> QED
    BY <2>1, <2>2
<1>4. ASSUME NEW w \in Workers, NEW j \in Keys,
             AttemptInactive(w, j) \/ AttemptSuccess(w, j) \/ AttemptFailure(w, j)
      PROVE  s \in Replayers /\ seen'[s][k].status = "dead_lettered"
  <2>1. seen[w][j].attempt_count + 1 \in Nat
    BY DEF Row, Sessions
  <2>2. CASE s = w /\ k = j
    BY <1>4, <2>1, <2>2, FailureOutcome DEF AttemptInactive, AttemptSuccess, AttemptFailure
  <2>3. CASE ~(s = w /\ k = j)
    BY <1>1, <1>4, <2>3 DEF AttemptInactive, AttemptSuccess, AttemptFailure, Sessions
  <2> QED
    BY <2>2, <2>3
<1>5. ASSUME NEW u \in Sessions, Commit(u) \/ Abort(u)
      PROVE  s \in Replayers /\ seen'[s][k].status = "dead_lettered"
  <2>1. Close(u)
    BY <1>5 DEF Commit, Abort
  <2> QED
    BY <1>1, <2>1 DEF Close
<1>6. CASE UNCHANGED <<outcome, seen>>
  BY <1>1, <1>6
<1> QED
  BY <1>2, <1>3, <1>4, <1>5, <1>6
     DEF Next, vars, CreateSubscription, Deactivate, DispatchSelect, DispatchCheck,
         DispatchCommit, DispatchAbort, Elapse

(* Whatever overlaps, a delivery goes back to pending only by a replay that  *)
(* found it dead-lettered.                                                   *)
THEOREM OnlyReplaysReopen == Spec => PendingAgainByReplay
<1> DEFINE Reopened(k) ==
      \E r \in Replayers : outcome[r][k] = "replay" /\ seen[r][k].status = "dead_lettered"
           Only == \A k \in Keys :
             Exists(k) /\ row[k].status # "pending" /\ row'[k].status = "pending" => Reopened(k)
<1>1. TypeOK /\ ReplaysSound /\ [Next]_vars => [Only]_vars
  <2> SUFFICES ASSUME TypeOK, ReplaysSound, [Next]_vars, NEW k \in Keys, Exists(k),
                      row[k].status # "pending", row'[k].status = "pending"
               PROVE  Reopened(k)
    OBVIOUS
  <2>1. ASSUME NEW s \in Sessions, Commit(s) PROVE Reopened(k)
    <3>1. /\ row[k] \in Row /\ seen[s][k] \in Row /\ outcome[s][k] \in Outcomes
          /\ row'[k] = Written(outcome[s][k], seen[s][k], row[k])
      BY <2>1 DEF TypeOK, Commit
    <3>2. outcome[s][k] = "replay"
      BY <3>1, WrittenByOutcome, UpdateType DEF Outcomes
    <3> QED
      BY <3>2 DEF ReplaysSound
  <2>2. ASSUME NEW d \in Dispatchers, DispatchCommit(d) PROVE FALSE
    BY <2>2 DEF DispatchCommit
  <2>3. ASSUME NEW j \in Keys, Elapse(j) PROVE FALSE
    BY <2>3 DEF Elapse, TypeOK, Row
  <2>4. CASE row' = row
    BY <2>4
  <2> HIDE DEF Reopened
  <2> QED
    BY <2>1, <2>2, <2>3, <2>4
       DEF Next, vars, CreateSubscription, Deactivate, DispatchSelect, DispatchCheck,
           DispatchAbort, WorkerSelect, AttemptInactive, AttemptSuccess, AttemptFailure,
           ReplaySelect, Abort
<1> QED
  BY <1>1, TypeInit, TypeNext, ReplaysInit, ReplaysNext, PTL DEF Spec, PendingAgainByReplay

-----------------------------------------------------------------------------
(* When worker runs do not overlap each other, whatever replays do, a        *)
(* delivery that a run has in hand stays in the queue until that run         *)
(* commits: replays put deliveries back to pending and do nothing else.      *)

HeldQueued ==
  /\ \A w \in Workers, k \in Keys : outcome[w][k] # "none" => row[k].status \in Queued
  /\ \A r \in Replayers, k \in Keys : outcome[r][k] \in {"none", "replay"}

LEMMA ReplayWrites ==
  ASSUME TypeOK, HeldQueued, NEW r \in Replayers, Commit(r), NEW k \in Keys
  PROVE  row'[k] = row[k] \/ row'[k].status = "pending"
<1>1. /\ row[k] \in Row /\ seen[r][k] \in Row /\ outcome[r][k] \in {"none", "replay"}
      /\ row'[k] = Written(outcome[r][k], seen[r][k], row[k])
  BY DEF TypeOK, HeldQueued, Commit, Sessions
<1> QED
  BY <1>1, WrittenByOutcome, UpdateType

LEMMA HeldQueuedNext ==
  ASSUME OneAtATime(Workers), TypeOK, HeldQueued, [Next]_vars
  PROVE  HeldQueued'
<1> USE DEF TypeOK, Sessions
<1>1. /\ \A w \in Workers, k \in Keys : outcome[w][k] # "none" => row[k].status \in Queued
      /\ \A r \in Replayers, k \in Keys : outcome[r][k] \in {"none", "replay"}
  BY DEF HeldQueued
<1>2. ASSUME UNCHANGED <<row, outcome>> PROVE HeldQueued'
  BY <1>1, <1>2 DEF HeldQueued
<1>3. ASSUME UNCHANGED outcome,
             \A k \in Keys : row[k].status \in Queued => row'[k].status \in Queued
      PROVE  HeldQueued'
  BY <1>1, <1>3 DEF HeldQueued
<1>4. ASSUME NEW d \in Dispatchers, DispatchCommit(d) PROVE HeldQueued'
  <2>1. \A k \in Keys : row[k].status \in Queued => row'[k].status \in Queued
    BY <1>4 DEF DispatchCommit, Exists, Queued
  <2> QED
    BY <1>3, <1>4, <2>1 DEF DispatchCommit
<1>5. ASSUME NEW j \in Keys, Elapse(j) PROVE HeldQueued'
  <2>1. \A k \in Keys : row'[k].status = row[k].status
    BY <1>5 DEF Elapse, Row
  <2> QED
    BY <1>3, <1>5, <2>1 DEF Elapse
<1>6. ASSUME NEW w \in Workers, NEW t \in Tenants, NEW batch \in SUBSET Keys,
             WorkerSelect(w, t, batch)
      PROVE  HeldQueued'
  <2>1. \A k \in batch : row[k].status \in Queued
    BY <1>6 DEF WorkerSelect, Due
  <2>2. ASSUME NEW u \in Workers, NEW k \in Keys, outcome'[u][k] # "none"
        PROVE  row'[k].status \in Queued
    BY <1>1, <1>6, <2>1, <2>2 DEF WorkerSelect, Load
  <2>3. ASSUME NEW r \in Replayers, NEW k \in Keys PROVE outcome'[r][k] \in {"none", "replay"}
    BY <1>1, <1>6, SessionAssumption DEF WorkerSelect, Load
  <2> QED
    BY <2>2, <2>3 DEF HeldQueued
<1>7. ASSUME NEW r \in Replayers, NEW t \in Tenants, NEW batch \in SUBSET Keys,
             ReplaySelect(r, t, batch)
      PROVE  HeldQueued'
  <2>1. ASSUME NEW u \in Workers, NEW k \in Keys, outcome'[u][k] # "none"
        PROVE  row'[k].status \in Queued
    BY <1>1, <1>7, <2>1, SessionAssumption DEF ReplaySelect, Load
  <2>2. ASSUME NEW u \in Replayers, NEW k \in Keys PROVE outcome'[u][k] \in {"none", "replay"}
    BY <1>1, <1>7 DEF ReplaySelect, Load
  <2> QED
    BY <2>1, <2>2 DEF HeldQueued
<1>8. ASSUME NEW w \in Workers, NEW j \in Keys,
             AttemptInactive(w, j) \/ AttemptSuccess(w, j) \/ AttemptFailure(w, j)
      PROVE  HeldQueued'
  <2>1. ASSUME NEW u \in Workers, NEW k \in Keys, outcome'[u][k] # "none"
        PROVE  row'[k].status \in Queued
    <3>1. outcome[u][k] # "none" /\ row' = row
      BY <1>8, <2>1 DEF AttemptInactive, AttemptSuccess, AttemptFailure
    <3> QED
      BY <1>1, <3>1
  <2>2. ASSUME NEW r \in Replayers, NEW k \in Keys PROVE outcome'[r][k] \in {"none", "replay"}
    BY <1>1, <1>8, SessionAssumption DEF AttemptInactive, AttemptSuccess, AttemptFailure
  <2> QED
    BY <2>1, <2>2 DEF HeldQueued
<1>9. ASSUME NEW s \in Sessions, Close(s)
      PROVE  \A u \in Sessions, k \in Keys :
               outcome'[u][k] = IF u = s THEN "none" ELSE outcome[u][k]
  BY <1>9 DEF Close
<1>10. ASSUME NEW w \in Workers, Commit(w) PROVE HeldQueued'
  <2>1. \A u \in Workers, k \in Keys : outcome'[u][k] = "none"
    BY <1>9, <1>10 DEF OneAtATime, Commit
  <2>2. \A r \in Replayers, k \in Keys : outcome'[r][k] \in {"none", "replay"}
    BY <1>1, <1>9, <1>10 DEF Commit
  <2> QED
    BY <2>1, <2>2 DEF HeldQueued
<1>11. ASSUME NEW r \in Replayers, Commit(r) PROVE HeldQueued'
  <2>1. ASSUME NEW w \in Workers, NEW k \in Keys, outcome'[w][k] # "none"
        PROVE  row'[k].status \in Queued
    <3>1. outcome[w][k] # "none"
      BY <1>9, <1>11, <2>1 DEF Commit
    <3> QED
      BY <1>1, <1>11, <3>1, ReplayWrites DEF Queued
  <2>2. \A u \in Replayers, k \in Keys : outcome'[u][k] \in {"none", "replay"}
    BY <1>1, <1>9, <1>11 DEF Commit
  <2> QED
    BY <2>1, <2>2 DEF HeldQueued
<1>12. ASSUME NEW s \in Sessions, Abort(s) PROVE HeldQueued'
  BY <1>1, <1>9, <1>12 DEF Abort, HeldQueued
<1> QED
  BY <1>2, <1>4, <1>5, <1>6, <1>7, <1>8, <1>10, <1>11, <1>12
     DEF Next, vars, CreateSubscription, Deactivate, DispatchSelect, DispatchCheck, DispatchAbort

(* What RISKS R-006 says of dead-lettering holds when worker runs do not     *)
(* overlap: only the commit of a replay takes a delivery out of the dead     *)
(* letters, however many replays and dispatches run meanwhile.               *)
THEOREM DeadLettersTerminal ==
  ASSUME OneAtATime(Workers)
  PROVE  Spec => DeadLetterIsTerminal
<1> DEFINE Terminal ==
      \A k \in Keys :
        row[k].status = "dead_lettered" /\ row'[k].status # "dead_lettered" /\ Active(k)
          => \E r \in Replayers : Commit(r)
<1>1. TypeOK /\ HeldQueued /\ [Next]_vars => [Terminal]_vars
  <2> SUFFICES ASSUME TypeOK, HeldQueued, [Next]_vars, NEW k \in Keys,
                      row[k].status = "dead_lettered", row'[k].status # "dead_lettered"
               PROVE  \E r \in Replayers : Commit(r)
    OBVIOUS
  <2>1. ASSUME NEW w \in Workers, Commit(w) PROVE FALSE
    <3>1. outcome[w][k] = "none"
      BY DEF HeldQueued, Queued
    <3> QED
      BY <2>1, <3>1, WrittenByOutcome DEF Commit
  <2>2. ASSUME NEW d \in Dispatchers, DispatchCommit(d) PROVE FALSE
    BY <2>2 DEF DispatchCommit, Exists
  <2>3. ASSUME NEW j \in Keys, Elapse(j) PROVE FALSE
    BY <2>3 DEF Elapse, TypeOK, Row
  <2> QED
    BY <2>1, <2>2, <2>3
       DEF Next, vars, Sessions, CreateSubscription, Deactivate, DispatchSelect, DispatchCheck,
           DispatchAbort, WorkerSelect, AttemptInactive, AttemptSuccess, AttemptFailure,
           ReplaySelect, Abort
<1>2. Init => HeldQueued
  BY DEF Init, HeldQueued, Sessions
<1> QED
  BY <1>1, <1>2, TypeInit, TypeNext, HeldQueuedNext, PTL DEF Spec, DeadLetterIsTerminal

-----------------------------------------------------------------------------
(* When worker runs do not overlap each other and replays do not either, no  *)
(* two sessions hold the same delivery, so what a session loaded is still    *)
(* what the table says when it commits.                                      *)

SerialRow(k) ==
  /\ row[k].delivered_at <=> row[k].status = "delivered"
  /\ row[k].dead_lettered_at <=> row[k].status = "dead_lettered"
  /\ row[k].status \in Queued => row[k].attempt_count < MaxRetries

SerialHand(s, k) ==
  outcome[s][k] # "none" =>
    /\ row[k].status = seen[s][k].status
    /\ row[k].attempt_count = seen[s][k].attempt_count
    /\ row[k].dead_lettered_at = seen[s][k].dead_lettered_at
    /\ s \in Workers => row[k].status \in Queued /\ outcome[s][k] # "replay"
    /\ s \in Replayers => row[k].status = "dead_lettered" /\ outcome[s][k] = "replay"
    /\ outcome[s][k] = "retry" => row[k].attempt_count + 1 < MaxRetries

SerialInv ==
  /\ TypeOK
  /\ \A k \in Keys : SerialRow(k)
  /\ \A s \in Sessions, k \in Keys : SerialHand(s, k)

LEMMA SerialInit == Init => SerialInv
<1> SUFFICES ASSUME Init PROVE SerialInv
  OBVIOUS
<1>1. TypeOK
  BY TypeInit
<1>2. \A k \in Keys : SerialRow(k)
  BY DEF Init, SerialRow, NoRow, Queued
<1>3. \A s \in Sessions, k \in Keys : SerialHand(s, k)
  BY DEF Init, SerialHand
<1> QED
  BY <1>1, <1>2, <1>3 DEF SerialInv

(* A row that a session holds is held by no other. *)
LEMMA HeldOnce ==
  ASSUME Serial, SerialInv, NEW s \in Sessions, NEW u \in Sessions, NEW k \in Keys,
         outcome[s][k] # "none", outcome[u][k] # "none"
  PROVE  s = u
<1>1. CASE s \in Workers /\ u \in Workers
  BY <1>1 DEF Serial, OneAtATime
<1>2. CASE s \in Replayers /\ u \in Replayers
  BY <1>2 DEF Serial, OneAtATime
<1>3. CASE s \in Workers /\ u \in Replayers
  BY <1>3 DEF SerialInv, SerialHand, Queued
<1>4. CASE s \in Replayers /\ u \in Workers
  BY <1>4 DEF SerialInv, SerialHand, Queued
<1> QED
  BY <1>1, <1>2, <1>3, <1>4 DEF Sessions

(* What a commit makes of a row its session holds. *)
LEMMA SerialWrite ==
  ASSUME SerialInv, NEW s \in Sessions, NEW k \in Keys, Commit(s), outcome[s][k] # "none"
  PROVE  /\ SerialRow(k)'
         /\ row[k].status # "delivered"
         /\ row'[k].status # "absent"
<1> DEFINE o == outcome[s][k]
           was == seen[s][k]
           now == row[k]
<1>1. /\ o \in Outcomes /\ was \in Row /\ now \in Row
      /\ row'[k] = Written(o, was, now)
      /\ SerialRow(k) /\ SerialHand(s, k)
      /\ o # "selected" /\ o # "none"
  BY DEF SerialInv, TypeOK, Commit
<1>2. row[k].status # "delivered"
  BY <1>1 DEF SerialHand, Sessions, Queued
<1>3. was.attempt_count + 1 \in Nat /\ now.attempt_count = was.attempt_count
  BY <1>1 DEF SerialHand, Row
<1>4. CASE o = "delivered"
  <2>1. row'[k] = AfterDelivery(was, now)
    BY <1>1, <1>4, WrittenByOutcome
  <2>2. s \in Workers /\ now.status \in Queued
    BY <1>1, <1>4 DEF SerialHand, Sessions
  <2> QED
    BY <1>1, <1>2, <2>1, <2>2 DEF AfterDelivery, SerialRow, Row, Queued
<1>5. CASE o = "retry"
  <2>1. row'[k] = AfterRetry(was, now)
    BY <1>1, <1>5, WrittenByOutcome
  <2>2. s \in Workers /\ now.status \in Queued /\ was.attempt_count + 1 < MaxRetries
    BY <1>1, <1>5 DEF SerialHand, Sessions
  <2>3. was.status = now.status
    BY <1>1 DEF SerialHand
  <2> QED
    BY <1>1, <1>2, <1>3, <2>1, <2>2, <2>3 DEF AfterRetry, Net, SerialRow, Row, Queued
<1>6. CASE o = "exhausted"
  <2>1. row'[k] = AfterExhaustion(was, now)
    BY <1>1, <1>6, WrittenByOutcome
  <2> QED
    BY <1>1, <1>2, <2>1 DEF AfterExhaustion, SerialRow, Row, Queued
<1>7. CASE o = "inactive"
  <2>1. row'[k] = AfterInactive(was, now)
    BY <1>1, <1>7, WrittenByOutcome
  <2> QED
    BY <1>1, <1>2, <2>1 DEF AfterInactive, SerialRow, Row, Queued
<1>8. CASE o = "replay"
  <2>1. row'[k] = AfterReplay(was, now)
    BY <1>1, <1>8, WrittenByOutcome
  <2>2. was.dead_lettered_at = TRUE /\ now.dead_lettered_at = TRUE
    BY <1>1, <1>8 DEF SerialHand, SerialRow, Sessions, Row
  <2>3. /\ row'[k].status = "pending" /\ row'[k].attempt_count = 0
        /\ row'[k].delivered_at = now.delivered_at /\ row'[k].dead_lettered_at = FALSE
    BY <1>1, <1>3, <2>1, <2>2 DEF AfterReplay, Net, Row
  <2> QED
    BY <1>1, <1>2, <2>3, BoundsAssumption DEF SerialRow, Queued
<1> QED
  BY <1>1, <1>4, <1>5, <1>6, <1>7, <1>8 DEF Outcomes

LEMMA SerialNext == Serial /\ SerialInv /\ [Next]_vars => SerialInv'
<1> SUFFICES ASSUME Serial, SerialInv, [Next]_vars
             PROVE  /\ \A k \in Keys : SerialRow(k)'
                    /\ \A s \in Sessions, k \in Keys : SerialHand(s, k)'
  BY TypeNext DEF SerialInv
<1> DEFINE Goal == /\ \A k \in Keys : SerialRow(k)'
                   /\ \A s \in Sessions, k \in Keys : SerialHand(s, k)'
<1>1. /\ TypeOK
      /\ \A k \in Keys : SerialRow(k)
      /\ \A s \in Sessions, k \in Keys : SerialHand(s, k)
  BY DEF SerialInv
<1>2. ASSUME UNCHANGED <<row, seen, outcome>> PROVE Goal
  BY <1>1, <1>2 DEF SerialRow, SerialHand
<1>3. ASSUME NEW d \in Dispatchers, DispatchCommit(d) PROVE Goal
  <2>1. ASSUME NEW k \in Keys PROVE SerialRow(k)'
    <3>1. row'[k] = row[k] \/ row'[k] = NewRow
      BY <1>3 DEF DispatchCommit
    <3>2. CASE row'[k] = row[k]
      BY <1>1, <3>2 DEF SerialRow
    <3>3. CASE row'[k] = NewRow
      <4>1. /\ NewRow.status = "pending" /\ NewRow.attempt_count = 0
            /\ NewRow.delivered_at = FALSE /\ NewRow.dead_lettered_at = FALSE
        BY DEF NewRow, NoRow
      <4> QED
        BY <3>3, <4>1, BoundsAssumption DEF SerialRow, Queued
    <3> QED
      BY <3>1, <3>2, <3>3
  <2>2. ASSUME NEW s \in Sessions, NEW k \in Keys PROVE SerialHand(s, k)'
    <3>1. outcome[s][k] # "none" => Exists(k)
      BY <1>1 DEF SerialHand, Sessions, Exists, Queued
    <3>2. Exists(k) => row'[k] = row[k]
      BY <1>3 DEF DispatchCommit
    <3> QED
      BY <1>1, <1>3, <3>1, <3>2 DEF SerialHand, DispatchCommit
  <2> QED
    BY <2>1, <2>2
<1>4. ASSUME NEW s \in Sessions, Commit(s) PROVE Goal
  <2>1. ASSUME NEW k \in Keys, outcome[s][k] = "none" PROVE row'[k] = row[k]
    BY <1>4, <2>1, WrittenByOutcome DEF Commit
  <2>2. ASSUME NEW k \in Keys PROVE SerialRow(k)'
    BY <1>1, <1>4, <2>1, SerialWrite DEF SerialRow
  <2>3. ASSUME NEW u \in Sessions, NEW k \in Keys PROVE SerialHand(u, k)'
    <3>1. CASE u = s
      BY <1>1, <1>4, <3>1 DEF Commit, Close, TypeOK, SerialHand
    <3>2. CASE u # s
      <4>1. outcome'[u][k] = outcome[u][k] /\ seen'[u][k] = seen[u][k]
        BY <1>1, <1>4, <3>2 DEF Commit, Close, TypeOK
      <4>2. outcome[u][k] # "none" => row'[k] = row[k]
        BY <2>1, <3>2, HeldOnce
      <4> QED
        BY <1>1, <4>1, <4>2 DEF SerialHand
    <3> QED
      BY <3>1, <3>2
  <2> QED
    BY <2>2, <2>3
<1>5. ASSUME NEW j \in Keys, Elapse(j) PROVE Goal
  <2>1. ASSUME NEW k \in Keys
        PROVE  /\ row'[k].status = row[k].status
               /\ row'[k].attempt_count = row[k].attempt_count
               /\ row'[k].delivered_at = row[k].delivered_at
               /\ row'[k].dead_lettered_at = row[k].dead_lettered_at
    BY <1>1, <1>5 DEF Elapse, TypeOK, Row
  <2> QED
    BY <1>1, <1>5, <2>1 DEF Elapse, SerialRow, SerialHand
<1>6. ASSUME row' = row, \A s \in Sessions, k \in Keys : SerialHand(s, k)' PROVE Goal
  BY <1>1, <1>6 DEF SerialRow
<1>7. ASSUME NEW s \in Sessions, NEW batch \in SUBSET Keys, NEW as \in {"selected", "replay"},
             Load(s, batch, as), row' = row,
             s \in Workers => as = "selected" /\ \A k \in batch : row[k].status \in Queued,
             s \in Replayers =>
               as = "replay" /\ \A k \in batch : row[k].status = "dead_lettered"
      PROVE  Goal
  <2>1. ASSUME NEW u \in Sessions, NEW k \in Keys PROVE SerialHand(u, k)'
    <3>1. CASE u = s
      <4>1. /\ k \in batch => outcome'[u][k] = as /\ seen'[u][k] = row[k]
            /\ k \notin batch => outcome'[u][k] = "none"
        BY <1>1, <1>7, <3>1 DEF Load, TypeOK
      <4> QED
        BY <1>7, <3>1, <4>1 DEF SerialHand
    <3>2. CASE u # s
      <4>1. outcome'[u][k] = outcome[u][k] /\ seen'[u][k] = seen[u][k]
        BY <1>1, <1>7, <3>2 DEF Load, TypeOK
      <4> QED
        BY <1>1, <1>7, <4>1 DEF SerialHand
    <3> QED
      BY <3>1, <3>2
  <2> QED
    BY <1>6, <1>7, <2>1
<1>8. ASSUME NEW w \in Workers, NEW t \in Tenants, NEW batch \in SUBSET Keys,
             WorkerSelect(w, t, batch)
      PROVE  Goal
  BY <1>7, <1>8, SessionAssumption DEF WorkerSelect, Due, Sessions
<1>9. ASSUME NEW r \in Replayers, NEW t \in Tenants, NEW batch \in SUBSET Keys,
             ReplaySelect(r, t, batch)
      PROVE  Goal
  BY <1>7, <1>9, SessionAssumption DEF ReplaySelect, Replayable, Sessions
<1>10. ASSUME NEW w \in Workers, NEW j \in Keys, NEW o, outcome[w][j] = "selected",
              o \in {"inactive", "delivered", "exhausted", "retry"},
              o = "retry" => seen[w][j].attempt_count + 1 < MaxRetries,
              outcome' = [outcome EXCEPT ![w][j] = o], UNCHANGED <<row, seen>>
       PROVE  Goal
  <2>1. ASSUME NEW u \in Sessions, NEW k \in Keys PROVE SerialHand(u, k)'
    <3>1. CASE u = w /\ k = j
      <4>1. outcome'[u][k] = o
        BY <1>1, <1>10, <3>1 DEF TypeOK
      <4> QED
        BY <1>1, <1>10, <3>1, <4>1, SessionAssumption DEF SerialHand
    <3>2. CASE ~(u = w /\ k = j)
      <4>1. outcome'[u][k] = outcome[u][k]
        BY <1>1, <1>10, <3>2 DEF TypeOK, Sessions
      <4> QED
        BY <1>1, <1>10, <4>1 DEF SerialHand
    <3> QED
      BY <3>1, <3>2
  <2> QED
    BY <1>6, <1>10, <2>1
<1>11. ASSUME NEW w \in Workers, NEW j \in Keys, AttemptInactive(w, j) \/ AttemptSuccess(w, j)
       PROVE  Goal
  BY <1>10, <1>11 DEF AttemptInactive, AttemptSuccess
<1>12. ASSUME NEW w \in Workers, NEW j \in Keys, AttemptFailure(w, j) PROVE Goal
  <2> DEFINE n == seen[w][j].attempt_count
  <2>1. n \in Nat
    BY <1>1 DEF TypeOK, Row, Sessions
  <2>2. /\ Failure(n + 1) \in {"exhausted", "retry"}
        /\ Failure(n + 1) = "retry" => n + 1 < MaxRetries
    BY <2>1, BoundsAssumption DEF Failure
  <2>3. /\ outcome[w][j] = "selected"
        /\ outcome' = [outcome EXCEPT ![w][j] = Failure(n + 1)]
        /\ UNCHANGED <<row, seen>>
    BY <1>12 DEF AttemptFailure
  <2> QED
    BY <1>10, <2>2, <2>3
<1>13. ASSUME NEW s \in Sessions, Abort(s) PROVE Goal
  <2>1. ASSUME NEW u \in Sessions, NEW k \in Keys PROVE SerialHand(u, k)'
    BY <1>1, <1>13 DEF Abort, Close, TypeOK, SerialHand
  <2> QED
    BY <1>6, <1>13, <2>1 DEF Abort
<1> QED
  BY <1>2, <1>3, <1>4, <1>5, <1>8, <1>9, <1>11, <1>12, <1>13
     DEF Next, vars, CreateSubscription, Deactivate, DispatchSelect, DispatchCheck, DispatchAbort

(* Without overlapping runs: every session works on current rows, the        *)
(* timestamps tell the status and a queued delivery has an attempt left.     *)
THEOREM SerialSafety ==
  ASSUME Serial
  PROVE  Spec => [](SeenIsCurrent /\ StampsMatch /\ AttemptLeft)
<1>1. SerialInv => SeenIsCurrent /\ StampsMatch /\ AttemptLeft
  BY DEF SerialInv, SerialRow, SerialHand, SeenIsCurrent, StampsMatch, AttemptLeft
<1>2. SerialInv /\ [Next]_vars => SerialInv'
  BY SerialNext
<1> QED
  BY <1>1, <1>2, SerialInit, PTL DEF Spec

(* Without overlapping runs a delivery, once delivered, is never re-opened.  *)
THEOREM DeliveredStays ==
  ASSUME Serial
  PROVE  Spec => DeliveredIsFinal
<1> DEFINE Final == \A k \in Keys : row[k].status = "delivered" => row'[k].status = "delivered"
<1>1. SerialInv /\ [Next]_vars => [Final]_vars
  <2> SUFFICES ASSUME SerialInv, [Next]_vars, NEW k \in Keys, row[k].status = "delivered"
               PROVE  row'[k].status = "delivered"
    OBVIOUS
  <2>1. TypeOK /\ row[k] \in Row
    BY DEF SerialInv, TypeOK
  <2>2. ASSUME NEW s \in Sessions, Commit(s) PROVE row'[k].status = "delivered"
    <3>1. outcome[s][k] = "none"
      BY <2>2, SerialWrite
    <3> QED
      BY <2>2, <3>1, WrittenByOutcome DEF Commit
  <2>3. ASSUME NEW d \in Dispatchers, DispatchCommit(d) PROVE row'[k].status = "delivered"
    BY <2>3 DEF DispatchCommit, Exists
  <2>4. ASSUME NEW j \in Keys, Elapse(j) PROVE row'[k].status = "delivered"
    BY <2>1, <2>4 DEF Elapse, TypeOK, Row
  <2>5. CASE row' = row
    BY <2>5
  <2> QED
    BY <2>2, <2>3, <2>4, <2>5
       DEF Next, vars, CreateSubscription, Deactivate, DispatchSelect, DispatchCheck,
           DispatchAbort, WorkerSelect, AttemptInactive, AttemptSuccess, AttemptFailure,
           ReplaySelect, Abort
<1>2. SerialInv /\ [Next]_vars => SerialInv'
  BY SerialNext
<1> QED
  BY <1>1, <1>2, SerialInit, PTL DEF Spec, DeliveredIsFinal

-----------------------------------------------------------------------------
(* The queue implements DeliveryLifecycle. *)

Stage == [k \in Keys |-> StageOf(row[k].status)]

Unwanted == [k \in Keys |-> subscription[k[1]] = "inactive"]

LEMMA StageOfValue ==
  /\ StageOf("absent") = "none"
  /\ StageOf("pending") = "queued" /\ StageOf("retry_scheduled") = "queued"
  /\ StageOf("delivered") = "delivered" /\ StageOf("dead_lettered") = "dead"
BY DEF StageOf, Queued

LEMMA StageType == TypeOK => Stage \in [Keys -> Lifecycle!Stages]
<1> SUFFICES ASSUME TypeOK, NEW k \in Keys PROVE StageOf(row[k].status) \in Lifecycle!Stages
  BY DEF Stage
<1>1. row[k].status \in Statuses
  BY DEF TypeOK, Row
<1> QED
  BY <1>1, StageOfValue DEF Statuses, Queued, Lifecycle!Stages

LEMMA LifecycleInit == Init => Lifecycle!Init
<1> SUFFICES ASSUME Init PROVE Lifecycle!Init
  OBVIOUS
<1>1. Stage = [k \in Keys |-> "none"]
  BY StageOfValue DEF Init, Stage, NoRow
<1>2. Unwanted = [k \in Keys |-> FALSE]
  BY DEF Init, Unwanted, Keys
<1> QED
  BY <1>1, <1>2 DEF Init, Lifecycle!Init, Stage, Unwanted

LEMMA LifecycleNext ==
  Inv /\ SerialInv /\ TypeOK' /\ [Next]_vars => [Lifecycle!Next]_(Lifecycle!vars)
<1> SUFFICES ASSUME Inv, SerialInv, TypeOK', [Next]_vars
             PROVE  Lifecycle!Next \/ UNCHANGED Lifecycle!vars
  OBVIOUS
<1> DEFINE Goal == Lifecycle!Next \/ UNCHANGED Lifecycle!vars
<1>1. /\ TypeOK
      /\ \A k \in Keys : row[k] \in Row /\ row[k].status \in Statuses /\ k[1] \in Subscriptions
      /\ Stage' \in [Keys -> Lifecycle!Stages]
  <2>1. (TypeOK => Stage \in [Keys -> Lifecycle!Stages])'
    BY StageType, PTL
  <2>2. Stage' \in [Keys -> Lifecycle!Stages]
    BY <2>1
  <2> QED
    BY <2>2 DEF Inv, TypeOK, Row, Keys
<1>2. ASSUME Stage' = Stage, Unwanted' = Unwanted, acknowledged' = acknowledged, tried' = tried
      PROVE  Goal
  BY <1>2 DEF Lifecycle!vars, Stage, Unwanted
<1>3. ASSUME UNCHANGED <<row, subscription, acknowledged, tried>> PROVE Goal
  BY <1>2, <1>3 DEF Stage, Unwanted
<1>4. ASSUME \A k \in Keys :
                \/ Stage'[k] = Stage[k]
                \/ Stage[k] = "none" /\ Stage'[k] = "queued"
                \/ Stage[k] = "queued" /\ acknowledged[k] /\ Stage'[k] = "delivered"
                \/ /\ Stage[k] = "queued"
                   /\ tried[k] = MaxRetries \/ Unwanted[k]
                   /\ Stage'[k] = "dead"
                \/ Stage[k] = "dead" /\ Stage'[k] = "queued",
             UNCHANGED <<subscription, acknowledged, tried>>
      PROVE  Goal
  <2>1. Lifecycle!Move
    BY <1>1, <1>4 DEF Lifecycle!Move, Lifecycle!Stay, Lifecycle!Enqueue, Lifecycle!Deliver,
                      Lifecycle!GiveUp, Lifecycle!Requeue, Stage, Unwanted
  <2> QED
    BY <2>1 DEF Lifecycle!Next
<1>5. ASSUME NEW s \in Subscriptions, CreateSubscription(s) PROVE Goal
  <2>1. \A k \in Keys : (subscription'[k[1]] = "inactive") = (subscription[k[1]] = "inactive")
    BY <1>1, <1>5 DEF CreateSubscription, TypeOK
  <2> QED
    BY <1>2, <1>5, <2>1 DEF CreateSubscription, Stage, Unwanted
<1>6. ASSUME NEW s \in Subscriptions, Deactivate(s) PROVE Goal
  <2>1. \A k \in Keys : Unwanted[k] => Unwanted'[k]
    BY <1>1, <1>6 DEF Deactivate, TypeOK, Unwanted
  <2>2. Unwanted' \in [Keys -> BOOLEAN]
    BY DEF Unwanted
  <2>3. UNCHANGED <<Stage, acknowledged, tried>>
    BY <1>6 DEF Deactivate, Stage
  <2> QED
    BY <2>1, <2>2, <2>3 DEF Lifecycle!Next, Lifecycle!SwitchOff, Stage, Unwanted
<1>7. ASSUME NEW d \in Dispatchers, DispatchCommit(d) PROVE Goal
  <2>1. ASSUME NEW k \in Keys
        PROVE  Stage'[k] = Stage[k] \/ (Stage[k] = "none" /\ Stage'[k] = "queued")
    BY <1>7, StageOfValue DEF DispatchCommit, Exists, Stage, NewRow, NoRow
  <2> QED
    BY <1>4, <1>7, <2>1 DEF DispatchCommit
<1>8. ASSUME NEW w \in Workers, NEW k \in Keys, AttemptSuccess(w, k) \/ AttemptFailure(w, k)
      PROVE  Goal
  <2>1. row[k].status \in Queued
    BY <1>8 DEF AttemptSuccess, AttemptFailure, SerialInv, SerialHand, Sessions
  <2>2. Stage[k] = "queued"
    BY <2>1, StageOfValue DEF Stage, Queued
  <2>3. /\ tried' = [tried EXCEPT ![k] = IF @ < MaxRetries THEN @ + 1 ELSE @]
        /\ acknowledged' \in {acknowledged, [acknowledged EXCEPT ![k] = TRUE]}
        /\ UNCHANGED <<Stage, Unwanted>>
    BY <1>8 DEF AttemptSuccess, AttemptFailure, CountPost, Stage, Unwanted
  <2>4. Lifecycle!Post
    BY <2>2, <2>3 DEF Lifecycle!Post, Stage, Unwanted
  <2> QED
    BY <2>4 DEF Lifecycle!Next
<1>9. ASSUME NEW s \in Sessions, Commit(s) PROVE Goal
  <2>1. ASSUME NEW k \in Keys
        PROVE  \/ Stage'[k] = Stage[k]
               \/ Stage[k] = "queued" /\ acknowledged[k] /\ Stage'[k] = "delivered"
               \/ /\ Stage[k] = "queued"
                  /\ tried[k] = MaxRetries \/ Unwanted[k]
                  /\ Stage'[k] = "dead"
               \/ Stage[k] = "dead" /\ Stage'[k] = "queued"
    <3> DEFINE o == outcome[s][k]
    <3>1. /\ o \in Outcomes /\ seen[s][k] \in Row /\ row[k] \in Row
          /\ InHandBacked(s, k) /\ SerialHand(s, k) /\ o # "selected"
          /\ row'[k] = Written(o, seen[s][k], row[k])
      BY <1>9 DEF Inv, SerialInv, TypeOK, Commit
    <3>2. Stage[k] = StageOf(row[k].status) /\ Stage'[k] = StageOf(row'[k].status)
      BY DEF Stage
    <3>3. CASE o = "none"
      BY <3>1, <3>2, <3>3, WrittenByOutcome
    <3>4. o \in {"delivered", "retry", "exhausted", "inactive"} => Stage[k] = "queued"
      BY <3>1, <3>2, StageOfValue DEF SerialHand, Sessions, Queued
    <3>5. CASE o = "delivered"
      BY <3>1, <3>2, <3>4, <3>5, WrittenByOutcome, UpdateType, StageOfValue DEF InHandBacked
    <3>6. CASE o = "retry"
      <4>1. row'[k].status \in {row[k].status, "retry_scheduled"}
        BY <3>1, <3>6, WrittenByOutcome, UpdateType
      <4> QED
        BY <3>2, <3>4, <3>6, <4>1, StageOfValue
    <3>7. CASE o = "exhausted"
      BY <3>1, <3>2, <3>4, <3>7, WrittenByOutcome, UpdateType, StageOfValue DEF InHandBacked
    <3>8. CASE o = "inactive"
      <4>1. Unwanted[k]
        BY <3>1, <3>8 DEF InHandBacked, Unwanted
      <4> QED
        BY <3>1, <3>2, <3>4, <3>8, <4>1, WrittenByOutcome, UpdateType, StageOfValue
    <3>9. CASE o = "replay"
      <4>1. row[k].status = "dead_lettered"
        BY <3>1, <3>9 DEF SerialHand, Sessions
      <4> QED
        BY <3>1, <3>2, <3>9, <4>1, WrittenByOutcome, UpdateType, StageOfValue
    <3> QED
      BY <3>1, <3>3, <3>5, <3>6, <3>7, <3>8, <3>9 DEF Outcomes
  <2> QED
    BY <1>4, <1>9, <2>1 DEF Commit
<1>10. ASSUME NEW j \in Keys, Elapse(j) PROVE Goal
  <2>1. \A k \in Keys : row'[k].status = row[k].status
    BY <1>1, <1>10 DEF Elapse, TypeOK, Row
  <2> QED
    BY <1>2, <1>10, <2>1 DEF Elapse, Stage, Unwanted
<1> QED
  BY <1>3, <1>5, <1>6, <1>7, <1>8, <1>9, <1>10
     DEF Next, vars, DispatchSelect, DispatchCheck, DispatchAbort, WorkerSelect,
         AttemptInactive, ReplaySelect, Abort

(* Without overlapping runs the tables, sessions and commits of the queue    *)
(* implement the life cycle of each delivery.                                *)
THEOREM QueueImplementsLifecycle ==
  ASSUME Serial
  PROVE  Spec => ImplementsLifecycle
<1>1. SerialInv /\ [Next]_vars => SerialInv'
  BY SerialNext
<1>2. Inv => TypeOK
  BY DEF Inv
<1> QED
  BY <1>1, <1>2, InvInit, InvNext, SerialInit, LifecycleInit, LifecycleNext, PTL
     DEF Spec, ImplementsLifecycle, Lifecycle!Spec

=============================================================================
