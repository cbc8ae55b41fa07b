------------------------------ MODULE Gateway -------------------------------
(***************************************************************************)
(* What every request passes before and after its handler: the middleware  *)
(* of apps/api-gateway/main.py (185-227) with the rate limiter             *)
(* (libs/common/rate_limit.py) and the request counters                    *)
(* (libs/common/metrics.py), and GET /metrics, which reads them.           *)
(*                                                                         *)
(* The middleware runs on the event loop, one piece between two awaits at  *)
(* a time.  The handler of /metrics runs in a worker thread: it may read   *)
(* the counters while the loop is half-way through record_request.         *)
(***************************************************************************)
EXTENDS Integers, Sequences, FiniteSets, Functions

CONSTANTS
  Requests,     \* requests in progress
  Clients,      \* Authorization headers, or hosts
  Limited,      \* the limited paths that are ever requested: finitely many, known routes or not
  Scrape,       \* the route of /metrics, which it does not
  MaxRequests,  \* admissions of a client to a route ...
  Window,       \* ... in a span of this length
  MaxClock,     \* bound: the clock stops here
  MaxTotal      \* bound: no scrape arrives once this many requests are counted

ASSUME GatewayAssumption ==
  /\ MaxRequests \in Nat \ {0}
  /\ Window \in Nat
  /\ MaxClock \in Nat
  /\ MaxTotal \in Nat
  /\ IsFiniteSet(Limited)
  /\ Scrape \notin Limited

VARIABLES
  now,        \* time.time()
  bucket,     \* bucket[k]: the deque of key k
  admitted,   \* history: when key k was admitted, ever
  request,    \* request[q]: where request q is
  total, failed,  \* _total_requests, _failed_requests
  routes,     \* _per_route; a route without an entry has no counts
  recording   \* the record_request the loop is in, or Nothing

vars == <<now, bucket, admitted, request, total, failed, routes, recording>>

(* Limiter and counters go by the path as it is requested, ids and all.      *)
Keys == Limited \X Clients

Paths == Limited \cup {Scrape}

Counts == [requests : Nat, failed : Nat]

PerRoute == [Paths -> Counts]

NoCounts == [requests |-> 0, failed |-> 0]

Idle == [phase |-> "idle"]

Request ==
  {Idle}
    \cup [phase : {"handling"}, path : Paths]
    \cup [phase : {"refused"}, key : Keys, at : Nat]
    \cup [phase : {"total-read"}, total : Nat]
    \cup [phase : {"failed-read"}, total : Nat, failed : Nat]
    \cup [phase : {"copied"}, total : Nat, failed : Nat, names : SUBSET Paths]
    \cup [phase : {"answered"}, total : Nat, failed : Nat, routes : PerRoute]

Nothing == [step |-> "none"]

Recording == [step : {"failed", "route"}, path : Paths, failed : BOOLEAN]

TypeOK ==
  /\ now \in Nat
  /\ bucket \in [Keys -> Seq(Nat)]
  /\ admitted \in [Keys -> Seq(Nat)]
  /\ request \in [Requests -> Request]
  /\ total \in Nat /\ failed \in Nat
  /\ routes \in PerRoute
  /\ recording \in Recording \cup {Nothing}

Init ==
  /\ now = 0
  /\ bucket = [k \in Keys |-> <<>>]
  /\ admitted = [k \in Keys |-> <<>>]
  /\ request = [q \in Requests |-> Idle]
  /\ total = 0 /\ failed = 0
  /\ routes = [p \in Paths |-> NoCounts]
  /\ recording = Nothing

LoopIsFree == recording = Nothing

Moved(q, r) == request' = [request EXCEPT ![q] = r]

Tick ==
  /\ now < MaxClock
  /\ now' = now + 1
  /\ UNCHANGED <<bucket, admitted, request, total, failed, routes, recording>>

-----------------------------------------------------------------------------
\* Mutant: an entry as old as the window is popped too.
PopsAtWindow(k, n) ==
  /\ \A i \in 1..n : bucket[k][i] <= now - Window
  /\ n < Len(bucket[k]) => bucket[k][n + 1] > now - Window

(* allow: the first n entries of the bucket are older than the window and    *)
(* popped; the rest counts.                                                  *)
Pops(k, n) ==
  /\ \A i \in 1..n : bucket[k][i] < now - Window
  /\ n < Len(bucket[k]) => bucket[k][n + 1] >= now - Window

Recent(k, n) == SubSeq(bucket[k], n + 1, Len(bucket[k]))

(* A client's requests are counted before anything else is looked at: one    *)
(* without a tenant header has spent its turn and is refused all the same.   *)
Admit(q, k) ==
  /\ LoopIsFree /\ request[q] = Idle
  /\ \E n \in 0..Len(bucket[k]) :
       /\ Pops(k, n)
       /\ Len(Recent(k, n)) < MaxRequests
       /\ bucket' = [bucket EXCEPT ![k] = Append(Recent(k, n), now)]
  /\ admitted' = [admitted EXCEPT ![k] = Append(@, now)]
  /\ Moved(q, [phase |-> "handling", path |-> k[1]]) \/ Moved(q, Idle)
  /\ UNCHANGED <<now, total, failed, routes, recording>>

\* Mutant: a refused request is entered in the bucket as well.
RefuseAndCount(q, k) ==
  /\ LoopIsFree /\ request[q] = Idle
  /\ \E n \in 0..Len(bucket[k]) :
       /\ Pops(k, n)
       /\ Len(Recent(k, n)) >= MaxRequests
       /\ bucket' = [bucket EXCEPT ![k] = Append(Recent(k, n), now)]
  /\ Moved(q, [phase |-> "refused", key |-> k, at |-> now])
  /\ UNCHANGED <<now, admitted, total, failed, routes, recording>>

(* 429, which no counter sees.                                               *)
Refuse(q, k) ==
  /\ LoopIsFree /\ request[q] = Idle
  /\ \E n \in 0..Len(bucket[k]) :
       /\ Pops(k, n)
       /\ Len(Recent(k, n)) >= MaxRequests
       /\ bucket' = [bucket EXCEPT ![k] = Recent(k, n)]
  /\ Moved(q, [phase |-> "refused", key |-> k, at |-> now])
  /\ UNCHANGED <<now, admitted, total, failed, routes, recording>>

(* /metrics is outside /api/v1: no limit, no tenant.                         *)
ArriveScrape(q) ==
  /\ LoopIsFree /\ request[q] = Idle /\ total < MaxTotal
  /\ Moved(q, [phase |-> "handling", path |-> Scrape])
  /\ UNCHANGED <<now, bucket, admitted, total, failed, routes, recording>>

(* The caller has its 429, or the handler raised: nothing is counted.        *)
Drop(q) ==
  /\ request[q].phase \in {"handling", "refused"}
  /\ Moved(q, Idle)
  /\ UNCHANGED <<now, bucket, admitted, total, failed, routes, recording>>

-----------------------------------------------------------------------------
(* record_request, a counter at a time.                                      *)
Respond(q, isFailed) ==
  /\ LoopIsFree
  /\ \/ request[q].phase = "handling" /\ request[q].path \in Limited
     \/ request[q].phase = "answered" /\ ~isFailed
  /\ total' = total + 1
  /\ recording' = [step |-> "failed", failed |-> isFailed, path |->
                    IF request[q].phase = "answered" THEN Scrape ELSE request[q].path]
  /\ Moved(q, Idle)
  /\ UNCHANGED <<now, bucket, admitted, failed, routes>>

CountFailed ==
  /\ recording.step = "failed"
  /\ failed' = IF recording.failed THEN failed + 1 ELSE failed
  /\ recording' = [recording EXCEPT !.step = "route"]
  /\ UNCHANGED <<now, bucket, admitted, request, total, routes>>

\* Mutant: a request is counted as failed or as a request, not as both.
CountedApart(path, isFailed) ==
  [routes EXCEPT ![path].requests = IF isFailed THEN @ ELSE @ + 1,
                 ![path].failed = IF isFailed THEN @ + 1 ELSE @]

\* Mutant: a success takes a failure off again.
CountedDown(path, isFailed) ==
  [routes EXCEPT ![path].requests = @ + 1,
                 ![path].failed = IF isFailed THEN @ + 1 ELSE @ - 1]

(* setdefault and the increments.                                            *)
Counted(path, isFailed) ==
  [routes EXCEPT ![path].requests = @ + 1,
                 ![path].failed = IF isFailed THEN @ + 1 ELSE @]

CountRoute ==
  /\ recording.step = "route"
  /\ routes' = Counted(recording.path, recording.failed)
  /\ recording' = Nothing
  /\ UNCHANGED <<now, bucket, admitted, request, total, failed>>

-----------------------------------------------------------------------------
(* snapshot, in its thread: a field at a time, then a copy of the outer      *)
(* dictionary whose counts are still those of the recorder.                  *)
ReadTotal(q) ==
  /\ request[q] = [phase |-> "handling", path |-> Scrape]
  /\ Moved(q, [phase |-> "total-read", total |-> total])
  /\ UNCHANGED <<now, bucket, admitted, total, failed, routes, recording>>

ReadFailed(q) ==
  /\ request[q].phase = "total-read"
  /\ Moved(q, [phase |-> "failed-read", total |-> request[q].total, failed |-> failed])
  /\ UNCHANGED <<now, bucket, admitted, total, failed, routes, recording>>

CopyRoutes(q) ==
  /\ request[q].phase = "failed-read"
  /\ Moved(q, [phase |-> "copied", total |-> request[q].total,
               failed |-> request[q].failed, names |-> {p \in Paths : routes[p].requests > 0}])
  /\ UNCHANGED <<now, bucket, admitted, total, failed, routes, recording>>

(* Back on the loop, the answer is made of that copy.                        *)
Answer(q) ==
  /\ LoopIsFree
  /\ request[q].phase = "copied"
  /\ Moved(q, [phase |-> "answered", total |-> request[q].total,
               failed |-> request[q].failed,
               routes |-> [p \in Paths |->
                 IF p \in request[q].names THEN routes[p] ELSE NoCounts]])
  /\ UNCHANGED <<now, bucket, admitted, total, failed, routes, recording>>

Next ==
  \/ Tick
  \/ \E q \in Requests :
       \/ \E k \in Keys : Admit(q, k) \/ Refuse(q, k)
       \/ ArriveScrape(q) \/ Drop(q)
       \/ \E isFailed \in BOOLEAN : Respond(q, isFailed)
       \/ ReadTotal(q) \/ ReadFailed(q) \/ CopyRoutes(q) \/ Answer(q)
  \/ CountFailed \/ CountRoute

Spec == Init /\ [][Next]_vars

-----------------------------------------------------------------------------
(* No MaxRequests + 1 admissions of one client to one route are within one   *)
(* window, wherever that window starts.                                      *)
WindowNeverExceeded ==
  \A k \in Keys : \A i \in 1..(Len(admitted[k]) - MaxRequests) :
    admitted[k][i + MaxRequests] - admitted[k][i] > Window

(* Whoever is refused had MaxRequests admissions within the window that ends *)
(* then: attempts that were refused do not prolong the refusal.              *)
RefusedWasBusy ==
  \A q \in Requests : request[q].phase = "refused" =>
    LET r == request[q]
        a == admitted[r.key]
    IN \E i \in 1..(Len(a) - MaxRequests + 1) :
         a[i] >= r.at - Window /\ a[i + MaxRequests - 1] <= r.at

(* What /metrics answers fits together although it is read in pieces: its    *)
(* totals are at most one request ahead of the sums over the routes that it  *)
(* shows.  (They may be any number behind, and failed ahead of total.)       *)
AnswerFitsTogether ==
  \A q \in Requests : request[q].phase = "answered" =>
    LET r == request[q]
    IN /\ r.total <= 1 + SumFunction([p \in Paths |-> r.routes[p].requests])
       /\ r.failed <= 1 + SumFunction([p \in Paths |-> r.routes[p].failed])
       /\ \A p \in Paths : r.routes[p].failed <= r.routes[p].requests

-----------------------------------------------------------------------------
(* The log is that of all admissions, which no deque keeps; a caller is told *)
(* of its refusal until it leaves.                                           *)
Refusals ==
  [q \in Requests |->
    IF request[q].phase = "refused"
    THEN [key |-> request[q].key, at |-> request[q].at]
    ELSE [at |-> -1]]

Promise == INSTANCE SlidingWindow WITH
  Callers <- Requests, log <- admitted, refusal <- Refusals

(* The deques, popped from the front and forgetful of what is older than the *)
(* window, decide as the full log would: a request is admitted exactly when  *)
(* the log has fewer than MaxRequests entries in the window.                 *)
ImplementsSlidingWindow == Promise!Spec

=============================================================================
