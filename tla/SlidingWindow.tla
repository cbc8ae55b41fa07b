--------------------------- MODULE SlidingWindow ---------------------------
(***************************************************************************)
(* What the rate limiter promises, without deques: of each key there is    *)
(* the log of all its admissions, and a request is admitted exactly when   *)
(* fewer than MaxRequests entries of the log are in the window that ends   *)
(* now.  A refusal leaves the log as it is.                                *)
(***************************************************************************)
EXTENDS Integers, Sequences, FiniteSets

CONSTANTS
  Keys,         \* what is limited: a route for a client
  Callers,      \* who asks
  MaxRequests,  \* admissions of a key ...
  Window        \* ... in a span of this length

VARIABLES
  now,      \* the time
  log,      \* log[k]: when key k was admitted
  refusal   \* refusal[q]: the refusal caller q is being told, or Silent

vars == <<now, log, refusal>>

Silent == [at |-> -1]

Init ==
  /\ now = 0
  /\ log = [k \in Keys |-> <<>>]
  /\ refusal = [q \in Callers |-> Silent]

InWindow(k) == {i \in 1..Len(log[k]) : log[k][i] >= now - Window}

Admit(k) ==
  /\ Cardinality(InWindow(k)) < MaxRequests
  /\ log' = [log EXCEPT ![k] = Append(@, now)]
  /\ UNCHANGED <<now, refusal>>

Refuse(q, k) ==
  /\ Cardinality(InWindow(k)) >= MaxRequests
  /\ refusal' = [refusal EXCEPT ![q] = [key |-> k, at |-> now]]
  /\ UNCHANGED <<now, log>>

Told(q) ==
  /\ refusal' = [refusal EXCEPT ![q] = Silent]
  /\ UNCHANGED <<now, log>>

Tick ==
  /\ now' \in Nat /\ now' > now
  /\ UNCHANGED <<log, refusal>>

Next ==
  \/ Tick
  \/ \E k \in Keys : Admit(k) \/ \E q \in Callers : Refuse(q, k)
  \/ \E q \in Callers : Told(q)

Spec == Init /\ [][Next]_vars

=============================================================================
