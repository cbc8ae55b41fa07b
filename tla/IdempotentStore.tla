-------------------------- MODULE IdempotentStore --------------------------
(***************************************************************************)
(* What an Idempotency-Key promises, without requests that overlap, die or *)
(* lose a race: whatever is sent under a key, its work is done at most     *)
(* once, at one moment, and from then on the key holds the document made   *)
(* and the body it was made from.  Nobody is answered with anything else,  *)
(* and nobody is told of a conflict unless the key holds another body.     *)
(***************************************************************************)
CONSTANTS
  Clients,    \* who asks
  Keys,       \* idempotency keys
  KeyOf,      \* KeyOf[c]: the key of client c's request
  PayloadOf,  \* PayloadOf[c]: its body
  Malformed,  \* bodies no work is done for
  Documents,  \* what the work makes
  None        \* nothing

VARIABLES
  row,      \* row[k]: what key k holds, or Unused
  maker,    \* maker[d]: the client document d was made for, or None
  answers,  \* <<client, document>>: who was answered with what
  refusals  \* <<client, status code>>: who was refused, and how

vars == <<row, maker, answers, refusals>>

Unused == [document |-> None]

Init ==
  /\ row = [k \in Keys |-> Unused]
  /\ maker = [d \in Documents |-> None]
  /\ answers = {}
  /\ refusals = {}

Fits(c) == row[KeyOf[c]] # Unused /\ row[KeyOf[c]].request_hash = PayloadOf[c]

Perform(c, d) ==
  /\ row[KeyOf[c]] = Unused
  /\ PayloadOf[c] \notin Malformed
  /\ maker[d] = None
  /\ row' = [row EXCEPT ![KeyOf[c]] = [request_hash |-> PayloadOf[c], document |-> d]]
  /\ maker' = [maker EXCEPT ![d] = c]
  /\ UNCHANGED <<answers, refusals>>

Answer(c) ==
  /\ Fits(c)
  /\ answers' = answers \cup {<<c, row[KeyOf[c]].document>>}
  /\ UNCHANGED <<row, maker, refusals>>

Conflict(c) ==
  /\ row[KeyOf[c]] # Unused /\ ~Fits(c)
  /\ refusals' = refusals \cup {<<c, 409>>}
  /\ UNCHANGED <<row, maker, answers>>

Reject(c) ==
  /\ row[KeyOf[c]] = Unused /\ PayloadOf[c] \in Malformed
  /\ refusals' = refusals \cup {<<c, 400>>}
  /\ UNCHANGED <<row, maker, answers>>

Next ==
  \E c \in Clients :
    \/ \E d \in Documents : Perform(c, d)
    \/ Answer(c)
    \/ Conflict(c)
    \/ Reject(c)

Spec == Init /\ [][Next]_vars

=============================================================================
