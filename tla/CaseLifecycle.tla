--------------------------- MODULE CaseLifecycle ---------------------------
(***************************************************************************)
(* What the gateway shows of its cases to those who read its tables, its   *)
(* audit trail and its events, without requests that overlap, time out or  *)
(* die.  A provider takes in an item; only then may an acceptance of it be *)
(* announced or recorded.  A case is opened once, stays about its item,    *)
(* and from then on its status is only ever set to announced verdicts.  A  *)
(* discrepancy is announced, enters the table once, and is in dispute from *)
(* its first dispute on, each of them announced before.                    *)
(***************************************************************************)
CONSTANTS
  Tenants,
  References,
  Systems,        \* the providers, abfics among them
  Cases,
  Discrepancies,
  Disputes,
  None

VARIABLES
  row,        \* row[c]: what case c is about and its status, or Unused
  held,       \* items the providers took in
  recorded,   \* items the audit trail calls accepted
  announced,  \* announced[c]: the verdicts announced of case c
  standing,   \* standing[d]: "unused", "open" or "in_dispute"
  dispute,    \* dispute[i]: the discrepancy of dispute i, or None
  raised      \* ids announced of discrepancies and disputes

vars == <<row, held, recorded, announced, standing, dispute, raised>>

Unused == [status |-> "unused"]

Verdicts == {"submitted", "submission_failed"}

ItemOf(c) == <<row[c].tenant, "abfics", row[c].ref>>

Init ==
  /\ row = [c \in Cases |-> Unused]
  /\ held = {}
  /\ recorded = {}
  /\ announced = [c \in Cases |-> {}]
  /\ standing = [d \in Discrepancies |-> "unused"]
  /\ dispute = [i \in Disputes |-> None]
  /\ raised = {}

Open(c, t, ref, status) ==
  /\ row[c] = Unused
  /\ row' = [row EXCEPT ![c] = [tenant |-> t, ref |-> ref, status |-> status]]
  /\ UNCHANGED <<held, recorded, announced, standing, dispute, raised>>

TakeIn(item) ==
  /\ held' = held \cup {item}
  /\ UNCHANGED <<row, recorded, announced, standing, dispute, raised>>

Announce(c, verdict) ==
  /\ row[c] # Unused
  /\ verdict = "submitted" => ItemOf(c) \in held
  /\ announced' = [announced EXCEPT ![c] = @ \cup {verdict}]
  /\ UNCHANGED <<row, held, recorded, standing, dispute, raised>>

Record(item) ==
  /\ item \in held
  /\ recorded' = recorded \cup {item}
  /\ UNCHANGED <<row, held, announced, standing, dispute, raised>>

Settle(c, verdict) ==
  /\ row[c] # Unused
  /\ verdict \in announced[c]
  /\ row' = [row EXCEPT ![c].status = verdict]
  /\ recorded' = IF verdict = "submitted" THEN recorded \cup {ItemOf(c)} ELSE recorded
  /\ UNCHANGED <<held, announced, standing, dispute, raised>>

Raise(x) ==
  /\ x \notin raised
  /\ raised' = raised \cup {x}
  /\ UNCHANGED <<row, held, recorded, announced, standing, dispute>>

Enter(d) ==
  /\ d \in raised /\ standing[d] = "unused"
  /\ standing' = [standing EXCEPT ![d] = "open"]
  /\ UNCHANGED <<row, held, recorded, announced, dispute, raised>>

Contest(d, i) ==
  /\ standing[d] # "unused"
  /\ i \in raised /\ dispute[i] = None
  /\ standing' = [standing EXCEPT ![d] = "in_dispute"]
  /\ dispute' = [dispute EXCEPT ![i] = d]
  /\ UNCHANGED <<row, held, recorded, announced, raised>>

Next ==
  \/ \E c \in Cases :
       \/ \E t \in Tenants, ref \in References, status \in {"ready_for_submission", "review_required"} :
            Open(c, t, ref, status)
       \/ \E verdict \in Verdicts : Announce(c, verdict) \/ Settle(c, verdict)
  \/ \E item \in Tenants \X Systems \X References : TakeIn(item) \/ Record(item)
  \/ \E x \in Discrepancies \cup Disputes : Raise(x)
  \/ \E d \in Discrepancies : Enter(d) \/ \E i \in Disputes : Contest(d, i)

Spec == Init /\ [][Next]_vars

=============================================================================
