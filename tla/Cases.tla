-------------------------------- MODULE Cases --------------------------------
(***************************************************************************)
(* What the gateway sends to authorities, carriers and accounting systems, *)
(* and the cases it keeps about it: export cases (modules/aeca), air       *)
(* waybills (modules/awb), invoices (modules/fiar), and discrepancies with *)
(* their disputes (modules/discrepancy).                                   *)
(*                                                                         *)
(* A submission is POSTed under an idempotency key in the middle of a      *)
(* transaction; its event is published before the commit.  An answer that  *)
(* never comes is not caught: the request ends and nothing is kept of it.  *)
(***************************************************************************)
EXTENDS Naturals, FiniteSets

CONSTANTS
  Tenants,
  References,     \* export references, air waybill numbers, invoice ids
  Carriers,       \* the cargo adapters
  Cases,          \* ids of export cases
  Discrepancies,  \* ids of discrepancies
  Disputes,       \* ids of disputes; their number bounds the disputes announced
  Sessions,       \* concurrent requests
  None            \* NULL

ASSUME CarrierAssumption == {"abfics", "Accounting"} \cap Carriers = {}

ASSUME IdAssumption ==
  /\ None \notin Cases /\ None \notin Discrepancies
  /\ Discrepancies \cap Disputes = {}

VARIABLES
  export,      \* export[c]: the committed row c, or Unused
  recorded,    \* items that a committed audit row calls accepted
  discrepancy, \* discrepancy[d]: the status of the committed row d, or "unused"
  dispute,     \* dispute[i]: the discrepancy of the committed row i, or None
  session,     \* session[s]: the open request of s, or Idle
  registered,  \* what the providers hold, by idempotency key
  announced,   \* announced[c]: the verdicts of its export.submission.updated events
  last,        \* last[c]: the verdict of the last one, or "none"
  disturbed,   \* cases with submissions that overlapped, or died once announced
  raised       \* ids the discrepancy and dispute events named

vars == <<export, recorded, discrepancy, dispute, session, registered, announced, last,
          disturbed, raised>>

Systems == Carriers \cup {"abfics", "Accounting"}

Items == Tenants \X Systems \X References

Verdicts == {"submitted", "submission_failed"}

Statuses == {"ready_for_submission", "review_required"} \cup Verdicts

Export == [tenant : Tenants, ref : References, status : Statuses]

Unused == [status |-> "unused"]

Idle == [kind |-> "idle"]

Submission ==
  [kind : {"submission"}, item : Items, case : Cases \cup {None},
   loaded : Statuses \cup {"none"}, verdict : Verdicts \cup {"none"}, announced : BOOLEAN]

Finding == [kind : {"finding"}, discrepancy : Discrepancies, founded : BOOLEAN]

Disputing == [kind : {"dispute"}, discrepancy : Discrepancies, dispute : Disputes]

Registration == [key : Items, item : Items]

TypeOK ==
  /\ export \in [Cases -> Export \cup {Unused}]
  /\ recorded \in SUBSET Items
  /\ discrepancy \in [Discrepancies -> {"unused", "open", "in_dispute"}]
  /\ dispute \in [Disputes -> Discrepancies \cup {None}]
  /\ session \in [Sessions -> {Idle} \cup Submission \cup Finding \cup Disputing]
  /\ registered \in SUBSET Registration
  /\ announced \in [Cases -> SUBSET Verdicts]
  /\ last \in [Cases -> Verdicts \cup {"none"}]
  /\ disturbed \in SUBSET Cases
  /\ raised \in SUBSET (Discrepancies \cup Disputes)

Submitting(s) == session[s].kind = "submission"

(* The open submissions of a case. *)
SubmittersOf(c) == {s \in Sessions : Submitting(s) /\ session[s].case = c}

ItemOf(c) == <<export[c].tenant, "abfics", export[c].ref>>

Init ==
  /\ export = [c \in Cases |-> Unused]
  /\ recorded = {}
  /\ discrepancy = [d \in Discrepancies |-> "unused"]
  /\ dispute = [i \in Disputes |-> None]
  /\ session = [s \in Sessions |-> Idle]
  /\ registered = {}
  /\ announced = [c \in Cases |-> {}]
  /\ last = [c \in Cases |-> "none"]
  /\ disturbed = {}
  /\ raised = {}

-----------------------------------------------------------------------------
(* Export cases, and submissions to a provider. *)

(* validate_export finds fault with the code or the country, or one of the   *)
(* declarations is blank: the case waits for a review.  One transaction.     *)
CreateExport(c, t, ref, sound) ==
  /\ export[c] = Unused
  /\ export' = [export EXCEPT ![c] =
       [tenant |-> t, ref |-> ref,
        status |-> IF sound THEN "ready_for_submission" ELSE "review_required"]]
  /\ UNCHANGED <<recorded, discrepancy, dispute, session, registered, announced, last,
                 disturbed, raised>>

Submit(s, item, c, loaded) ==
  /\ session[s] = Idle
  /\ session' = [session EXCEPT ![s] =
       [kind |-> "submission", item |-> item, case |-> c, loaded |-> loaded,
        verdict |-> "none", announced |-> FALSE]]
  /\ disturbed' = IF c # None /\ SubmittersOf(c) # {} THEN disturbed \cup {c} ELSE disturbed
  /\ UNCHANGED <<export, recorded, discrepancy, dispute, registered, announced, last, raised>>

(* The case is loaded and submitted whatever its status. *)
SubmitExport(s, c) ==
  /\ export[c] # Unused
  /\ Submit(s, ItemOf(c), c, export[c].status)

(* An unknown provider is refused before anything happens. *)
SubmitAwb(s, t, carrier, ref) == Submit(s, <<t, carrier, ref>>, None, "none")

ExportInvoice(s, t, ref) == Submit(s, <<t, "Accounting", ref>>, None, "none")

\* Mutant: every request has a key of its own.
KeyPerRequest(s) == <<session[s].item, s>>

(* {tenant}:{provider}:{reference}, whatever the payload. *)
IdempotencyKey(s) == session[s].item

(* A provider registers the first request of a key and repeats its answer to *)
(* the others.                                                               *)
Registering(s) ==
  registered \cup
    {r \in {[key |-> IdempotencyKey(s), item |-> session[s].item]} :
       \A q \in registered : q.key # r.key}

Awaiting(s) == Submitting(s) /\ session[s].verdict = "none"

(* A status the adapter knows. *)
Accepted(s) ==
  /\ Awaiting(s)
  /\ registered' = Registering(s)
  /\ session' = [session EXCEPT ![s].verdict = "submitted"]
  /\ UNCHANGED <<export, recorded, discrepancy, dispute, announced, last, disturbed, raised>>

\* Mutant: an answer in no known form passes for an acceptance.
RefusedUnread(s) ==
  /\ Awaiting(s)
  /\ registered' \in {registered, Registering(s)}
  /\ session' = [session EXCEPT ![s].verdict = "submitted"]
  /\ UNCHANGED <<export, recorded, discrepancy, dispute, announced, last, disturbed, raised>>

(* IntegrationError: an HTTP error, no JSON, a status the adapter does not   *)
(* know.  The provider may have registered the submission.                   *)
Refused(s) ==
  /\ Awaiting(s)
  /\ registered' \in {registered, Registering(s)}
  /\ session' = [session EXCEPT ![s].verdict = "submission_failed"]
  /\ UNCHANGED <<export, recorded, discrepancy, dispute, announced, last, disturbed, raised>>

(* No answer within the timeout.  httpx raises what nothing catches.         *)
Unanswered(s) ==
  /\ Awaiting(s)
  /\ registered' \in {registered, Registering(s)}
  /\ session' = [session EXCEPT ![s] = Idle]
  /\ UNCHANGED <<export, recorded, discrepancy, dispute, announced, last, disturbed, raised>>

(* Only export cases have an event. *)
Announce(s) ==
  /\ Submitting(s)
  /\ session[s].verdict # "none" /\ session[s].case # None /\ ~session[s].announced
  /\ LET c == session[s].case
     IN /\ announced' = [announced EXCEPT ![c] = @ \cup {session[s].verdict}]
        /\ last' = [last EXCEPT ![c] = session[s].verdict]
  /\ session' = [session EXCEPT ![s].announced = TRUE]
  /\ UNCHANGED <<export, recorded, discrepancy, dispute, registered, disturbed, raised>>

\* Mutant: the row takes the status the provider answered with.
StatusAfterAnswer(loaded, verdict, current) ==
  IF verdict = "submitted" THEN "accepted" ELSE verdict

\* Mutant: only a failure is written to the row.
StatusAfterFailure(loaded, verdict, current) ==
  IF verdict = "submitted" THEN current ELSE verdict

(* The UPDATE holds status only when it differs from the one loaded.         *)
StatusAfter(loaded, verdict, current) == IF verdict = loaded THEN current ELSE verdict

\* Mutant: the event may follow the commit.
AnsweredUnannounced(s) == Submitting(s) /\ session[s].verdict # "none"

Answered(s) ==
  /\ Submitting(s)
  /\ session[s].verdict # "none"
  /\ session[s].case # None => session[s].announced

(* The audit row, and for an export case its status (and for a failure its   *)
(* compliance check, which nothing reads).                                   *)
CommitSubmission(s) ==
  /\ Answered(s)
  /\ recorded' = IF session[s].verdict = "submitted" THEN recorded \cup {session[s].item}
                 ELSE recorded
  /\ LET q == session[s]
     IN export' = [c \in Cases |-> IF c # q.case THEN export[c] ELSE
          [export[c] EXCEPT !.status = StatusAfter(q.loaded, q.verdict, @)]]
  /\ session' = [session EXCEPT ![s] = Idle]
  /\ UNCHANGED <<discrepancy, dispute, registered, announced, last, disturbed, raised>>

-----------------------------------------------------------------------------
(* Discrepancies and disputes. *)

(* discrepancy.detected is published before the row is inserted, whatever    *)
(* the score and whether or not the shipment is there.                       *)
Detect(s, d, founded) ==
  /\ session[s] = Idle
  /\ d \notin raised
  /\ raised' = raised \cup {d}
  /\ session' = [session EXCEPT ![s] =
       [kind |-> "finding", discrepancy |-> d, founded |-> founded]]
  /\ UNCHANGED <<export, recorded, discrepancy, dispute, registered, announced, last, disturbed>>

(* The foreign key holds a discrepancy to a shipment.  *)
CommitFinding(s) ==
  /\ session[s].kind = "finding"
  /\ session[s].founded
  /\ discrepancy' = [discrepancy EXCEPT ![session[s].discrepancy] = "open"]
  /\ session' = [session EXCEPT ![s] = Idle]
  /\ UNCHANGED <<export, recorded, dispute, registered, announced, last, disturbed, raised>>

(* Any discrepancy, one in dispute too.  The event is published before the   *)
(* dispute is inserted.                                                      *)
OpenDispute(s, d, i) ==
  /\ session[s] = Idle
  /\ discrepancy[d] # "unused"
  /\ i \notin raised
  /\ raised' = raised \cup {i}
  /\ session' = [session EXCEPT ![s] = [kind |-> "dispute", discrepancy |-> d, dispute |-> i]]
  /\ UNCHANGED <<export, recorded, discrepancy, dispute, registered, announced, last, disturbed>>

\* Mutant: the status follows in a transaction of its own, if at all.
CommitDisputeOnly(s) ==
  /\ session[s].kind = "dispute"
  /\ dispute' = [dispute EXCEPT ![session[s].dispute] = session[s].discrepancy]
  /\ session' = [session EXCEPT ![s] = Idle]
  /\ UNCHANGED <<export, recorded, discrepancy, registered, announced, last, disturbed, raised>>

(* A status loaded as in_dispute is not written, and is still in_dispute.    *)
CommitDispute(s) ==
  /\ session[s].kind = "dispute"
  /\ dispute' = [dispute EXCEPT ![session[s].dispute] = session[s].discrepancy]
  /\ discrepancy' = [discrepancy EXCEPT ![session[s].discrepancy] = "in_dispute"]
  /\ session' = [session EXCEPT ![s] = Idle]
  /\ UNCHANGED <<export, recorded, registered, announced, last, disturbed, raised>>

-----------------------------------------------------------------------------
(* A publish times out, a commit fails, the process is killed.  What was     *)
(* sent and published stays.                                                 *)
Abort(s) ==
  /\ session[s] # Idle
  /\ disturbed' = IF Submitting(s) /\ session[s].announced
                  THEN disturbed \cup {session[s].case} ELSE disturbed
  /\ session' = [session EXCEPT ![s] = Idle]
  /\ UNCHANGED <<export, recorded, discrepancy, dispute, registered, announced, last, raised>>

Next ==
  \/ \E c \in Cases, t \in Tenants, ref \in References, sound \in BOOLEAN :
       CreateExport(c, t, ref, sound)
  \/ \E s \in Sessions :
       \/ \E c \in Cases : SubmitExport(s, c)
       \/ \E t \in Tenants, ref \in References :
            \/ \E carrier \in Carriers : SubmitAwb(s, t, carrier, ref)
            \/ ExportInvoice(s, t, ref)
       \/ Accepted(s) \/ Refused(s) \/ Unanswered(s)
       \/ Announce(s) \/ CommitSubmission(s)
       \/ \E d \in Discrepancies :
            \/ \E founded \in BOOLEAN : Detect(s, d, founded)
            \/ \E i \in Disputes : OpenDispute(s, d, i)
       \/ CommitFinding(s) \/ CommitDispute(s) \/ Abort(s)

Spec == Init /\ [][Next]_vars

-----------------------------------------------------------------------------
Registered(item) == \E r \in registered : r.item = item

(* What the gateway says a provider accepted, in a case or in the audit      *)
(* trail, is registered there for that tenant, whatever overlapped, was lost *)
(* or was sent again.                                                        *)
AcceptedIsRegistered ==
  /\ \A item \in Items : item \in recorded => Registered(item)
  /\ \A c \in Cases : export[c] # Unused /\ export[c].status = "submitted" => Registered(ItemOf(c))

(* However often one reference is sent, after a timeout, a refusal or a lost *)
(* commit, its provider registers it once.                                   *)
RegisteredOnce == \A q, r \in registered : q.item = r.item => q = r

(* A verdict shown by a case was announced by an event about that case.      *)
VerdictWasAnnounced ==
  \A c \in Cases : export[c] # Unused /\ export[c].status \in Verdicts =>
    export[c].status \in announced[c]

(* Unless submissions of a case overlapped or died between event and commit, *)
(* its last event says what its row says: two overlapping ones may commit in *)
(* the other order, and a write of the status loaded is no write at all.     *)
SubscribersAgree ==
  \A c \in Cases : SubmittersOf(c) = {} /\ c \notin disturbed /\ last[c] # "none" =>
    export[c].status = last[c]

(* A discrepancy is in dispute just when it has a dispute, and both were     *)
(* announced, however many requests dispute it at once.                      *)
DisputesMatch ==
  /\ \A d \in Discrepancies :
       discrepancy[d] = "in_dispute" <=> \E i \in Disputes : dispute[i] = d
  /\ \A i \in Disputes : dispute[i] # None => {i, dispute[i]} \subseteq raised

-----------------------------------------------------------------------------
(* Of a registration the promise knows the item, not the key it was filed    *)
(* under.                                                                    *)
Promise == INSTANCE CaseLifecycle WITH
  row <- export, held <- {r.item : r \in registered}, standing <- discrepancy

(* Whatever overlaps, times out, dies and commits in another order, tables,  *)
(* audit trail and events show each case and discrepancy living through one  *)
(* legal life: statuses only ever move to announced verdicts, acceptances    *)
(* follow registrations, and rows follow their events.                       *)
ImplementsCaseLifecycle == Promise!Spec

=============================================================================
