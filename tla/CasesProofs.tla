----------------------------- MODULE CasesProofs -----------------------------
(* Proofs that the properties of Cases hold for any number of tenants,      *)
(* references, carriers, cases, discrepancies, disputes and requests.       *)
EXTENDS Cases, TLAPS

LEMMA SubmissionType ==
  ASSUME TypeOK, NEW s \in Sessions, Submitting(s)
  PROVE  session[s] \in Submission
  BY DEF TypeOK, Submitting, Idle, Submission, Finding, Disputing

LEMMA ItemType ==
  ASSUME TypeOK, NEW c \in Cases, export[c] # Unused
  PROVE  /\ export[c] \in Export
         /\ ItemOf(c) \in Items
         /\ export[c].status \in Statuses
<1>1. export[c] \in Export
  BY DEF TypeOK
<1> QED
  BY <1>1 DEF Export, ItemOf, Items, Systems

LEMMA SessionType ==
  ASSUME TypeOK, NEW s \in Sessions,
         NEW q \in {Idle} \cup Submission \cup Finding \cup Disputing,
         session' = [session EXCEPT ![s] = q]
  PROVE  /\ session' \in [Sessions -> {Idle} \cup Submission \cup Finding \cup Disputing]
         /\ session'[s] = q
         /\ \A u \in Sessions : u # s => session'[u] = session[u]
  BY DEF TypeOK

LEMMA RegisteringType ==
  ASSUME TypeOK, NEW s \in Sessions, Submitting(s)
  PROVE  Registering(s) \in SUBSET Registration
<1>1. session[s].item \in Items
  BY SubmissionType DEF Submission
<1> QED
  BY <1>1 DEF TypeOK, Registering, IdempotencyKey, Registration

LEMMA VerdictType ==
  ASSUME TypeOK, NEW s \in Sessions, Submitting(s), NEW v \in Verdicts
  PROVE  [session[s] EXCEPT !.verdict = v] \in Submission
  BY SubmissionType DEF Submission

(* Type correctness of the steps of a submission and of a dispute.           *)
LEMMA SubmitType ==
  ASSUME TypeOK, NEW s \in Sessions, NEW item \in Items, NEW c \in Cases \cup {None},
         NEW loaded \in Statuses \cup {"none"}, Submit(s, item, c, loaded)
  PROVE  TypeOK'
<1> DEFINE q == [kind |-> "submission", item |-> item, case |-> c, loaded |-> loaded,
                 verdict |-> "none", announced |-> FALSE]
<1>1. q \in Submission
  BY DEF Submission
<1>2. session' = [session EXCEPT ![s] = q]
  BY DEF Submit
<1>3. session' \in [Sessions -> {Idle} \cup Submission \cup Finding \cup Disputing]
  BY <1>1, <1>2, SessionType
<1>4. disturbed' \in SUBSET Cases
  BY DEF Submit, TypeOK
<1> QED
  BY <1>3, <1>4 DEF Submit, TypeOK

LEMMA CreateType ==
  ASSUME TypeOK, NEW c \in Cases, NEW t \in Tenants, NEW ref \in References,
         NEW sound \in BOOLEAN, CreateExport(c, t, ref, sound)
  PROVE  TypeOK'
<1>1. export' \in [Cases -> Export \cup {Unused}]
  BY DEF CreateExport, TypeOK, Export, Statuses
<1> QED
  BY <1>1 DEF CreateExport, TypeOK

LEMMA AnswerType ==
  ASSUME TypeOK, NEW s \in Sessions, Accepted(s) \/ Refused(s) \/ Unanswered(s)
  PROVE  TypeOK'
<1>1. Submitting(s)
  BY DEF Accepted, Refused, Unanswered, Awaiting
<1>2. registered' \in SUBSET Registration
  BY <1>1, RegisteringType DEF Accepted, Refused, Unanswered, TypeOK
<1>3. session' \in [Sessions -> {Idle} \cup Submission \cup Finding \cup Disputing]
  <2>1. CASE Accepted(s)
    <3>1. [session[s] EXCEPT !.verdict = "submitted"] \in Submission
      BY <1>1, VerdictType DEF Verdicts
    <3> QED
      BY <2>1, <3>1 DEF Accepted, TypeOK
  <2>2. CASE Refused(s)
    <3>1. [session[s] EXCEPT !.verdict = "submission_failed"] \in Submission
      BY <1>1, VerdictType DEF Verdicts
    <3> QED
      BY <2>2, <3>1 DEF Refused, TypeOK
  <2>3. CASE Unanswered(s)
    BY <2>3 DEF Unanswered, TypeOK
  <2> QED
    BY <2>1, <2>2, <2>3
<1> QED
  BY <1>2, <1>3 DEF Accepted, Refused, Unanswered, TypeOK

LEMMA AnnounceType ==
  ASSUME TypeOK, NEW s \in Sessions, Announce(s)
  PROVE  TypeOK'
<1>1. /\ session[s] \in Submission
      /\ session[s].case \in Cases
      /\ session[s].verdict \in Verdicts
  BY SubmissionType DEF Announce, Submission
<1>2. [session[s] EXCEPT !.announced = TRUE] \in Submission
  BY <1>1 DEF Submission
<1>3. session' \in [Sessions -> {Idle} \cup Submission \cup Finding \cup Disputing]
  BY <1>2 DEF Announce, TypeOK
<1>4. /\ announced' \in [Cases -> SUBSET Verdicts]
      /\ last' \in [Cases -> Verdicts \cup {"none"}]
  BY <1>1 DEF Announce, TypeOK
<1> QED
  BY <1>3, <1>4 DEF Announce, TypeOK

LEMMA IdleType ==
  ASSUME TypeOK, NEW s \in Sessions, session' = [session EXCEPT ![s] = Idle]
  PROVE  session' \in [Sessions -> {Idle} \cup Submission \cup Finding \cup Disputing]
  BY DEF TypeOK

(* What the commit of a submission does to its case.                         *)
LEMMA CommitEffect ==
  ASSUME TypeOK, NEW s \in Sessions, CommitSubmission(s), NEW c \in Cases,
         session[s].case = c => export[c] # Unused
  PROVE  /\ c # session[s].case => export'[c] = export[c]
         /\ c = session[s].case =>
              /\ export'[c] \in Export
              /\ export'[c].tenant = export[c].tenant /\ export'[c].ref = export[c].ref
              /\ export'[c].status =
                   StatusAfter(session[s].loaded, session[s].verdict, export[c].status)
<1>1. session[s].verdict \in Verdicts
  BY SubmissionType DEF CommitSubmission, Answered, Submission
<1>2. c # session[s].case => export'[c] = export[c]
  BY DEF CommitSubmission
<1>3. ASSUME c = session[s].case
      PROVE  /\ export'[c] \in Export
             /\ export'[c].tenant = export[c].tenant /\ export'[c].ref = export[c].ref
             /\ export'[c].status =
                  StatusAfter(session[s].loaded, session[s].verdict, export[c].status)
  <2>1. export[c] \in Export
    BY <1>3, ItemType
  <2>2. export'[c] = [export[c] EXCEPT !.status =
                        StatusAfter(session[s].loaded, session[s].verdict, @)]
    BY <1>3 DEF CommitSubmission
  <2>3. StatusAfter(session[s].loaded, session[s].verdict, export[c].status) \in Statuses
    BY <1>1, <2>1 DEF StatusAfter, Export, Statuses
  <2> QED
    BY <2>1, <2>2, <2>3 DEF Export
<1> QED
  BY <1>2, <1>3

-----------------------------------------------------------------------------
(* What an open submission knows: its case is there and it sends that case's *)
(* item, an acceptance in hand is registered, and its verdict is out once it *)
(* is announced.                                                             *)
SubmitterKnows(s) ==
  /\ session[s].case # None =>
       export[session[s].case] # Unused /\ session[s].item = ItemOf(session[s].case)
  /\ session[s].verdict = "submitted" => Registered(session[s].item)
  /\ session[s].announced =>
       session[s].case # None /\ session[s].verdict \in announced[session[s].case]

SubmittersSound == \A s \in Sessions : Submitting(s) => SubmitterKnows(s)

KeysAreItems == \A r \in registered : r.key = r.item

(* A case whose submissions never overlapped nor died after their event has  *)
(* one open submission at most, which loaded the status that is there; and   *)
(* the last event speaks of it or, once it is over, of the row.              *)
Calm(c) ==
  /\ \A s, u \in SubmittersOf(c) : s = u
  /\ \A s \in SubmittersOf(c) :
       /\ session[s].loaded = export[c].status
       /\ session[s].announced => session[s].verdict = last[c]
  /\ (\A s \in SubmittersOf(c) : ~session[s].announced) /\ last[c] # "none" =>
       export[c].status = last[c]

CalmCases == \A c \in Cases : c \notin disturbed => Calm(c)

SubmissionInv ==
  /\ TypeOK /\ KeysAreItems /\ AcceptedIsRegistered /\ VerdictWasAnnounced
  /\ SubmittersSound /\ CalmCases

(* A used row stays used, and stays about the same item.                     *)
RowsKept ==
  \A c \in Cases : export[c] # Unused => export'[c] # Unused /\ ItemOf(c)' = ItemOf(c)

LEMMA ExportIsUsed == \A x \in Export : x # Unused
  BY DEF Export, Unused, Statuses, Verdicts

LEMMA SubmitterKept ==
  ASSUME SubmissionInv, RowsKept, registered \subseteq registered',
         \A c \in Cases : announced[c] \subseteq announced'[c],
         NEW s \in Sessions, Submitting(s), session'[s] = session[s]
  PROVE  SubmitterKnows(s)'
<1>1. SubmitterKnows(s) /\ session[s] \in Submission
  BY SubmissionType DEF SubmissionInv, SubmittersSound
<1>2. session[s].case \in Cases \cup {None}
  BY <1>1 DEF Submission
<1>3. \A item \in Items : Registered(item) => Registered(item)'
  BY DEF Registered
<1>4. session[s].item \in Items
  BY <1>1 DEF Submission
<1> QED
  BY <1>1, <1>2, <1>3, <1>4 DEF SubmitterKnows, RowsKept

LEMMA CreateKeeps ==
  ASSUME SubmissionInv, NEW c \in Cases, NEW t \in Tenants, NEW ref \in References,
         NEW sound \in BOOLEAN, CreateExport(c, t, ref, sound)
  PROVE  SubmissionInv'
<1> DEFINE row == [tenant |-> t, ref |-> ref,
                   status |-> IF sound THEN "ready_for_submission" ELSE "review_required"]
<1>1. /\ export[c] = Unused
      /\ export' = [export EXCEPT ![c] = row]
      /\ UNCHANGED <<recorded, session, registered, announced, last, disturbed>>
  BY DEF CreateExport
<1>2. TypeOK'
  BY CreateType DEF SubmissionInv
<1>3. /\ export'[c] = row
      /\ \A b \in Cases : b # c => export'[b] = export[b]
      /\ export'[c].status \notin Verdicts
  BY <1>1 DEF SubmissionInv, TypeOK, Verdicts
<1>4. RowsKept
  BY <1>1, <1>3 DEF RowsKept, ItemOf
<1>5. KeysAreItems' /\ AcceptedIsRegistered' /\ VerdictWasAnnounced'
  <2>1. KeysAreItems'
    BY <1>1 DEF SubmissionInv, KeysAreItems
  <2>2. \A item \in Items : item \in recorded => Registered(item)'
    BY <1>1 DEF SubmissionInv, AcceptedIsRegistered, Registered
  <2>3. ASSUME NEW b \in Cases, export'[b] # Unused, export'[b].status \in Verdicts
        PROVE  /\ export'[b].status = "submitted" => Registered(ItemOf(b))'
               /\ export'[b].status \in announced[b]
    <3>1. b # c /\ export'[b] = export[b]
      BY <1>3, <2>3
    <3> QED
      BY <1>1, <2>3, <3>1 DEF SubmissionInv, AcceptedIsRegistered, VerdictWasAnnounced,
                              Registered, ItemOf
  <2> QED
    BY <1>1, <2>1, <2>2, <2>3 DEF AcceptedIsRegistered, VerdictWasAnnounced, Verdicts
<1>6. SubmittersSound'
  <2> SUFFICES ASSUME NEW s \in Sessions, Submitting(s)' PROVE SubmitterKnows(s)'
    BY DEF SubmittersSound
  <2> QED
    BY <1>1, <1>4, SubmitterKept DEF Submitting
<1>7. CalmCases'
  <2> SUFFICES ASSUME NEW b \in Cases, b \notin disturbed PROVE Calm(b)'
    BY <1>1 DEF CalmCases
  <2>1. Calm(b)
    BY DEF SubmissionInv, CalmCases
  <2>2. SubmittersOf(b)' = SubmittersOf(b)
    BY <1>1 DEF SubmittersOf, Submitting
  <2>3. CASE b # c
    BY <1>1, <1>3, <2>1, <2>2, <2>3 DEF Calm
  <2>4. CASE b = c
    <3>1. SubmittersOf(b) = {}
      BY <1>1, <2>4, IdAssumption DEF SubmissionInv, SubmittersSound, SubmitterKnows, SubmittersOf
    <3>2. last[b] = "none"
      <4>1. last[b] # "none" => last[b] = "unused"
        BY <1>1, <2>1, <2>4, <3>1 DEF Calm, Unused
      <4>2. last[b] \in Verdicts \cup {"none"}
        BY DEF SubmissionInv, TypeOK
      <4> QED
        BY <4>1, <4>2 DEF Verdicts
    <3> QED
      BY <1>1, <2>2, <3>1, <3>2 DEF Calm
  <2> QED
    BY <2>3, <2>4
<1> QED
  BY <1>2, <1>5, <1>6, <1>7 DEF SubmissionInv

LEMMA SubmitKeeps ==
  ASSUME SubmissionInv, NEW s \in Sessions, NEW item \in Items, NEW c \in Cases \cup {None},
         NEW loaded \in Statuses \cup {"none"}, Submit(s, item, c, loaded),
         c # None => export[c] # Unused /\ item = ItemOf(c) /\ loaded = export[c].status
  PROVE  SubmissionInv'
<1> DEFINE q == [kind |-> "submission", item |-> item, case |-> c, loaded |-> loaded,
                 verdict |-> "none", announced |-> FALSE]
<1>1. /\ session[s] = Idle
      /\ session' = [session EXCEPT ![s] = q]
      /\ disturbed' = IF c # None /\ SubmittersOf(c) # {} THEN disturbed \cup {c} ELSE disturbed
      /\ UNCHANGED <<export, recorded, registered, announced, last>>
  BY DEF Submit
<1>2. TypeOK'
  BY SubmitType DEF SubmissionInv
<1>3. /\ session'[s] = q
      /\ \A u \in Sessions : u # s => session'[u] = session[u]
      /\ ~Submitting(s)
  BY <1>1 DEF SubmissionInv, TypeOK, Idle, Submitting
<1>4. KeysAreItems' /\ AcceptedIsRegistered' /\ VerdictWasAnnounced'
  BY <1>1 DEF SubmissionInv, KeysAreItems, AcceptedIsRegistered, VerdictWasAnnounced,
              Registered, ItemOf
<1>5. SubmittersSound'
  <2> SUFFICES ASSUME NEW u \in Sessions, Submitting(u)' PROVE SubmitterKnows(u)'
    BY DEF SubmittersSound
  <2>1. CASE u = s
    BY <1>1, <1>3, <2>1 DEF SubmitterKnows, ItemOf
  <2>2. CASE u # s
    <3>1. Submitting(u) /\ session'[u] = session[u]
      BY <1>3, <2>2 DEF Submitting
    <3>2. RowsKept
      BY <1>1 DEF RowsKept, ItemOf
    <3> QED
      BY <1>1, <3>1, <3>2, SubmitterKept
  <2> QED
    BY <2>1, <2>2
<1>6. CalmCases'
  <2> SUFFICES ASSUME NEW b \in Cases, b \notin disturbed' PROVE Calm(b)'
    BY DEF CalmCases
  <2>1. Calm(b)
    BY <1>1 DEF SubmissionInv, CalmCases
  <2>2. CASE b # c
    <3>1. SubmittersOf(b)' = SubmittersOf(b)
      BY <1>3, <2>2 DEF SubmittersOf, Submitting
    <3>2. \A u \in SubmittersOf(b) : session'[u] = session[u]
      BY <1>3 DEF SubmittersOf
    <3> QED
      BY <1>1, <2>1, <3>1, <3>2 DEF Calm
  <2>3. CASE b = c
    <3>1. SubmittersOf(b) = {}
      BY <1>1, <2>3, IdAssumption
    <3>2. SubmittersOf(b)' = {s}
      BY <1>3, <2>3, <3>1 DEF SubmittersOf, Submitting
    <3>3. last[b] # "none" => export[b].status = last[b]
      BY <2>1, <3>1 DEF Calm
    <3> QED
      BY <1>1, <1>3, <2>3, <3>2, <3>3, IdAssumption DEF Calm
  <2> QED
    BY <2>2, <2>3
<1> QED
  BY <1>2, <1>4, <1>5, <1>6 DEF SubmissionInv

LEMMA AnswerKeeps ==
  ASSUME SubmissionInv, NEW s \in Sessions, Accepted(s) \/ Refused(s) \/ Unanswered(s)
  PROVE  SubmissionInv'
<1>1. /\ Submitting(s) /\ session[s].verdict = "none"
      /\ registered' \in {registered, Registering(s)}
      /\ UNCHANGED <<export, recorded, announced, last, disturbed>>
  BY DEF Accepted, Refused, Unanswered, Awaiting
<1>2. TypeOK'
  BY AnswerType DEF SubmissionInv
<1>3. session[s] \in Submission /\ SubmitterKnows(s)
  BY <1>1, SubmissionType DEF SubmissionInv, SubmittersSound
<1>4. ~session[s].announced
  <2>1. session[s].announced => session[s].verdict \in Verdicts
    BY <1>3 DEF SubmitterKnows, SubmissionInv, TypeOK, Submission
  <2> QED
    BY <1>1, <2>1 DEF Verdicts
<1>5. /\ registered \subseteq registered'
      /\ KeysAreItems'
  BY <1>1 DEF Registering, IdempotencyKey, SubmissionInv, KeysAreItems
<1>6. Accepted(s) => Registered(session[s].item)'
  <2>1. SUFFICES ASSUME Accepted(s) PROVE \E r \in registered' : r.item = session[s].item
    BY DEF Registered, Accepted
  <2> DEFINE r == [key |-> session[s].item, item |-> session[s].item]
  <2>2. CASE \A q \in registered : q.key # r.key
    <3>1. r \in registered'
      BY <2>1, <2>2 DEF Accepted, Registering, IdempotencyKey
    <3>2. r.item = session[s].item
      OBVIOUS
    <3> QED
      BY <3>1, <3>2
  <2>3. CASE \E q \in registered : q.key = r.key
    BY <1>5, <2>3 DEF SubmissionInv, KeysAreItems
  <2> QED
    BY <2>2, <2>3
<1>7. RowsKept /\ \A c \in Cases : announced[c] \subseteq announced'[c]
  BY <1>1 DEF RowsKept, ItemOf
<1>8. /\ \A u \in Sessions : u # s => session'[u] = session[u]
      /\ Accepted(s) => session'[s] = [session[s] EXCEPT !.verdict = "submitted"]
      /\ Refused(s) => session'[s] = [session[s] EXCEPT !.verdict = "submission_failed"]
      /\ Unanswered(s) => session'[s] = Idle
  BY DEF Accepted, Refused, Unanswered, SubmissionInv, TypeOK
<1>9. AcceptedIsRegistered' /\ VerdictWasAnnounced'
  BY <1>1, <1>5 DEF SubmissionInv, AcceptedIsRegistered, VerdictWasAnnounced, Registered, ItemOf
<1>10. SubmittersSound'
  <2> SUFFICES ASSUME NEW u \in Sessions, Submitting(u)' PROVE SubmitterKnows(u)'
    BY DEF SubmittersSound
  <2>1. CASE u # s
    BY <1>5, <1>7, <1>8, <2>1, SubmitterKept DEF Submitting
  <2>2. CASE u = s
    <3>1. CASE Accepted(s)
      <4>1. /\ session'[s].item = session[s].item /\ session'[s].case = session[s].case
            /\ ~session'[s].announced
        BY <1>3, <1>4, <1>8, <3>1 DEF Submission
      <4> QED
        BY <1>1, <1>3, <1>6, <2>2, <3>1, <4>1 DEF SubmitterKnows, ItemOf
    <3>2. CASE Refused(s)
      <4>1. /\ session'[s].item = session[s].item /\ session'[s].case = session[s].case
            /\ ~session'[s].announced /\ session'[s].verdict = "submission_failed"
        BY <1>3, <1>4, <1>8, <3>2 DEF Submission
      <4> QED
        BY <1>1, <1>3, <2>2, <4>1 DEF SubmitterKnows, ItemOf
    <3>3. CASE Unanswered(s)
      BY <1>8, <2>2, <3>3 DEF Submitting, Idle
    <3> QED
      BY <3>1, <3>2, <3>3
  <2> QED
    BY <2>1, <2>2
<1>11. CalmCases'
  <2> SUFFICES ASSUME NEW b \in Cases, b \notin disturbed PROVE Calm(b)'
    BY <1>1 DEF CalmCases
  <2>1. Calm(b)
    BY DEF SubmissionInv, CalmCases
  <2>2. \A u \in SubmittersOf(b)' :
          /\ u \in SubmittersOf(b)
          /\ session'[u].loaded = session[u].loaded
          /\ session'[u].announced => session[u].announced /\ session'[u].verdict = session[u].verdict
    <3>1. ASSUME NEW u \in Sessions, Submitting(u)', session'[u].case = b, u = s
          PROVE  /\ session[u].case = b
                 /\ session'[u].loaded = session[u].loaded
                 /\ ~session'[u].announced
      <4>1. CASE Accepted(s)
        BY <1>3, <1>4, <1>8, <3>1, <4>1 DEF Submission
      <4>2. CASE Refused(s)
        BY <1>3, <1>4, <1>8, <3>1, <4>2 DEF Submission
      <4>3. CASE Unanswered(s)
        BY <1>8, <3>1, <4>3 DEF Submitting, Idle
      <4> QED
        BY <4>1, <4>2, <4>3
    <3>2. ASSUME NEW u \in Sessions, u # s
          PROVE  session'[u] = session[u]
      BY <1>8, <3>2
    <3> QED
      BY <1>1, <3>1, <3>2 DEF SubmittersOf, Submitting
  <2>3. (\A u \in SubmittersOf(b)' : ~session'[u].announced) =>
          (\A u \in SubmittersOf(b) : ~session[u].announced)
    <3>1. \A u \in SubmittersOf(b) : u # s => u \in SubmittersOf(b)' /\ session'[u] = session[u]
      BY <1>8 DEF SubmittersOf, Submitting
    <3> QED
      BY <1>4, <3>1
  <2> QED
    BY <1>1, <2>1, <2>2, <2>3 DEF Calm
<1> QED
  BY <1>2, <1>5, <1>9, <1>10, <1>11 DEF SubmissionInv

LEMMA AnnounceKeeps ==
  ASSUME SubmissionInv, NEW s \in Sessions, Announce(s)
  PROVE  SubmissionInv'
<1> DEFINE c == session[s].case
           v == session[s].verdict
<1>1. /\ Submitting(s) /\ v # "none" /\ c # None /\ ~session[s].announced
      /\ announced' = [announced EXCEPT ![c] = @ \cup {v}]
      /\ last' = [last EXCEPT ![c] = v]
      /\ session' = [session EXCEPT ![s].announced = TRUE]
      /\ UNCHANGED <<export, recorded, registered, disturbed>>
  BY DEF Announce
<1>2. TypeOK'
  BY AnnounceType DEF SubmissionInv
<1>3. session[s] \in Submission /\ SubmitterKnows(s)
  BY <1>1, SubmissionType DEF SubmissionInv, SubmittersSound
<1>4. c \in Cases /\ v \in Verdicts
  BY <1>1, <1>3 DEF Submission
<1>5. /\ announced'[c] = announced[c] \cup {v} /\ last'[c] = v
      /\ \A b \in Cases : b # c => announced'[b] = announced[b] /\ last'[b] = last[b]
  BY <1>1, <1>4 DEF SubmissionInv, TypeOK
<1>6. /\ session'[s] = [session[s] EXCEPT !.announced = TRUE]
      /\ \A u \in Sessions : u # s => session'[u] = session[u]
  BY <1>1 DEF SubmissionInv, TypeOK
<1>7. /\ Submitting(s)' /\ session'[s].item = session[s].item /\ session'[s].case = c
      /\ session'[s].loaded = session[s].loaded /\ session'[s].verdict = v
      /\ session'[s].announced
  BY <1>1, <1>3, <1>6 DEF Submission, Submitting
<1>8. RowsKept /\ registered \subseteq registered'
      /\ \A b \in Cases : announced[b] \subseteq announced'[b]
  BY <1>1, <1>5 DEF RowsKept, ItemOf
<1>9. KeysAreItems' /\ AcceptedIsRegistered' /\ VerdictWasAnnounced'
  <2>1. KeysAreItems' /\ AcceptedIsRegistered'
    BY <1>1 DEF SubmissionInv, KeysAreItems, AcceptedIsRegistered, Registered, ItemOf
  <2>2. VerdictWasAnnounced'
    BY <1>1, <1>8 DEF SubmissionInv, VerdictWasAnnounced
  <2> QED
    BY <2>1, <2>2
<1>10. SubmittersSound'
  <2> SUFFICES ASSUME NEW u \in Sessions, Submitting(u)' PROVE SubmitterKnows(u)'
    BY DEF SubmittersSound
  <2>1. CASE u # s
    BY <1>6, <1>8, <2>1, SubmitterKept DEF Submitting
  <2>2. CASE u = s
    BY <1>1, <1>3, <1>5, <1>7, <2>2 DEF SubmitterKnows, ItemOf, Registered
  <2> QED
    BY <2>1, <2>2
<1>11. CalmCases'
  <2> SUFFICES ASSUME NEW b \in Cases, b \notin disturbed PROVE Calm(b)'
    BY <1>1 DEF CalmCases
  <2>1. Calm(b)
    BY DEF SubmissionInv, CalmCases
  <2>2. SubmittersOf(b)' = SubmittersOf(b)
    BY <1>1, <1>6, <1>7 DEF SubmittersOf, Submitting
  <2>3. CASE b # c
    <3>1. \A u \in SubmittersOf(b) : session'[u] = session[u]
      BY <1>6, <2>3 DEF SubmittersOf
    <3>2. last'[b] = last[b] /\ export' = export
      BY <1>1, <1>5, <2>3
    <3> QED
      BY <2>1, <2>2, <3>1, <3>2 DEF Calm
  <2>4. CASE b = c
    <3>1. SubmittersOf(b) = {s}
      BY <1>1, <2>1, <2>4 DEF Calm, SubmittersOf
    <3>2. session'[s].loaded = export'[b].status
      BY <1>1, <1>7, <2>1, <3>1 DEF Calm
    <3>3. /\ session'[s].verdict = last'[b]
          /\ session'[s].announced
      BY <1>5, <1>7, <2>4
    <3> QED
      BY <2>2, <3>1, <3>2, <3>3 DEF Calm
  <2> QED
    BY <2>3, <2>4
<1> QED
  BY <1>2, <1>9, <1>10, <1>11 DEF SubmissionInv

LEMMA CommitKeeps ==
  ASSUME SubmissionInv, NEW s \in Sessions, CommitSubmission(s)
  PROVE  SubmissionInv'
<1> DEFINE q == session[s]
<1>1. /\ Submitting(s) /\ q.verdict # "none" /\ (q.case # None => q.announced)
      /\ recorded' = IF q.verdict = "submitted" THEN recorded \cup {q.item} ELSE recorded
      /\ session' = [session EXCEPT ![s] = Idle]
      /\ UNCHANGED <<discrepancy, dispute, registered, announced, last, disturbed, raised>>
      /\ export' = [c \in Cases |-> IF c # q.case THEN export[c] ELSE
                      [export[c] EXCEPT !.status = StatusAfter(q.loaded, q.verdict, @)]]
  BY DEF CommitSubmission, Answered
<1>2. q \in Submission /\ SubmitterKnows(s)
  BY <1>1, SubmissionType DEF SubmissionInv, SubmittersSound
<1>3. q.verdict \in Verdicts /\ q.item \in Items /\ q.case \in Cases \cup {None}
  BY <1>1, <1>2 DEF Submission
<1>4. \A c \in Cases :
        /\ c # q.case => export'[c] = export[c]
        /\ c = q.case =>
             /\ export[c] # Unused /\ export'[c] \in Export
             /\ export'[c].tenant = export[c].tenant /\ export'[c].ref = export[c].ref
             /\ export'[c].status = StatusAfter(q.loaded, q.verdict, export[c].status)
  BY <1>2, CommitEffect, IdAssumption DEF SubmitterKnows, SubmissionInv
<1>5. TypeOK'
  <2>1. export' \in [Cases -> Export \cup {Unused}]
    <3>1. \A c \in Cases : export'[c] \in Export \cup {Unused}
      BY <1>4 DEF SubmissionInv, TypeOK
    <3> QED
      BY <1>1, <3>1
  <2>2. recorded' \in SUBSET Items
    BY <1>1, <1>3 DEF SubmissionInv, TypeOK
  <2> QED
    BY <1>1, <2>1, <2>2, IdleType DEF SubmissionInv, TypeOK
<1>6. RowsKept
  BY <1>4, ExportIsUsed DEF RowsKept, ItemOf
<1>7. /\ session'[s] = Idle
      /\ \A u \in Sessions : u # s => session'[u] = session[u]
  BY <1>1 DEF SubmissionInv, TypeOK
<1>8. KeysAreItems'
  BY <1>1 DEF SubmissionInv, KeysAreItems
<1>9. AcceptedIsRegistered'
  <2>1. ASSUME NEW item \in Items, item \in recorded' PROVE Registered(item)'
    BY <1>1, <1>2, <2>1 DEF SubmissionInv, AcceptedIsRegistered, SubmitterKnows, Registered
  <2>2. ASSUME NEW c \in Cases, export'[c] # Unused, export'[c].status = "submitted"
        PROVE  Registered(ItemOf(c))'
    <3>1. CASE c # q.case
      BY <1>1, <1>4, <2>2, <3>1 DEF SubmissionInv, AcceptedIsRegistered, Registered, ItemOf
    <3>2. CASE c = q.case
      <4>1. /\ export[c] # Unused /\ ItemOf(c)' = ItemOf(c)
            /\ export[c].status = "submitted" \/ q.verdict = "submitted"
        BY <1>4, <2>2, <3>2 DEF StatusAfter, ItemOf
      <4>2. q.item = ItemOf(c)
        BY <1>2, <3>2, IdAssumption DEF SubmitterKnows
      <4> QED
        BY <1>1, <1>2, <4>1, <4>2 DEF SubmissionInv, AcceptedIsRegistered, SubmitterKnows,
                                      Registered
    <3> QED
      BY <3>1, <3>2
  <2> QED
    BY <2>1, <2>2 DEF AcceptedIsRegistered
<1>10. VerdictWasAnnounced'
  <2> SUFFICES ASSUME NEW c \in Cases, export'[c] # Unused, export'[c].status \in Verdicts
               PROVE  export'[c].status \in announced[c]
    BY <1>1 DEF VerdictWasAnnounced
  <2>1. CASE c # q.case
    BY <1>4, <2>1 DEF SubmissionInv, VerdictWasAnnounced
  <2>2. CASE c = q.case
    <3>1. export[c] # Unused
      BY <1>4, <2>2
    <3>2. q.verdict \in announced[c]
      BY <1>1, <1>2, <2>2, IdAssumption DEF SubmitterKnows
    <3>3. export'[c].status = q.verdict \/ export'[c].status = export[c].status
      BY <1>4, <2>2 DEF StatusAfter
    <3> QED
      BY <3>1, <3>2, <3>3 DEF SubmissionInv, VerdictWasAnnounced
  <2> QED
    BY <2>1, <2>2
<1>11. SubmittersSound'
  <2> SUFFICES ASSUME NEW u \in Sessions, Submitting(u)' PROVE SubmitterKnows(u)'
    BY DEF SubmittersSound
  <2>1. u # s /\ Submitting(u)
    BY <1>7 DEF Submitting, Idle
  <2> QED
    BY <1>1, <1>6, <1>7, <2>1, SubmitterKept
<1>12. CalmCases'
  <2> SUFFICES ASSUME NEW b \in Cases, b \notin disturbed PROVE Calm(b)'
    BY <1>1 DEF CalmCases
  <2>1. Calm(b)
    BY DEF SubmissionInv, CalmCases
  <2>2. CASE b # q.case
    <3>1. SubmittersOf(b)' = SubmittersOf(b) /\ s \notin SubmittersOf(b)
      BY <1>7, <2>2 DEF SubmittersOf, Submitting, Idle
    <3>2. \A u \in SubmittersOf(b) : session'[u] = session[u]
      BY <1>7, <3>1 DEF SubmittersOf
    <3> QED
      BY <1>1, <1>4, <2>1, <2>2, <3>1, <3>2 DEF Calm
  <2>3. CASE b = q.case
    <3>1. s \in SubmittersOf(b) /\ b # None
      BY <1>1, <2>3, IdAssumption DEF SubmittersOf
    <3>2. SubmittersOf(b)' = {}
      BY <1>7, <2>1, <3>1 DEF Calm, SubmittersOf, Submitting, Idle
    <3>3. last[b] = q.verdict /\ q.loaded = export[b].status
      BY <1>1, <2>1, <2>3, <3>1 DEF Calm
    <3>4. export'[b].status = q.verdict
      BY <1>4, <2>3, <3>3 DEF StatusAfter
    <3> QED
      BY <1>1, <3>2, <3>3, <3>4 DEF Calm
  <2> QED
    BY <2>2, <2>3
<1> QED
  BY <1>5, <1>8, <1>9, <1>10, <1>11, <1>12 DEF SubmissionInv

LEMMA AbortKeeps ==
  ASSUME SubmissionInv, NEW s \in Sessions, Abort(s)
  PROVE  SubmissionInv'
<1>1. /\ session' = [session EXCEPT ![s] = Idle]
      /\ disturbed' = IF Submitting(s) /\ session[s].announced
                      THEN disturbed \cup {session[s].case} ELSE disturbed
      /\ UNCHANGED <<export, recorded, discrepancy, dispute, registered, announced, last, raised>>
  BY DEF Abort
<1>2. /\ session'[s] = Idle
      /\ \A u \in Sessions : u # s => session'[u] = session[u]
  BY <1>1 DEF SubmissionInv, TypeOK
<1>3. TypeOK'
  <2>1. Submitting(s) /\ session[s].announced => session[s].case \in Cases
    BY SubmissionType DEF SubmissionInv, SubmittersSound, SubmitterKnows, Submission
  <2> QED
    BY <1>1, <2>1, IdleType DEF SubmissionInv, TypeOK
<1>4. KeysAreItems' /\ AcceptedIsRegistered' /\ VerdictWasAnnounced'
  BY <1>1 DEF SubmissionInv, KeysAreItems, AcceptedIsRegistered, VerdictWasAnnounced,
              Registered, ItemOf
<1>5. SubmittersSound'
  <2> SUFFICES ASSUME NEW u \in Sessions, Submitting(u)' PROVE SubmitterKnows(u)'
    BY DEF SubmittersSound
  <2>1. u # s /\ Submitting(u)
    BY <1>2 DEF Submitting, Idle
  <2>2. RowsKept
    BY <1>1 DEF RowsKept, ItemOf
  <2> QED
    BY <1>1, <1>2, <2>1, <2>2, SubmitterKept
<1>6. CalmCases'
  <2> SUFFICES ASSUME NEW b \in Cases, b \notin disturbed' PROVE Calm(b)'
    BY DEF CalmCases
  <2>1. Calm(b) /\ b \notin disturbed
    BY <1>1 DEF SubmissionInv, CalmCases
  <2>2. SubmittersOf(b)' = SubmittersOf(b) \ {s}
    BY <1>2 DEF SubmittersOf, Submitting, Idle
  <2>3. s \in SubmittersOf(b) => ~session[s].announced
    BY <1>1 DEF SubmittersOf
  <2>4. \A u \in SubmittersOf(b)' : u \in SubmittersOf(b) /\ session'[u] = session[u]
    BY <1>2, <2>2 DEF SubmittersOf
  <2>5. \A u \in SubmittersOf(b) : u # s => u \in SubmittersOf(b)'
    BY <2>2
  <2> QED
    BY <1>1, <2>1, <2>3, <2>4, <2>5 DEF Calm
<1> QED
  BY <1>3, <1>4, <1>5, <1>6 DEF SubmissionInv

(* The steps of a discrepancy are no concern of the submissions.             *)
LEMMA OthersKeep ==
  ASSUME SubmissionInv, TypeOK',
         UNCHANGED <<export, recorded, registered, announced, last, disturbed>>,
         \A s \in Sessions : /\ Submitting(s)' <=> Submitting(s)
                             /\ Submitting(s) => session'[s] = session[s]
  PROVE  SubmissionInv'
<1>1. KeysAreItems' /\ AcceptedIsRegistered' /\ VerdictWasAnnounced'
  BY DEF SubmissionInv, KeysAreItems, AcceptedIsRegistered, VerdictWasAnnounced,
         Registered, ItemOf
<1>2. SubmittersSound'
  <2>1. RowsKept
    BY DEF RowsKept, ItemOf
  <2> QED
    BY <2>1, SubmitterKept DEF SubmittersSound
<1>3. CalmCases'
  <2> SUFFICES ASSUME NEW b \in Cases, b \notin disturbed PROVE Calm(b)'
    BY DEF CalmCases
  <2>1. Calm(b)
    BY DEF SubmissionInv, CalmCases
  <2>2. \A u \in Sessions :
          Submitting(u)' /\ session'[u].case = b <=> Submitting(u) /\ session[u].case = b
    OBVIOUS
  <2>3. SubmittersOf(b)' = SubmittersOf(b)
    BY <2>2 DEF SubmittersOf
  <2>4. \A u \in SubmittersOf(b) : session'[u] = session[u]
    BY DEF SubmittersOf
  <2> QED
    BY <2>1, <2>3, <2>4 DEF Calm
<1> QED
  BY <1>1, <1>2, <1>3 DEF SubmissionInv

-----------------------------------------------------------------------------
(* What the requests of discrepancies and disputes know: the ids they hold   *)
(* are announced, nobody else's, and not in the table yet.                   *)
FindersKnow ==
  \A s \in Sessions : session[s].kind = "finding" =>
    /\ session[s].discrepancy \in raised
    /\ discrepancy[session[s].discrepancy] = "unused"
    /\ \A u \in Sessions : session[u].kind = "finding" /\
         session[u].discrepancy = session[s].discrepancy => u = s

DisputersKnow ==
  \A s \in Sessions : session[s].kind = "dispute" =>
    /\ session[s].dispute \in raised
    /\ dispute[session[s].dispute] = None
    /\ discrepancy[session[s].discrepancy] # "unused"
    /\ \A u \in Sessions : session[u].kind = "dispute" /\
         session[u].dispute = session[s].dispute => u = s

RowsRaised ==
  /\ \A d \in Discrepancies : discrepancy[d] # "unused" => d \in raised
  /\ \A i \in Disputes : dispute[i] # None => i \in raised

DisputeInv == TypeOK /\ DisputesMatch /\ FindersKnow /\ DisputersKnow /\ RowsRaised

LEMMA FindingType ==
  ASSUME TypeOK, NEW s \in Sessions
  PROVE  /\ session[s].kind = "finding" =>
              session[s] \in Finding /\ session[s].discrepancy \in Discrepancies
         /\ session[s].kind = "dispute" =>
              /\ session[s] \in Disputing
              /\ session[s].discrepancy \in Discrepancies /\ session[s].dispute \in Disputes
  BY DEF TypeOK, Idle, Submission, Finding, Disputing

(* Submissions, and requests that die, leave all of it as it is.             *)
LEMMA SubmissionsKeepDisputes ==
  ASSUME DisputeInv, TypeOK', UNCHANGED <<discrepancy, dispute, raised>>,
         \A s \in Sessions : session'[s].kind \in {"finding", "dispute"} => session'[s] = session[s]
  PROVE  DisputeInv'
<1>1. DisputesMatch' /\ RowsRaised'
  BY DEF DisputeInv, DisputesMatch, RowsRaised
<1>2. FindersKnow'
  BY DEF DisputeInv, FindersKnow
<1>3. DisputersKnow'
  BY DEF DisputeInv, DisputersKnow
<1> QED
  BY <1>1, <1>2, <1>3 DEF DisputeInv

LEMMA DetectKeeps ==
  ASSUME DisputeInv, NEW s \in Sessions, NEW d \in Discrepancies, NEW founded \in BOOLEAN,
         Detect(s, d, founded)
  PROVE  DisputeInv' /\ ~Submitting(s) /\ ~Submitting(s)'
<1> DEFINE q == [kind |-> "finding", discrepancy |-> d, founded |-> founded]
<1>1. /\ session[s] = Idle /\ d \notin raised
      /\ raised' = raised \cup {d}
      /\ session' = [session EXCEPT ![s] = q]
      /\ UNCHANGED <<export, recorded, discrepancy, dispute, registered, announced, last, disturbed>>
  BY DEF Detect
<1>2. session'[s] = q /\ \A u \in Sessions : u # s => session'[u] = session[u]
  BY <1>1 DEF DisputeInv, TypeOK
<1>3. TypeOK'
  <2>1. q \in Finding
    BY DEF Finding
  <2> QED
    BY <1>1, <2>1 DEF DisputeInv, TypeOK
<1>4. DisputesMatch' /\ RowsRaised'
  BY <1>1 DEF DisputeInv, DisputesMatch, RowsRaised
<1>5. FindersKnow'
  <2>1. discrepancy[d] = "unused"
    BY <1>1 DEF DisputeInv, RowsRaised
  <2>2. \A u \in Sessions : session[u].kind = "finding" => session[u].discrepancy # d
    BY <1>1 DEF DisputeInv, FindersKnow
  <2> QED
    BY <1>1, <1>2, <2>1, <2>2 DEF DisputeInv, FindersKnow
<1>6. DisputersKnow'
  BY <1>1, <1>2 DEF DisputeInv, DisputersKnow
<1> QED
  BY <1>1, <1>2, <1>3, <1>4, <1>5, <1>6 DEF DisputeInv, Submitting, Idle

LEMMA CommitFindingKeeps ==
  ASSUME DisputeInv, NEW s \in Sessions, CommitFinding(s)
  PROVE  DisputeInv' /\ ~Submitting(s) /\ ~Submitting(s)'
<1> DEFINE d == session[s].discrepancy
<1>1. /\ session[s].kind = "finding"
      /\ discrepancy' = [discrepancy EXCEPT ![d] = "open"]
      /\ session' = [session EXCEPT ![s] = Idle]
      /\ UNCHANGED <<export, recorded, dispute, registered, announced, last, disturbed, raised>>
  BY DEF CommitFinding
<1>2. /\ d \in Discrepancies /\ d \in raised /\ discrepancy[d] = "unused"
      /\ \A u \in Sessions : session[u].kind = "finding" /\ session[u].discrepancy = d => u = s
  BY <1>1, FindingType DEF DisputeInv, FindersKnow
<1>3. session'[s] = Idle /\ \A u \in Sessions : u # s => session'[u] = session[u]
  BY <1>1 DEF DisputeInv, TypeOK
<1>4. discrepancy'[d] = "open" /\ \A e \in Discrepancies : e # d => discrepancy'[e] = discrepancy[e]
  BY <1>1, <1>2 DEF DisputeInv, TypeOK
<1>5. TypeOK'
  BY <1>1, IdleType DEF DisputeInv, TypeOK
<1>6. DisputesMatch' /\ RowsRaised'
  BY <1>1, <1>2, <1>4 DEF DisputeInv, DisputesMatch, RowsRaised
<1>7. FindersKnow'
  <2> SUFFICES ASSUME NEW u \in Sessions, session'[u].kind = "finding"
               PROVE  /\ session'[u] = session[u] /\ session[u].discrepancy # d
                      /\ session[u].discrepancy \in Discrepancies
    BY <1>1, <1>3, <1>4 DEF DisputeInv, FindersKnow, Idle
  <2> QED
    BY <1>2, <1>3, FindingType DEF Idle, DisputeInv
<1>8. DisputersKnow'
  <2> SUFFICES ASSUME NEW u \in Sessions, session'[u].kind = "dispute"
               PROVE  /\ session'[u] = session[u]
                      /\ session[u].discrepancy \in Discrepancies
    BY <1>1, <1>3, <1>4 DEF DisputeInv, DisputersKnow, Idle
  <2> QED
    BY <1>3, FindingType DEF Idle, DisputeInv
<1> QED
  BY <1>1, <1>3, <1>5, <1>6, <1>7, <1>8 DEF DisputeInv, Submitting, Idle

LEMMA OpenDisputeKeeps ==
  ASSUME DisputeInv, NEW s \in Sessions, NEW d \in Discrepancies, NEW i \in Disputes,
         OpenDispute(s, d, i)
  PROVE  DisputeInv' /\ ~Submitting(s) /\ ~Submitting(s)'
<1> DEFINE q == [kind |-> "dispute", discrepancy |-> d, dispute |-> i]
<1>1. /\ session[s] = Idle /\ discrepancy[d] # "unused" /\ i \notin raised
      /\ raised' = raised \cup {i}
      /\ session' = [session EXCEPT ![s] = q]
      /\ UNCHANGED <<export, recorded, discrepancy, dispute, registered, announced, last, disturbed>>
  BY DEF OpenDispute
<1>2. session'[s] = q /\ \A u \in Sessions : u # s => session'[u] = session[u]
  BY <1>1 DEF DisputeInv, TypeOK
<1>3. TypeOK'
  <2>1. q \in Disputing
    BY DEF Disputing
  <2> QED
    BY <1>1, <2>1 DEF DisputeInv, TypeOK
<1>4. DisputesMatch' /\ RowsRaised'
  BY <1>1 DEF DisputeInv, DisputesMatch, RowsRaised
<1>5. FindersKnow'
  BY <1>1, <1>2 DEF DisputeInv, FindersKnow
<1>6. DisputersKnow'
  <2>1. dispute[i] = None
    BY <1>1 DEF DisputeInv, RowsRaised
  <2>2. \A u \in Sessions : session[u].kind = "dispute" => session[u].dispute # i
    BY <1>1 DEF DisputeInv, DisputersKnow
  <2> QED
    BY <1>1, <1>2, <2>1, <2>2 DEF DisputeInv, DisputersKnow
<1> QED
  BY <1>1, <1>2, <1>3, <1>4, <1>5, <1>6 DEF DisputeInv, Submitting, Idle

LEMMA CommitDisputeKeeps ==
  ASSUME DisputeInv, NEW s \in Sessions, CommitDispute(s)
  PROVE  DisputeInv' /\ ~Submitting(s) /\ ~Submitting(s)'
<1> DEFINE d == session[s].discrepancy
           i == session[s].dispute
<1>1. /\ session[s].kind = "dispute"
      /\ dispute' = [dispute EXCEPT ![i] = d]
      /\ discrepancy' = [discrepancy EXCEPT ![d] = "in_dispute"]
      /\ session' = [session EXCEPT ![s] = Idle]
      /\ UNCHANGED <<export, recorded, registered, announced, last, disturbed, raised>>
  BY DEF CommitDispute
<1>2. /\ d \in Discrepancies /\ discrepancy[d] # "unused" /\ d \in raised
      /\ i \in Disputes /\ i \in raised /\ dispute[i] = None
      /\ \A u \in Sessions : session[u].kind = "dispute" /\ session[u].dispute = i => u = s
  BY <1>1, FindingType DEF DisputeInv, DisputersKnow, RowsRaised
<1>3. session'[s] = Idle /\ \A u \in Sessions : u # s => session'[u] = session[u]
  BY <1>1 DEF DisputeInv, TypeOK
<1>4. /\ discrepancy'[d] = "in_dispute"
      /\ \A e \in Discrepancies : e # d => discrepancy'[e] = discrepancy[e]
      /\ dispute'[i] = d /\ \A j \in Disputes : j # i => dispute'[j] = dispute[j]
  BY <1>1, <1>2 DEF DisputeInv, TypeOK
<1>5. TypeOK'
  BY <1>1, <1>2, IdleType DEF DisputeInv, TypeOK
<1>6. DisputesMatch'
  <2>1. ASSUME NEW e \in Discrepancies
        PROVE  discrepancy'[e] = "in_dispute" <=> \E j \in Disputes : dispute'[j] = e
    <3>1. CASE e = d
      BY <1>2, <1>4, <3>1
    <3>2. CASE e # d
      <4>1. \A j \in Disputes : dispute'[j] = e <=> dispute[j] = e
        BY <1>2, <1>4, <3>2, IdAssumption
      <4> QED
        BY <1>4, <3>2, <4>1 DEF DisputeInv, DisputesMatch
    <3> QED
      BY <3>1, <3>2
  <2>2. \A j \in Disputes : dispute'[j] # None => {j, dispute'[j]} \subseteq raised
    BY <1>2, <1>4 DEF DisputeInv, DisputesMatch
  <2> QED
    BY <1>1, <2>1, <2>2 DEF DisputesMatch
<1>7. RowsRaised'
  BY <1>1, <1>2, <1>4 DEF DisputeInv, RowsRaised
<1>8. FindersKnow'
  <2> SUFFICES ASSUME NEW u \in Sessions, session'[u].kind = "finding"
               PROVE  /\ session'[u] = session[u] /\ session[u].discrepancy # d
                      /\ session[u].discrepancy \in Discrepancies
    BY <1>1, <1>3, <1>4 DEF DisputeInv, FindersKnow, Idle
  <2>1. session'[u] = session[u]
    BY <1>3 DEF Idle
  <2> QED
    BY <1>2, <2>1, FindingType DEF DisputeInv, FindersKnow
<1>9. DisputersKnow'
  <2> SUFFICES ASSUME NEW u \in Sessions, session'[u].kind = "dispute"
               PROVE  /\ session'[u] = session[u] /\ session[u].dispute # i
                      /\ session[u].discrepancy \in Discrepancies
                      /\ session[u].dispute \in Disputes
    BY <1>1, <1>3, <1>4 DEF DisputeInv, DisputersKnow, Idle
  <2> QED
    BY <1>2, <1>3, FindingType DEF Idle, DisputeInv
<1> QED
  BY <1>1, <1>3, <1>5, <1>6, <1>7, <1>8, <1>9 DEF DisputeInv, Submitting, Idle

-----------------------------------------------------------------------------
LEMMA SubmissionStep ==
  ASSUME SubmissionInv, NEW s \in Sessions,
         \/ \E c \in Cases : SubmitExport(s, c)
         \/ \E t \in Tenants, ref \in References :
              \/ \E carrier \in Carriers : SubmitAwb(s, t, carrier, ref)
              \/ ExportInvoice(s, t, ref)
  PROVE  \E item \in Items, c \in Cases \cup {None}, loaded \in Statuses \cup {"none"} :
           /\ Submit(s, item, c, loaded)
           /\ c # None => export[c] # Unused /\ item = ItemOf(c) /\ loaded = export[c].status
<1>1. CASE \E c \in Cases : SubmitExport(s, c)
  BY <1>1, ItemType DEF SubmitExport, SubmissionInv
<1>2. ASSUME NEW t \in Tenants, NEW ref \in References, NEW carrier \in Carriers,
             SubmitAwb(s, t, carrier, ref)
      PROVE  <<t, carrier, ref>> \in Items /\ Submit(s, <<t, carrier, ref>>, None, "none")
  BY <1>2 DEF SubmitAwb, Items, Systems
<1>3. ASSUME NEW t \in Tenants, NEW ref \in References, ExportInvoice(s, t, ref)
      PROVE  <<t, "Accounting", ref>> \in Items /\ Submit(s, <<t, "Accounting", ref>>, None, "none")
  BY <1>3 DEF ExportInvoice, Items, Systems
<1> QED
  BY <1>1, <1>2, <1>3

Inv == SubmissionInv /\ DisputeInv

(* The session of a submission step is no finding or dispute afterwards.     *)
LEMMA SubmitterStays ==
  ASSUME TypeOK, NEW s \in Sessions,
         \/ \E item \in Items, c \in Cases \cup {None}, loaded \in Statuses \cup {"none"} :
              Submit(s, item, c, loaded)
         \/ Accepted(s) \/ Refused(s) \/ Unanswered(s)
         \/ Announce(s) \/ CommitSubmission(s) \/ Abort(s)
  PROVE  /\ UNCHANGED <<discrepancy, dispute, raised>>
         /\ \A u \in Sessions : session'[u].kind \in {"finding", "dispute"} => session'[u] = session[u]
<1>1. CASE \E item \in Items, c \in Cases \cup {None}, loaded \in Statuses \cup {"none"} :
             Submit(s, item, c, loaded)
  BY <1>1 DEF Submit, TypeOK
<1>2. CASE Accepted(s) \/ Refused(s) \/ Announce(s)
  <2>1. Submitting(s) /\ session[s] \in Submission
    BY <1>2, SubmissionType DEF Accepted, Refused, Announce, Awaiting
  <2>2. UNCHANGED <<discrepancy, dispute, raised>>
    BY <1>2 DEF Accepted, Refused, Announce
  <2>3. \A u \in Sessions : u # s => session'[u] = session[u]
    BY <1>2 DEF Accepted, Refused, Announce, TypeOK
  <2>4. session'[s].kind = "submission"
    <3>1. session[s].kind = "submission" /\ session[s] \in Submission
      BY <2>1 DEF Submitting
    <3>2. CASE Accepted(s)
      BY <3>1, <3>2 DEF Accepted, TypeOK, Submission
    <3>3. CASE Refused(s)
      BY <3>1, <3>3 DEF Refused, TypeOK, Submission
    <3>4. CASE Announce(s)
      BY <3>1, <3>4 DEF Announce, TypeOK, Submission
    <3> QED
      BY <1>2, <3>2, <3>3, <3>4
  <2> QED
    BY <2>2, <2>3, <2>4
<1>3. CASE Unanswered(s) \/ CommitSubmission(s) \/ Abort(s)
  <2>1. UNCHANGED <<discrepancy, dispute, raised>> /\ session' = [session EXCEPT ![s] = Idle]
    BY <1>3 DEF Unanswered, CommitSubmission, Abort
  <2> QED
    BY <2>1 DEF TypeOK, Idle
<1> QED
  BY <1>1, <1>2, <1>3

LEMMA InitInv == Init => Inv
<1> SUFFICES ASSUME Init PROVE Inv
  OBVIOUS
<1>1. TypeOK
  BY DEF Init, TypeOK
<1>2. SubmissionInv
  BY <1>1 DEF Init, SubmissionInv, KeysAreItems, AcceptedIsRegistered, VerdictWasAnnounced,
              SubmittersSound, Submitting, SubmittersOf, CalmCases, Calm, Idle, Unused
<1>3. DisputeInv
  <2>1. DisputesMatch
    BY IdAssumption DEF Init, DisputesMatch
  <2>2. FindersKnow /\ DisputersKnow /\ RowsRaised
    BY DEF Init, FindersKnow, DisputersKnow, RowsRaised, Idle
  <2> QED
    BY <1>1, <2>1, <2>2 DEF DisputeInv
<1> QED
  BY <1>2, <1>3 DEF Inv

LEMMA NextInv == Inv /\ [Next]_vars => Inv'
<1> SUFFICES ASSUME Inv, [Next]_vars PROVE Inv'
  OBVIOUS
<1> USE DEF Inv
<1>1. TypeOK
  BY DEF SubmissionInv
<1>2. ASSUME NEW c \in Cases, NEW t \in Tenants, NEW ref \in References, NEW sound \in BOOLEAN,
             CreateExport(c, t, ref, sound)
      PROVE  Inv'
  <2>1. SubmissionInv'
    BY <1>2, CreateKeeps
  <2>2. UNCHANGED <<discrepancy, dispute, raised, session>>
    BY <1>2 DEF CreateExport
  <2> QED
    BY <2>1, <2>2, SubmissionsKeepDisputes DEF SubmissionInv
<1>3. ASSUME NEW s \in Sessions,
             \/ \E c \in Cases : SubmitExport(s, c)
             \/ \E t \in Tenants, ref \in References :
                  \/ \E carrier \in Carriers : SubmitAwb(s, t, carrier, ref)
                  \/ ExportInvoice(s, t, ref)
      PROVE  Inv'
  <2>1. SubmissionInv'
    BY <1>3, SubmissionStep, SubmitKeeps
  <2> QED
    BY <1>1, <1>3, <2>1, SubmissionStep, SubmitterStays, SubmissionsKeepDisputes DEF SubmissionInv
<1>4. ASSUME NEW s \in Sessions, Accepted(s) \/ Refused(s) \/ Unanswered(s) PROVE Inv'
  <2>1. SubmissionInv'
    BY <1>4, AnswerKeeps
  <2> QED
    BY <1>1, <1>4, <2>1, SubmitterStays, SubmissionsKeepDisputes DEF SubmissionInv
<1>5. ASSUME NEW s \in Sessions, Announce(s) PROVE Inv'
  <2>1. SubmissionInv'
    BY <1>5, AnnounceKeeps
  <2> QED
    BY <1>1, <1>5, <2>1, SubmitterStays, SubmissionsKeepDisputes DEF SubmissionInv
<1>6. ASSUME NEW s \in Sessions, CommitSubmission(s) PROVE Inv'
  <2>1. SubmissionInv'
    BY <1>6, CommitKeeps
  <2> QED
    BY <1>1, <1>6, <2>1, SubmitterStays, SubmissionsKeepDisputes DEF SubmissionInv
<1>7. ASSUME NEW s \in Sessions, Abort(s) PROVE Inv'
  <2>1. SubmissionInv'
    BY <1>7, AbortKeeps
  <2> QED
    BY <1>1, <1>7, <2>1, SubmitterStays, SubmissionsKeepDisputes DEF SubmissionInv
<1>8. ASSUME NEW s \in Sessions,
             \/ \E d \in Discrepancies :
                  \/ \E founded \in BOOLEAN : Detect(s, d, founded)
                  \/ \E i \in Disputes : OpenDispute(s, d, i)
             \/ CommitFinding(s) \/ CommitDispute(s)
      PROVE  Inv'
  <2>1. DisputeInv' /\ ~Submitting(s) /\ ~Submitting(s)'
    BY <1>8, DetectKeeps, OpenDisputeKeeps, CommitFindingKeeps, CommitDisputeKeeps
  <2>2. /\ UNCHANGED <<export, recorded, registered, announced, last, disturbed>>
        /\ \A u \in Sessions : u # s => session'[u] = session[u]
    BY <1>1, <1>8 DEF Detect, OpenDispute, CommitFinding, CommitDispute, TypeOK
  <2>3. \A u \in Sessions : /\ Submitting(u)' <=> Submitting(u)
                            /\ Submitting(u) => session'[u] = session[u]
    BY <2>1, <2>2 DEF Submitting
  <2> QED
    BY <2>1, <2>2, <2>3, OthersKeep DEF DisputeInv
<1>9. CASE UNCHANGED vars
  <2>1. TypeOK'
    BY <1>1, <1>9 DEF vars, TypeOK
  <2>2. SubmissionInv'
    BY <1>9, <2>1, OthersKeep DEF vars, Submitting
  <2> QED
    BY <1>9, <2>1, <2>2, SubmissionsKeepDisputes DEF vars
<1> QED
  BY <1>2, <1>3, <1>4, <1>5, <1>6, <1>7, <1>8, <1>9 DEF Next

(* The inductive invariant holds in every reachable state.                   *)
THEOREM CaseInvariance == Spec => []Inv
<1> QED
  BY InitInv, NextInv, PTL DEF Spec

(* Every row, open request, registration and event has its shape.            *)
THEOREM CaseTypeCorrect == Spec => []TypeOK
<1>1. Inv => TypeOK
  BY DEF Inv, SubmissionInv
<1> QED
  BY <1>1, CaseInvariance, PTL

(* What cases and audit trail call accepted is registered with the provider. *)
THEOREM AcceptanceSound == Spec => []AcceptedIsRegistered
<1>1. Inv => AcceptedIsRegistered
  BY DEF Inv, SubmissionInv
<1> QED
  BY <1>1, CaseInvariance, PTL

(* Repeated, overlapping and lost submissions of a reference register once.  *)
THEOREM RegistrationUnique == Spec => []RegisteredOnce
<1>1. Inv => RegisteredOnce
  <2> SUFFICES ASSUME Inv, NEW q \in registered, NEW r \in registered, q.item = r.item
               PROVE  q = r
    BY DEF RegisteredOnce
  <2>1. q \in Registration /\ r \in Registration /\ q.key = r.key
    BY DEF Inv, SubmissionInv, TypeOK, KeysAreItems
  <2> QED
    BY <2>1 DEF Registration
<1> QED
  BY <1>1, CaseInvariance, PTL

(* Verdicts are announced before a case shows them, and the last event agrees *)
(* with the row of a case that nothing disturbed.                             *)
THEOREM EventsSound == Spec => [](VerdictWasAnnounced /\ SubscribersAgree)
<1>1. Inv => VerdictWasAnnounced
  BY DEF Inv, SubmissionInv
<1>2. Inv => SubscribersAgree
  BY DEF Inv, SubmissionInv, CalmCases, Calm, SubscribersAgree
<1> QED
  BY <1>1, <1>2, CaseInvariance, PTL

(* A discrepancy is in dispute just when it has an announced dispute.        *)
THEOREM DisputesSound == Spec => []DisputesMatch
<1>1. Inv => DisputesMatch
  BY DEF Inv, DisputeInv
<1> QED
  BY <1>1, CaseInvariance, PTL

(* A case shows no verdict that was not announced (submit_export_case).      *)
THEOREM VerdictsAnnounced == Spec => []VerdictWasAnnounced
BY EventsSound, PTL

(* Without an overlap or a death after the event, the last event of a case   *)
(* says what its row says (submit_export_case).                              *)
THEOREM LastEventAgrees == Spec => []SubscribersAgree
BY EventsSound, PTL

-----------------------------------------------------------------------------
(* Cases implements CaseLifecycle: each step of a request is one step of the *)
(* life of a case or a discrepancy, or shows nothing.                        *)
LEMMA InitPromise == Init => Promise!Init
<1> SUFFICES ASSUME Init PROVE Promise!Init
  OBVIOUS
<1>1. {r.item : r \in registered} = {}
  BY DEF Init
<1> QED
  BY <1>1 DEF Init, Promise!Init, Unused, Promise!Unused

LEMMA AnswerPromised ==
  ASSUME Inv, NEW s \in Sessions, Accepted(s) \/ Refused(s) \/ Unanswered(s)
  PROVE  Promise!Next \/ UNCHANGED Promise!vars
<1>1. /\ Submitting(s) /\ registered' \in {registered, Registering(s)}
      /\ UNCHANGED <<export, recorded, discrepancy, dispute, announced, raised>>
  BY DEF Accepted, Refused, Unanswered, Awaiting
<1>2. PICK item \in Items : item = session[s].item
  BY <1>1, SubmissionType DEF Inv, SubmissionInv, Submission
<1> DEFINE q == [key |-> IdempotencyKey(s), item |-> session[s].item]
           held == {r.item : r \in registered}
<1>3. held' = held \/ held' = held \cup {item}
  <2>1. registered' = registered \/ registered' = registered \cup {q}
    BY <1>1 DEF Registering
  <2>2. q.item = item
    BY <1>2
  <2> HIDE DEF q
  <2> QED
    BY <2>1, <2>2
<1>4. CASE held' = held
  BY <1>1, <1>4 DEF Promise!vars
<1>5. CASE held' = held \cup {item}
  <2>1. Promise!TakeIn(item)
    BY <1>1, <1>5 DEF Promise!TakeIn
  <2> QED
    BY <2>1 DEF Promise!Next, Items
<1> QED
  BY <1>3, <1>4, <1>5

LEMMA AnnouncePromised ==
  ASSUME Inv, NEW s \in Sessions, Announce(s)
  PROVE  Promise!Next
<1>1. /\ session[s] \in Submission /\ SubmitterKnows(s)
      /\ session[s].verdict # "none" /\ session[s].case # None
  BY SubmissionType DEF Announce, Inv, SubmissionInv, SubmittersSound
<1>2. PICK c \in Cases, verdict \in Verdicts : c = session[s].case /\ verdict = session[s].verdict
  BY <1>1 DEF Submission
<1>3. export[c] # Unused /\ (verdict = "submitted" => Registered(ItemOf(c)))
  BY <1>1, <1>2 DEF SubmitterKnows
<1>4. /\ announced' = [announced EXCEPT ![c] = @ \cup {verdict}]
      /\ UNCHANGED <<export, recorded, discrepancy, dispute, registered, raised>>
  BY <1>2 DEF Announce
<1>5. Promise!Announce(c, verdict)
  BY <1>3, <1>4 DEF Promise!Announce, Promise!ItemOf, ItemOf, Registered, Unused, Promise!Unused
<1>6. verdict \in Promise!Verdicts
  BY DEF Verdicts, Promise!Verdicts
<1> QED
  BY <1>5, <1>6 DEF Promise!Next

(* A verdict the case was loaded with is not written, nor is that of an air  *)
(* waybill or an invoice: at most the audit trail shows their commit.        *)
LEMMA RecordPromised ==
  ASSUME Inv, NEW s \in Sessions, CommitSubmission(s), export' = export
  PROVE  Promise!Next \/ UNCHANGED Promise!vars
<1>1. /\ session[s] \in Submission /\ SubmitterKnows(s)
      /\ UNCHANGED <<registered, announced, discrepancy, dispute, raised>>
      /\ recorded' = IF session[s].verdict = "submitted"
                     THEN recorded \cup {session[s].item} ELSE recorded
  BY SubmissionType DEF CommitSubmission, Answered, Inv, SubmissionInv, SubmittersSound
<1>2. CASE session[s].verdict # "submitted"
  BY <1>1, <1>2 DEF Promise!vars
<1>3. CASE session[s].verdict = "submitted"
  <2>1. PICK item \in Items : item = session[s].item
    BY <1>1 DEF Submission
  <2>2. Registered(item)
    BY <1>1, <1>3, <2>1 DEF SubmitterKnows
  <2>3. Promise!Record(item)
    BY <1>1, <1>3, <2>1, <2>2 DEF Promise!Record, Registered
  <2> QED
    BY <2>3 DEF Promise!Next, Items
<1> QED
  BY <1>2, <1>3

LEMMA CommitPromised ==
  ASSUME Inv, NEW s \in Sessions, CommitSubmission(s)
  PROVE  Promise!Next \/ UNCHANGED Promise!vars
<1> DEFINE q == session[s]
<1>1. /\ q \in Submission /\ SubmitterKnows(s) /\ q.verdict \in Verdicts
      /\ q.case # None => q.announced
      /\ UNCHANGED <<registered, announced, discrepancy, dispute, raised>>
      /\ recorded' = IF q.verdict = "submitted" THEN recorded \cup {q.item} ELSE recorded
      /\ export' = [c \in Cases |-> IF c # q.case THEN export[c] ELSE
                      [export[c] EXCEPT !.status = StatusAfter(q.loaded, q.verdict, @)]]
  BY SubmissionType DEF CommitSubmission, Answered, Inv, SubmissionInv, SubmittersSound, Submission
<1>2. export \in [Cases -> Export \cup {Unused}]
  BY DEF Inv, SubmissionInv, TypeOK
<1>3. CASE q.case = None
  <2>1. export' = export
    BY <1>1, <1>2, <1>3, IdAssumption
  <2> QED
    BY <2>1, RecordPromised
<1>4. CASE q.case # None
  <2>1. PICK c \in Cases, verdict \in Verdicts : c = q.case /\ verdict = q.verdict
    BY <1>1, <1>4 DEF Submission
  <2>2. /\ export[c] # Unused /\ export[c] \in Export
        /\ verdict \in announced[c] /\ q.item = ItemOf(c)
    BY <1>1, <1>2, <1>4, <2>1 DEF SubmitterKnows
  <2>3. CASE verdict = q.loaded
    <3>1. \A b \in Cases : export'[b] = export[b]
      <4>1. [export[c] EXCEPT !.status = export[c].status] = export[c]
        BY <2>2 DEF Export
      <4> QED
        BY <1>1, <2>1, <2>3, <4>1 DEF StatusAfter
    <3>2. export' = export
      BY <1>1, <1>2, <3>1
    <3> QED
      BY <3>2, RecordPromised
  <2>4. CASE verdict # q.loaded
    <3>1. export' = [export EXCEPT ![c].status = verdict]
      BY <1>1, <1>2, <2>1, <2>4 DEF StatusAfter
    <3>2. recorded' = IF verdict = "submitted" THEN recorded \cup {Promise!ItemOf(c)} ELSE recorded
      BY <1>1, <2>1, <2>2 DEF ItemOf, Promise!ItemOf
    <3>3. Promise!Settle(c, verdict)
      BY <1>1, <2>2, <3>1, <3>2 DEF Promise!Settle, Unused, Promise!Unused
    <3>4. verdict \in Promise!Verdicts
      BY DEF Verdicts, Promise!Verdicts
    <3> QED
      BY <3>3, <3>4 DEF Promise!Next
  <2> QED
    BY <2>3, <2>4
<1> QED
  BY <1>3, <1>4

LEMMA FindingPromised ==
  ASSUME Inv, NEW s \in Sessions, CommitFinding(s) \/ CommitDispute(s)
  PROVE  Promise!Next
<1>1. CASE CommitFinding(s)
  <2>1. PICK d \in Discrepancies : d = session[s].discrepancy
    BY <1>1, FindingType DEF CommitFinding, Inv, DisputeInv
  <2>2. d \in raised /\ discrepancy[d] = "unused"
    BY <1>1, <2>1 DEF CommitFinding, Inv, DisputeInv, FindersKnow
  <2>3. Promise!Enter(d)
    BY <1>1, <2>1, <2>2 DEF CommitFinding, Promise!Enter
  <2> QED
    BY <2>3 DEF Promise!Next
<1>2. CASE CommitDispute(s)
  <2>1. PICK d \in Discrepancies, i \in Disputes :
          d = session[s].discrepancy /\ i = session[s].dispute
    BY <1>2, FindingType DEF CommitDispute, Inv, DisputeInv
  <2>2. discrepancy[d] # "unused" /\ i \in raised /\ dispute[i] = None
    BY <1>2, <2>1 DEF CommitDispute, Inv, DisputeInv, DisputersKnow
  <2>3. Promise!Contest(d, i)
    BY <1>2, <2>1, <2>2 DEF CommitDispute, Promise!Contest
  <2> QED
    BY <2>3 DEF Promise!Next
<1> QED
  BY <1>1, <1>2

LEMMA StepPromise ==
  ASSUME Inv, [Next]_vars
  PROVE  [Promise!Next]_(Promise!vars)
<1>1. ASSUME NEW c \in Cases, NEW t \in Tenants, NEW ref \in References, NEW sound \in BOOLEAN,
             CreateExport(c, t, ref, sound)
      PROVE  Promise!Next
  <2>1. PICK status \in {"ready_for_submission", "review_required"} :
          status = IF sound THEN "ready_for_submission" ELSE "review_required"
    OBVIOUS
  <2>2. Promise!Open(c, t, ref, status)
    BY <1>1, <2>1 DEF CreateExport, Promise!Open, Unused, Promise!Unused
  <2> QED
    BY <2>2 DEF Promise!Next
<1>2. ASSUME NEW s \in Sessions, Accepted(s) \/ Refused(s) \/ Unanswered(s)
      PROVE  [Promise!Next]_(Promise!vars)
  BY <1>2, AnswerPromised
<1>3. ASSUME NEW s \in Sessions, Announce(s) PROVE Promise!Next
  BY <1>3, AnnouncePromised
<1>4. ASSUME NEW s \in Sessions, CommitSubmission(s) PROVE [Promise!Next]_(Promise!vars)
  BY <1>4, CommitPromised
<1>5. ASSUME NEW s \in Sessions, NEW d \in Discrepancies, NEW founded \in BOOLEAN,
             Detect(s, d, founded)
      PROVE  Promise!Next
  BY <1>5 DEF Detect, Promise!Raise, Promise!Next
<1>6. ASSUME NEW s \in Sessions, NEW d \in Discrepancies, NEW i \in Disputes, OpenDispute(s, d, i)
      PROVE  Promise!Next
  BY <1>6 DEF OpenDispute, Promise!Raise, Promise!Next
<1>7. ASSUME NEW s \in Sessions, CommitFinding(s) \/ CommitDispute(s) PROVE Promise!Next
  BY <1>7, FindingPromised
<1>8. CASE UNCHANGED <<export, recorded, discrepancy, dispute, registered, announced, raised>>
  BY <1>8 DEF Promise!vars
<1> QED
  BY <1>1, <1>2, <1>3, <1>4, <1>5, <1>6, <1>7, <1>8
     DEF Next, SubmitExport, SubmitAwb, ExportInvoice, Submit, Abort, vars

(* The tables, audit trail and events of cases and discrepancies implement   *)
(* their life cycle, for any number of requests that overlap, time out and   *)
(* die (modules/aeca, awb, fiar and discrepancy).                            *)
THEOREM CasesImplementLifecycle == Spec => ImplementsCaseLifecycle
  BY InitPromise, StepPromise, CaseInvariance, PTL
     DEF Spec, ImplementsCaseLifecycle, Promise!Spec

=============================================================================
