----------------------------- MODULE ReviewQueue -----------------------------
(***************************************************************************)
(* The human review queue: services/review/service.py over the table       *)
(* review_tasks, fed by the ingestion pipeline (services/ingestion) and by *)
(* failed dangerous-goods checks (modules/dg/workflow.py), and worked off  *)
(* by reviewers through /api/v1/review/tasks.                              *)
(*                                                                         *)
(* A request selects, publishes an event and commits, in that order and    *)
(* without locks.  No constraint holds a document to one open task.        *)
(***************************************************************************)
EXTENDS Naturals, FiniteSets

CONSTANTS
  Documents,  \* document ids
  Tasks,      \* review_tasks ids; their number bounds the tasks announced
  Queuers,    \* concurrent requests that route a document to review
  Reviewers,  \* concurrent reviewers
  None        \* NULL

ASSUME NoneAssumption == None \notin Tasks /\ None \notin Queuers

VARIABLES
  documents,  \* the committed documents
  task,       \* task[i]: the committed row i, or Unused
  queuing,    \* queuing[q]: the open ingestion or check of q, or Idle
  reviewing,  \* reviewing[r]: the open completion of r, or Idle
  required,   \* tasks announced by a review.required event
  completed,  \* <<task, verdict>> of the review.completed events
  author      \* author[i]: the request that committed row i

vars == <<documents, task, queuing, reviewing, required, completed, author>>

Verdicts == {"approved", "rejected"}

Task == [document : Documents, status : {"open"} \cup Verdicts]

Unused == [status |-> "unused"]

Idle == [document |-> None]

Routing == [document : Documents, pipeline : BOOLEAN, task : Tasks \cup {None}]

NotReviewing == [task |-> None]

Completion == [task : Tasks, verdict : Verdicts, loaded : {"open"} \cup Verdicts,
               announced : BOOLEAN]

TypeOK ==
  /\ documents \in SUBSET Documents
  /\ task \in [Tasks -> Task \cup {Unused}]
  /\ queuing \in [Queuers -> Routing \cup {Idle}]
  /\ reviewing \in [Reviewers -> Completion \cup {NotReviewing}]
  /\ required \in SUBSET Tasks
  /\ completed \in SUBSET (Tasks \X Verdicts)
  /\ author \in [Tasks -> Queuers \cup {None}]

Used(i) == task[i] # Unused

OpenOn(d) == {i \in Tasks : Used(i) /\ task[i].document = d /\ task[i].status = "open"}

Init ==
  /\ documents = {}
  /\ task = [i \in Tasks |-> Unused]
  /\ queuing = [q \in Queuers |-> Idle]
  /\ reviewing = [r \in Reviewers |-> NotReviewing]
  /\ required = {}
  /\ completed = {}
  /\ author = [i \in Tasks |-> None]

-----------------------------------------------------------------------------
(* Routing a document to review. *)

\* Mutant: a task is made without looking for an open one.
RouteAgain(q, d, pipeline) ==
  /\ queuing[q] = Idle
  /\ pipeline => /\ d \notin documents
                 /\ \A p \in Queuers : queuing[p] # Idle => queuing[p].document # d
  /\ queuing' = [queuing EXCEPT ![q] = [document |-> d, pipeline |-> pipeline, task |-> None]]
  /\ UNCHANGED <<documents, task, reviewing, required, completed, author>>

(* queue_low_confidence_review selects the open task of the document.  With  *)
(* two of them scalar_one_or_none raises and the request ends.  The pipeline *)
(* routes the document it is making, a check any id it is sent.              *)
Route(q, d, pipeline) ==
  /\ queuing[q] = Idle
  /\ pipeline => /\ d \notin documents
                 /\ \A p \in Queuers : queuing[p] # Idle => queuing[p].document # d
  /\ Cardinality(OpenOn(d)) <= 1
  /\ \E i \in Tasks \cup {None} :
       /\ IF OpenOn(d) = {} THEN i = None ELSE i \in OpenOn(d)
       /\ queuing' = [queuing EXCEPT ![q] = [document |-> d, pipeline |-> pipeline, task |-> i]]
  /\ UNCHANGED <<documents, task, reviewing, required, completed, author>>

(* No open task: a new one is announced, before it is committed. *)
Require(q, i) ==
  /\ queuing[q] # Idle
  /\ queuing[q].task = None
  /\ i \notin required
  /\ required' = required \cup {i}
  /\ queuing' = [queuing EXCEPT ![q].task = i]
  /\ UNCHANGED <<documents, task, reviewing, completed, author>>

(* The commit of the request.  A task needs its document to be there.        *)
CommitRoute(q) ==
  /\ queuing[q] # Idle
  /\ queuing[q].task # None
  /\ queuing[q].document \in documents \/ queuing[q].pipeline
  /\ documents' = documents \cup {queuing[q].document}
  /\ LET i == queuing[q].task
     IN /\ task' = IF Used(i) THEN task
                   ELSE [task EXCEPT ![i] = [document |-> queuing[q].document, status |-> "open"]]
        /\ author' = IF Used(i) THEN author ELSE [author EXCEPT ![i] = q]
  /\ queuing' = [queuing EXCEPT ![q] = Idle]
  /\ UNCHANGED <<reviewing, required, completed>>

(* A document the pipeline finds no fault with is committed without a task.  *)
CommitValidated(d) ==
  /\ d \notin documents
  /\ \A q \in Queuers : queuing[q] # Idle => queuing[q].document # d
  /\ documents' = documents \cup {d}
  /\ UNCHANGED <<task, queuing, reviewing, required, completed, author>>

(* The publish times out, the foreign key fails, the process is killed.      *)
AbortRoute(q) ==
  /\ queuing[q] # Idle
  /\ queuing' = [queuing EXCEPT ![q] = Idle]
  /\ UNCHANGED <<documents, task, reviewing, required, completed, author>>

-----------------------------------------------------------------------------
(* Completing a review. *)

\* Mutant: the task is looked up as the open task of its document, by a
\* query that raises when there are two.
ReviewSole(r, i, verdict) ==
  /\ reviewing[r] = NotReviewing
  /\ Used(i)
  /\ OpenOn(task[i].document) = {i}
  /\ reviewing' = [reviewing EXCEPT ![r] = [task |-> i, verdict |-> verdict,
                                            loaded |-> task[i].status, announced |-> FALSE]]
  /\ UNCHANGED <<documents, task, queuing, required, completed, author>>

(* complete_review takes any task of the tenant, completed ones too. *)
Review(r, i, verdict) ==
  /\ reviewing[r] = NotReviewing
  /\ Used(i)
  /\ reviewing' = [reviewing EXCEPT ![r] = [task |-> i, verdict |-> verdict,
                                            loaded |-> task[i].status, announced |-> FALSE]]
  /\ UNCHANGED <<documents, task, queuing, required, completed, author>>

Announce(r) ==
  /\ reviewing[r] # NotReviewing
  /\ ~reviewing[r].announced
  /\ completed' = completed \cup {<<reviewing[r].task, reviewing[r].verdict>>}
  /\ reviewing' = [reviewing EXCEPT ![r].announced = TRUE]
  /\ UNCHANGED <<documents, task, queuing, required, author>>

\* Mutant: an approved task gets a status the queue does not know.
StatusAfterClosing(loaded, verdict, current) ==
  IF verdict = "approved" THEN "closed" ELSE verdict

\* Mutant: a rejected task goes back to the queue.
StatusAfterReopening(loaded, verdict, current) ==
  IF verdict = "rejected" THEN "open" ELSE verdict

(* The UPDATE holds status only when it differs from the one loaded.         *)
StatusAfter(loaded, verdict, current) == IF verdict = loaded THEN current ELSE verdict

CommitReview(r) ==
  /\ reviewing[r] # NotReviewing
  /\ reviewing[r].announced
  /\ LET c == reviewing[r]
     IN task' = [task EXCEPT ![c.task].status = StatusAfter(c.loaded, c.verdict, @)]
  /\ reviewing' = [reviewing EXCEPT ![r] = NotReviewing]
  /\ UNCHANGED <<documents, queuing, required, completed, author>>

AbortReview(r) ==
  /\ reviewing[r] # NotReviewing
  /\ reviewing' = [reviewing EXCEPT ![r] = NotReviewing]
  /\ UNCHANGED <<documents, task, queuing, required, completed, author>>

-----------------------------------------------------------------------------
Next ==
  \/ \E q \in Queuers :
       \/ \E d \in Documents, pipeline \in BOOLEAN : Route(q, d, pipeline)
       \/ \E i \in Tasks : Require(q, i)
       \/ CommitRoute(q)
       \/ AbortRoute(q)
  \/ \E d \in Documents : CommitValidated(d)
  \/ \E r \in Reviewers :
       \/ \E i \in Tasks, verdict \in Verdicts : Review(r, i, verdict)
       \/ Announce(r)
       \/ CommitReview(r)
       \/ AbortReview(r)

Spec == Init /\ [][Next]_vars

(* Reviewers work off the list of open tasks, their requests finish, and     *)
(* requests are killed any number of times but not forever.                  *)
FairReviewers ==
  /\ \A i \in Tasks :
       SF_vars(\E r \in Reviewers, verdict \in Verdicts :
                 Used(i) /\ task[i].status = "open" /\ Review(r, i, verdict))
  /\ \A r \in Reviewers : WF_vars(Announce(r)) /\ WF_vars(CommitReview(r))
  /\ <>[][\A r \in Reviewers : ~AbortReview(r)]_vars

FairSpec == Spec /\ FairReviewers

-----------------------------------------------------------------------------
(* Every task in the queue was announced: no task waits for a reviewer who   *)
(* was never told.                                                           *)
TaskWasRequired == \A i \in Tasks : Used(i) => i \in required

(* A verdict in the table was announced by a review.completed event, even    *)
(* when two reviewers completed the task with different ones.                *)
VerdictWasAnnounced ==
  \A i \in Tasks : Used(i) /\ task[i].status \in Verdicts => <<i, task[i].status>> \in completed

(* A request opens no second task for a document while its first one is      *)
(* open: overlapping requests leave at most one open task each, and requests *)
(* that run one at a time at most one.                                       *)
OneOpenPerAuthor ==
  \A d \in Documents : \A i, j \in OpenOn(d) : author[i] = author[j] => i = j

(* A completed review is never open again, whoever completes it once more or *)
(* writes a stale status over it.                                            *)
CompletedStaysCompleted ==
  [][\A i \in Tasks :
       Used(i) /\ task[i].status \in Verdicts => task'[i].status \in Verdicts]_vars

(* Every task is completed in the end, so a document that two overlapping    *)
(* requests gave two open tasks (no check of it succeeds while it has them)  *)
(* does not stay that way.                                                   *)
EventuallyCompleted ==
  \A i \in Tasks : Used(i) ~> (Used(i) /\ task[i].status \in Verdicts)

(* STRICT_REVIEW_GATE has failed checks routed to the review queue: a check  *)
(* that is recorded leaves its document an open task.                        *)
FailedCheckIsQueued ==
  [][\A q \in Queuers :
       CommitRoute(q) => task'[queuing[q].task].status = "open"]_vars

-----------------------------------------------------------------------------
(* No two requests route one document at a time.  Nothing in the code sees   *)
(* to it.                                                                    *)
DocumentsApart ==
  \A p, q \in Queuers :
    /\ queuing[p] # Idle /\ queuing[q] # Idle
    /\ queuing[p].document = queuing[q].document
    => p = q

(* A document has one open task at most, which is all that                   *)
(* queue_low_confidence_review can select without an exception.              *)
OneOpen == \A d \in Documents : \A i, j \in OpenOn(d) : i = j

(* Nobody reviews a task that an open request is about to reuse.  Nothing in *)
(* the code sees to that either.                                             *)
ReviewsApart ==
  \A q \in Queuers, r \in Reviewers :
    queuing[q] # Idle /\ reviewing[r] # NotReviewing =>
      reviewing[r].task # queuing[q].task

Promise == INSTANCE ReviewLifecycle WITH
  filed <- documents, row <- task, asked <- required, judged <- completed

(* Whatever requests and reviewers overlap, die and write stale rows, the    *)
(* table and the events show each task entering the queue once, announced    *)
(* and with its document, and given announced verdicts only.                 *)
ImplementsReviewLifecycle == Promise!Spec

=============================================================================
