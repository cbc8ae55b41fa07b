-------------------------- MODULE ReviewQueueProofs --------------------------
(* Proofs that the properties of ReviewQueue hold for any number of         *)
(* documents, tasks, requests and reviewers, and that it implements         *)
(* ReviewLifecycle.                                                         *)
EXTENDS ReviewQueue, TLAPS

(* What an open request knows: its task was announced and, unless it reuses  *)
(* a task that is there, it has no open task for its document.               *)
QueuerKnows(q) ==
  /\ queuing[q].task # None => queuing[q].task \in required
  /\ queuing[q].task = None \/ ~Used(queuing[q].task) =>
       \A i \in OpenOn(queuing[q].document) : author[i] # q

(* What a reviewer with a task in hand knows: the task is there, and its     *)
(* verdict is out once it is announced.                                      *)
ReviewerKnows(r) ==
  /\ Used(reviewing[r].task)
  /\ reviewing[r].announced => <<reviewing[r].task, reviewing[r].verdict>> \in completed

QueuersSound == \A q \in Queuers : queuing[q] # Idle => QueuerKnows(q)

ReviewersSound == \A r \in Reviewers : reviewing[r] # NotReviewing => ReviewerKnows(r)

Inv == /\ TypeOK
       /\ TaskWasRequired /\ VerdictWasAnnounced /\ OneOpenPerAuthor
       /\ QueuersSound /\ ReviewersSound

(* A step that leaves the table alone and takes no event back keeps what the *)
(* table promises.                                                           *)
LEMMA TableKept ==
  ASSUME Inv, UNCHANGED <<task, author>>, required \subseteq required', completed \subseteq completed'
  PROVE  TaskWasRequired' /\ VerdictWasAnnounced' /\ OneOpenPerAuthor'
  BY DEF Inv, TaskWasRequired, VerdictWasAnnounced, OneOpenPerAuthor, OpenOn, Used

(* Such a step also keeps what the requests it does not touch know.          *)
LEMMA QueuersKept ==
  ASSUME Inv, UNCHANGED <<task, author>>, required \subseteq required',
         NEW q \in Queuers, queuing[q] # Idle, queuing'[q] = queuing[q]
  PROVE  QueuerKnows(q)'
<1>1. QueuerKnows(q)
  BY DEF Inv, QueuersSound
<1> QED
  BY <1>1 DEF QueuerKnows, OpenOn, Used

LEMMA ReviewersKept ==
  ASSUME Inv, \A i \in Tasks : Used(i) => Used(i)', completed \subseteq completed',
         NEW r \in Reviewers, reviewing[r] # NotReviewing, reviewing'[r] = reviewing[r]
  PROVE  ReviewerKnows(r)'
<1>1. ReviewerKnows(r)
  BY DEF Inv, ReviewersSound
<1>2. reviewing[r].task \in Tasks
  BY DEF Inv, TypeOK, Completion
<1> QED
  BY <1>1, <1>2 DEF ReviewerKnows, Used

(* The steps of a request before its commit.                                 *)
LEMMA RouteKeeps ==
  ASSUME Inv, NEW q \in Queuers, NEW d \in Documents, NEW pipeline \in BOOLEAN,
         Route(q, d, pipeline)
  PROVE  Inv'
<1>1. PICK i \in Tasks \cup {None} :
        /\ IF OpenOn(d) = {} THEN i = None ELSE i \in OpenOn(d)
        /\ queuing' = [queuing EXCEPT ![q] = [document |-> d, pipeline |-> pipeline, task |-> i]]
  BY DEF Route
<1>2. UNCHANGED <<documents, task, reviewing, required, completed, author>>
  BY DEF Route
<1>3. TypeOK'
  BY <1>1, <1>2 DEF Inv, TypeOK, Routing
<1>4. TaskWasRequired' /\ VerdictWasAnnounced' /\ OneOpenPerAuthor'
  BY <1>2, TableKept
<1>5. QueuersSound'
  <2> SUFFICES ASSUME NEW p \in Queuers, queuing'[p] # Idle PROVE QueuerKnows(p)'
    BY DEF QueuersSound, Idle
  <2>1. CASE p = q
    <3>1. queuing'[p] = [document |-> d, pipeline |-> pipeline, task |-> i]
      BY <1>1, <2>1 DEF Inv, TypeOK
    <3>2. i # None => i \in required /\ Used(i)
      BY <1>1 DEF OpenOn, Inv, TaskWasRequired
    <3>3. i = None => OpenOn(d) = {}
      BY <1>1, NoneAssumption DEF OpenOn
    <3> QED
      BY <1>2, <3>1, <3>2, <3>3 DEF QueuerKnows, OpenOn, Used
  <2>2. CASE p # q
    <3>1. queuing'[p] = queuing[p]
      BY <1>1, <2>2 DEF Inv, TypeOK
    <3> QED
      BY <1>2, <3>1, QueuersKept
  <2> QED
    BY <2>1, <2>2
<1>6. ReviewersSound'
  BY <1>2 DEF Inv, ReviewersSound, ReviewerKnows, Used, NotReviewing
<1> QED
  BY <1>3, <1>4, <1>5, <1>6 DEF Inv

LEMMA RequireKeeps ==
  ASSUME Inv, NEW q \in Queuers, NEW i \in Tasks, Require(q, i)
  PROVE  Inv'
<1>1. /\ queuing[q] # Idle /\ queuing[q] \in Routing
      /\ queuing[q].task = None
      /\ required' = required \cup {i}
      /\ queuing' = [queuing EXCEPT ![q].task = i]
      /\ UNCHANGED <<documents, task, reviewing, completed, author>>
  BY DEF Require, Inv, TypeOK
<1>2. TypeOK'
  BY <1>1 DEF Inv, TypeOK, Routing
<1>3. TaskWasRequired' /\ VerdictWasAnnounced' /\ OneOpenPerAuthor'
  BY <1>1, TableKept
<1>4. QueuersSound'
  <2> SUFFICES ASSUME NEW p \in Queuers, queuing'[p] # Idle PROVE QueuerKnows(p)'
    BY DEF QueuersSound, Idle
  <2>1. CASE p = q
    <3>1. /\ queuing'[p].task = i
          /\ queuing'[p].document = queuing[p].document
      BY <1>1, <2>1 DEF Inv, TypeOK, Routing
    <3>2. \A j \in OpenOn(queuing[p].document) : author[j] # p
      BY <1>1, <2>1 DEF Inv, QueuersSound, QueuerKnows
    <3> QED
      BY <1>1, <3>1, <3>2 DEF QueuerKnows, OpenOn, Used
  <2>2. CASE p # q
    <3>1. queuing'[p] = queuing[p]
      BY <1>1, <2>2 DEF Inv, TypeOK
    <3> QED
      BY <1>1, <3>1, QueuersKept
  <2> QED
    BY <2>1, <2>2
<1>5. ReviewersSound'
  BY <1>1 DEF Inv, ReviewersSound, ReviewerKnows, Used, NotReviewing
<1> QED
  BY <1>2, <1>3, <1>4, <1>5 DEF Inv

(* A request that dies and a document that needs no review leave the table.  *)
LEMMA AbortRouteKeeps ==
  ASSUME Inv, NEW q \in Queuers, AbortRoute(q)
  PROVE  Inv'
<1>1. /\ queuing' = [queuing EXCEPT ![q] = Idle]
      /\ UNCHANGED <<documents, task, reviewing, required, completed, author>>
  BY DEF AbortRoute
<1>2. TypeOK'
  BY <1>1 DEF Inv, TypeOK
<1>3. TaskWasRequired' /\ VerdictWasAnnounced' /\ OneOpenPerAuthor'
  BY <1>1, TableKept
<1>4. QueuersSound'
  <2> SUFFICES ASSUME NEW p \in Queuers, queuing'[p] # Idle PROVE QueuerKnows(p)'
    BY DEF QueuersSound, Idle
  <2>1. queuing'[p] = queuing[p]
    BY <1>1 DEF Inv, TypeOK
  <2> QED
    BY <1>1, <2>1, QueuersKept
<1>5. ReviewersSound'
  BY <1>1 DEF Inv, ReviewersSound, ReviewerKnows, Used, NotReviewing
<1> QED
  BY <1>2, <1>3, <1>4, <1>5 DEF Inv

LEMMA CommitValidatedKeeps ==
  ASSUME Inv, NEW d \in Documents, CommitValidated(d)
  PROVE  Inv'
<1>1. /\ documents' = documents \cup {d}
      /\ UNCHANGED <<task, queuing, reviewing, required, completed, author>>
  BY DEF CommitValidated
<1>2. TypeOK'
  BY <1>1 DEF Inv, TypeOK
<1> QED
  BY <1>1, <1>2 DEF Inv, TaskWasRequired, VerdictWasAnnounced, OneOpenPerAuthor, QueuersSound,
                    QueuerKnows, ReviewersSound, ReviewerKnows, OpenOn, Used

(* The steps of a reviewer before the commit.                                *)
LEMMA ReviewKeeps ==
  ASSUME Inv, NEW r \in Reviewers, NEW i \in Tasks, NEW verdict \in Verdicts,
         Review(r, i, verdict)
  PROVE  Inv'
<1> DEFINE c == [task |-> i, verdict |-> verdict, loaded |-> task[i].status, announced |-> FALSE]
<1>1. /\ Used(i)
      /\ reviewing' = [reviewing EXCEPT ![r] = c]
      /\ UNCHANGED <<documents, task, queuing, required, completed, author>>
  BY DEF Review
<1>2. c \in Completion
  BY <1>1 DEF Inv, TypeOK, Used, Task, Completion
<1>3. TypeOK'
  BY <1>1, <1>2 DEF Inv, TypeOK
<1>4. TaskWasRequired' /\ VerdictWasAnnounced' /\ OneOpenPerAuthor'
  BY <1>1, TableKept
<1>5. QueuersSound'
  BY <1>1 DEF Inv, QueuersSound, QueuerKnows, OpenOn, Used, Idle
<1>6. ReviewersSound'
  <2> SUFFICES ASSUME NEW u \in Reviewers, reviewing'[u] # NotReviewing PROVE ReviewerKnows(u)'
    BY DEF ReviewersSound, NotReviewing
  <2>1. CASE u = r
    <3>1. reviewing'[u] = c
      BY <1>1, <2>1 DEF Inv, TypeOK
    <3> QED
      BY <1>1, <3>1 DEF ReviewerKnows, Used
  <2>2. CASE u # r
    <3>1. reviewing'[u] = reviewing[u]
      BY <1>1, <2>2 DEF Inv, TypeOK
    <3> QED
      BY <1>1, <3>1, ReviewersKept DEF Used
  <2> QED
    BY <2>1, <2>2
<1> QED
  BY <1>3, <1>4, <1>5, <1>6 DEF Inv

LEMMA AnnounceKeeps ==
  ASSUME Inv, NEW r \in Reviewers, Announce(r)
  PROVE  Inv'
<1>1. /\ reviewing[r] # NotReviewing /\ reviewing[r] \in Completion
      /\ completed' = completed \cup {<<reviewing[r].task, reviewing[r].verdict>>}
      /\ reviewing' = [reviewing EXCEPT ![r].announced = TRUE]
      /\ UNCHANGED <<documents, task, queuing, required, author>>
  BY DEF Announce, Inv, TypeOK
<1>2. TypeOK'
  <2>1. reviewing[r].task \in Tasks /\ reviewing[r].verdict \in Verdicts
    BY <1>1 DEF Completion
  <2>2. [reviewing[r] EXCEPT !.announced = TRUE] \in Completion
    BY <1>1 DEF Completion
  <2>3. completed' \in SUBSET (Tasks \X Verdicts)
    BY <1>1, <2>1 DEF Inv, TypeOK
  <2>4. reviewing' \in [Reviewers -> Completion \cup {NotReviewing}]
    BY <1>1, <2>2 DEF Inv, TypeOK
  <2> QED
    BY <1>1, <2>3, <2>4 DEF Inv, TypeOK
<1>3. TaskWasRequired' /\ VerdictWasAnnounced' /\ OneOpenPerAuthor'
  BY <1>1, TableKept
<1>4. QueuersSound'
  BY <1>1 DEF Inv, QueuersSound, QueuerKnows, OpenOn, Used, Idle
<1>5. ReviewersSound'
  <2> SUFFICES ASSUME NEW u \in Reviewers, reviewing'[u] # NotReviewing PROVE ReviewerKnows(u)'
    BY DEF ReviewersSound, NotReviewing
  <2>1. CASE u = r
    <3>1. /\ reviewing'[u].task = reviewing[u].task
          /\ reviewing'[u].verdict = reviewing[u].verdict
      BY <1>1, <2>1 DEF Inv, TypeOK, Completion
    <3>2. Used(reviewing[u].task)
      BY <1>1, <2>1 DEF Inv, ReviewersSound, ReviewerKnows
    <3> QED
      BY <1>1, <2>1, <3>1, <3>2 DEF ReviewerKnows, Used
  <2>2. CASE u # r
    <3>1. reviewing'[u] = reviewing[u]
      BY <1>1, <2>2 DEF Inv, TypeOK
    <3> QED
      BY <1>1, <3>1, ReviewersKept DEF Used
  <2> QED
    BY <2>1, <2>2
<1> QED
  BY <1>2, <1>3, <1>4, <1>5 DEF Inv

LEMMA AbortReviewKeeps ==
  ASSUME Inv, NEW r \in Reviewers, AbortReview(r)
  PROVE  Inv'
<1>1. /\ reviewing' = [reviewing EXCEPT ![r] = NotReviewing]
      /\ UNCHANGED <<documents, task, queuing, required, completed, author>>
  BY DEF AbortReview
<1>2. TypeOK'
  BY <1>1 DEF Inv, TypeOK
<1>3. TaskWasRequired' /\ VerdictWasAnnounced' /\ OneOpenPerAuthor'
  BY <1>1, TableKept
<1>4. QueuersSound'
  BY <1>1 DEF Inv, QueuersSound, QueuerKnows, OpenOn, Used, Idle
<1>5. ReviewersSound'
  <2> SUFFICES ASSUME NEW u \in Reviewers, reviewing'[u] # NotReviewing PROVE ReviewerKnows(u)'
    BY DEF ReviewersSound, NotReviewing
  <2>1. reviewing'[u] = reviewing[u]
    BY <1>1 DEF Inv, TypeOK
  <2> QED
    BY <1>1, <2>1, ReviewersKept DEF Used
<1> QED
  BY <1>2, <1>3, <1>4, <1>5 DEF Inv

-----------------------------------------------------------------------------
(* What a request's commit does to the table: rows that are there stay as    *)
(* they are, and the one row it may add is its announced task, open.         *)
RouteRows(q) ==
  /\ \A j \in Tasks : Used(j) => task'[j] = task[j] /\ author'[j] = author[j]
  /\ \A j \in Tasks : ~Used(j) /\ task'[j] # Unused =>
       /\ j = queuing[q].task
       /\ task'[j] = [document |-> queuing[q].document, status |-> "open"]
       /\ author'[j] = q

LEMMA CommitRouteRows ==
  ASSUME Inv, NEW q \in Queuers, CommitRoute(q)
  PROVE  RouteRows(q)
<1> DEFINE i == queuing[q].task
<1>1. i \in Tasks
  BY NoneAssumption DEF CommitRoute, Inv, TypeOK, Routing
<1>2. CASE Used(i)
  <2>1. task' = task /\ author' = author
    BY <1>2 DEF CommitRoute
  <2> QED
    BY <2>1 DEF RouteRows, Used
<1>3. CASE ~Used(i)
  <2>1. /\ task' = [task EXCEPT ![i] = [document |-> queuing[q].document, status |-> "open"]]
        /\ author' = [author EXCEPT ![i] = q]
    BY <1>3 DEF CommitRoute
  <2> QED
    BY <1>1, <1>3, <2>1 DEF RouteRows, Used, Inv, TypeOK
<1> QED
  BY <1>2, <1>3

LEMMA CommitRouteKeeps ==
  ASSUME Inv, NEW q \in Queuers, CommitRoute(q)
  PROVE  Inv'
<1>1. RouteRows(q)
  BY CommitRouteRows
<1>2. /\ queuing[q] # Idle /\ queuing[q] \in Routing
      /\ queuing[q].task \in Tasks /\ queuing[q].task # None
      /\ queuing' = [queuing EXCEPT ![q] = Idle]
      /\ documents' = documents \cup {queuing[q].document}
      /\ UNCHANGED <<reviewing, required, completed>>
  BY NoneAssumption DEF CommitRoute, Inv, TypeOK, Routing
<1>3. QueuerKnows(q)
  BY <1>2 DEF Inv, QueuersSound
<1>4. TypeOK'
  <2> DEFINE new == [document |-> queuing[q].document, status |-> "open"]
  <2>1. new \in Task /\ queuing[q].document \in Documents
    BY <1>2 DEF Routing, Task
  <2>2. task' \in [Tasks -> Task \cup {Unused}] /\ author' \in [Tasks -> Queuers \cup {None}]
    <3>1. CASE Used(queuing[q].task)
      BY <3>1 DEF CommitRoute, Inv, TypeOK
    <3>2. CASE ~Used(queuing[q].task)
      BY <2>1, <3>2 DEF CommitRoute, Inv, TypeOK
    <3> QED
      BY <3>1, <3>2
  <2> QED
    BY <1>2, <2>1, <2>2 DEF Inv, TypeOK
<1>5. TaskWasRequired'
  BY <1>1, <1>2, <1>3 DEF Inv, TaskWasRequired, RouteRows, QueuerKnows, Used
<1>6. VerdictWasAnnounced'
  BY <1>1, <1>2 DEF Inv, VerdictWasAnnounced, RouteRows, Used, Verdicts
<1>7. \A d \in Documents : \A j \in Tasks :
        j \in OpenOn(d)' =>
          \/ j \in OpenOn(d) /\ author'[j] = author[j]
          \/ /\ ~Used(j) /\ j = queuing[q].task
             /\ d = queuing[q].document /\ author'[j] = q
  BY <1>1 DEF RouteRows, OpenOn, Used
<1>8. OneOpenPerAuthor'
  <2> SUFFICES ASSUME NEW d \in Documents, NEW j \in OpenOn(d)', NEW k \in OpenOn(d)',
                      author'[j] = author'[k]
               PROVE  j = k
    BY DEF OneOpenPerAuthor
  <2>1. j \in Tasks /\ k \in Tasks
    BY DEF OpenOn
  <2> QED
    BY <1>3, <1>7, <2>1 DEF Inv, OneOpenPerAuthor, QueuerKnows
<1>9. QueuersSound'
  <2> SUFFICES ASSUME NEW p \in Queuers, queuing'[p] # Idle PROVE QueuerKnows(p)'
    BY DEF QueuersSound, Idle
  <2>1. p # q /\ queuing'[p] = queuing[p]
    BY <1>2 DEF Inv, TypeOK
  <2>2. QueuerKnows(p) /\ queuing[p] \in Routing
    BY <2>1 DEF Inv, QueuersSound, TypeOK
  <2>3. queuing[p].document \in Documents /\ queuing[p].task \in Tasks \cup {None}
    BY <2>2 DEF Routing
  <2>4. ASSUME NEW i \in Tasks \cup {None}, i = queuing[p].task, i = None \/ task'[i] = Unused
        PROVE  i = None \/ ~Used(i)
    <3>1. CASE i = None
      BY <3>1
    <3>2. CASE i \in Tasks
      BY <1>1, <2>4, <3>2, NoneAssumption DEF RouteRows, Used
    <3> QED
      BY <3>1, <3>2
  <2>5. ASSUME \A j \in OpenOn(queuing[p].document) : author[j] # p,
               NEW d \in Documents, d = queuing[p].document
        PROVE  \A j \in OpenOn(d)' : author'[j] # p
    <3> SUFFICES ASSUME NEW j \in OpenOn(d)' PROVE author'[j] # p
      OBVIOUS
    <3>1. j \in Tasks
      BY DEF OpenOn
    <3> QED
      BY <1>7, <2>1, <2>5, <3>1
  <2>6. ASSUME NEW d \in Documents, d = queuing[p].document
        PROVE  queuing[p].task = None \/ task'[queuing[p].task] = Unused =>
                 \A j \in OpenOn(d)' : author'[j] # p
    BY <2>2, <2>3, <2>4, <2>5, <2>6 DEF QueuerKnows
  <2>7. OpenOn(queuing[p].document)' = {j \in Tasks : /\ task'[j] # Unused
                                         /\ task'[j].document = queuing[p].document
                                         /\ task'[j].status = "open"}
    BY <2>1 DEF OpenOn, Used
  <2>8. \A d \in Documents : OpenOn(d)' = {j \in Tasks : /\ task'[j] # Unused
                                         /\ task'[j].document = d
                                         /\ task'[j].status = "open"}
    BY DEF OpenOn, Used
  <2>9. queuing[p].task = None \/ task'[queuing[p].task] = Unused =>
          \A j \in OpenOn(queuing[p].document)' : author'[j] # p
    BY <2>3, <2>6, <2>7, <2>8
  <2> QED
    BY <1>2, <2>1, <2>2, <2>9 DEF QueuerKnows, Used
<1>10. ReviewersSound'
  <2> SUFFICES ASSUME NEW u \in Reviewers, reviewing'[u] # NotReviewing PROVE ReviewerKnows(u)'
    BY DEF ReviewersSound, NotReviewing
  <2>1. \A j \in Tasks : Used(j) => Used(j)'
    BY <1>1 DEF RouteRows, Used
  <2> QED
    BY <1>2, <2>1, ReviewersKept
<1> QED
  BY <1>4, <1>5, <1>6, <1>8, <1>9, <1>10 DEF Inv

-----------------------------------------------------------------------------
(* What a reviewer's commit does to the table: documents stay, and a status  *)
(* is the one it was or a verdict that is announced.                         *)
ReviewRows ==
  /\ author' = author
  /\ \A j \in Tasks : task'[j] # Unused <=> Used(j)
  /\ \A j \in Tasks : Used(j) =>
       /\ task'[j].document = task[j].document
       /\ \/ task'[j].status = task[j].status
          \/ task'[j].status \in Verdicts /\ <<j, task'[j].status>> \in completed

LEMMA CommitReviewRows ==
  ASSUME Inv, NEW r \in Reviewers, CommitReview(r)
  PROVE  ReviewRows /\ task' \in [Tasks -> Task \cup {Unused}]
<1> DEFINE c == reviewing[r]
           i == c.task
           status == StatusAfter(c.loaded, c.verdict, task[i].status)
<1>1. c # NotReviewing /\ c \in Completion /\ c.announced
  BY DEF CommitReview, Inv, TypeOK
<1>2. Used(i) /\ <<i, c.verdict>> \in completed
  BY <1>1 DEF Inv, ReviewersSound, ReviewerKnows
<1>3. i \in Tasks /\ c.verdict \in Verdicts
  BY <1>1 DEF Completion
<1>4. task[i] \in Task
  BY <1>2, <1>3 DEF Inv, TypeOK, Used
<1>5. status = task[i].status \/ status = c.verdict
  BY DEF StatusAfter
<1>6. task' = [task EXCEPT ![i].status = status]
  BY DEF CommitReview
<1> HIDE DEF status
<1>7. task'[i] = [task[i] EXCEPT !.status = status]
  BY <1>3, <1>6 DEF Inv, TypeOK
<1>8. /\ task'[i] \in Task
      /\ task'[i].document = task[i].document
      /\ task'[i].status = status
  BY <1>3, <1>4, <1>5, <1>7 DEF Task, Verdicts
<1>9. \A j \in Tasks : j # i => task'[j] = task[j]
  BY <1>6 DEF Inv, TypeOK
<1>10. task'[i] # Unused
  BY <1>8 DEF Task, Unused
<1>11. ReviewRows
  BY <1>2, <1>3, <1>5, <1>8, <1>9, <1>10 DEF ReviewRows, Used, CommitReview
<1>12. task' \in [Tasks -> Task \cup {Unused}]
  <2>1. \A j \in Tasks : task'[j] \in Task \cup {Unused}
    BY <1>8, <1>9 DEF Inv, TypeOK
  <2>2. task' = [j \in Tasks |-> task'[j]]
    BY <1>6 DEF Inv, TypeOK
  <2> QED
    BY <2>1, <2>2
<1> QED
  BY <1>11, <1>12

LEMMA CommitReviewKeeps ==
  ASSUME Inv, NEW r \in Reviewers, CommitReview(r)
  PROVE  Inv'
<1>1. ReviewRows /\ task' \in [Tasks -> Task \cup {Unused}]
  BY CommitReviewRows
<1>2. /\ reviewing' = [reviewing EXCEPT ![r] = NotReviewing]
      /\ UNCHANGED <<documents, queuing, required, completed, author>>
  BY DEF CommitReview
<1>3. TypeOK'
  BY <1>1, <1>2 DEF Inv, TypeOK
<1>4. TaskWasRequired'
  BY <1>1, <1>2 DEF Inv, TaskWasRequired, ReviewRows, Used
<1>5. VerdictWasAnnounced'
  BY <1>1, <1>2 DEF Inv, VerdictWasAnnounced, ReviewRows, Used
<1>6. \A d \in Documents : \A j \in Tasks : j \in OpenOn(d)' => j \in OpenOn(d)
  BY <1>1 DEF ReviewRows, OpenOn, Used, Verdicts
<1>7. OneOpenPerAuthor'
  <2> SUFFICES ASSUME NEW d \in Documents, NEW j \in OpenOn(d)', NEW k \in OpenOn(d)',
                      author'[j] = author'[k]
               PROVE  j = k
    BY DEF OneOpenPerAuthor
  <2>1. j \in OpenOn(d) /\ k \in OpenOn(d)
    BY <1>6 DEF OpenOn
  <2> QED
    BY <1>2, <2>1 DEF Inv, OneOpenPerAuthor
<1>8. QueuersSound'
  <2> SUFFICES ASSUME NEW p \in Queuers, queuing[p] # Idle PROVE QueuerKnows(p)'
    BY <1>2 DEF QueuersSound, Idle
  <2>1. QueuerKnows(p) /\ queuing[p] \in Routing
    BY DEF Inv, QueuersSound, TypeOK
  <2>2. queuing[p].task \in Tasks \cup {None} /\ queuing[p].document \in Documents
    BY <2>1 DEF Routing
  <2>3. queuing[p].task = None \/ task'[queuing[p].task] = Unused =>
          queuing[p].task = None \/ ~Used(queuing[p].task)
    BY <1>1, <2>2 DEF ReviewRows
  <2>4. \A j \in OpenOn(queuing[p].document)' : j \in OpenOn(queuing[p].document)
    BY <1>1, <1>2 DEF ReviewRows, OpenOn, Used, Verdicts
  <2> QED
    BY <1>2, <2>1, <2>3, <2>4 DEF QueuerKnows, Used
<1>9. ReviewersSound'
  <2> SUFFICES ASSUME NEW u \in Reviewers, reviewing'[u] # NotReviewing PROVE ReviewerKnows(u)'
    BY DEF ReviewersSound, NotReviewing
  <2>1. reviewing'[u] = reviewing[u]
    BY <1>2 DEF Inv, TypeOK
  <2>2. \A j \in Tasks : Used(j) => Used(j)'
    BY <1>1 DEF ReviewRows, Used
  <2> QED
    BY <1>2, <2>1, <2>2, ReviewersKept
<1> QED
  BY <1>3, <1>4, <1>5, <1>7, <1>8, <1>9 DEF Inv

-----------------------------------------------------------------------------
LEMMA InvInit == Init => Inv
  BY DEF Init, Inv, TypeOK, TaskWasRequired, VerdictWasAnnounced, OneOpenPerAuthor, QueuersSound,
         ReviewersSound, OpenOn, Used

LEMMA InvNext == Inv /\ [Next]_vars => Inv'
<1> SUFFICES ASSUME Inv, [Next]_vars PROVE Inv'
  OBVIOUS
<1>1. ASSUME NEW q \in Queuers, NEW d \in Documents, NEW pipeline \in BOOLEAN,
             Route(q, d, pipeline)
      PROVE  Inv'
  BY <1>1, RouteKeeps
<1>2. ASSUME NEW q \in Queuers, NEW i \in Tasks, Require(q, i) PROVE Inv'
  BY <1>2, RequireKeeps
<1>3. ASSUME NEW q \in Queuers, CommitRoute(q) PROVE Inv'
  BY <1>3, CommitRouteKeeps
<1>4. ASSUME NEW q \in Queuers, AbortRoute(q) PROVE Inv'
  BY <1>4, AbortRouteKeeps
<1>5. ASSUME NEW d \in Documents, CommitValidated(d) PROVE Inv'
  BY <1>5, CommitValidatedKeeps
<1>6. ASSUME NEW r \in Reviewers, NEW i \in Tasks, NEW verdict \in Verdicts,
             Review(r, i, verdict)
      PROVE  Inv'
  BY <1>6, ReviewKeeps
<1>7. ASSUME NEW r \in Reviewers, Announce(r) PROVE Inv'
  BY <1>7, AnnounceKeeps
<1>8. ASSUME NEW r \in Reviewers, CommitReview(r) PROVE Inv'
  BY <1>8, CommitReviewKeeps
<1>9. ASSUME NEW r \in Reviewers, AbortReview(r) PROVE Inv'
  BY <1>9, AbortReviewKeeps
<1>10. CASE UNCHANGED vars
  BY <1>10 DEF vars, Inv, TypeOK, TaskWasRequired, VerdictWasAnnounced, OneOpenPerAuthor,
               QueuersSound, QueuerKnows, ReviewersSound, ReviewerKnows, OpenOn, Used
<1> QED
  BY <1>1, <1>2, <1>3, <1>4, <1>5, <1>6, <1>7, <1>8, <1>9, <1>10 DEF Next

(* The invariant holds in every reachable state. *)
THEOREM ReviewInvariance == Spec => []Inv
  BY InvInit, InvNext, PTL DEF Spec

(* The variables of the review queue keep their types. *)
THEOREM ReviewTypeCorrect == Spec => []TypeOK
<1>1. Inv => TypeOK
  BY DEF Inv
<1> QED
  BY <1>1, ReviewInvariance, PTL

(* Whatever requests and reviewers overlap: tasks and verdicts in the table  *)
(* were announced, and no request leaves a document two open tasks.          *)
THEOREM ReviewSafety == Spec => [](TaskWasRequired /\ VerdictWasAnnounced /\ OneOpenPerAuthor)
<1>1. Inv => TaskWasRequired /\ VerdictWasAnnounced /\ OneOpenPerAuthor
  BY DEF Inv
<1> QED
  BY <1>1, ReviewInvariance, PTL

(* A completed review never opens again: reviewers write verdicts only, and  *)
(* requests leave the tasks that are there alone.                            *)
THEOREM CompletedStays == Spec => CompletedStaysCompleted
<1> DEFINE Stays == \A i \in Tasks : Used(i) /\ task[i].status \in Verdicts =>
                                     task'[i].status \in Verdicts
<1>1. Inv /\ [Next]_vars => [Stays]_vars
  <2> SUFFICES ASSUME Inv, [Next]_vars PROVE Stays
    OBVIOUS
  <2>1. ASSUME NEW r \in Reviewers, CommitReview(r) PROVE Stays
    BY <2>1, CommitReviewRows DEF ReviewRows
  <2>2. ASSUME NEW q \in Queuers, CommitRoute(q) PROVE Stays
    BY <2>2, CommitRouteRows DEF RouteRows
  <2>3. ASSUME task' = task PROVE Stays
    BY <2>3
  <2> HIDE DEF Stays
  <2> QED
    BY <2>1, <2>2, <2>3 DEF Next, vars, Route, Require, CommitValidated, AbortRoute, Review,
                            Announce, AbortReview
<1> QED
  BY <1>1, InvInit, InvNext, PTL DEF Spec, CompletedStaysCompleted

-----------------------------------------------------------------------------
(* Requests for one document that do not overlap.  One that will insert a    *)
(* task found none open, and nobody else inserts one meanwhile.              *)
NoneOpen ==
  \A q \in Queuers : \A d \in Documents :
    /\ queuing[q] # Idle /\ queuing[q].document = d
    /\ queuing[q].task = None \/ ~Used(queuing[q].task)
    => OpenOn(d) = {}

LEMMA CommitRouteApart ==
  ASSUME Inv, NoneOpen, OneOpen, DocumentsApart, NEW q \in Queuers, CommitRoute(q)
  PROVE  NoneOpen' /\ OneOpen'
<1>1. RouteRows(q)
  BY CommitRouteRows
<1>2. /\ queuing[q] # Idle /\ queuing[q] \in Routing
      /\ queuing[q].task \in Tasks
      /\ \A p \in Queuers : queuing'[p] = IF p = q THEN Idle ELSE queuing[p]
  BY NoneAssumption DEF CommitRoute, Inv, TypeOK, Routing
<1>3. PICK e \in Documents : e = queuing[q].document
  BY <1>2 DEF Routing
<1>4. \A d \in Documents : d # e => OpenOn(d)' = OpenOn(d)
  <2> SUFFICES ASSUME NEW d \in Documents, d # e, NEW j \in Tasks
               PROVE  j \in OpenOn(d)' <=> j \in OpenOn(d)
    BY DEF OpenOn
  <2>1. CASE Used(j)
    BY <1>1, <2>1 DEF RouteRows, OpenOn, Used
  <2>2. CASE ~Used(j)
    BY <1>1, <1>3, <2>2 DEF RouteRows, OpenOn, Used
  <2> QED
    BY <2>1, <2>2
<1>5. CASE Used(queuing[q].task)
  <2>1. \A j \in Tasks : Used(j)' => Used(j)
    BY <1>1, <1>5 DEF RouteRows, Used
  <2>2. \A d \in Documents : OpenOn(d)' \subseteq OpenOn(d)
    BY <1>1, <2>1 DEF RouteRows, OpenOn, Used
  <2>3. OneOpen'
    BY <2>2 DEF OneOpen
  <2>4. NoneOpen'
    <3> SUFFICES ASSUME NEW p \in Queuers, NEW d \in Documents,
                        queuing'[p] # Idle, queuing'[p].document = d,
                        queuing'[p].task = None \/ task'[queuing'[p].task] = Unused
                 PROVE  OpenOn(d)' = {}
      BY DEF NoneOpen, Used, Idle
    <3>1. p # q /\ queuing'[p] = queuing[p]
      BY <1>2
    <3>2. queuing[p].task \in Tasks \cup {None}
      BY <3>1 DEF Inv, TypeOK, Routing
    <3>3. queuing[p].task = None \/ ~Used(queuing[p].task)
      BY <1>1, <3>1, <3>2 DEF RouteRows, Used
    <3> QED
      BY <2>2, <3>1, <3>3 DEF NoneOpen
  <2> QED
    BY <2>3, <2>4
<1>6. CASE ~Used(queuing[q].task)
  <2>1. OpenOn(e) = {}
    BY <1>2, <1>3, <1>6 DEF NoneOpen
  <2>2. \A j \in OpenOn(e)' : j = queuing[q].task
    BY <1>1, <2>1 DEF RouteRows, OpenOn, Used
  <2>3. OneOpen'
    BY <1>4, <2>2 DEF OneOpen
  <2>4. NoneOpen'
    <3> SUFFICES ASSUME NEW p \in Queuers, NEW d \in Documents,
                        queuing'[p] # Idle, queuing'[p].document = d,
                        queuing'[p].task = None \/ task'[queuing'[p].task] = Unused
                 PROVE  OpenOn(d)' = {}
      BY DEF NoneOpen, Used, Idle
    <3>1. p # q /\ queuing'[p] = queuing[p]
      BY <1>2
    <3>2. d # e
      BY <1>2, <1>3, <3>1 DEF DocumentsApart
    <3>3. queuing[p].task \in Tasks \cup {None}
      BY <3>1 DEF Inv, TypeOK, Routing
    <3>4. queuing[p].task = None \/ ~Used(queuing[p].task)
      BY <1>1, <3>1, <3>3 DEF RouteRows, Used
    <3> QED
      BY <1>4, <3>1, <3>2, <3>4 DEF NoneOpen
  <2> QED
    BY <2>3, <2>4
<1> QED
  BY <1>5, <1>6

LEMMA NextApart ==
  ASSUME Inv, NoneOpen, OneOpen, DocumentsApart, [Next]_vars
  PROVE  NoneOpen' /\ OneOpen'
<1>1. ASSUME NEW q \in Queuers, CommitRoute(q)
      PROVE  NoneOpen' /\ OneOpen'
  BY <1>1, CommitRouteApart
<1>2. ASSUME NEW r \in Reviewers, CommitReview(r)
      PROVE  NoneOpen' /\ OneOpen'
  <2>1. ReviewRows /\ queuing' = queuing
    BY <1>2, CommitReviewRows DEF CommitReview
  <2>2. \A d \in Documents : OpenOn(d)' \subseteq OpenOn(d)
    BY <2>1 DEF ReviewRows, OpenOn, Used, Verdicts
  <2>3. \A q \in Queuers : queuing[q] # Idle => queuing[q].task \in Tasks \cup {None}
    BY DEF Inv, TypeOK, Routing
  <2>4. \A i \in Tasks : Used(i)' <=> Used(i)
    BY <2>1 DEF ReviewRows, Used
  <2>5. NoneOpen'
    <3> SUFFICES ASSUME NEW p \in Queuers, NEW d \in Documents,
                        queuing'[p] # Idle, queuing'[p].document = d,
                        queuing'[p].task = None \/ task'[queuing'[p].task] = Unused
                 PROVE  OpenOn(d)' = {}
      BY DEF NoneOpen, Used, Idle
    <3>1. queuing[p].task = None \/ ~Used(queuing[p].task)
      BY <2>1, <2>3 DEF ReviewRows
    <3> QED
      BY <2>1, <2>2, <3>1 DEF NoneOpen
  <2> QED
    BY <2>2, <2>5 DEF OneOpen
<1>3. ASSUME NEW q \in Queuers, UNCHANGED task,
             \A p \in Queuers : p # q => queuing'[p] = queuing[p],
             queuing'[q] # Idle =>
               \/ \A d \in Documents : d = queuing'[q].document => OpenOn(d) = {}
               \/ queuing'[q].task # None /\ Used(queuing'[q].task)
      PROVE  NoneOpen' /\ OneOpen'
  BY <1>3 DEF NoneOpen, OneOpen, OpenOn, Used, Idle
<1>4. ASSUME NEW q \in Queuers, NEW d \in Documents, NEW pipeline \in BOOLEAN,
             Route(q, d, pipeline)
      PROVE  NoneOpen' /\ OneOpen'
  <2>1. PICK i \in Tasks \cup {None} :
          /\ IF OpenOn(d) = {} THEN i = None ELSE i \in OpenOn(d)
          /\ queuing' = [queuing EXCEPT ![q] =
                           [document |-> d, pipeline |-> pipeline, task |-> i]]
    BY <1>4 DEF Route
  <2>2. queuing'[q] = [document |-> d, pipeline |-> pipeline, task |-> i]
    BY <2>1 DEF Inv, TypeOK
  <2>3. OpenOn(d) = {} \/ (i # None /\ Used(i))
    BY <2>1, NoneAssumption DEF OpenOn
  <2> QED
    BY <1>3, <1>4, <2>1, <2>2, <2>3 DEF Route
<1>5. ASSUME NEW q \in Queuers, NEW i \in Tasks, Require(q, i)
      PROVE  NoneOpen' /\ OneOpen'
  <2>1. /\ queuing'[q].document = queuing[q].document
        /\ \A p \in Queuers : p # q => queuing'[p] = queuing[p]
    BY <1>5 DEF Require, Inv, TypeOK, Routing
  <2>2. \A d \in Documents : d = queuing'[q].document => OpenOn(d) = {}
    BY <1>5, <2>1 DEF Require, NoneOpen
  <2> QED
    BY <1>3, <1>5, <2>1, <2>2 DEF Require
<1>6. ASSUME NEW q \in Queuers, AbortRoute(q)
      PROVE  NoneOpen' /\ OneOpen'
  BY <1>3, <1>6 DEF AbortRoute, Inv, TypeOK
<1>7. CASE UNCHANGED <<task, queuing>>
  BY <1>7 DEF NoneOpen, OneOpen, OpenOn, Used, Idle
<1> QED
  BY <1>1, <1>2, <1>4, <1>5, <1>6, <1>7
     DEF Next, CommitValidated, Review, Announce, AbortReview, vars

(* While no two requests route one document at a time, whatever else runs    *)
(* and however many reviewers there are, a document has one open task at     *)
(* most, so queue_low_confidence_review never raises.                        *)
THEOREM SerialRouting == Spec /\ []DocumentsApart => []OneOpen
<1>1. Init => NoneOpen /\ OneOpen
  BY DEF Init, NoneOpen, OneOpen, OpenOn, Used
<1> QED
  BY <1>1, NextApart, ReviewInvariance, PTL DEF Spec

-----------------------------------------------------------------------------
(* Checks of documents that nobody is reviewing.  The task that a request    *)
(* reuses was open when it was selected, and only a reviewer closes it.      *)
ReusedIsOpen ==
  \A q \in Queuers : \A i \in Tasks :
    queuing[q] # Idle /\ queuing[q].task = i /\ Used(i) => task[i].status = "open"

LEMMA ReusedIsOpenNext ==
  ASSUME Inv, ReusedIsOpen, ReviewsApart, [Next]_vars
  PROVE  ReusedIsOpen'
<1>1. ASSUME NEW q \in Queuers, UNCHANGED task,
             \A p \in Queuers : p # q => queuing'[p] = queuing[p],
             queuing'[q] # Idle =>
               \A i \in Tasks : queuing'[q].task = i /\ Used(i) => task[i].status = "open"
      PROVE  ReusedIsOpen'
  BY <1>1 DEF ReusedIsOpen, Used, Idle, Unused
<1>2. ASSUME NEW q \in Queuers, NEW d \in Documents, NEW pipeline \in BOOLEAN,
             Route(q, d, pipeline)
      PROVE  ReusedIsOpen'
  <2>1. PICK i \in Tasks \cup {None} :
          /\ IF OpenOn(d) = {} THEN i = None ELSE i \in OpenOn(d)
          /\ queuing' = [queuing EXCEPT ![q] =
                           [document |-> d, pipeline |-> pipeline, task |-> i]]
    BY <1>2 DEF Route
  <2>2. queuing'[q].task = i /\ \A p \in Queuers : p # q => queuing'[p] = queuing[p]
    BY <2>1 DEF Inv, TypeOK
  <2>3. i = None \/ (i \in Tasks /\ task[i].status = "open")
    BY <2>1 DEF OpenOn
  <2> QED
    BY <1>1, <1>2, <2>2, <2>3, NoneAssumption DEF Route
<1>3. ASSUME NEW q \in Queuers, NEW i \in Tasks, Require(q, i)
      PROVE  ReusedIsOpen'
  <2>1. queuing'[q].task = i /\ \A p \in Queuers : p # q => queuing'[p] = queuing[p]
    BY <1>3 DEF Require, Inv, TypeOK, Routing
  <2>2. ~Used(i)
    BY <1>3 DEF Require, Inv, TaskWasRequired
  <2> QED
    BY <1>1, <1>3, <2>1, <2>2 DEF Require
<1>4. ASSUME NEW q \in Queuers, AbortRoute(q)
      PROVE  ReusedIsOpen'
  BY <1>1, <1>4 DEF AbortRoute, Inv, TypeOK
<1>5. ASSUME NEW q \in Queuers, CommitRoute(q)
      PROVE  ReusedIsOpen'
  <2> SUFFICES ASSUME NEW p \in Queuers, NEW i \in Tasks, queuing'[p] # Idle,
                      queuing'[p].task = i, task'[i] # Unused
               PROVE  task'[i].status = "open"
    BY DEF ReusedIsOpen, Used, Idle, Unused
  <2>1. queuing'[p] = queuing[p]
    BY <1>5 DEF CommitRoute, Inv, TypeOK
  <2>2. RouteRows(q)
    BY <1>5, CommitRouteRows
  <2>3. CASE Used(i)
    BY <2>1, <2>2, <2>3 DEF RouteRows, ReusedIsOpen
  <2>4. CASE ~Used(i)
    BY <2>2, <2>4 DEF RouteRows
  <2> QED
    BY <2>3, <2>4
<1>6. ASSUME NEW r \in Reviewers, CommitReview(r)
      PROVE  ReusedIsOpen'
  <2>1. ReviewRows /\ queuing' = queuing
    BY <1>6, CommitReviewRows DEF CommitReview
  <2> SUFFICES ASSUME NEW p \in Queuers, NEW i \in Tasks, queuing[p] # Idle,
                      queuing[p].task = i, task'[i] # Unused
               PROVE  task'[i].status = "open"
    BY <2>1 DEF ReusedIsOpen, Used, Idle, Unused
  <2>2. i # reviewing[r].task
    BY <1>6 DEF CommitReview, ReviewsApart
  <2>3. task'[i] = task[i]
    BY <1>6, <2>2 DEF CommitReview, Inv, TypeOK
  <2> QED
    BY <2>3 DEF ReusedIsOpen, Used
<1>7. CASE UNCHANGED <<task, queuing>>
  BY <1>7 DEF ReusedIsOpen, Used, Idle, Unused
<1> QED
  BY <1>2, <1>3, <1>4, <1>5, <1>6, <1>7
     DEF Next, CommitValidated, Review, Announce, AbortReview, vars

(* What STRICT_REVIEW_GATE says of failed checks holds while nobody reviews  *)
(* a task that a check is about to reuse: each check that is recorded leaves *)
(* its document an open task, however many checks and reviewers there are.   *)
THEOREM ChecksAreQueued == Spec /\ []ReviewsApart => FailedCheckIsQueued
<1> DEFINE Queued == \A q \in Queuers :
                       CommitRoute(q) => task'[queuing[q].task].status = "open"
<1>1. Inv /\ ReusedIsOpen /\ [Next]_vars => [Queued]_vars
  <2> SUFFICES ASSUME Inv, ReusedIsOpen, NEW q \in Queuers, CommitRoute(q)
               PROVE  task'[queuing[q].task].status = "open"
    OBVIOUS
  <2> DEFINE i == queuing[q].task
  <2>1. i \in Tasks /\ queuing[q] # Idle
    BY NoneAssumption DEF CommitRoute, Inv, TypeOK, Routing
  <2>2. CASE Used(i)
    BY <2>1, <2>2 DEF CommitRoute, ReusedIsOpen
  <2>3. CASE ~Used(i)
    BY <2>1, <2>3 DEF CommitRoute, Inv, TypeOK
  <2> QED
    BY <2>2, <2>3
<1>2. Init => ReusedIsOpen
  BY DEF Init, ReusedIsOpen, Used
<1> QED
  BY <1>1, <1>2, ReusedIsOpenNext, ReviewInvariance, PTL DEF Spec, FailedCheckIsQueued

-----------------------------------------------------------------------------
(* The refinement of ReviewLifecycle. *)
LEMMA InitPromise == Init => Promise!Init
  BY DEF Init, Promise!Init, Unused, Promise!Unused

LEMMA CommitRoutePromised ==
  ASSUME Inv, NEW q \in Queuers, CommitRoute(q)
  PROVE  Promise!Next
<1> DEFINE i == queuing[q].task
           d == queuing[q].document
<1>1. /\ queuing[q] # Idle /\ queuing[q] \in Routing
      /\ i \in Tasks /\ d \in Documents
      /\ documents' = documents \cup {d}
      /\ UNCHANGED <<required, completed>>
  BY NoneAssumption DEF CommitRoute, Inv, TypeOK, Routing
<1>2. i \in required
  BY <1>1, NoneAssumption DEF Inv, QueuersSound, QueuerKnows
<1>3. CASE Used(i)
  <2>1. task' = task
    BY <1>3 DEF CommitRoute
  <2>2. Promise!File(d)
    BY <1>1, <2>1 DEF Promise!File
  <2> QED
    BY <1>1, <2>2 DEF Promise!Next
<1>4. CASE ~Used(i)
  <2>1. task' = [task EXCEPT ![i] = [document |-> d, status |-> "open"]]
    BY <1>4 DEF CommitRoute
  <2>2. Promise!Enqueue(i, d)
    BY <1>1, <1>2, <1>4, <2>1 DEF Promise!Enqueue, Promise!Unused, Used, Unused
  <2> QED
    BY <1>1, <2>2 DEF Promise!Next
<1> QED
  BY <1>3, <1>4

LEMMA AnnouncePromised ==
  ASSUME Inv, NEW r \in Reviewers, Announce(r)
  PROVE  Promise!Next
<1>1. PICK i \in Tasks, verdict \in Verdicts :
        i = reviewing[r].task /\ verdict = reviewing[r].verdict
  BY DEF Announce, Inv, TypeOK, Completion
<1>2. Used(i)
  BY <1>1 DEF Announce, Inv, ReviewersSound, ReviewerKnows
<1>3. Promise!Judge(i, verdict)
  BY <1>1, <1>2 DEF Announce, Promise!Judge, Promise!Unused, Used, Unused
<1>4. verdict \in Promise!Verdicts
  BY DEF Verdicts, Promise!Verdicts
<1> QED
  BY <1>3, <1>4 DEF Promise!Next

LEMMA CommitReviewPromised ==
  ASSUME Inv, NEW r \in Reviewers, CommitReview(r)
  PROVE  Promise!Next \/ UNCHANGED Promise!vars
<1>1. PICK c \in Completion : c = reviewing[r] /\ c.announced
  BY DEF CommitReview, Inv, TypeOK
<1>2. PICK i \in Tasks, verdict \in Verdicts : i = c.task /\ verdict = c.verdict
  BY DEF Completion
<1>3. Used(i) /\ <<i, verdict>> \in completed
  BY <1>1, <1>2 DEF CommitReview, Inv, ReviewersSound, ReviewerKnows
<1>4. /\ task' = [task EXCEPT ![i].status = StatusAfter(c.loaded, verdict, @)]
      /\ UNCHANGED <<documents, required, completed>>
  BY <1>1, <1>2 DEF CommitReview
<1>5. CASE verdict = c.loaded
  <2>1. task' = [task EXCEPT ![i].status = @]
    BY <1>4, <1>5 DEF StatusAfter
  <2>2. task[i] \in Task
    BY <1>3 DEF Inv, TypeOK, Used
  <2>3. task' = task
    BY <2>1, <2>2 DEF Inv, TypeOK, Task
  <2> QED
    BY <1>4, <2>3 DEF Promise!vars
<1>6. CASE verdict # c.loaded
  <2>1. task' = [task EXCEPT ![i].status = verdict]
    BY <1>4, <1>6 DEF StatusAfter
  <2>2. Promise!Close(i, verdict)
    BY <1>3, <1>4, <2>1 DEF Promise!Close, Promise!Unused, Used, Unused
  <2>3. verdict \in Promise!Verdicts
    BY DEF Verdicts, Promise!Verdicts
  <2> QED
    BY <2>2, <2>3 DEF Promise!Next
<1> QED
  BY <1>5, <1>6

LEMMA StepPromise ==
  ASSUME Inv, [Next]_vars
  PROVE  [Promise!Next]_(Promise!vars)
<1>1. ASSUME NEW q \in Queuers, CommitRoute(q) PROVE Promise!Next
  BY <1>1, CommitRoutePromised
<1>2. ASSUME NEW r \in Reviewers, Announce(r) PROVE Promise!Next
  BY <1>2, AnnouncePromised
<1>3. ASSUME NEW r \in Reviewers, CommitReview(r) PROVE [Promise!Next]_(Promise!vars)
  BY <1>3, CommitReviewPromised
<1>4. ASSUME NEW q \in Queuers, NEW i \in Tasks, Require(q, i) PROVE Promise!Next
  BY <1>4 DEF Require, Promise!Ask, Promise!Next
<1>5. ASSUME NEW d \in Documents, CommitValidated(d) PROVE Promise!Next
  BY <1>5 DEF CommitValidated, Promise!File, Promise!Next
<1>6. CASE UNCHANGED <<documents, task, required, completed>>
  BY <1>6 DEF Promise!vars
<1> QED
  BY <1>1, <1>2, <1>3, <1>4, <1>5, <1>6
     DEF Next, Route, AbortRoute, Review, AbortReview, vars

(* The table and the events of the review queue implement the life cycle of  *)
(* a task, for any number of requests and reviewers that overlap, die and    *)
(* write stale rows (services/review/service.py).                            *)
THEOREM QueueImplementsReview == Spec => ImplementsReviewLifecycle
  BY InitPromise, StepPromise, ReviewInvariance, PTL
     DEF Spec, ImplementsReviewLifecycle, Promise!Spec

=============================================================================
