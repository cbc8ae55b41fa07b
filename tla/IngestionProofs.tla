--------------------------- MODULE IngestionProofs ---------------------------
(* Proofs that the safety properties of Ingestion hold for any number of    *)
(* clients, keys, overlapping requests, documents and failures, and that it *)
(* implements IdempotentStore.                                              *)
EXTENDS Ingestion, TLAPS

(* The stages of a request that has a document of its own, not committed yet.*)
Flying == Stages \ {"upload", "reply"}

(* The events out about the document of a request, by its stage.             *)
Sent(w) ==
  CASE w.stage = "receive"    -> {}
    [] w.stage = "preprocess" -> {"received"}
    [] w.stage = "classify"   -> {"received", "preprocessed"}
    [] w.stage = "extract"    -> {"received", "preprocessed", "classified"}
    [] w.stage = "validate"   -> {"received", "preprocessed", "classified", "extracted"}
    [] w.stage = "route"      -> Topics \ {"review.required"}
    [] w.stage = "commit"     -> IF w.review_required THEN Topics ELSE Topics \ {"review.required"}
    [] OTHER                  -> {}

(* What a request in flight knows of its document. *)
Known(w) ==
  /\ w.document \in Documents
  /\ origin[w.document] = w.client
  /\ w.document \in stored
  /\ document[w.document] = "absent"
  /\ published[w.document] = Sent(w)
  /\ w.review_required <=> w.document \in doubted

(* The key of client c holds c's body and document d. *)
StoredFor(c, d) == response[KeyOf[c]] = [request_hash |-> PayloadOf[c], document |-> d]

FlightsSound ==
  \A s \in Sessions : \A w \in Request : session[s] = w /\ w.stage \in Flying => Known(w)

FlightsApart ==
  \A s, u \in Sessions : \A v, w \in Request :
    /\ session[s] = v /\ v.stage \in Flying
    /\ session[u] = w /\ w.stage \in Flying
    /\ v.document = w.document
    => s = u

RepliesSound ==
  \A s \in Sessions : \A w \in Request :
    session[s] = w /\ w.stage = "reply" => StoredFor(w.client, w.document)

(* A request has no doubts before it has a document. *)
UploadsSound ==
  \A s \in Sessions : \A w \in Request :
    session[s] = w /\ w.stage = "upload" => ~w.review_required

AnswersSound == \A c \in Clients : \A d \in Documents : <<c, d>> \in answers => StoredFor(c, d)

(* A committed document is the one its key holds, with its events in order   *)
(* and the verdict of its stages.                                            *)
DocumentsSound ==
  \A d \in Documents : Committed(d) => \A c \in Clients \cup {None} : c = origin[d] =>
    c # None /\ StoredFor(c, d)

ResponsesSound ==
  \A k \in Keys : \A r \in Response : response[k] = r =>
    /\ document[r.document] # "absent"
    /\ origin[r.document] # None
    /\ KeyOf[origin[r.document]] = k

(* A document nobody has uploaded has left no trace. *)
Untouched ==
  \A d \in Documents : origin[d] = None =>
    published[d] = {} /\ d \notin doubted /\ document[d] = "absent"

Safe == CommittedIsComplete /\ DoubtIsReviewed /\ EventsInOrder

Bookkeeping == AnswersSound /\ DocumentsSound /\ ResponsesSound

Requests == UploadsSound /\ FlightsSound /\ FlightsApart /\ RepliesSound

Inv == TypeOK /\ Safe /\ Bookkeeping /\ Requests /\ Untouched

-----------------------------------------------------------------------------
(* What the invariant says of answers, keys and documents. *)
LEMMA KeysHold ==
  ASSUME Inv
  PROVE  SameAnswer /\ AnswerFitsRequest /\ OneDocumentPerKey
<1>1. \A a \in answers : a[1] \in Clients /\ a[2] \in Documents /\ a = <<a[1], a[2]>>
  BY DEF Inv, TypeOK
<1>2. \A a \in answers : StoredFor(a[1], a[2])
  BY <1>1 DEF Inv, Bookkeeping, AnswersSound
<1>3. SameAnswer
  <2> SUFFICES ASSUME NEW a \in answers, NEW b \in answers, KeyOf[a[1]] = KeyOf[b[1]]
               PROVE  a[2] = b[2]
    BY DEF SameAnswer
  <2>1. [request_hash |-> PayloadOf[a[1]], document |-> a[2]] =
        [request_hash |-> PayloadOf[b[1]], document |-> b[2]]
    BY <1>2 DEF StoredFor
  <2> QED
    BY <2>1
<1>4. AnswerFitsRequest
  <2> SUFFICES ASSUME NEW a \in answers
               PROVE  Committed(a[2]) /\ PayloadOf[origin[a[2]]] = PayloadOf[a[1]]
    BY DEF AnswerFitsRequest
  <2> DEFINE r == [request_hash |-> PayloadOf[a[1]], document |-> a[2]]
  <2>1. r \in Response /\ response[KeyOf[a[1]]] = r /\ KeyOf[a[1]] \in Keys
    BY <1>1, <1>2, ClientAssumption DEF StoredFor, Response
  <2>2. Committed(r.document) /\ origin[r.document] # None /\ KeyOf[origin[r.document]] = KeyOf[a[1]]
    BY <2>1 DEF Inv, Bookkeeping, ResponsesSound, Committed
  <2>3. origin[a[2]] \in Clients
    BY <1>1, <2>2 DEF Inv, TypeOK
  <2>4. StoredFor(origin[a[2]], a[2])
    BY <1>1, <2>2, <2>3 DEF Inv, Bookkeeping, DocumentsSound
  <2> QED
    BY <2>1, <2>2, <2>4 DEF StoredFor
<1>5. OneDocumentPerKey
  <2> SUFFICES ASSUME NEW d \in Documents, NEW e \in Documents, Committed(d), Committed(e),
                      KeyOf[origin[d]] = KeyOf[origin[e]]
               PROVE  d = e
    BY DEF OneDocumentPerKey
  <2>1. origin[d] \in Clients \cup {None} /\ origin[e] \in Clients \cup {None}
    BY DEF Inv, TypeOK
  <2>2. StoredFor(origin[d], d) /\ StoredFor(origin[e], e)
    BY <2>1 DEF Inv, Bookkeeping, DocumentsSound
  <2> QED
    BY <2>2 DEF StoredFor
<1> QED
  BY <1>3, <1>4, <1>5

(* The events of a request in flight are in the order of the pipeline.       *)
Ordered(P) ==
  \A m, n \in DOMAIN Pipeline : m < n /\ Pipeline[n] \in P => Pipeline[m] \in P

LEMMA PipelineValue ==
  /\ DOMAIN Pipeline = 1..5
  /\ Pipeline[1] = "received"
  /\ Pipeline[2] = "preprocessed"
  /\ Pipeline[3] = "classified"
  /\ Pipeline[4] = "extracted"
  /\ Pipeline[5] = "validated"
  BY DEF Pipeline

LEMMA TopicsValue ==
  Topics = {"received", "preprocessed", "classified", "extracted", "validated", "review.required"}
<1>1. \A n \in 1..5 : n = 1 \/ n = 2 \/ n = 3 \/ n = 4 \/ n = 5
  OBVIOUS
<1> QED
  BY <1>1, PipelineValue DEF Topics

LEMMA OrderedBySuccessor ==
  ASSUME NEW P,
         "preprocessed" \in P => "received" \in P,
         "classified" \in P => "preprocessed" \in P,
         "extracted" \in P => "classified" \in P,
         "validated" \in P => "extracted" \in P
  PROVE  Ordered(P)
<1>1. \A n \in 1..5 : n = 1 \/ n = 2 \/ n = 3 \/ n = 4 \/ n = 5
  OBVIOUS
<1> QED
  BY <1>1, PipelineValue DEF Ordered

LEMMA SentOrdered ==
  ASSUME NEW w \in Request PROVE Ordered(Sent(w)) /\ Sent(w) \subseteq Topics
<1>1. Sent(w) \subseteq Topics
  BY TopicsValue DEF Sent
<1>2. /\ "preprocessed" \in Sent(w) => "received" \in Sent(w)
      /\ "classified" \in Sent(w) => "preprocessed" \in Sent(w)
      /\ "extracted" \in Sent(w) => "classified" \in Sent(w)
      /\ "validated" \in Sent(w) => "extracted" \in Sent(w)
  BY TopicsValue DEF Sent
<1> QED
  BY <1>1, <1>2, OrderedBySuccessor

LEMMA OrderedEvents == EventsInOrder <=> \A d \in Documents : Ordered(published[d])
  BY DEF EventsInOrder, Ordered

-----------------------------------------------------------------------------
(* Steps that touch no document and no key. *)
Quiet == UNCHANGED <<response, document, stored, published, origin, doubted>>

LEMMA QuietSafe ==
  ASSUME Inv, Quiet
  PROVE  Safe' /\ DocumentsSound' /\ ResponsesSound' /\ Untouched'
  BY DEF Quiet, Inv, Safe, CommittedIsComplete, DoubtIsReviewed, EventsInOrder, Committed,
         Bookkeeping, DocumentsSound, ResponsesSound, StoredFor, Untouched

(* Nor do they disturb a request they leave alone or make idle.              *)
LEMMA QuietRequests ==
  ASSUME Inv, Quiet,
         \A u \in Sessions : \A w \in Request :
           session'[u] = w => session[u] = w \/ (w.stage = "upload" /\ ~w.review_required)
  PROVE  Requests'
<1>1. UploadsSound'
  BY DEF Inv, Requests, UploadsSound
<1>2. RepliesSound'
  BY DEF Quiet, Inv, Requests, RepliesSound, StoredFor
<1>3. FlightsSound'
  BY DEF Quiet, Inv, Requests, FlightsSound, Known, Flying
<1>4. FlightsApart'
  BY DEF Quiet, Inv, Requests, FlightsApart, Flying
<1> QED
  BY <1>1, <1>2, <1>3, <1>4 DEF Requests

LEMMA CloseKeeps ==
  ASSUME Inv, Quiet, NEW s \in Sessions, session' = [session EXCEPT ![s] = Idle]
  PROVE  Requests'
<1>1. \A u \in Sessions : \A w \in Request : session'[u] = w => session[u] = w
  BY DEF Inv, TypeOK, Idle, Request
<1> QED
  BY <1>1, QuietRequests

LEMMA AnswerStoredKeeps ==
  ASSUME Inv, NEW c \in Clients, AnswerStored(c)
  PROVE  Inv'
<1> DEFINE d == response[KeyOf[c]].document
<1>1. KeyOf[c] \in Keys
  BY ClientAssumption
<1>2. response[KeyOf[c]] \in Response /\ response[KeyOf[c]].request_hash = PayloadOf[c]
  BY <1>1 DEF AnswerStored, Found, Inv, TypeOK
<1>3. d \in Documents /\ StoredFor(c, d)
  BY <1>2 DEF Response, StoredFor
<1>4. /\ Quiet
      /\ answers' = answers \cup {<<c, d>>}
      /\ UNCHANGED <<session, refusals, failures>>
  BY DEF AnswerStored, Quiet
<1> HIDE DEF d
<1>5. TypeOK'
  BY <1>3, <1>4 DEF Quiet, Inv, TypeOK
<1>6. AnswersSound'
  BY <1>3, <1>4 DEF Quiet, Inv, Bookkeeping, AnswersSound, StoredFor
<1>7. Requests'
  BY <1>4, QuietRequests
<1> QED
  BY <1>4, <1>5, <1>6, <1>7, QuietSafe DEF Inv, Bookkeeping

(* A refusal touches nothing but the record of it. *)
LEMMA RefusalKeeps ==
  ASSUME Inv, NEW c \in Clients, RefuseReuse(c) \/ RefuseMalformed(c)
  PROVE  Inv'
<1>1. Quiet /\ UNCHANGED <<session, answers, failures>>
  BY DEF RefuseReuse, RefuseMalformed, Quiet
<1>2. PICK code \in {400, 409} : refusals' = refusals \cup {<<c, code>>}
  BY DEF RefuseReuse, RefuseMalformed
<1>3. TypeOK'
  BY <1>1, <1>2 DEF Quiet, Inv, TypeOK
<1>4. AnswersSound'
  BY <1>1 DEF Quiet, Inv, Bookkeeping, AnswersSound, StoredFor
<1>5. Requests'
  BY <1>1, QuietRequests
<1> QED
  BY <1>1, <1>3, <1>4, <1>5, QuietSafe DEF Inv, Bookkeeping

LEMMA AcceptKeeps ==
  ASSUME Inv, NEW s \in Sessions, NEW c \in Clients, Accept(s, c)
  PROVE  Inv'
<1> DEFINE v == [client |-> c, stage |-> "upload", document |-> None, review_required |-> FALSE]
<1>1. /\ Quiet
      /\ session' = [session EXCEPT ![s] = v]
      /\ UNCHANGED <<answers, refusals, failures>>
  BY DEF Accept, Quiet
<1>2. v \in Request
  BY DEF Request, Stages
<1>3. TypeOK'
  BY <1>1, <1>2 DEF Quiet, Inv, TypeOK
<1>4. \A u \in Sessions : \A w \in Request :
        session'[u] = w => session[u] = w \/ (w.stage = "upload" /\ ~w.review_required)
  BY <1>1 DEF Inv, TypeOK
<1>5. Requests'
  BY <1>1, <1>4, QuietRequests
<1>6. AnswersSound'
  BY <1>1 DEF Quiet, Inv, Bookkeeping, AnswersSound, StoredFor
<1> QED
  BY <1>1, <1>3, <1>5, <1>6, QuietSafe DEF Inv, Bookkeeping

LEMMA EndKeeps ==
  ASSUME Inv, NEW s \in Sessions, Clash(s) \/ Fail(s)
  PROVE  Inv'
<1>1. /\ Quiet
      /\ session' = [session EXCEPT ![s] = Idle]
      /\ UNCHANGED <<answers, refusals>>
  BY DEF Clash, Fail, Quiet
<1>2. failures' \in 0..MaxFailures
  BY FailureAssumption DEF Clash, Fail, Inv, TypeOK
<1>3. TypeOK'
  BY <1>1, <1>2 DEF Quiet, Inv, TypeOK
<1>4. AnswersSound'
  BY <1>1 DEF Quiet, Inv, Bookkeeping, AnswersSound, StoredFor
<1> QED
  BY <1>1, <1>3, <1>4, QuietSafe, CloseKeeps DEF Inv, Bookkeeping

LEMMA ReplyKeeps ==
  ASSUME Inv, NEW s \in Sessions, Reply(s)
  PROVE  Inv'
<1> DEFINE v == session[s]
<1>1. /\ Quiet
      /\ session' = [session EXCEPT ![s] = Idle]
      /\ answers' = answers \cup {<<v.client, v.document>>}
      /\ UNCHANGED <<refusals, failures>>
  BY DEF Reply, Quiet
<1>2. v \in Request /\ v.stage = "reply"
  BY DEF Reply, At, Inv, TypeOK
<1>3. v.client \in Clients /\ StoredFor(v.client, v.document)
  BY <1>2 DEF Request, Inv, Requests, RepliesSound
<1>4. v.document \in Documents
  <2>1. KeyOf[v.client] \in Keys
    BY <1>3, ClientAssumption
  <2>2. response[KeyOf[v.client]] \in Response \cup {NoResponse}
    BY <2>1 DEF Inv, TypeOK
  <2>3. response[KeyOf[v.client]] = [request_hash |-> PayloadOf[v.client], document |-> v.document]
    BY <1>3 DEF StoredFor
  <2> QED
    BY <2>2, <2>3 DEF Response, NoResponse
<1>5. TypeOK'
  BY <1>1, <1>3, <1>4 DEF Quiet, Inv, TypeOK
<1>6. AnswersSound'
  BY <1>1, <1>3 DEF Quiet, Inv, Bookkeeping, AnswersSound, StoredFor
<1> QED
  BY <1>1, <1>5, <1>6, QuietSafe, CloseKeeps DEF Inv, Bookkeeping

-----------------------------------------------------------------------------
(* Steps of the pipeline. *)

(* A step that gives session s the request w, which is in flight, and leaves *)
(* the documents and keys of the others as they are.                         *)
Takes(s, w) ==
  /\ session' = [session EXCEPT ![s] = w]
  /\ \A d \in Documents : d # w.document =>
       /\ origin'[d] = origin[d]
       /\ d \in stored <=> d \in stored'
       /\ published'[d] = published[d]
       /\ d \in doubted <=> d \in doubted'
  /\ UNCHANGED <<response, document, answers, refusals, failures>>

LEMMA OthersKeep ==
  ASSUME Inv, NEW s \in Sessions, NEW w \in Request, Takes(s, w), w.stage \in Flying,
         w.document \in Documents, Known(w)',
         \A u \in Sessions : \A v \in Request :
           u # s /\ session[u] = v /\ v.stage \in Flying => v.document # w.document
  PROVE  Requests'
<1>1. /\ session'[s] = w
      /\ \A u \in Sessions : u # s => session'[u] = session[u]
  BY DEF Takes, Inv, TypeOK
<1>2. UploadsSound'
  BY <1>1 DEF Inv, Requests, UploadsSound, Flying
<1>3. RepliesSound'
  BY <1>1 DEF Takes, Inv, Requests, RepliesSound, StoredFor, Flying
<1>4. FlightsSound'
  <2> SUFFICES ASSUME NEW u \in Sessions, NEW v \in Request, session'[u] = v, v.stage \in Flying
               PROVE  Known(v)'
    BY DEF FlightsSound
  <2>1. CASE u = s
    BY <1>1, <2>1
  <2>2. CASE u # s
    <3>1. session[u] = v /\ v.document # w.document
      BY <1>1, <2>2
    <3>2. Known(v)
      BY <3>1 DEF Inv, Requests, FlightsSound
    <3> QED
      BY <3>1, <3>2 DEF Known, Takes
  <2> QED
    BY <2>1, <2>2
<1>5. FlightsApart'
  BY <1>1 DEF Inv, Requests, FlightsApart
<1> QED
  BY <1>2, <1>3, <1>4, <1>5 DEF Requests

(* The keys and answers do not depend on a document that is not committed.   *)
LEMMA KeysKeep ==
  ASSUME Inv, NEW s \in Sessions, NEW w \in Request, Takes(s, w),
         document[w.document] = "absent"
  PROVE  Bookkeeping'
<1>1. AnswersSound'
  BY DEF Takes, Inv, Bookkeeping, AnswersSound, StoredFor
<1>2. DocumentsSound'
  BY DEF Takes, Inv, Bookkeeping, DocumentsSound, StoredFor, Committed
<1>3. ResponsesSound'
  BY DEF Takes, Inv, Bookkeeping, ResponsesSound, Response
<1> QED
  BY <1>1, <1>2, <1>3 DEF Bookkeeping

LEMMA SafeKeeps ==
  ASSUME Inv, NEW s \in Sessions, NEW w \in Request, Takes(s, w),
         document[w.document] = "absent", w.document \in Documents,
         published'[w.document] = Sent(w)
  PROVE  Safe'
<1>1. CommittedIsComplete' /\ DoubtIsReviewed'
  BY DEF Takes, Inv, Safe, CommittedIsComplete, DoubtIsReviewed, Committed
<1>2. \A d \in Documents : Ordered(published'[d])
  BY SentOrdered, OrderedEvents DEF Takes, Inv, Safe
<1>3. EventsInOrder'
  BY <1>2 DEF EventsInOrder, Ordered
<1> QED
  BY <1>1, <1>3 DEF Safe

LEMMA UploadKeeps ==
  ASSUME Inv, NEW s \in Sessions, NEW d \in Documents, Upload(s, d)
  PROVE  Inv'
<1>1. PICK v \in Request : v = session[s] /\ v.stage = "upload" /\ v.client \in Clients
  BY DEF Upload, At, Inv, TypeOK, Request
<1>2. /\ origin[d] = None
      /\ stored' = stored \cup {d}
      /\ origin' = [origin EXCEPT ![d] = v.client]
      /\ UNCHANGED <<response, document, published, doubted, answers, refusals, failures>>
  BY <1>1 DEF Upload
<1>3. PICK w \in Request : w = [v EXCEPT !.stage = "receive", !.document = d]
  BY <1>1 DEF Request, Stages
<1>4. /\ w.stage = "receive" /\ w.document = d /\ w.client = v.client
      /\ ~w.review_required
      /\ session' = [session EXCEPT ![s] = w]
  BY <1>1, <1>3 DEF Upload, Request, Inv, Requests, UploadsSound
<1>5. published[d] = {} /\ d \notin doubted /\ document[d] = "absent"
  BY <1>2 DEF Inv, Untouched
<1>6. w.client \in Clients /\ w.client # None
  BY <1>1, <1>4, NoneAssumption
<1>7. TypeOK'
  BY <1>2, <1>4, <1>6 DEF Inv, TypeOK
<1>8. Takes(s, w)
  BY <1>2, <1>4 DEF Takes, Inv, TypeOK
<1>9. Known(w)'
  BY <1>2, <1>4, <1>5 DEF Known, Sent, Inv, TypeOK
<1>10. \A u \in Sessions : \A x \in Request :
         session[u] = x /\ x.stage \in Flying => x.document # d
  <2> SUFFICES ASSUME NEW u \in Sessions, NEW x \in Request, session[u] = x, x.stage \in Flying
               PROVE  origin[x.document] # None
    BY <1>2
  <2>1. origin[x.document] = x.client
    BY DEF Inv, Requests, FlightsSound, Known
  <2> QED
    BY <2>1, NoneAssumption DEF Request
<1>11. Requests'
  BY <1>4, <1>8, <1>9, <1>10, OthersKeep DEF Flying, Stages
<1>12. Bookkeeping'
  BY <1>4, <1>5, <1>8, KeysKeep
<1>13. Safe'
  BY <1>4, <1>5, <1>8, <1>9, SafeKeeps DEF Known
<1>14. Untouched'
  BY <1>2, <1>4, <1>6 DEF Inv, Untouched, TypeOK
<1> QED
  BY <1>7, <1>11, <1>12, <1>13, <1>14 DEF Inv

(* The events of a step: those of T, for document d. *)
Publishes(d, T) ==
  /\ published' \in [Documents -> SUBSET Topics]
  /\ \A e \in Documents : published'[e] = IF e = d THEN published[e] \cup T ELSE published[e]

(* The doubts after a step: those of request w are up to date. *)
Doubts(w) ==
  /\ doubted' \in SUBSET Documents
  /\ w.review_required <=> w.document \in doubted'
  /\ \A d \in Documents : d # w.document => (d \in doubted' <=> d \in doubted)

(* Session s moves its request from v on to w. *)
Moves(s, v, w) ==
  /\ session[s] = v /\ v.stage \in Flying /\ w.stage \in Flying
  /\ w.document = v.document /\ w.client = v.client
  /\ session' = [session EXCEPT ![s] = w]
  /\ UNCHANGED <<response, document, stored, origin, answers, refusals, failures>>

(* A stage moves its request on and publishes the events of the stage.       *)
LEMMA StageKeeps ==
  ASSUME Inv, NEW s \in Sessions, NEW v \in Request, NEW w \in Request, NEW T \in SUBSET Topics,
         Moves(s, v, w), Sent(w) = Sent(v) \cup T, Publishes(w.document, T), Doubts(w)
  PROVE  Inv'
<1> USE DEF Moves
<1>1. Known(v)
  BY DEF Inv, Requests, FlightsSound
<1>a. w.document \in Documents /\ document[w.document] = "absent"
  BY <1>1 DEF Known
<1>2. TypeOK'
  BY DEF Inv, TypeOK, Publishes, Doubts
<1>3. Takes(s, w)
  BY DEF Takes, Publishes, Doubts
<1>4. published'[w.document] = Sent(w)
  BY <1>1, <1>a DEF Known, Publishes
<1>5. Known(w)'
  BY <1>1, <1>4 DEF Known, Doubts
<1>6. \A u \in Sessions : \A x \in Request :
        u # s /\ session[u] = x /\ x.stage \in Flying => x.document # w.document
  BY DEF Inv, Requests, FlightsApart
<1>7. Requests'
  BY <1>a, <1>3, <1>5, <1>6, OthersKeep
<1>8. Bookkeeping'
  BY <1>a, <1>3, KeysKeep
<1>9. Safe'
  BY <1>a, <1>3, <1>4, SafeKeeps
<1>10. Untouched'
  <2>1. origin[v.document] # None
    BY <1>1, NoneAssumption DEF Known, Request
  <2> QED
    BY <2>1 DEF Inv, Untouched, Publishes, Doubts
<1> QED
  BY <1>2, <1>7, <1>8, <1>9, <1>10 DEF Inv

LEMMA PublishEffect ==
  ASSUME Inv, NEW s \in Sessions, NEW v \in Request, v = session[s], v.document \in Documents,
         NEW topic \in Topics, Publish(s, topic)
  PROVE  Publishes(v.document, {topic})
<1>1. published' = [published EXCEPT ![v.document] = published[v.document] \cup {topic}]
  BY DEF Publish
<1>2. published \in [Documents -> SUBSET Topics]
  BY DEF Inv, TypeOK
<1>3. published[v.document] \cup {topic} \in SUBSET Topics
  BY <1>2
<1> DEFINE new == published[v.document] \cup {topic}
<1>4. published' = [published EXCEPT ![v.document] = new] /\ new \in SUBSET Topics
  BY <1>1, <1>3
<1> HIDE DEF new
<1>5. published' \in [Documents -> SUBSET Topics]
  BY <1>2, <1>4
<1>6. \A e \in Documents : published'[e] = IF e = v.document THEN new ELSE published[e]
  BY <1>2, <1>4
<1> QED
  BY <1>5, <1>6 DEF Publishes, new

(* The event that tells a stage from the next. *)
Adds(from, next, topic) ==
  \A v, w \in Request : v.stage = from /\ w.stage = next => Sent(w) = Sent(v) \cup {topic}

(* A stage without doubts of its own. *)
LEMMA PlainStageKeeps ==
  ASSUME Inv, NEW s \in Sessions, NEW from \in Flying, NEW next \in Flying, NEW topic \in Topics,
         At(s, from), Publish(s, topic), session' = [session EXCEPT ![s].stage = next],
         Adds(from, next, topic),
         UNCHANGED <<response, document, stored, origin, doubted, answers, refusals, failures>>
  PROVE  Inv'
<1>1. PICK v \in Request : v = session[s] /\ v.stage = from
  BY DEF At, Inv, TypeOK
<1>2. PICK w \in Request : w = [v EXCEPT !.stage = next]
  BY <1>1 DEF Request, Flying
<1>3. /\ w.stage = next /\ w.document = v.document /\ w.client = v.client
      /\ w.review_required = v.review_required
      /\ session' = [session EXCEPT ![s] = w]
  BY <1>1, <1>2 DEF Request
<1>4. Known(v)
  BY <1>1 DEF Inv, Requests, FlightsSound
<1>5. v.document \in Documents /\ (v.review_required <=> v.document \in doubted)
  BY <1>4 DEF Known
<1>6. Publishes(w.document, {topic})
  BY <1>1, <1>3, <1>5, PublishEffect
<1>7. Doubts(w)
  BY <1>3, <1>5 DEF Inv, TypeOK, Doubts
<1>8. Sent(w) = Sent(v) \cup {topic}
  BY <1>1, <1>3 DEF Adds
<1>9. Moves(s, v, w)
  BY <1>1, <1>3 DEF Moves
<1> QED
  BY <1>6, <1>7, <1>8, <1>9, StageKeeps

(* A stage that may have doubts. *)
LEMMA DoubtStageKeeps ==
  ASSUME Inv, NEW s \in Sessions, NEW from \in Flying, NEW next \in Flying, NEW topic \in Topics,
         NEW doubt \in BOOLEAN, At(s, from), Publish(s, topic), Doubt(s, doubt, next),
         Adds(from, next, topic),
         UNCHANGED <<response, document, stored, origin, answers, refusals, failures>>
  PROVE  Inv'
<1>1. PICK v \in Request : v = session[s] /\ v.stage = from
  BY DEF At, Inv, TypeOK
<1>2. v.review_required \in BOOLEAN
  BY DEF Request
<1>3. PICK w \in Request :
        w = [v EXCEPT !.stage = next, !.review_required = v.review_required \/ doubt]
  BY <1>1, <1>2 DEF Request, Flying
<1>4. /\ w.stage = next /\ w.document = v.document /\ w.client = v.client
      /\ w.review_required <=> v.review_required \/ doubt
  BY <1>3 DEF Request
<1>5. session' = [session EXCEPT ![s] = w]
  BY <1>1, <1>3 DEF Doubt, Inv, TypeOK
<1>6. Known(v)
  BY <1>1 DEF Inv, Requests, FlightsSound
<1>7. v.document \in Documents /\ (v.review_required <=> v.document \in doubted)
  BY <1>6 DEF Known
<1>8. Publishes(w.document, {topic})
  BY <1>1, <1>4, <1>7, PublishEffect
<1>9. Doubts(w)
  BY <1>1, <1>4, <1>7 DEF Doubt, Doubts, Inv, TypeOK
<1>10. Sent(w) = Sent(v) \cup {topic}
  BY <1>1, <1>4 DEF Adds
<1>11. Moves(s, v, w)
  BY <1>1, <1>4, <1>5 DEF Moves
<1> QED
  BY <1>8, <1>9, <1>10, <1>11, StageKeeps

(* The stages in their order. *)
LEMMA StagesKeep ==
  ASSUME Inv, NEW s \in Sessions, NEW doubt \in BOOLEAN,
         \/ Receive(s) \/ Preprocess(s)
         \/ Classify(s, doubt) \/ Extract(s, doubt) \/ Validate(s, doubt)
  PROVE  Inv'
<1>1. /\ {"receive", "preprocess", "classify", "extract", "validate", "route"} \subseteq Flying
      /\ {"received", "preprocessed", "classified", "extracted", "validated"} \subseteq Topics
  BY TopicsValue DEF Flying, Stages
<1>2. CASE Receive(s)
  <2>1. Adds("receive", "preprocess", "received")
    BY DEF Sent, Adds
  <2> QED
    BY <1>1, <1>2, <2>1, PlainStageKeeps DEF Receive
<1>3. CASE Preprocess(s)
  <2>1. Adds("preprocess", "classify", "preprocessed")
    BY DEF Sent, Adds
  <2> QED
    BY <1>1, <1>3, <2>1, PlainStageKeeps DEF Preprocess
<1>4. CASE Classify(s, doubt)
  <2>1. Adds("classify", "extract", "classified")
    BY DEF Sent, Adds
  <2> QED
    BY <1>1, <1>4, <2>1, DoubtStageKeeps DEF Classify
<1>5. CASE Extract(s, doubt)
  <2>1. Adds("extract", "validate", "extracted")
    BY DEF Sent, Adds
  <2> QED
    BY <1>1, <1>5, <2>1, DoubtStageKeeps DEF Extract
<1>6. CASE Validate(s, doubt)
  <2>1. Adds("validate", "route", "validated")
    BY TopicsValue DEF Sent, Adds
  <2> QED
    BY <1>1, <1>6, <2>1, DoubtStageKeeps DEF Validate
<1> QED
  BY <1>2, <1>3, <1>4, <1>5, <1>6

LEMMA RouteKeeps ==
  ASSUME Inv, NEW s \in Sessions, Route(s)
  PROVE  Inv'
<1>1. PICK v \in Request : v = session[s] /\ v.stage = "route"
  BY DEF Route, At, Inv, TypeOK
<1>2. PICK w \in Request : w = [v EXCEPT !.stage = "commit"]
  BY <1>1 DEF Request, Stages
<1>3. /\ w.stage = "commit" /\ w.document = v.document /\ w.client = v.client
      /\ w.review_required = v.review_required
      /\ session' = [session EXCEPT ![s] = w]
  BY <1>1, <1>2 DEF Route, Request
<1>4. v.stage \in Flying /\ w.stage \in Flying
  BY <1>1, <1>3 DEF Flying, Stages
<1>5. Known(v)
  BY <1>1, <1>4 DEF Inv, Requests, FlightsSound
<1>6. /\ v.document \in Documents /\ published[v.document] = Sent(v)
      /\ v.review_required <=> v.document \in doubted
  BY <1>5 DEF Known
<1>7. Doubts(w)
  BY <1>3, <1>6 DEF Route, Doubts, Inv, TypeOK
<1>8. Moves(s, v, w)
  BY <1>1, <1>3, <1>4 DEF Moves, Route
<1>9. CASE v.review_required
  <2>1. "review.required" \in Topics
    BY TopicsValue
  <2>2. Publishes(w.document, {"review.required"})
    BY <1>1, <1>3, <1>6, <1>9, <2>1, PublishEffect DEF Route
  <2>3. Sent(w) = Sent(v) \cup {"review.required"}
    BY <1>1, <1>3, <1>9, <2>1 DEF Sent
  <2> QED
    BY <1>7, <1>8, <2>1, <2>2, <2>3, StageKeeps
<1>10. CASE ~v.review_required
  <2>1. published' = published
    BY <1>1, <1>10 DEF Route
  <2>2. Publishes(w.document, {})
    BY <2>1 DEF Publishes, Inv, TypeOK
  <2>3. Sent(w) = Sent(v) \cup {}
    BY <1>1, <1>3, <1>10 DEF Sent
  <2> QED
    BY <1>7, <1>8, <2>2, <2>3, StageKeeps
<1> QED
  BY <1>9, <1>10

-----------------------------------------------------------------------------
(* The commit: the key was free, so no answer, reply or document used it.    *)
LEMMA CommitKeeps ==
  ASSUME Inv, NEW s \in Sessions, Commit(s)
  PROVE  Inv'
<1>1. PICK v \in Request : v = session[s] /\ v.stage = "commit"
  BY DEF Commit, At, Inv, TypeOK
<1>2. PICK w \in Request : w = [v EXCEPT !.stage = "reply"]
  BY <1>1 DEF Request, Stages
<1>3. /\ w.stage = "reply" /\ w.document = v.document /\ w.client = v.client
      /\ session' = [session EXCEPT ![s] = w]
  BY <1>1, <1>2 DEF Commit, Request
<1>4. PICK c \in Clients, d \in Documents, k \in Keys, r \in Response :
        /\ c = v.client /\ d = v.document /\ k = KeyOf[c]
        /\ r = [request_hash |-> PayloadOf[c], document |-> d]
  <2>1. v.stage \in Flying
    BY <1>1 DEF Flying, Stages
  <2>2. v.document \in Documents
    BY <1>1, <2>1 DEF Inv, Requests, FlightsSound, Known
  <2>3. v.client \in Clients /\ KeyOf[v.client] \in Keys /\ PayloadOf[v.client] \in Payloads
    BY ClientAssumption DEF Request
  <2> QED
    BY <2>2, <2>3 DEF Response
<1>5. /\ origin[d] = c /\ d \in stored /\ document[d] = "absent"
      /\ published[d] = Sent(v)
      /\ v.review_required <=> d \in doubted
  BY <1>1, <1>4 DEF Inv, Requests, FlightsSound, Known, Flying, Stages
<1>6. /\ response[k] = NoResponse
      /\ response' = [response EXCEPT ![k] = r]
      /\ document' = [document EXCEPT ![d] = StatusOf(v.review_required)]
      /\ UNCHANGED <<stored, published, origin, doubted, answers, refusals, failures>>
  BY <1>1, <1>4 DEF Commit
<1>7. StatusOf(v.review_required) \in {"validated", "review_required"}
  BY DEF StatusOf
<1>8. /\ response'[k] = r
      /\ \A j \in Keys : j # k => response'[j] = response[j]
      /\ document'[d] = StatusOf(v.review_required)
      /\ \A e \in Documents : e # d => document'[e] = document[e]
  BY <1>6 DEF Inv, TypeOK
<1>9. TypeOK'
  BY <1>3, <1>6, <1>7 DEF Inv, TypeOK
<1>10. \A x \in Response : x # NoResponse
  BY NoneAssumption DEF Response, NoResponse
<1>11. \A b \in Clients : \A e \in Documents : StoredFor(b, e) =>
         /\ KeyOf[b] \in Keys /\ KeyOf[b] # k
         /\ response'[KeyOf[b]] = [request_hash |-> PayloadOf[b], document |-> e]
  <2> SUFFICES ASSUME NEW b \in Clients, NEW e \in Documents, StoredFor(b, e)
               PROVE  KeyOf[b] \in Keys /\ KeyOf[b] # k /\ response'[KeyOf[b]] = response[KeyOf[b]]
    BY DEF StoredFor
  <2>1. KeyOf[b] \in Keys /\ PayloadOf[b] \in Payloads
    BY ClientAssumption
  <2>2. response[KeyOf[b]] \in Response
    BY <2>1 DEF StoredFor, Response
  <2> QED
    BY <1>6, <1>8, <1>10, <2>1, <2>2
<1>12. Safe'
  <2>1. Committed(d)' /\ \A e \in Documents : e # d => (Committed(e)' <=> Committed(e))
    BY <1>7, <1>8 DEF Committed
  <2>2. v.stage = "commit" /\ published'[d] = Sent(v)
    BY <1>1, <1>5, <1>6
  <2>3. CommittedIsComplete'
    BY <1>5, <1>6, <1>8, <2>1, <2>2, TopicsValue
       DEF Inv, Safe, CommittedIsComplete, Sent, StatusOf
  <2>4. DoubtIsReviewed'
    BY <1>5, <1>6, <1>8, <2>1 DEF Inv, Safe, DoubtIsReviewed, StatusOf
  <2>5. EventsInOrder'
    BY <1>6 DEF Inv, Safe, EventsInOrder
  <2> QED
    BY <2>3, <2>4, <2>5 DEF Safe
<1>13. AnswersSound'
  BY <1>6, <1>11 DEF Inv, Bookkeeping, AnswersSound, StoredFor
<1>14. DocumentsSound'
  <2> SUFFICES ASSUME NEW e \in Documents, Committed(e)', NEW b \in Clients \cup {None},
                      b = origin[e]
               PROVE  b # None /\ StoredFor(b, e)'
    BY <1>6 DEF DocumentsSound
  <2>1. CASE e = d
    BY <1>4, <1>5, <1>8, <2>1, NoneAssumption DEF StoredFor
  <2>2. CASE e # d
    <3>1. Committed(e)
      BY <1>8, <2>2 DEF Committed
    <3>2. b # None /\ StoredFor(b, e)
      BY <3>1 DEF Inv, Bookkeeping, DocumentsSound
    <3> QED
      BY <1>11, <3>2 DEF StoredFor
  <2> QED
    BY <2>1, <2>2
<1>15. ResponsesSound'
  <2> SUFFICES ASSUME NEW j \in Keys, NEW x \in Response, response'[j] = x
               PROVE  /\ document'[x.document] # "absent"
                      /\ origin[x.document] # None
                      /\ KeyOf[origin[x.document]] = j
    BY <1>6 DEF ResponsesSound
  <2>1. x.document \in Documents
    BY DEF Response
  <2>2. CASE j = k
    BY <1>4, <1>5, <1>7, <1>8, <2>2, NoneAssumption
  <2>3. CASE j # k
    <3>1. /\ document[x.document] # "absent"
          /\ origin[x.document] # None
          /\ KeyOf[origin[x.document]] = j
      BY <1>8, <2>3 DEF Inv, Bookkeeping, ResponsesSound
    <3> QED
      BY <1>7, <1>8, <2>1, <3>1
  <2> QED
    BY <2>2, <2>3
<1>16. \A u \in Sessions : session'[u] = IF u = s THEN w ELSE session[u]
  BY <1>3 DEF Inv, TypeOK
<1>17. UploadsSound' /\ FlightsApart'
  BY <1>3, <1>16 DEF Inv, Requests, UploadsSound, FlightsApart, Flying
<1>18. RepliesSound'
  <2> SUFFICES ASSUME NEW u \in Sessions, NEW x \in Request, session'[u] = x, x.stage = "reply"
               PROVE  StoredFor(x.client, x.document)'
    BY DEF RepliesSound
  <2>1. CASE u = s
    BY <1>3, <1>4, <1>8, <1>16, <2>1 DEF StoredFor
  <2>2. CASE u # s
    <3>1. StoredFor(x.client, x.document) /\ x.client \in Clients
      BY <1>16, <2>2 DEF Inv, Requests, RepliesSound, Request
    <3>2. KeyOf[x.client] \in Keys
      BY <3>1, ClientAssumption
    <3>3. response[KeyOf[x.client]] # NoResponse
      BY <3>1 DEF StoredFor, NoResponse
    <3> QED
      BY <1>6, <1>8, <3>1, <3>2, <3>3 DEF StoredFor
  <2> QED
    BY <2>1, <2>2
<1>19. FlightsSound'
  <2> SUFFICES ASSUME NEW u \in Sessions, NEW x \in Request, session'[u] = x, x.stage \in Flying
               PROVE  Known(x)'
    BY DEF FlightsSound
  <2>1. u # s /\ session[u] = x
    BY <1>3, <1>16 DEF Flying
  <2>2. Known(x)
    BY <2>1 DEF Inv, Requests, FlightsSound
  <2>3. x.document # d
    BY <1>1, <1>4, <2>1 DEF Inv, Requests, FlightsApart, Flying, Stages
  <2> QED
    BY <1>6, <1>8, <2>2, <2>3 DEF Known
<1>20. Untouched'
  BY <1>4, <1>5, <1>6, <1>8, NoneAssumption DEF Inv, Untouched
<1> QED
  BY <1>9, <1>12, <1>13, <1>14, <1>15, <1>17, <1>18, <1>19, <1>20
     DEF Inv, Bookkeeping, Requests

-----------------------------------------------------------------------------
LEMMA InvInit == Init => Inv
<1> SUFFICES ASSUME Init PROVE Inv
  OBVIOUS
<1>1. TypeOK
  BY FailureAssumption DEF Init, TypeOK
<1>2. Safe
  BY DEF Init, Safe, CommittedIsComplete, DoubtIsReviewed, EventsInOrder, Committed
<1>3. Bookkeeping
  BY NoneAssumption
     DEF Init, Bookkeeping, AnswersSound, DocumentsSound, ResponsesSound, Committed, Response,
         NoResponse
<1>4. Requests
  BY DEF Init, Requests, UploadsSound, FlightsSound, FlightsApart, RepliesSound, Idle, Request
<1>5. Untouched
  BY DEF Init, Untouched
<1> QED
  BY <1>1, <1>2, <1>3, <1>4, <1>5 DEF Inv

LEMMA InvNext == Inv /\ [Next]_vars => Inv'
<1> SUFFICES ASSUME Inv, [Next]_vars PROVE Inv'
  OBVIOUS
<1>1. ASSUME NEW c \in Clients, AnswerStored(c) PROVE Inv'
  BY <1>1, AnswerStoredKeeps
<1>2. ASSUME NEW c \in Clients, RefuseReuse(c) \/ RefuseMalformed(c) PROVE Inv'
  BY <1>2, RefusalKeeps
<1>3. ASSUME NEW c \in Clients, NEW s \in Sessions, Accept(s, c) PROVE Inv'
  BY <1>3, AcceptKeeps
<1>4. ASSUME NEW s \in Sessions, Process(s) PROVE Inv'
  <2>1. ASSUME NEW d \in Documents, Upload(s, d) PROVE Inv'
    BY <2>1, UploadKeeps
  <2>2. CASE Receive(s) \/ Preprocess(s)
    BY <2>2, StagesKeep
  <2>3. ASSUME NEW doubt \in BOOLEAN, Classify(s, doubt) \/ Extract(s, doubt) \/ Validate(s, doubt)
        PROVE  Inv'
    BY <2>3, StagesKeep
  <2>4. CASE Route(s)
    BY <2>4, RouteKeeps
  <2>5. CASE Commit(s)
    BY <2>5, CommitKeeps
  <2>6. CASE Clash(s)
    BY <2>6, EndKeeps
  <2>7. CASE Reply(s)
    BY <2>7, ReplyKeeps
  <2> QED
    BY <1>4, <2>1, <2>2, <2>3, <2>4, <2>5, <2>6, <2>7 DEF Process
<1>5. ASSUME NEW s \in Sessions, Fail(s) PROVE Inv'
  BY <1>5, EndKeeps
<1>6. CASE UNCHANGED vars
  <2>1. Quiet /\ UNCHANGED <<session, answers, refusals, failures>>
    BY <1>6 DEF vars, Quiet
  <2>2. TypeOK'
    BY <2>1 DEF Quiet, Inv, TypeOK
  <2>3. AnswersSound'
    BY <2>1 DEF Quiet, Inv, Bookkeeping, AnswersSound, StoredFor
  <2>4. Requests'
    BY <2>1, QuietRequests
  <2> QED
    BY <2>1, <2>2, <2>3, <2>4, QuietSafe DEF Inv, Bookkeeping
<1> QED
  BY <1>1, <1>2, <1>3, <1>4, <1>5, <1>6 DEF Next

(* The invariant holds in every reachable state. *)
THEOREM IngestionInvariance == Spec => []Inv
  BY InvInit, InvNext, PTL DEF Spec

(* The variables of the intake keep their types. *)
THEOREM IngestionTypeCorrect == Spec => []TypeOK
<1>1. Inv => TypeOK
  BY DEF Inv
<1> QED
  BY <1>1, IngestionInvariance, PTL

(* Idempotency, however requests with a key overlap, die and are retried: one *)
(* document, one answer, and none to a request it was not made from.         *)
THEOREM IdempotentIntake == Spec => [](SameAnswer /\ AnswerFitsRequest /\ OneDocumentPerKey)
  BY KeysHold, IngestionInvariance, PTL

(* A committed document has its file and its events, in the order of the     *)
(* stages, and waits for review exactly when one of the stages had doubts.   *)
THEOREM CompleteIntake == Spec => [](CommittedIsComplete /\ DoubtIsReviewed /\ EventsInOrder)
<1>1. Inv => CommittedIsComplete /\ DoubtIsReviewed /\ EventsInOrder
  BY DEF Inv, Safe
<1> QED
  BY <1>1, IngestionInvariance, PTL

(* No client is answered with a document made from another body              *)
(* (get_idempotent_response, save_idempotent_response).                      *)
THEOREM AnswersFit == Spec => []AnswerFitsRequest
BY IdempotentIntake, PTL

(* One doubt of one stage sends the document to review                       *)
(* (ingest_and_process).                                                     *)
THEOREM DoubtsReviewed == Spec => []DoubtIsReviewed
BY CompleteIntake, PTL

-----------------------------------------------------------------------------
(* The refinement.  What is still needed of the requests in the pipeline is  *)
(* that none has a body that is refused.                                     *)
NoneMalformed ==
  \A s \in Sessions : \A w \in Request : session[s] = w => PayloadOf[w.client] \notin Malformed

LEMMA NoneMalformedInit == Init => NoneMalformed
  BY DEF Init, NoneMalformed, Idle, Request

LEMMA NoneMalformedNext ==
  ASSUME TypeOK, NoneMalformed, [Next]_vars
  PROVE  NoneMalformed'
<1>1. ASSUME NEW s \in Sessions, NEW c \in Clients, Accept(s, c)
      PROVE  NoneMalformed'
  <2>1. session' = [session EXCEPT ![s] = [client |-> c, stage |-> "upload", document |-> None,
                                          review_required |-> FALSE]]
        /\ PayloadOf[c] \notin Malformed
    BY <1>1 DEF Accept
  <2>2. \A u \in Sessions : u # s => session'[u] = session[u]
    BY <2>1
  <2>3. \A w \in Request : session'[s] = w => w.client = c
    BY <2>1 DEF TypeOK
  <2> QED
    BY <2>1, <2>2, <2>3 DEF NoneMalformed
<1>2. ASSUME NEW s \in Sessions, session[s] # Idle,
             \A u \in Sessions : u # s => session'[u] = session[u],
             session'[s] # Idle => session'[s].client = session[s].client
      PROVE  NoneMalformed'
  <2>1. session[s] \in Request
    BY <1>2 DEF TypeOK
  <2>2. PayloadOf[session[s].client] \notin Malformed
    BY <2>1 DEF NoneMalformed
  <2>3. \A w \in Request : w # Idle
    BY DEF Request, Idle
  <2> QED
    BY <1>2, <2>2, <2>3 DEF NoneMalformed
<1>3. ASSUME NEW s \in Sessions, Process(s) \/ Fail(s)
      PROVE  NoneMalformed'
  <2>1. session[s] # Idle
    BY <1>3 DEF Process, Upload, Receive, Preprocess, Classify, Extract, Validate, Route, Commit,
                Clash, Reply, Fail, At
  <2>2. \A u \in Sessions : u # s => session'[u] = session[u]
    BY <1>3 DEF Process, Upload, Receive, Preprocess, Classify, Extract, Validate, Route, Commit,
                Clash, Reply, Fail, Doubt, TypeOK
  <2>3. session'[s] # Idle => session'[s].client = session[s].client
    <3>1. session[s] \in Request
      BY <2>1 DEF TypeOK
    <3> QED
      BY <1>3, <3>1 DEF Process, Upload, Receive, Preprocess, Classify, Extract, Validate, Route,
                        Commit, Clash, Reply, Fail, Doubt, TypeOK, Request
  <2> QED
    BY <1>2, <2>1, <2>2, <2>3
<1>4. CASE UNCHANGED session
  BY <1>4 DEF NoneMalformed
<1> QED
  BY <1>1, <1>3, <1>4 DEF Next, AnswerStored, RefuseReuse, RefuseMalformed, vars

(* A step that leaves the keys and the committed documents alone, and the    *)
(* records of answers and refusals, is none the promise knows of.            *)
LEMMA HiddenStep ==
  ASSUME Inv, UNCHANGED <<response, document, answers, refusals>>,
         \A d \in Documents : Committed(d) => origin'[d] = origin[d]
  PROVE  UNCHANGED Promise!vars
<1>1. Makers' = Makers
  BY DEF Makers, Committed
<1> QED
  BY <1>1 DEF Promise!vars

LEMMA CommitPerforms ==
  ASSUME Inv, NoneMalformed, NEW s \in Sessions, Commit(s)
  PROVE  Promise!Next
<1>1. PICK v \in Request : v = session[s] /\ v.stage = "commit"
  BY DEF Commit, At, Inv, TypeOK
<1>2. Known(v) /\ v.client \in Clients /\ PayloadOf[v.client] \notin Malformed
  BY <1>1 DEF Inv, Requests, FlightsSound, Flying, Stages, Request, NoneMalformed
<1>3. PICK c \in Clients, d \in Documents : c = v.client /\ d = v.document
  BY <1>2 DEF Known
<1>4. origin[d] = c /\ document[d] = "absent" /\ PayloadOf[c] \notin Malformed
  BY <1>2, <1>3 DEF Known
<1>5. /\ response[KeyOf[c]] = NoResponse
      /\ response' = [response EXCEPT ![KeyOf[c]] = [request_hash |-> PayloadOf[c], document |-> d]]
      /\ document' = [document EXCEPT ![d] = StatusOf(v.review_required)]
      /\ UNCHANGED <<origin, answers, refusals>>
  BY <1>1, <1>3 DEF Commit
<1>6. StatusOf(v.review_required) # "absent"
  BY DEF StatusOf
<1>7. Makers[d] = None
  BY <1>4 DEF Makers, Committed
<1>8. Makers' = [Makers EXCEPT ![d] = c]
  <2>1. \A e \in Documents : Makers'[e] = IF e = d THEN c ELSE Makers[e]
    BY <1>4, <1>5, <1>6 DEF Makers, Committed, Inv, TypeOK
  <2> QED
    BY <2>1 DEF Makers
<1>9. Promise!Perform(c, d)
  BY <1>4, <1>5, <1>7, <1>8 DEF Promise!Perform, Promise!Unused, NoResponse
<1> QED
  BY <1>9 DEF Promise!Next

LEMMA ReplyAnswers ==
  ASSUME Inv, NEW s \in Sessions, Reply(s)
  PROVE  Promise!Next
<1>1. PICK v \in Request : v = session[s] /\ v.stage = "reply"
  BY DEF Reply, At, Inv, TypeOK
<1>2. PICK c \in Clients : c = v.client
  BY DEF Request
<1>3. response[KeyOf[c]] = [request_hash |-> PayloadOf[c], document |-> v.document]
  BY <1>1, <1>2 DEF Inv, Requests, RepliesSound, StoredFor
<1>4. response[KeyOf[c]] # Promise!Unused
  BY <1>3 DEF Promise!Unused
<1>5. Promise!Fits(c)
  BY <1>3, <1>4 DEF Promise!Fits
<1>6. answers' = answers \cup {<<c, response[KeyOf[c]].document>>}
  BY <1>1, <1>2, <1>3 DEF Reply
<1>7. Makers' = Makers
  BY DEF Reply, Makers, Committed
<1>8. Promise!Answer(c)
  BY <1>5, <1>6, <1>7 DEF Promise!Answer, Reply
<1> QED
  BY <1>8 DEF Promise!Next

(* The four ways that need no pipeline are steps of the promise as they are. *)
LEMMA LookUpPromised ==
  ASSUME NEW c \in Clients, AnswerStored(c) \/ RefuseReuse(c) \/ RefuseMalformed(c)
  PROVE  Promise!Next
<1>1. Makers' = Makers
  BY DEF AnswerStored, RefuseReuse, RefuseMalformed, Makers, Committed
<1>2. CASE AnswerStored(c)
  BY <1>1, <1>2 DEF AnswerStored, Found, NoResponse, Promise!Answer, Promise!Fits,
                    Promise!Unused, Promise!Next
<1>3. CASE RefuseReuse(c)
  BY <1>1, <1>3 DEF RefuseReuse, Found, NoResponse, Promise!Conflict, Promise!Fits,
                    Promise!Unused, Promise!Next
<1>4. CASE RefuseMalformed(c)
  BY <1>1, <1>4 DEF RefuseMalformed, NoResponse, Promise!Reject, Promise!Unused, Promise!Next
<1> QED
  BY <1>2, <1>3, <1>4

LEMMA InitPromise == Init => Promise!Init
  BY DEF Init, Promise!Init, Promise!Unused, NoResponse, Makers, Committed

LEMMA StepPromise ==
  ASSUME Inv, NoneMalformed, [Next]_vars
  PROVE  [Promise!Next]_(Promise!vars)
<1>1. ASSUME NEW c \in Clients, AnswerStored(c) \/ RefuseReuse(c) \/ RefuseMalformed(c)
      PROVE  Promise!Next
  BY <1>1, LookUpPromised
<1>2. ASSUME NEW s \in Sessions, Commit(s)
      PROVE  Promise!Next
  BY <1>2, CommitPerforms
<1>3. ASSUME NEW s \in Sessions, Reply(s)
      PROVE  Promise!Next
  BY <1>3, ReplyAnswers
<1>4. ASSUME NEW s \in Sessions, NEW d \in Documents, Upload(s, d)
      PROVE  UNCHANGED Promise!vars
  <2>1. ~Committed(d)
    BY <1>4 DEF Upload, Inv, Untouched, Committed
  <2>2. \A e \in Documents : e # d => origin'[e] = origin[e]
    BY <1>4 DEF Upload, Inv, TypeOK
  <2> QED
    BY <1>4, <2>1, <2>2, HiddenStep DEF Upload
<1>5. CASE UNCHANGED <<response, document, origin, answers, refusals>>
  BY <1>5, HiddenStep
<1> QED
  BY <1>1, <1>2, <1>3, <1>4, <1>5
     DEF Next, Process, Accept, Receive, Preprocess, Classify, Extract, Validate, Route, Clash,
         Fail, vars

(* The endpoint keeps the promise of an Idempotency-Key, step by step: it    *)
(* answers and refuses as if each key had been worked on at most once, in    *)
(* one step (ingest_document, get_idempotent_response).                      *)
THEOREM IntakeIsIdempotentStore == Spec => ImplementsIdempotentStore
<1>1. Spec => []NoneMalformed
  <2>1. Inv => TypeOK
    BY DEF Inv
  <2> QED
    BY <2>1, NoneMalformedInit, NoneMalformedNext, IngestionInvariance, PTL DEF Spec
<1> QED
  BY <1>1, InitPromise, StepPromise, IngestionInvariance, PTL
     DEF Spec, ImplementsIdempotentStore, Promise!Spec

=============================================================================
