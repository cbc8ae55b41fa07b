------------------------------ MODULE Ingestion ------------------------------
(***************************************************************************)
(* Document intake: the endpoint POST /api/v1/ingestion/documents of       *)
(* apps/api-gateway/main.py with its Idempotency-Key                       *)
(* (libs/common/idempotency.py) and the pipeline it runs                   *)
(* (services/ingestion and the preprocessing, classification, extraction   *)
(* and validation services).                                               *)
(*                                                                         *)
(* One request looks its key up, uploads the file, publishes an event      *)
(* after each stage and commits all rows together at the end.  The upload  *)
(* and the events are outside the transaction.  A client that gets no      *)
(* answer sends its request again, while the first may still run.          *)
(***************************************************************************)
EXTENDS Naturals, FiniteSets

CONSTANTS
  Clients,      \* clients, each with one request it sends until it is answered
  Keys,         \* idempotency keys of a tenant
  Payloads,     \* request bodies, told apart by their hash
  KeyOf,        \* KeyOf[c]: the key of client c's request
  PayloadOf,    \* PayloadOf[c]: the body of client c's request
  Malformed,    \* bodies that are no base64 or have a content type not allowed
  Sessions,     \* concurrent requests
  Documents,    \* document ids; their number bounds the uploads
  MaxFailures,  \* bound on the requests that die
  None          \* NULL

ASSUME ClientAssumption ==
  /\ KeyOf \in [Clients -> Keys]
  /\ PayloadOf \in [Clients -> Payloads]
  /\ Malformed \subseteq Payloads

ASSUME FailureAssumption == MaxFailures \in Nat

ASSUME NoneAssumption == None \notin Documents /\ None \notin Clients

VARIABLES
  response,   \* response[k]: the committed idempotency_keys row of k, or NoResponse
  document,   \* document[d]: the status of the committed document d, or "absent"
  stored,     \* documents whose file is in the bucket
  published,  \* published[d]: the topics of the events published for d
  session,    \* session[s]: the open request of s, or Idle
  origin,     \* origin[d]: the client whose request made d
  doubted,    \* documents some stage of their pipeline had doubts about
  answers,    \* <<client, document>>: requests answered with success
  refusals,   \* <<client, status code>>: requests refused
  failures    \* requests that died so far

vars == <<response, document, stored, published, session, origin, doubted,
          answers, refusals, failures>>

(* The events of the pipeline, in the order of its stages. *)
Pipeline == <<"received", "preprocessed", "classified", "extracted", "validated">>

Topics == {Pipeline[n] : n \in DOMAIN Pipeline} \cup {"review.required"}

Response == [request_hash : Payloads, document : Documents]

NoResponse == [document |-> None]

Stages == {"upload", "receive", "preprocess", "classify", "extract", "validate", "route",
           "commit", "reply"}

Request == [client : Clients, stage : Stages, document : Documents \cup {None},
            review_required : BOOLEAN]

Idle == [client |-> None]

TypeOK ==
  /\ response \in [Keys -> Response \cup {NoResponse}]
  /\ document \in [Documents -> {"absent", "validated", "review_required"}]
  /\ stored \in SUBSET Documents
  /\ published \in [Documents -> SUBSET Topics]
  /\ session \in [Sessions -> Request \cup {Idle}]
  /\ origin \in [Documents -> Clients \cup {None}]
  /\ doubted \in SUBSET Documents
  /\ answers \in SUBSET (Clients \X Documents)
  /\ refusals \in SUBSET (Clients \X {400, 409})
  /\ failures \in 0..MaxFailures

Init ==
  /\ response = [k \in Keys |-> NoResponse]
  /\ document = [d \in Documents |-> "absent"]
  /\ stored = {}
  /\ published = [d \in Documents |-> {}]
  /\ session = [s \in Sessions |-> Idle]
  /\ origin = [d \in Documents |-> None]
  /\ doubted = {}
  /\ answers = {}
  /\ refusals = {}
  /\ failures = 0

-----------------------------------------------------------------------------
(* get_idempotent_response: the four ways a request can go. *)

\* Mutant: the stored hash is not compared.
FoundWhateverHash(c) == response[KeyOf[c]] # NoResponse

(* The key is there, with the hash of this request. *)
Found(c) ==
  /\ response[KeyOf[c]] # NoResponse
  /\ response[KeyOf[c]].request_hash = PayloadOf[c]

(* The stored response is sent again. *)
AnswerStored(c) ==
  /\ Found(c)
  /\ answers' = answers \cup {<<c, response[KeyOf[c]].document>>}
  /\ UNCHANGED <<response, document, stored, published, session, origin, doubted,
                 refusals, failures>>

(* IdempotencyConflictError: the key was used for another body. *)
RefuseReuse(c) ==
  /\ response[KeyOf[c]] # NoResponse
  /\ ~Found(c)
  /\ refusals' = refusals \cup {<<c, 409>>}
  /\ UNCHANGED <<response, document, stored, published, session, origin, doubted,
                 answers, failures>>

(* The body is refused before anything is uploaded; its key stays free.      *)
RefuseMalformed(c) ==
  /\ response[KeyOf[c]] = NoResponse
  /\ PayloadOf[c] \in Malformed
  /\ refusals' = refusals \cup {<<c, 400>>}
  /\ UNCHANGED <<response, document, stored, published, session, origin, doubted,
                 answers, failures>>

\* Mutant: a file uploaded under the key counts as processed.
AcceptOnce(s, c) ==
  /\ session[s] = Idle
  /\ response[KeyOf[c]] = NoResponse
  /\ PayloadOf[c] \notin Malformed
  /\ \A d \in stored : KeyOf[origin[d]] # KeyOf[c]
  /\ session' = [session EXCEPT ![s] = [client |-> c, stage |-> "upload", document |-> None,
                                        review_required |-> FALSE]]
  /\ UNCHANGED <<response, document, stored, published, origin, doubted, answers,
                 refusals, failures>>

(* The key is not there: the request goes into the pipeline. *)
Accept(s, c) ==
  /\ session[s] = Idle
  /\ response[KeyOf[c]] = NoResponse
  /\ PayloadOf[c] \notin Malformed
  /\ session' = [session EXCEPT ![s] = [client |-> c, stage |-> "upload", document |-> None,
                                        review_required |-> FALSE]]
  /\ UNCHANGED <<response, document, stored, published, origin, doubted, answers,
                 refusals, failures>>

-----------------------------------------------------------------------------
(* The pipeline. *)

At(s, stage) == session[s] # Idle /\ session[s].stage = stage

(* upload_raw stores the file under a name of its own. *)
Upload(s, d) ==
  /\ At(s, "upload")
  /\ origin[d] = None
  /\ stored' = stored \cup {d}
  /\ origin' = [origin EXCEPT ![d] = session[s].client]
  /\ session' = [session EXCEPT ![s].stage = "receive", ![s].document = d]
  /\ UNCHANGED <<response, document, published, doubted, answers, refusals, failures>>

Publish(s, topic) ==
  published' = [published EXCEPT ![session[s].document] = @ \cup {topic}]

Receive(s) ==
  /\ At(s, "receive")
  /\ Publish(s, "received")
  /\ session' = [session EXCEPT ![s].stage = "preprocess"]
  /\ UNCHANGED <<response, document, stored, origin, doubted, answers, refusals, failures>>

Preprocess(s) ==
  /\ At(s, "preprocess")
  /\ Publish(s, "preprocessed")
  /\ session' = [session EXCEPT ![s].stage = "classify"]
  /\ UNCHANGED <<response, document, stored, origin, doubted, answers, refusals, failures>>

(* A stage that has doubts (its confidence is below the threshold, a rule    *)
(* failed) has the document reviewed, whatever the stages after it find.     *)
Doubt(s, doubt, next) ==
  /\ doubted' = IF doubt THEN doubted \cup {session[s].document} ELSE doubted
  /\ session' = [session EXCEPT ![s].stage = next,
                                ![s].review_required = @ \/ doubt]

Classify(s, doubt) ==
  /\ At(s, "classify")
  /\ Publish(s, "classified")
  /\ Doubt(s, doubt, "extract")
  /\ UNCHANGED <<response, document, stored, origin, answers, refusals, failures>>

Extract(s, doubt) ==
  /\ At(s, "extract")
  /\ Publish(s, "extracted")
  /\ Doubt(s, doubt, "validate")
  /\ UNCHANGED <<response, document, stored, origin, answers, refusals, failures>>

Validate(s, doubt) ==
  /\ At(s, "validate")
  /\ Publish(s, "validated")
  /\ Doubt(s, doubt, "route")
  /\ UNCHANGED <<response, document, stored, origin, answers, refusals, failures>>

\* Mutant: the review is not announced.
RouteUnannounced(s) ==
  /\ At(s, "route")
  /\ session' = [session EXCEPT ![s].stage = "commit"]
  /\ UNCHANGED <<response, document, stored, published, origin, doubted, answers,
                 refusals, failures>>

(* A new document has no open task, so one is made and announced. *)
Route(s) ==
  /\ At(s, "route")
  /\ IF session[s].review_required
     THEN Publish(s, "review.required")
     ELSE UNCHANGED published
  /\ session' = [session EXCEPT ![s].stage = "commit"]
  /\ UNCHANGED <<response, document, stored, origin, doubted, answers, refusals, failures>>

-----------------------------------------------------------------------------
(* The commit and what can go wrong. *)

\* Mutant: a document that passed keeps the status it was made with.
StatusReceived(review_required) == IF review_required THEN "review_required" ELSE "received"

StatusOf(review_required) == IF review_required THEN "review_required" ELSE "validated"

(* The document, what hangs on it and the response are inserted together. *)
Commit(s) ==
  /\ At(s, "commit")
  /\ LET c == session[s].client
         d == session[s].document
     IN /\ response[KeyOf[c]] = NoResponse
        /\ response' = [response EXCEPT ![KeyOf[c]] = [request_hash |-> PayloadOf[c], document |-> d]]
        /\ document' = [document EXCEPT ![d] = StatusOf(session[s].review_required)]
  /\ session' = [session EXCEPT ![s].stage = "reply"]
  /\ UNCHANGED <<stored, published, origin, doubted, answers, refusals, failures>>

\* Mutant: the error of the commit is swallowed and the request answered.
ClashSwallowed(s) ==
  /\ At(s, "commit")
  /\ response[KeyOf[session[s].client]] # NoResponse
  /\ session' = [session EXCEPT ![s].stage = "reply"]
  /\ UNCHANGED <<response, document, stored, published, origin, doubted, answers,
                 refusals, failures>>

(* IntegrityError: another request with this key was faster. *)
Clash(s) ==
  /\ At(s, "commit")
  /\ response[KeyOf[session[s].client]] # NoResponse
  /\ session' = [session EXCEPT ![s] = Idle]
  /\ UNCHANGED <<response, document, stored, published, origin, doubted, answers,
                 refusals, failures>>

Reply(s) ==
  /\ At(s, "reply")
  /\ answers' = answers \cup {<<session[s].client, session[s].document>>}
  /\ session' = [session EXCEPT ![s] = Idle]
  /\ UNCHANGED <<response, document, stored, published, origin, doubted, refusals, failures>>

(* The upload or a publish fails or times out, the process is killed, the    *)
(* answer is lost.  What is uploaded and published stays so.                 *)
Fail(s) ==
  /\ session[s] # Idle
  /\ failures < MaxFailures
  /\ failures' = failures + 1
  /\ session' = [session EXCEPT ![s] = Idle]
  /\ UNCHANGED <<response, document, stored, published, origin, doubted, answers, refusals>>

-----------------------------------------------------------------------------
Process(s) ==
  \/ \E d \in Documents : Upload(s, d)
  \/ Receive(s)
  \/ Preprocess(s)
  \/ \E doubt \in BOOLEAN : Classify(s, doubt) \/ Extract(s, doubt) \/ Validate(s, doubt)
  \/ Route(s)
  \/ Commit(s)
  \/ Clash(s)
  \/ Reply(s)

Next ==
  \/ \E c \in Clients :
       \/ AnswerStored(c)
       \/ RefuseReuse(c)
       \/ RefuseMalformed(c)
       \/ \E s \in Sessions : Accept(s, c)
  \/ \E s \in Sessions : Process(s) \/ Fail(s)

Spec == Init /\ [][Next]_vars

(* A request that runs finishes, and a client sends its request until it is  *)
(* answered.                                                                 *)
FairSpec ==
  /\ Spec
  /\ \A s \in Sessions : WF_vars(Process(s))
  /\ \A c \in Clients :
       /\ WF_vars(AnswerStored(c) \/ RefuseReuse(c) \/ RefuseMalformed(c))
       /\ SF_vars(\E s \in Sessions : Accept(s, c))

-----------------------------------------------------------------------------
Committed(d) == document[d] # "absent"

(* Idempotency: two successful answers for one key name one document,        *)
(* however many requests with the key ran and overlapped.                    *)
SameAnswer ==
  \A a, b \in answers : KeyOf[a[1]] = KeyOf[b[1]] => a[2] = b[2]

(* A client is answered with a committed document made from its own body,    *)
(* never with the one another body was stored for under the same key.        *)
AnswerFitsRequest ==
  \A a \in answers : Committed(a[2]) /\ PayloadOf[origin[a[2]]] = PayloadOf[a[1]]

(* Retries and overlapping requests leave one document per key.              *)
OneDocumentPerKey ==
  \A d, e \in Documents :
    Committed(d) /\ Committed(e) /\ KeyOf[origin[d]] = KeyOf[origin[e]] => d = e

(* A committed document has its file in the bucket and all its events out,   *)
(* review.required among them exactly when it waits for review.              *)
CommittedIsComplete ==
  \A d \in Documents : Committed(d) =>
    /\ d \in stored
    /\ Topics \ {"review.required"} \subseteq published[d]
    /\ "review.required" \in published[d] <=> document[d] = "review_required"

(* One doubt of one stage is enough: no document passes as validated that    *)
(* classification, extraction or validation had doubts about.                *)
DoubtIsReviewed ==
  \A d \in Documents : Committed(d) => (document[d] = "review_required" <=> d \in doubted)

(* Consumers see the stages in order: no event without those before it.      *)
EventsInOrder ==
  \A d \in Documents : \A m, n \in DOMAIN Pipeline :
    m < n /\ Pipeline[n] \in published[d] => Pipeline[m] \in published[d]

(* Every client has an answer in the end, whatever dies or clashes.          *)
EventuallyAnswered ==
  \A c \in Clients :
    <>(\/ \E d \in Documents : <<c, d>> \in answers
       \/ \E code \in {400, 409} : <<c, code>> \in refusals)

-----------------------------------------------------------------------------
(* A document counts from its commit on; uploads and events do not.          *)
Makers == [d \in Documents |-> IF Committed(d) THEN origin[d] ELSE None]

Promise == INSTANCE IdempotentStore WITH row <- response, maker <- Makers

(* Whatever overlaps, dies, clashes and is sent again, the endpoint answers  *)
(* and refuses as if each key had been worked on once, in one step, and only *)
(* looked up ever after.                                                     *)
ImplementsIdempotentStore == Promise!Spec

=============================================================================
