# A TLA+ verification of the document and export-control gateway

This directory keeps TLA+ models of the parts of the program that decide what
happens to a delivery, a document, a review task, a model version, a submission
to an authority or a token when requests overlap, are killed or are sent again,
and of the computations that decide which documents a human sees; the TLC configurations that
check them on small instances; and theorems about them checked by TLAPS.

Paths below are relative to the repository. `PROJECT.json` maps each definition
to the lines it models, each property to a bug it catches, and each hazard of
the code to the properties that watch it.

## 1. How the program runs

`apps/api-gateway/main.py` is a FastAPI application whose handlers are ordinary
functions, so every request runs in a thread of its own. `infra/terraform/main.tf`
gives it up to ten instances, and a Cloud Run job for the webhook worker beside
them. No state is kept in process memory except the rate limiter's window and
the counters of the metrics: what components share is the database.

Each request has one SQLAlchemy session (`libs/common/database.py`, autoflush
off) and one commit at its end. Nothing is
locked: there is no `FOR UPDATE`, no version column, and PostgreSQL runs at READ
COMMITTED. So a handler

 1. selects rows and works on the copies it loaded,
 2. publishes events, uploads files, POSTs to receivers and providers, none of
    which a rollback takes back,
 3. commits: new rows are inserted, and a changed row is updated in the columns
    whose new value differs from the one *loaded*, whatever is in the table now.

That is the interference every module models: other sessions may commit
between 1 and 3, and the process may die anywhere. Only unique and foreign keys
are enforced by the table. (The development default is SQLite, which does not
enforce foreign keys; the modules follow PostgreSQL.)

## 2. Inventory

| component | state | operations | hard about it |
|---|---|---|---|
| Webhook queue (`services/webhooks`) | `webhook_subscriptions`, `webhook_deliveries` with status, attempt_count, next_attempt_at, timestamps | create subscription, dispatch, worker run (batch of POSTs), replay of dead letters | overlapping runs, lost updates, runs killed after POSTs, retries, batches that fail as a whole |
| Model registry (`services/analytics/model_registry.py`) | `model_versions` with status and rollback_of_id | register, rollback, list | "one active version" with no constraint and no lock |
| Review queue (`services/review`), dangerous-goods workflow (`modules/dg`) | `review_tasks`, `corrections` | route a document (reusing its open task), complete a review, check a declaration | two open tasks of one document, events before commits, reviewers who overlap |
| Ingestion (`services/ingestion`, `libs/common/idempotency.py`, preprocessing, classification, extraction, validation) | `documents` and what hangs on them, `idempotency_keys`, files in the bucket, events | ingest a document under an Idempotency-Key | client retries racing the first request, events and uploads outside the transaction, two bodies under one key |
| Scoring rules (`services/validation/rules_engine.py`, `services/classification`, `services/extraction`, `libs/common/ai.py`, `modules/*/service.py`) | none of their own; the rows of one document | classify, extract, apply a rule pack, route; stateless checks | thresholds, averages, the extractor's fallback, one rule written down twice |
| Rate limiter and middleware (`libs/common/rate_limit.py`, `libs/common/metrics.py`, `main.py` 185-248) | a deque of times per key, counters, per process | allow, record_request, snapshot | window boundaries, a thread that reads counters half-way through an update |
| Tokens and memberships (`libs/auth`, `main.py` 253-362) | `tenants`, `users`, `roles`, `tenant_memberships`, `refresh_tokens` | sign in, refresh | two refreshes of one token, two sign-ins that add the same rows, a membership id without its tenant |
| Export cases, air waybills, invoices (`modules/aeca`, `awb`, `fiar`) | case rows, audit rows, what the providers registered | create, submit to a provider | provider errors and timeouts, repeated and overlapping submissions, events before commits |
| Discrepancies (`modules/discrepancy`) | discrepancies, disputes | score, open dispute | repeated and overlapping disputes |
| Vehicle cases (`modules/aviqm`) | import case rows | create | a comparison of dates |
| Station analytics, freight matching, curation, BigQuery transform | none read back | compute, export | arithmetic |
| Events, storage, secrets, settings, audit (`libs/common`) | Pub/Sub, bucket, audit rows | publish, upload, record | they fail or time out while a transaction is open |

Interactions: ingestion routes a document to the review queue and publishes the
events of every stage; a failed dangerous-goods check routes its document there
too; every handler records audit rows in its own transaction; the webhook queue
is fed by the dispatch endpoint and worked off by the worker endpoint or job.
Subscribers of the events are outside the repository.

What makes each component correct:

* **Webhook queue**: nothing is marked delivered that was not acknowledged or
  given up before its attempts are used; what was delivered stays so; what a
  dispatch was answered for is in the queue; every delivery is settled in the end.
* **Model registry**: a registered model always has an active version, and no
  more than overlapping requests can explain; a rollback never crosses tenants.
* **Review queue**: every task was announced, every verdict too; a document gets
  one open task per request at most; completed stays completed; every task is
  completed in the end.
* **Ingestion**: one document and one answer per key; a client is never answered
  with somebody else's document; a committed document has its file and all its
  events, in order; one doubt sends it to review; every client is answered.
* **Scoring rules**: what passes without a human meets every rule that applies to
  it; what is sent to a human has a reason; the two copies of a rule differ where
  they are known to, and nowhere else.
* **Rate limiter**: no window admits more than its limit, and none is refused
  while there is room. What `/metrics` shows fits together.
* **Tokens**: a refresh token is spent exactly when a refresh with it was
  committed. (It may be refreshed twice, by requests that overlap; but not twice
  by one session.) The roles a token claims are memberships in the first of its
  tenants; the further ones it may name get no memberships.
* **Cases**: what the gateway calls accepted its provider has registered, once;
  verdicts are announced; a discrepancy is in dispute just when it has a dispute.

## 3. Modules

| module | models | checked by | proofs |
|---|---|---|---|
| `WebhookQueue` | `services/webhooks/service.py` with its endpoints and tables | `MCWebhookQueue`: `webhook_concurrent`, `webhook_serial`, `webhook_dlq_terminal` | `WebhookQueueProofs` |
| `ModelRegistry` | `services/analytics/model_registry.py` with its endpoints | `MCModelRegistry`: `registry` | `ModelRegistryProofs` |
| `ReviewQueue` | `services/review/service.py`, `modules/dg/workflow.py`, the pipeline's routing | `MCReviewQueue`: `review`, `review_routing` | `ReviewQueueProofs` |
| `Ingestion` | the ingestion endpoint, its idempotency table and the pipeline | `MCIngestion`: `ingestion_safety`, `ingestion_liveness` | `IngestionProofs` |
| `DocumentReview` | what the pipeline's stages compute of one document, and the stateless checks | `MCDocumentReview`: `document_review` | `DocumentReviewProofs` |
| `Cases` | submissions to providers, export cases, discrepancies and disputes | `MCCases`: `cases` | `CasesProofs` |
| `AuthTokens` | sign-in and refresh | `MCAuthTokens`: `auth_tokens` | `AuthTokensProofs` |
| `Gateway` | the middleware: rate limiter, request counters, `/metrics` | `MCGateway`: `gateway` | `GatewayProofs` |

Five abstract specifications say what a reader outside a component may count on,
without sessions, copies or crashes. Each is a `PROPERTY` of a run and a theorem:

| abstract module | promises | implemented by | run, theorem |
|---|---|---|---|
| `DeliveryLifecycle` | the life cycle of a delivery | `WebhookQueue`, one worker run and one replay at a time | `webhook_serial`, `QueueImplementsLifecycle` |
| `ReviewLifecycle` | a task is asked for, enters the queue once with its document, and is given announced verdicts only | `ReviewQueue` | `review`, `QueueImplementsReview` |
| `IdempotentStore` | each key is worked on once, in one step, and looked up ever after | `Ingestion` | `ingestion_safety`, `IntakeIsIdempotentStore` |
| `CaseLifecycle` | cases and discrepancies live through one legal life; acceptances follow registrations, rows follow events | `Cases` | `cases`, `CasesImplementLifecycle` |
| `SlidingWindow` | a request is admitted exactly when fewer than the limit of all admissions ever made are in its window | `Gateway` | `gateway`, `LimiterRefinesLog` |

The refinement mappings are in the concrete modules (`Promise`). They hide what only
a session sees: a request that uploads and publishes and then dies is a
stutter of `IdempotentStore`, a document counts from its commit on (`Makers`),
and of a registration with a provider `CaseLifecycle` knows the item alone.

Operators commented `Mutant:` stand beside the definition they are a faulty
version of; nothing uses them. Each property has one at least in `PROJECT.json` that
makes it fail, which shows that the property depends on the code.

### WebhookQueue

A row of `webhook_deliveries` is named by its idempotency key (subscription,
event type, payload digest), on which the table has a unique constraint.
`row[k]` is the committed row, `request[d]` an open dispatch request, and
`seen[s]`/`outcome[s]` the rows a worker run or replay has loaded and what it
did to each. `answered`, `acknowledged` and `tried` are history: what a
dispatch answered for, which receivers acknowledged, how many POSTs were made.

* `DispatchSelect`, `DispatchCheck`, `DispatchCommit` are `dispatch_event`: select
  the subscriptions, look each key up, insert the new rows in one commit that
  fails as a whole (`DispatchAbort`) when one of the keys has been taken.
* `WorkerSelect` takes a full batch of due rows; one `Attempt...` action per row
  is `_attempt_delivery` (subscription gone, success, failure; the last failure
  allowed dead-letters); `Commit` writes back, through `Written`, only the
  columns that differ from what was loaded (`Net`).
* `ReplaySelect` and the same `Commit` are `replay_dead_lettered`.
* `Elapse` lets `next_attempt_at` pass; `Abort` is a session that dies.

Abstracted: `next_attempt_at` is whether it has passed, other timestamps whether
they are set; signatures, headers and `last_error` are left out; which of the due
rows are the oldest is left open, so every full batch may be picked.
`Deactivate` is the one action without code: no endpoint clears
`webhook_subscriptions.active`, but every query tests it.

### ModelRegistry

`version[i]` is a row, `session[s]` what an open register or rollback is about to
write: the new row and the active rows it selected to deactivate. `Commit`
inserts and deactivates together. `author[i]` records the session of a row. The
two queries of a rollback are one step, because line and label of a row never
change.

### ReviewQueue

`queuing[q]` is a request between its select of the document's open task and its
commit; `Require` publishes `review.required` for a new task before `CommitRoute`
inserts it. The pipeline routes a document that is not there yet, a check any
document id it is given; `CommitRoute` needs the document unless it inserts it.
With two open tasks the select raises and nothing happens (`Route`'s guard).
`reviewing[r]` is a completion: it takes any task, open or not, publishes, and
writes the status if it differs from the one loaded (`StatusAfter`). Corrections
and audit rows are inserted with their task and never read back by a handler.

### Ingestion

`Accept` or one of `AnswerStored`, `RefuseReuse` and `RefuseMalformed` is the
endpoint's look at the idempotency table. Then the stages, one action each, in
code order, with their event; `Classify`, `Extract` and `Validate` may have
doubts, which add up in `review_required`. `Commit` inserts document and stored
response, or `Clash` ends the request on the unique key; `Reply` answers.
`Fail` is the death of a request at any point, the loss of the answer after the
commit included. A client sends its request again, at any time, even while the
first is still running.

### DocumentReview

The other half of `Ingestion`: there a stage may have a doubt, here it is
computed. One document goes through `Classify`, `Extract`, `Validate` and `Route`;
`settings` and `file` are chosen by `Init` and stay. `Extract(None)` is the mock
extractor, which also answers in place of Vertex after *any* error; `ExtractAnswered`
lets Vertex answer with any fields, and with confidences for some of them and for
a name that is no field, NaN among them. `Passes` and `Applicable` are
the rules engine under the deployment's rule pack. `Ask` sends the values of the
document to the checks of `modules/awb`, `modules/aeca` and `modules/dg`, which
hold their own copies of the rules.

A value is what the rules see of a string (`Values`): its make-up (digits, three
digits and a dash, `UN` and digits, `IR`, ...), its length, and the number `float()`
makes of it. So each copy of a rule has its own test in the model. A confidence is a
number of thousandths or NaN, which is below no threshold (`Less`). Truncation of
an average to thousandths moves it over no threshold, since those are whole
thousandths themselves.

### Cases

`session[s]` is an open request: a submission, a finding of a discrepancy, or a
dispute. A submission loads its case, POSTs (`Accepted`, `Refused`, `Unanswered`),
publishes (`Announce`) and commits; air waybills and invoices leave an audit
row only. `registered` is what the providers hold by idempotency key; that they
register a key once is taken from how the adapters use the key, and is
external. A refusal or a timeout may have been registered all the same.
`announced`, `last`, `disturbed` and `raised` are history: which verdicts of a case
went out, which one last, whether its submissions overlapped or one died between
its event and its commit, and which ids the discrepancy events named.

### AuthTokens

A sign-in selects tenant, user, roles and memberships and adds what it misses
(`SignIn`); its commit needs the ids it adds to be free (`IdsAreFree`): the id of a
membership is user and role, so a second tenant's membership with that role
collides with the first one, and the sign-in fails whole. A token's list of tenants is
modelled by its first one, the only one that gets rows. A refresh loads
its token (`Refresh`) and commits its revocation with the successor
(`CommitRefresh`) without looking at it again. `author` is history. Expiry and
signatures only add refusals and are left out.

### Gateway

`Admit` and `Refuse` are `allow` with the middleware around it, a single step of the
event loop; `bucket` is the deque, `admitted` its history. Handlers of the limited
routes end with `Respond` or raise (`Drop`). `record_request` takes three steps
(`Respond`, `CountFailed`, `CountRoute`) in the loop's thread, and the handler of `/metrics`
four in another (`ReadTotal`, `ReadFailed`, `CopyRoutes`, `Answer`).
The histogram of latencies is left out. The clock moves forward only.

## 4. Runs

All bounds are constants of the `.cfg` files.

| run | instance | shows |
|---|---|---|
| `webhook_concurrent` | 1 subscription, 1 event, 2 dispatches, 2 worker runs, 2 replays, 3 retries, batches of 1 | type, acknowledged before delivered, dead letters justified, answers backed by rows, pending again only by a replay: for any overlap |
| `webhook_serial` | 2 subscriptions, 1 event, one dispatch, one worker run, one replay, batches of 2, 2 retries | the life cycle implemented (so delivered is final), attempts left while queued (`AttemptLeft`), every delivery settled |
| `webhook_dlq_terminal` | 1 subscription, 1 event, 1 dispatch, 2 worker runs, 1 replay, 2 retries | **violated**: two overlapping runs re-open a dead letter without a replay |
| `registry` | 2 tenants, 2 models, 2 labels, 3 rows, 2 sessions | some version active, at most one per author, rollbacks sound, nothing retired comes back (`HistoryKept`) |
| `review` | 1 document, 2 tasks, 2 routing requests, 1 reviewer | one open task per author, the life cycle of a task implemented (so completed stays completed), every task is completed |
| `review_routing` | the same | **violated**: a failed check is recorded without an open task |
| `ingestion_safety` | 3 clients (two share a key with different bodies, one malformed), 2 requests at once, 4 uploads, 2 deaths (`MaxFailures`) | `IdempotentStore` implemented, one answer per key, completeness |
| `ingestion_liveness` | 2 clients, 3 uploads, 1 death | every client is answered |
| `document_review` | every answer of Vertex with up to 2 (`MaxFields`) of the 6 fields the rules read, confidences 0.7, 0.9, NaN, the mock's answers; 3 packs, 3 kinds of file | what passes is sound, what is reviewed has a reason, where the rule copies differ (`CopiesDifferOnlyThere`) |
| `cases` | 1 case, 1 reference, 3 systems, 1 discrepancy, 2 disputes, 2 sessions | accepted is registered, and once; events and rows agree; the life of cases and discrepancies implemented (so verdicts are announced and disputes match) |
| `auth_tokens` | 1 user, 2 tenants, 2 roles, 4 tokens, 2 sessions | revoked when refreshed, one successor per session, memberships back tokens, what is committed stays (`CommittedStays`) |
| `gateway` | 1 client, 1 limited path, 2 requests, 2 admissions in 2 ticks, 4 ticks (`MaxClock`), no scrape after 3 counted requests (`MaxTotal`) | no window admits too many, `SlidingWindow` implemented (so nobody is refused while there is room), what `/metrics` shows |

Why the bounds are enough to see something: all interference here is between
two sessions of a kind, so every kind that can overlap has two (but reviewers,
to leave room for liveness; that `ReviewLifecycle` is implemented with any
number of them is proved); two or
three retries give a first failure, a last one and a step between; two rows in a batch
give batches whose results differ; three registry rows give a version, one that
supersedes it and a rollback; two uploads per client and two deaths give a
retry that races its first request and a retry after a lost answer; the two
fields of an answer are the most any rule relates (UN number and packing
group), the values of each field lie on both sides of every test of its rules, and a mean of 0.7 and 0.9 is the threshold itself; two
disputes of a discrepancy and two submissions of a case overlap; four tokens
give two sign-ins and two refreshes, of one token or in a chain; four ticks hold
a window, its boundary and the tick after it. `Tasks`, `Documents`, `Disputes` and
`Tokens` bound how often something is announced, uploaded or issued; an id is
spent even if its request dies.

All safety properties that hold, refinements and action properties included, are
proved for all values of the constants besides (section 5); the runs are what
found them, and what keeps them honest about the code through their mutants.

What TLC showed beyond the runs: with two overlapping worker runs
`DeliveredIsFinal` fails, and with one worker and two overlapping replays it fails,
too, which is why that property and the life cycle are stated, and proved, for
one run and one replay at a time. Exactly one active version of a model
(`ExactlyOneActive`), one open task of a document (`OneOpen`) and one successor of a
token (`OneSuccessor`) fail as soon as two requests about it overlap.

### Violated runs

They check statements of the repository's documents against the code.

* `DeadLetterIsTerminal`: `docs/RISKS.md:31` and `docs/PROGRESS.md:146` call
  `dead_lettered` terminal. A run that selected the row before another run
  dead-lettered it writes its own result over it. `DeadLettersTerminal` proves the
  statement for worker runs that do not overlap.
* `FailedCheckIsQueued`: `docs/STRICT_REVIEW_GATE.md:64` has failed checks routed
  to review. A check that reuses an open task commits after a reviewer completed it.
  `ChecksAreQueued` proves the statement while nobody reviews such a task.

Three more divergences were met without a run of their own: two overlapping
requests with one key both publish `document.received`, although
`docs/STRICT_REVIEW_GATE.md:36` has events among what the key protects; and an
answer of Vertex that cannot be read is replaced by the mock's made-up values
instead of being rejected (`docs/RISKS.md:26`); and both copies of the UN number's rule
say "must match UN####" and accept `UN` with any number of digits
(`rules_engine.py:154`, `modules/dg/service.py:24`). No document speaks of it, but a field without a confidence
is stored with 0.5 but leaves the average alone, so it may pass unseen.

### Fairness

* Worker runs keep being started, by the job or the API, and take the oldest due
  rows, so a delivery that keeps being due is picked in the end (strong fairness
  of a pick that contains it); a POST ends by its timeout; a run with no POST
  left commits; time passes. Runs may be killed any number of times but not
  forever (`KillsCease`): a run that dies counts no attempt. No fairness of
  success: a receiver may fail every time.
* Reviewers work off the list of open tasks and finish what they open; they may
  fail any number of times but not forever.
* A running ingestion request finishes or dies, and dies at most `MaxFailures`
  times; a client sends its request until it is answered.

Deadlock is checked in every run: every module always has an action left.
(`document_review` ends in `Ask`, which may be repeated.) The modules
`DocumentReview`, `Cases`, `AuthTokens` and `Gateway` state no fairness and no liveness:
in the code nothing retries a submission, a sign-in or a refused request.

## 5. Proofs

The theorems hold for every value of the constants that the named assumptions allow:
any number of sessions, rows, retries, clients, routes and answers. Safety
properties follow from an inductive invariant whose point, nearly everywhere, is
what an *open* session knows; the properties alone are not inductive, because a
commit writes copies and not what the table holds.

A refinement is proved as its definition asks: initial states map to initial states,
and under the invariant each step maps to a step of the abstract specification
or to a stutter (the lemmas `...Promised`, one per action that shows something).

`WebhookQueueProofs`

* `TypeCorrect`, `Invariance`: the inductive invariant says of the rows what the
  safety properties say, and of the rows *in hand* what makes them safe to
  write: a success in hand was acknowledged, an exhaustion in hand had its
  POSTs counted (`tried` bounds the `attempt_count` of the copy, too), and
  whoever saw the subscription inactive will find it so.
* `QueueSafety`, `AcknowledgedDelivery`, `DispatchSafety`: the safety properties of
  `webhook_concurrent`.
* `OnlyReplaysReopen`: `PendingAgainByReplay`, from an invariant of its own: only a
  replay holds a row as one to re-open, and it loaded it dead-lettered.
* `DeadLettersTerminal`: with one worker run at a time, and any number of overlapping
  replays and dispatches, only a replay's commit ends `dead_lettered`. What a run holds stays
  queued until it commits (`HeldQueued`), since all a replay writes is `pending`.
* `SerialSafety`, `DeliveredStays`, `QueueImplementsLifecycle`: under the
  assumption `Serial` (at most one worker id and one replay id), the key is that
  a worker and a replay cannot hold the same row, since one takes queued and the
  other dead-lettered rows and the row keeps its status while held.

`ModelRegistryProofs`

* `RegistryInvariance`: a session that is open knows of rows of its own line only
  and supersedes every active row of its own author; a rollback's source is a
  used row of that line with that label. From it `RegistryTypeCorrect`,
  `RegistrySafety`, `SomeVersionActive` and `RollbacksSound`: some version is active
  because the new row of a commit is never among those it deactivates.
* `RegistryIsHistory`: the action property `HistoryKept`, from what a commit does to
  the rows (`Effect`) and to what is active (`Rows`).
* `SerialRegistry`: as long as no two requests about one model overlap
  (`LinesApart`), it has exactly one active version. The invariant needed besides
  is `NoneMissed`: an open request knows all that is active on its line.

`ReviewQueueProofs`

* `ReviewInvariance`: a request between its select and its commit has announced
  its task and, unless it reuses one that is there, has no open task of its own
  for the document; a reviewer's task exists and its verdict is announced before
  the commit. `ReviewTypeCorrect`, `ReviewSafety` and `CompletedStays` follow; nothing is
  needed about two requests that announce tasks at the same time.
* `QueueImplementsReview`: the refinement of `ReviewLifecycle`. A commit that reuses
  a task files its document again, and a completion with the verdict it loaded
  is a stutter, whatever the row says by then.
* `SerialRouting`: as long as no two requests route one document at a time
  (`DocumentsApart`), it has one open task at most; a request that will insert one
  found none (`NoneOpen`).
* `ChecksAreQueued`: as long as nobody reviews a task that an open request is about
  to reuse (`ReviewsApart`), a recorded check leaves its document an open task; the
  invariant is that a task to be reused is open (`ReusedIsOpen`).

`IngestionProofs`

* `IngestionInvariance`: a request in flight has a document of its own that is
  not committed, whose published events are exactly those of its stage (`Sent`)
  and whose doubts are those it carries (`Known`); no two requests in flight share
  one; and the table and the answers agree: a key holds the document made from it,
  a committed document is held by its key, an answer names what the key holds.
* `IdempotentIntake` (`SameAnswer`, `AnswerFitsRequest`, `OneDocumentPerKey`) follows
  from that agreement, `CompleteIntake` from what a request knows when it commits;
  `AnswersFit` and `DoubtsReviewed` are parts of them.
* `IntakeIsIdempotentStore`: the refinement of `IdempotentStore`. All stages of the
  pipeline, deaths and clashes are stutters; the work happens at the commit
  (`CommitPerforms`), for which no request in the pipeline may have a body that is
  refused (`NoneMalformed`), and every answer is what the key holds then
  (`ReplyAnswers`, `LookUpPromised`).

`CasesProofs`

* `CaseInvariance`: a registration is filed under its own item (`KeysAreItems`), so
  one per key is one per reference; an open submission is about the item of its
  case, was registered if it was accepted, and has its verdict among the events if
  it is announced (`SubmittersSound`); a case nobody disturbed has one submission
  at most, and agrees with its last event but for that one (`CalmCases`); a
  finding or dispute in hand has an announced id of its own and no row yet.
  From it `CaseTypeCorrect`, `AcceptanceSound`, `RegistrationUnique`, `EventsSound` (with
  `VerdictsAnnounced` and `LastEventAgrees`) and `DisputesSound`.
* `CasesImplementLifecycle`: the refinement of `CaseLifecycle`, with cases,
  submissions and disputes that overlap as they may. A commit that does not change
  the row shows in the audit trail or not at all (`RecordPromised`).

`AuthTokensProofs`

* `TokenInvariance`: an open refresh's token is used and has no successor by that
  session (`RefreshIsFirst`); what an open sign-in found stays, since neither names
  nor memberships are ever taken away (`SignInCovers`). From it `TokenTypeCorrect`,
  `RevocationExact`, `SuccessorUnique`, `MembershipSound`.
* `CommitsStay`: the action property `CommittedStays`; the rows a sign-in adds are free
  when it commits (`SignInRowsStay`), and a refresh changes its token's state alone.
* `SerialRefreshes`: as long as no two refreshes with one token overlap
  (`RefreshesApart`), it has one successor at most; an open one found its token not
  exchanged (`NoneExchanged`).

`GatewayProofs`

* `LimiterInvariance`: the bucket of a key is the end of its history, and what
  precedes that end is older than a window (`BucketIsTail`). So when a request is
  admitted with fewer than `MaxRequests` entries left, the `MaxRequests`-th admission before
  it has left the window (`WindowSound`), and when one is refused the end of the
  bucket is in it (`RefusalSound`).
* `LimiterRefinesLog`: the refinement of `SlidingWindow`. Histories are in order, so
  what the deque keeps is as many as the entries of the log in the window
  (`RecentIsWindow`), and popping loses nothing the promise knows of.
* `MeterInvariance`, `SnapshotSound`: `AnswerFitsTogether`. The totals are the sums of the
  rows plus what the request being recorded has added already (`TotalsFit`); a snapshot
  reads totals before rows, so it is at most that one request ahead (`ReadsFit`). The
  sums are folds, for which the library's induction cannot be used; the lemmas from
  `LeastNatural` to `SumMonotone` show by a smallest counterexample that a fold
  over a finite set adds each member once.

`DocumentReviewProofs`

* `ReviewRowsInvariance`: after each stage its row is what the stage computes from
  the earlier rows, which no later step touches. `ValidationSound` unfolds the rules
  from there, for every set of values, level and number of fields.
* `RuleCopiesDiffer`: `CopiesDifferOnlyThere`. Engine and endpoint are compared rule by
  rule, each with its own test. They say different things of a NaN weight (the engine
  asks `> 0`, `modules/awb` refuses `<= 0`), of `IR` (refused by the engine alone) and of
  a country with a length other than 0, 2 and 3 (refused by `modules/aeca` alone), always
  then and never else. Rules the engine had no result for are not compared: an absent
  HS code is none to the engine and refused by `modules/aeca`.
* `ReviewTypeCorrect`: the average of any answer's confidences is a whole number of
  thousandths or NaN (`AverageType`), with the same lemmas on sums; each proof module
  stands by itself, so they are there twice.
* `ReviewReasoned`: `ReviewHasReason`; the status tells a task, and what made it necessary is
  a low confidence or a failed rule.

`SerialRegistry`, `SerialRouting`, `ChecksAreQueued` and `SerialRefreshes` have hypotheses about
the behaviour: `[]LinesApart`, `[]DocumentsApart`, `[]ReviewsApart`, `[]RefreshesApart`, as
`DeadLettersTerminal` has one about the workers. Nothing in the code sees to them. They say
what a lock, or a deployment that serialises those requests, would have to provide,
and that nothing else is missing: deaths, other tenants and other kinds of requests
do no harm. Without them the conclusions are false.

The assumptions used are those named in the modules (`BoundsAssumption`,
`SubscriptionAssumption`, `SessionAssumption`, `NoneAssumption`, `ClientAssumption`, `CarrierAssumption`,
`IdAssumption`, `GatewayAssumption`, `LevelAssumption`, ...): bounds are positive, the limited
paths that are ever requested are finitely many, `None` and `NaN` are no ids and no numbers; and `Serial`, or `OneAtATime(Workers)`, where it
is stated in the theorem. The definitions `StatusStamped`, `SeenIsCurrent`, `StampsMatch`,
`DeliveredIsFinal`, `DoubtIsReviewed`, `TaskWasRequired`, `VerdictWasAnnounced` (of `ReviewQueue` and `Cases`),
`CompletedStaysCompleted`, `AnswerFitsRequest`, `OneDocumentPerKey`, `EventsInOrder`, `DisputesMatch` and `RefusedWasBusy`
are stated by theorems only: no run repeats them, most being implied by a
refinement that a run checks.

Only model-checked are the liveness properties, which are out of TLAPS's reach with
their fairness: `EventuallySettled`, `EventuallyCompleted` and `EventuallyAnswered`. The two
violated properties are false as they stand and are proved under the conditions above.

## 6. Not modelled

* Alembic migrations, Terraform, the web application, scripts: not behaviour of
  the running components. Read endpoints: they change nothing.
* Order of inserts inside one commit, and the refresh of a response object after
  it: not visible to another session.
* Cryptography of tokens and signatures; digests stand for what they digest.
* Vehicle import cases (one insert, and a comparison of dates that nothing
  reads back), freight matching, station analytics, the score of a discrepancy:
  stateless arithmetic, much of it in floating point.
* Active-learning curation and the BigQuery transform: they read, and write files
  or warehouse tables that no component reads back. Notifications: a stub.
* Latency percentiles, and a wall clock that is set back: the limiter would go on
  refusing until the clock has caught up.
* The order of the roles two first sign-ins flush, which PostgreSQL may have to
  break as a deadlock; it ends one of them, which is `Abort`.

## 7. Plan

In this order:

1. The doubts of `Ingestion` refined by the verdicts of `DocumentReview`, so that
   `DoubtIsReviewed` speaks of the computed ones.
2. An abstract specification of the registry and of the tokens, in the way of the
   five there are, with a history of lines and of token families.
3. The length of a chain of tokens: that a family refreshed one at a time has one
   usable token, as an invariant over the parents.
4. `Cases` with two cases under one reference and `review` with two reviewers, once
   a reduction brings them into a run's time; both are covered by the proofs.
5. The score of a discrepancy as an operator over scaled integers, and the alert of
   a vehicle case.
