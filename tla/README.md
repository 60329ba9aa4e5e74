# LatticePolicy: a TLA+ verification project

LatticePolicy is a policy administration system for insurance carriers: an Express and
PostgreSQL server (`server/`), a job worker and a message dispatcher that share its image,
a React frontend, and a few side services. This directory holds TLA+ modules that model the
part of it where several transactions, processes or deliveries meet, TLC configurations that
check them on small instances, and proofs that TLAPS checks for instances of any size.
Source paths below are relative to the repository; `services/`, `lib/`, `jobs/`, `routes/`
are under `server/src/`.

## 1. Inventory

### How the parts interact

An HTTP request passes `requireTenant` (which gives it `req.tx`, a tenant-scoped
transaction), the mutation envelope check and the idempotency middleware, and reaches a
route. The route opens one transaction, runs the validation gate and calls a service. The
service locks the policy row, reads, decides, writes versions, transactions, timeline
segments, documents, notifications and ledger events, and commits. A trigger on
`ledger_events` writes an outbox row in the same transaction; dispatchers deliver outbox rows
to a webhook or a broker. Workers run a scheduler tick and drain `job_runs`; job handlers
reconcile, clean up, scan for renewals, or dispatch outbox rows. Nothing is shared in memory
between processes: all coordination is row locks, unique indexes, statuses and leases in
PostgreSQL (READ COMMITTED).

### Components

| Component | State | Operations | What makes it correct |
|---|---|---|---|
| Policy state machine (`lib/transaction-state.ts`) | none (a table of allowed transitions) | resolve an action against a state: apply, repeat, refuse | every committed change was legal where it landed |
| Policy servicing (`services/lifecycle.service.ts`, `services/endorsement.service.ts`, `services/policy-concurrency.service.ts`) | `policies`, `policy_transactions`, `policy_versions`, `policy_timeline_segments`, ledger events | issue, endorse, cancel, reinstate, renew, rewrite, non-renew | one line of history; dense version numbers; no write over a version the caller did not see; issue effects once; all or nothing |
| Validation gate (`lib/validation-gate.ts`) | carrier rules | check before a service runs | what it checked is what is changed |
| Idempotency (`lib/idempotency.ts`) | `idempotency_keys` | reserve, replay, refuse, finalize, reclaim | one owner, one execution, one answer per key |
| Outbox (`asyncMessageWorker.ts`, migration 015) | `async_message_outbox` | insert, claim, push, record outcome, take over | at least once, never lost, bounded and explained repeats |
| Job queue (`jobs/jobQueue.ts`, `jobs/worker.ts`) | `job_runs`, `job_run_events` | enqueue, claim, execute, complete, retry, dead-letter, manual retry | one executor, bounded attempts, no run in limbo, truthful history |
| Job scheduler (`jobs/scheduler.ts`) | `job_schedules` | tick: fire due schedules, advance the cadence, disable what it cannot read | an occurrence fires once; no burst after an outage; one bad schedule stops no other |
| Quote binding and referral (`services/quote-bind.service.ts`, `services/quote.service.ts`, `services/uw-referral.service.ts`) | `quotes` with their ratings, `underwriting_referrals`, policies | bind, open a referral, assign, decide | a quote binds once, on the rating and the approval that are still its own |
| Policy timeline (`lib/policy-timeline.ts`) | `policy_timeline_segments`, retro adjustments | derive segments, state at a date, retroactive result, rebased transactions | segments partition the term; the later effective date governs; what is booked and noted of a change is the premium it moved |
| Maintenance handlers (`jobs/handlers/`) | scans over policies, quotes, submissions | reconcile, clean stale quotes, find renewal candidates | a repeated scan adds nothing; none is skipped for ever |
| Submission intake (`services/submission-intake.service.ts`) | `submissions`, `submission_fields` | request, schedule and run a reading; edit, confirm, undo, choose a customer, approve, decline | a quote says what people confirmed; a late reading replaces no decision |
| LLM release governance (`services/llm-release.service.ts`, `services/llm-governance-roles.service.ts`, `services/document-processor`) | `llm_releases`, signed receipts and revocation lists, roles | register, validate, authorize, renew, reject, revoke, list, change roles | four eyes on production; what is stopped does not run |
| Audit chains (migrations 064, 065) | `llm_release_audit`, `submission_events` | append, verify | the chain never forks, and follows time |
| Product governance, carrier packs (`services/product-governance.service.ts`, `lib/carrier-pack.ts`) | product versions, packs | draft, review, publish | what is sold is what was approved |
| Underwriting and rating (`services/uw.service.ts`, `services/rating.service.ts`, `packages/rules`) | tables | evaluate | arithmetic |
| Documents, notifications, handoffs, reinsurance, bordereaux, data import, customers, agencies, identity, dashboards, frontend | their own tables | mostly one transaction per request | see `PROJECT.json`, each with its reason for being left out |

### What is hard here

* **Interleaving.** Seven servicing operations race on one policy. The validation gate reads
  before the lock; the version is compared in one table and allocated from another;
  `processed_at` is the time a transaction *began*, so a transaction that waited for the lock
  gets the later number and the earlier time.
* **Two-step outcomes.** A run's status and its event, an operation and its idempotency
  record, a push and its `Sent` are written one after the other, and the second can fail.
* **Crashes and leases.** A dispatcher's claim has a lease, a worker's does not (the column is
  written, nothing reads it); an idempotency key in `processing` is freed by nobody.
* **Stale readers.** A bind is a string of transactions. What it evaluated, the approval it was
  shown and the book it measured may all have changed when it writes the policy.
* **Stale writers.** Outbox rows, runs and keys are updated by id alone. Whether a stale
  process can overwrite a newer outcome depends on who may hold the row at that time.
* **Late results.** An extractor works for minutes; the submission it reads is read again,
  reviewed by hand, declined or approved meanwhile. A revocation list is drawn up, signed,
  carried to a processor and installed while releases are stopped and receipts renewed.
* **Many small transactions.** A change of roles is a check, the new roles and their audit
  entry; the cooldown looks at the last.
* **Orders that differ.** Rows of an audit chain wait, are numbered and commit in orders of
  their own. Policy changes are processed in one order and effective in another.
* **Boundaries.** `attempts < max_attempts` at the claim and `>=` at the failure must meet; a
  schedule due at the very time of the tick, or overdue by several intervals; effective dates
  before the term, on one day, or at its end.

`PROJECT.json` lists these, and the rest, as `hazards`, each with the properties that cover
it.

## 2. Modules

| Module | Models | Written as |
|---|---|---|
| `PolicyTransitions` | the transition table | sets and operators, no state |
| `PolicyLifecycle` | concurrent servicing of one policy | a state machine; one action per step of a transaction |
| `PolicyLedger` | what servicing promises: one operation at a time | the abstract specification |
| `PolicyTimeline` | the timeline of a term under out-of-sequence changes | operators, and a state machine with one action per operation |
| `JobSchedule` | the schedules table and its ticks | a state machine; a tick is start, take what is due, fire |
| `JobQueue` | the runs table and its workers | a state machine |
| `MCJobs` | `JobQueue` and `JobSchedule` side by side: one worker's loop drains the queue and ticks the schedules | the disjunction of the two next-state relations, either at rest while the other moves |
| `Outbox` | the outbox table and its dispatchers | a state machine |
| `Idempotency` | one key of the middleware | a state machine |
| `QuoteBind` | one quote, its referrals and the binds of it | a state machine; one action per transaction |
| `Intake` | one submission, its readings and its reviewers | a state machine; one action per transaction |
| `LlmRelease` | releases, roles, receipts and revocation lists | a state machine; a request is ask, decide, write |
| `AuditChain` | the hash-chained logs | a state machine; one action per statement |
| `PolicyLifecycleProofs`, `IdempotencyProofs`, `QuoteBindProofs`, `OutboxProofs`, `LlmReleaseProofs`, `PolicyTimelineProofs` | | TLAPS proofs about the module they extend |
| `JobQueueProofs`, `IntakeProofs` | | proofs about two modules each: `JobQueue` and `JobSchedule`, `Intake` and `AuditChain` |
| `MC...` | | instances and symmetry sets for TLC |

How they fit together. `PolicyTransitions` is used by `PolicyLifecycle` and `PolicyLedger`;
`PolicyLifecycle` instantiates `PolicyLedger` and implements it. The others meet at a row that
one module produces and the next takes up, so each is checked with the most general behaviour
of its neighbour: a policy comes out of `QuoteBind` `Bound`, which is where `PolicyLifecycle`
begins; the order of processing that `PolicyLifecycle` establishes under its lock is the order
of `versions` in `PolicyTimeline`; the run a `JobSchedule` tick inserts, known by its
idempotency key, is a run of `JobQueue`; a quote of `Intake` is a `Draft` of `QuoteBind`; every
step of `LlmRelease` and `Intake` appends to an `AuditChain`; every committed change inserts
messages of `Outbox`.

### PolicyLifecycle

State: the policy row (`status`, `nonRenewedAt`, `term`), the greatest version in the segments
table (`segmentVersion`), the NB transaction's status, the count of issue packets, and
`ledger`, one record per committed change with its transaction, version and event columns. A
transaction is a program counter, `idle -> gate -> waiting -> locked -> writing`, and a record
`req` of what it has read:

| Action | Code |
|---|---|
| `Begin` | the request arrives; `BEGIN` fixes `now()` |
| `Gate` | `runPolicyValidationGate`, reading the policy without a lock |
| `Acquire`, `RefuseStale` | `lockPolicyForMutation`: `FOR UPDATE`, then `expectedTimelineVersion` |
| `Prepare`, `Refuse` | `loadPolicyContext`, the state machine, `nextTimelineVersion`, `nextPolicyTransactionSequence` |
| `Commit` | every write of the operation (`Issue`, `Endorse`, ..., `NonRenew`) and `COMMIT` |
| `Fail` | anything that throws, at any point: `ROLLBACK` |

Writes of one transaction are one step because nobody sees them before the commit; reads
before the lock are steps of their own because READ COMMITTED lets others commit in between.
Payloads are abstracted to *which version they were computed from* (`base`, a value of
`processed`). The model keeps the code's oddities: `executeEndorsement` has no state
check, `LoadedNonRenewedAt` is always `NULL` because the query does not select the column,
renewal does not clear it, and four operations write no timeline version.

`PolicyLedger` has no clients, locks or counters: a policy status, a version and a history,
and one action `Apply`. `PolicyLifecycle` implements it by mapping `version` to
`segmentVersion` and `history` to the ledger without its bookkeeping columns.

### JobQueue

A run is its idempotency key, so `enqueueJob` with a known key is no step. `Claim` takes up to
`BatchSize` claimable runs in one transaction; a worker then goes run by run through
`handling -> completing -> completed` or `failing -> failed`: both outcomes are two
transactions (status, event) and `CompleteFails`, `RequeueFails` fail either. As in
`executeRun`, an error of `completeRun` is caught and treated as the handler's failure, while
an error of `retryOrDeadLetterRun` leaves the batch loop, with the rest of the batch still
`Running`. `Crash` does the same. `lost` records those runs; nothing brings them back
(`docs/JOB_QUEUE_DESIGN.md` leaves that to a later sweeper). `InHand` is what a worker still
answers for: everything in its batch except a run whose requeueing is committed and only the
event is missing, which another worker may already have.

### Outbox

`line` is what the claim query sees, rows that are due or whose lease ran out, and `ahead`
their order by `next_attempt_at`. A new row and one whose lease ran out join anywhere in that
order (`Join`): the column holds when the inserting transaction began, and is not renewed by a
claim. One whose backoff ends is the last (`JoinLast`). A claim takes the first `BatchSize` of
them that have attempts left (`IsBatch`), and does not count an attempt; `MarkSent` and
`MarkFailure` count it, from the value the claim read, and write by id alone. `Push` has three
outcomes (received and acknowledged; not received; received without acknowledgement).
`LeaseEnds` needs that nobody alive holds the message, `LeaseOutlasted` is the lease running
out under a slow dispatcher; the properties that need the operator's rule "keep the lease
longer than a batch can take" speak of messages not in `outlasted`.

### Idempotency

`Own` and `TurnAway` are the reservation transaction. A handler works (`Work`) and responds by
JSON (`RespondJson`: the outcome is written first, `Finalize`; the response, `SendAnswer`, is a
step of its own, and a process can die in between) or otherwise (`RespondPlain`); its operation
commits in a transaction of its own before (`Work`). A failed write is one that did not commit:
a commit whose acknowledgement is lost, which the code takes for a failure and records as one,
is left out. `released` records which attempts' failure reached the row, `refused`, `told` and
`plain` what callers heard: history for the properties. `Close` is the connection: the handler
does not notice, but the listener marks the key failed with a write nobody awaits, so `writes`
is a set of calls under way that commit in any order. `FinalizeFails` follows `.catch(next)`
into the global error handler, whose own `res.json` is wrapped too.

### QuoteBind

`quote` is the row (status, payload, rating, `converted_policy_id`); a payload is a risk, which
a rating fingerprint tells apart, and billing fields, which it does not; a rating is a risk and
the edition of the carrier's tables it was rated with. A bind reads the quote (`ReadQuote`),
measures the book (`Evaluate`), passes the referral gate under its advisory lock
(`FindReferral`, `OpenReferral`) and writes (`Commit`, `Refuse`); `Fail` is every other refusal.
`Commit` is one step because its transaction holds the locks of the quote and of the referral
row from the moment it reads them. `Rate`, `SaveDraft`, `Expire` (the cleanup job) and `Decide`
are the operations of others, one transaction each. A referral's `created` is when its
transaction began, not when it got the lock, as `created_at` defaults to `now()`.

### Intake

`status`, `token`, `fields` and the rest are the row of one submission and its field rows; a
reviewer's operation (`SetField`, `AcceptField`, `UndoField`, `AcceptHighConfidence`,
`ChooseCustomer`, `Approve`, `Decline`, `ManualReview`) is one transaction under the row lock
and so one action. A reading is not: `RequestReading` commits `READING` and a token, `Schedule`
or `ScheduleThrows` happens outside any transaction (and the job may be queued although it
threw; `RecordNotScheduled` is the transaction of the catch), `LoadDocuments` and
`WriteDraft`/`WriteFailure`/`Discard` are the run's two transactions, with the extractor's
minutes in between. `StillReading` is the test all of them make. A field keeps what a person
`said` and when (`at`): history the code does not have, for the properties.

### LlmRelease and AuditChain

A session reads its user's roles without a lock (`Ask`, `AskToRegister`), then locks the
release and decides (`Decide`: four-eyes checks, cooldown, status), then signs, writes and
commits (`Write`). A change of roles is `CheckRoles`, `RemoveRoles`, `GiveRoles`,
`RecordRoles`, as `routes/admin.routes.ts` and `updateUser` do it. A revocation list names what
is stopped when it is put together, and `covers` what was stopped when it was asked for. `Runs`
is what a document processor does with a receipt and a list: operators may install any of those
ever issued. `Abandon` is every refusal, failure of the signer and death of the process.

`AuditChain` is below: the trigger of migration 065 takes an advisory lock, then a position,
the predecessor and the clock; rows become visible at `Commit` or vanish at `Rollback`, which
leaves gaps. `arrived` and `began` are what a row would have been numbered and dated by without
the lock. `AppendEntry` is the trigger, `Tip` the predecessor it links to. Its other names begin
with `Chain`, so that one proof module can extend it together with `Intake`.

### JobSchedule

A tick takes its process's time (`Start`), claims the due rows nobody else holds, earliest
first (`TakeDue`, `FOR UPDATE SKIP LOCKED`), and in `Fire` inserts a run per schedule and moves
it, or disables it when its expression is not supported, or rolls back when a date cannot be
represented (`Fails`). Ticks of different workers have different times, `Abort` is a crash or
a lost connection. `NextRunAt` is `calculateNextRunAt` with its arithmetic. Names it would share
with `JobQueue` begin with `Sched`.

### PolicyTimeline

`Precedes` is the order of `sortTimelineVersions`, by date and then as processed, and
`Replayed` the running payload along it, a recursive function of the versions within the term:
each starts from the one before it in that order. `Derived` is `deriveTimelineSegments`,
`StateAt` `findTimelineStateAtDate`, `Retro` `computeRetroResult` (in units of premium per day,
unrounded). `Endorse`, `Cancel` and `Reinstate` append a version and store the segments
(`Rebuild`); each computes the premium the change moved (`Moved`). An endorsement books it in
`policy_retro_adjustments` (`adjusted`); a cancellation or reinstatement only notes it in the
metadata of its transaction (`noted`, `lifecycle.service.ts:488`): what those two book is a
refund or a charge figured otherwise, which is not modelled. The properties compare them with definitions that replay nothing and derive
nothing: the last word on a field at a date, the sum over the days of the term.

## 3. Runs

All runs are exhaustive.

| Run | Instance | Question |
|---|---|---|
| `PolicyLifecycle_servicing` | 2 clients, 3 requests, fair | Is the committed history legal, linear and densely numbered; are issue effects produced once; is a named version what the gate saw and what is written over; does all of it implement the sequential ledger; is every request answered? |
| `PolicyTimeline_outofsequence` | 2 fields of 2 values, a term of 3 days, effective dates from the day before it to its end, new business and 3 transactions | Do the segments partition the term, does the later effective date govern, does the past stay, do what endorsements booked and what cancellations and reinstatements noted add up to the premium moved? |
| `Jobs_worker` | 2 workers; 3 runs (one without a handler), 2 attempts, batches of 2, 2 faults, fair; or schedules of intervals 2 and 3, an invalid one and an overlong one, batches of 2, times 0 to 6, 1 fault, fair | Exclusive execution, bounded attempts, no limbo, truthful events; does every run end? Is every occurrence fired once, on its cadence; what can keep a due schedule waiting? |
| `Outbox_messages` | 2 dispatchers, 2 messages, 2 attempts, batches of 2, 2 faults, fair | Is nothing lost, are repeats accounted for, are outcomes final; does every message end? |
| `Idempotency_key` | 3 attempts, 2 bodies, 2 faults, fair | One owner, one execution, one answer; is the key released? |
| `QuoteBind_bind` | 2 binders, 2 risks (one referred, the other once the book is full), 2 billing plans, 1 edition, no bind starts after 4 transactions of binds, symmetric | Is a quote bound once, on an approval of its own that no later referral has overtaken, without filling the referral queue? |
| `Intake_submission` | 2 products, 1 value, 2 readings, 1 fault, fair | Does a quote say what people confirmed; is no decision lost to a late reading; is a closed submission closed; does a reading end? |
| `LlmRelease_eyes` | 3 users (a pipeline identity and 2 technical administrators), 1 release, 2 sessions, 1 change of roles, lifetime and cooldown of 1 tick, 3 receipts, 1 list, symmetric | Four eyes on every production receipt; is what is stopped stopped for good, and not run? |
| `AuditChain_chain` | 3 writers, 2 carriers, 4 inserts, 2 ticks, symmetric | Do the chains verify at every moment, in the order of time? |
| `LlmRelease_cooldown` | as `LlmRelease_eyes`, one user without a role yet | *(violated)* Does a new administrator wait out the cooldown? |
| `JobSchedule_overlong` | the schedules of `Jobs_worker` | *(violated)* Is every due schedule that has a next run served, whatever the others' expressions? |
| `PolicyTimeline_snapshots` | dates within the term, new business and 2 transactions | *(violated)* Does the last request that changed a field govern it? |

Deadlock is checked where the system can always go on: a quote can be edited, an audit
transaction begun, a role looked up. It is off
(`CHECK_DEADLOCK FALSE`) where the bounded number of requests, runs, messages, attempts or
versions may be used up, or a submission be closed: the system is then at rest.

Why these bounds are enough to be interesting. Two clients and three requests interleave any
two operations at every step and let a third meet what they left. Two workers and three runs
let one worker hold a batch while another takes what it gave up, a run be dead-lettered and
retried manually. Four transactions of binds are a bind that is referred and, after the
decision, two that meet at the gate and at the commit. That two are opened for one proposal and
a third bind is between them and its commit is beyond this instance; the theorems have no
bound. Two faults are a failed write followed by a crash, or by the failure of what handles the
failure; in the intake, one fault already makes a queued job survive a failed scheduling. Two
readings are one that supersedes another. Three writers of two chains are one that waits behind
another of its chain while a third is in its own. Three dated transactions are the least that
have an order of processing, an order of dates and one date in common. A clock of 6 has
schedules overdue by several of their intervals, and the overlong one come due between
occurrences of the others.

`Jobs_worker` checks two machines in one run. They share no row but the run a tick inserts,
which is `Enqueue` of the queue with any key at any time, and their product is too large to
explore: a behaviour of `MCJobs` is one of the queue or one of the scheduler, with the fairness
of its own.

Every property is broken by a plausible bug in the definition it depends on, on the same
instance: those are the `mutants` in `PROJECT.json`, defined in the modules before what they
replace.

Bounds of the check, without counterpart in the code: `MaxRequests`, `MaxFaults`, `Messages`,
`MaxBook`, `MaxTransactions`, `MaxReads`, `MaxInserts`, `MaxClock`, `MaxSaves`, `MaxReceipts`,
`MaxLists`, `MaxTime`, `MaxAborts`, `Earliest`, `MaxVersions`. The others are settings (`MaxAttempts`,
`BatchSize`, `Limit`, `BookLimit`, `Lifetime`, `Cooldown`) or a fact of the language
(`MaxDate`), made small.

### Fairness

* `PolicyLifecycle`: a transaction in progress goes on: Node runs its continuation, and
  PostgreSQL grants the row lock once it is free (weak fairness suffices, because the holder
  always ends and requests are finitely many). Nothing says a caller asks or a step fails.
* `JobQueue`, `Outbox`, `JobSchedule`: `setTimeout` brings a live worker back to polling,
  `now()` passes `next_attempt_at` and the lease, and handlers and pushes end. Crashes are not
  fair, they are bounded; after the last one a worker that was restarted goes on.
* `Idempotency`: handlers respond and the database answers.
* `Intake`: a process that lives goes on with what it has begun, queued jobs are run, and the
  extractor ends because it has a timeout (`INTAKE_AI_TIMEOUT_MS`). No reviewer has to act, so
  `ReadingEnds` excuses a submission whose process died.

### Disagreements the runs show

Each is a run that checks one statement of the repository and finds it violated by what the
code does (`findings` in `PROJECT.json` quotes the lines).

* `LlmRelease_cooldown`: a user's roles are written before, and in another transaction than,
  the audit entry the cooldown reads. Until it is there (for good, if the process stops in
  between) a new technical administrator authorizes production at once.
* `PolicyTimeline_snapshots`: a cancellation or reinstatement without a payload of its own
  takes that of the version processed last, whatever its effective date, and is replayed as a
  snapshot. One effective before a pending endorsement puts that change into force early; one
  effective after an endorsement entered later drops that endorsement.
* `JobSchedule_overlong`: an interval of enough digits passes the checks of
  `calculateNextRunAt` and gives no date (`scheduler.ts:48`), so the schedule is not disabled:
  the statement that moves it fails, the tick rolls back, and so does every later one that
  claims it, before it claims runs, although `docs/JOB_QUEUE_DESIGN.md:333` has bad schedules
  disabled so that none blocks others. `ServedUnlessHeld` is what the passing run shows
  instead: nothing but such a schedule that is due keeps another waiting.

Known from the models and not a run:

* Servicing. `executeEndorsement` alone skips the shared state machine (`docs/ARCHITECTURE.md:94-95`
  says that every policy-changing service consults it), which `HistoryIsLinear` and the ledger
  exempt. A request that names a timeline version commits over a renewal, rewrite, non-renewal
  or issue it never saw, because those advance no timeline version (`AcceptedVersionIsCurrent`
  is what the comparison does give). The "already marked" refusal of `nonRenewPolicy`
  (`lifecycle.service.ts:1574`) cannot fire, because its column is not loaded. "The latest"
  version is the one whose transaction *began* last (`persistence.ts:187`), so the payload of
  one that waited for the lock is left out of what follows. A request that names no version is
  gated on a policy that may have changed since. A bound policy that is cancelled and
  reinstated is `Issued` without having been issued, which the transition table allows.
* Jobs. A completed run goes back to `Retry` when its completion event cannot be written
  (`jobQueue.ts:194`). A run whose process died stays `Running`.
* Delivery. A dispatcher does not deliver in recorded order once a push is retried, although
  `docs/EVENTS.md` says so. A success that is not JSON (every `204`) is recorded as a failure,
  and its repeat runs again (`idempotency.ts:238`). A process that dies after a failure was
  recorded and before the answer went out (`idempotency.ts:242-243`) leaves the key free and
  its caller without news; if the operation had committed, as when the handler fails
  afterwards or the write of `completed` does, the retry carries it out again. `ExecutedOnce`
  names that case (`released`, `dead`) and no others than recorded failures. A key whose
  process died earlier is never freed.
* Binding. A quote recorded as `Issued` can be rated again, which makes it `Rated`, and then
  bound (`quote.service.ts:221`); so can a bound one, where `converted_policy_id` prevents the
  second policy but not a referral. An approval is for a proposal that includes the size of the
  book, so a policy issued meanwhile voids it.
* Intake. When a reviewer changes the product, the risk fields are replaced and the coverages
  of the old product stay (`submission-intake.service.ts:727`).

## 4. Proofs

Every safety invariant and action property that a passing run checks is also a theorem, for any
values of the constants their assumptions admit. Eight modules prove them:

| Module | Theorem | States |
|---|---|---|
| `PolicyLifecycleProofs` | `TypeCorrect` | `TypeOK` |
| | `LinearHistory` | `HistoryIsLinear` |
| | `IssueEffectsOnce` | `IssuedOnce` |
| | `DenseTimeline` | `TimelineIsDense` |
| | `AcceptedCurrent` | `AcceptedVersionIsCurrent`, an action property |
| | `RefinesLedger` | `ImplementsLedger`: `Spec => Ledger!LedgerSpec` |
| `PolicyTimelineProofs` | `TermIsCovered` | `SegmentsCoverTheTerm` |
| | `LastDateWins` | `LaterDateGoverns` |
| | `AdjustmentsMatchTheTimeline` | `AdjustmentsAddUp` |
| | `PastStands` | `PastIsUntouched`, an action property |
| `JobQueueProofs`, on `JobQueue` | `ExclusiveExecution` | `OneExecutor` |
| | `NobodyInLimbo` | `NoLimbo` |
| | `EveryAttemptKept` | `AttemptsKept` |
| | `HistoryIsTrue` | `RecordedIsFinal` |
| `JobQueueProofs`, on `JobSchedule` | `OccurrencesAreKept` | `OccurrencesKept` |
| | `SchedulesMoveOn` | `MovesPastTheTick`, an action property |
| `OutboxProofs` | `NoMessageLost` | `NeverLost` |
| | `EveryRepeatAccounted` | `RepeatsAccounted` |
| | `OutcomesAreFinal` | `OutcomeIsFinal`, an action property |
| `IdempotencyProofs` | `OneExecution` | `ExecutedOnce` |
| | `OneResponse` | `OneAnswer` |
| `QuoteBindProofs` | `QuoteBoundOnce` | `BoundOnce` |
| | `ReferredIsApproved` | `ReferredOnApproval` |
| | `BoundOnTheLatest` | `BoundOnTheLastWord`, an action property |
| | `AskedOnce` | `NoDuplicateReferral` |
| `IntakeProofs`, on `Intake` | `QuotesAsConfirmed` | `QuoteAsConfirmed` |
| | `DecisionsKept` | `NoDecisionLost`, an action property |
| | `ClosedIsFinal` | `ClosedForGood`, an action property |
| `IntakeProofs`, on `AuditChain` | `ChainIsIntact` | `ChainIntact` |
| | `TrailFollowsTime` | `TrailIsChronological` |
| `LlmReleaseProofs` | `SecondPairOfEyes` | `FourEyes` |
| | `StoppedIsFinal` | `StoppedForGood`, an action property |
| | `StoppedReleasesDoNotRun` | `StoppedDoesNotRun` |

Assumptions are those the modules name: that the null values (`NoClient`, `NoRun`, `NoBinder`,
`Nobody`, ...) are not members of the sets they complete, that limits and bounds are natural
numbers, and what the constants of a module stand for (rating gives every payload an integer,
a term has a day, the first payload is one). The bounds of the check appear in guards only, so
no result depends on their values.

Hardly one of the invariants is inductive: what a transaction writes depends on what it read in
earlier steps. Each `IInv` says what of that cannot change meanwhile.

* `PolicyLifecycleProofs`. `LockInv`: exactly the holder of the row lock is past `waiting`.
  Hence, while somebody is `writing`, nobody else changes the policy, and what it loaded still
  holds (`Loaded`), and so does the version it was checked against (`AcceptedInv`).
  `NumbersInv` ties the two tables together: sequence and version agree on every change and
  none exceeds `segmentVersion`, which some change wrote; so the two queries for "the current
  version" give one number and the numbers allocated under the lock are fresh. `GateInv` adds,
  by monotonicity of the version, that the gate saw a version between the one named and the
  current one; acceptance makes the three equal. The refinement maps `Commit` to `Apply` and
  every other step to a stutter.
* `PolicyTimelineProofs`. The invariant is short (the stored segments are those derived from
  the versions, an endorsement was recorded with the payload its changes make of what stood at
  its date, what was booked and noted adds up); the work is in what the operators compute, which is proved
  for every sequence of versions. The order of replay is total, so the replay is well defined:
  by the least counterexample, the recursion has a value for every version. A day shows the
  replayed payload of the last version up to it, in exactly one segment (`SegmentAt`,
  `StateAtDay`); a field of that payload is the last word on it. A version that is added has
  later versions replayed over it, and none before it, so no earlier day changes (`PastStays`).
  Between two boundaries neither timeline changes (`Settled`), so the sum over the boundaries
  is the sum over the days (`RetroIsChange`), and what the transactions booked and noted adds up.
  Amounts are per day and unrounded in the model, so this says nothing about cents.
* `JobQueueProofs`, runs. There is no lock once the claim has committed: what keeps others away
  is the status. `HandInv`: a run in somebody's hand is `Running`, with the attempts that worker
  counted, or has already ended in its favour, and is in nobody else's. `CallInv` and
  `DeadInv` tie the calls of the handler and the dead letters to the attempts used.
* `JobQueueProofs`, schedules. `OccurrencesKept` is inductive once it is known what a tick
  consists of (`TickInv`): a row that a tick has read stays as it was read, because others skip
  it. What needs a proof is the cadence: `NextRunAt` with its `\div` gives the first time after
  the tick that is a multiple of the interval from the last, whatever the interval and the
  delay, so no run is inserted twice and none is off it.
* `OutboxProofs`. Two dispatchers can have one message, once a batch has outlasted its lease,
  and each writes the outcome from the attempts it read. That nothing is lost must not depend
  on who has it: `CountsInv` bounds what anybody may still write by what was pushed and
  received. For messages never outlasted, `HandInv`: whoever has one has it alone, it is
  `Processing`, and what was read still holds. `RepeatInv` counts every push and receipt
  against an attempt recorded, one under way, or a fault.
* `IdempotencyProofs`. The row is written by key, by whoever has a write under way. `PartInv`:
  while connections hold, at most one attempt has a part in the key (it is at work, has a write
  under way, or has carried the operation out and no failure of it was recorded), and the key is
  not free then; `WriteInv` ties a write under way to the place of its attempt. `KeyInv` holds
  whatever connections do: an execution is of the body whose hash the row has.
* `QuoteBindProofs`. A bind trusts in its last transaction what it found in earlier ones.
  `BidInv`: the referral it relies on exists and is one of the proposal it evaluated, which no
  decision, edit or other bind alters; `LatestInv` makes "the latest referral of a proposal"
  well defined. Status and spending of the approval, the payload and the rating are compared
  again in the last transaction, in the step that writes, so nothing is claimed of them. For the queue, `StampInv`: a `created_at` belongs to one
  referral or to one bind that may still insert it, so "latest" orders them although they are
  inserted in another order; `GateInv`: what the holder of the gate's lock has found (no
  referral of its proposal is open and latest) stays true until it inserts, whatever is
  decided, bound or begun meanwhile. `LastInv` carries that over to the last transaction: a bind
  under way relies on a referral no later one of the proposal has joined, unless its own is
  declined or spent by now; a later one is opened only behind a closed one, and the one in the
  hands of the bind would have to be that. So an approval that is still usable at the commit is
  the last word (`BoundOnTheLatest`).
* `IntakeProofs`, submissions. `FieldsInv` is what drafts, edits and changes of product keep
  whatever their order: the fields are those of the product they name, and an accepted field
  has the value that was said. `ReadInv`: the run a submission waits for is the last one
  requested, and everything confirmed while it waits was confirmed before; so no late run can
  pass `StillReading` and find a decision it has not seen.
* `IntakeProofs`, chains. A commit makes rows visible that were linked earlier. `Chained`: the
  committed rows together with the drafts of any one transaction are a chain; `Separate`: only
  the holder of a chain's lock has drafts of it, so a commit extends what nobody else is
  appending to.
* `LlmReleaseProofs`. Roles are read without a lock and change meanwhile, so they carry none of
  the argument. `HeldInv`: whoever decides holds the lock of the row, which is as it was read;
  `RowInv` is what each status says of the persons before; `ReceiptInv` keeps both for every
  receipt ever signed, since no operation rewrites `createdBy` or `validatedBy` afterwards.
  `ListInv`: a list names everything that had been stopped when it was asked for, except what
  never went on validation and so has no receipt.

Induction is by the least counterexample, over a set of versions, days or boundaries
(`WFMin` of the library): its induction theorems take an operator as a parameter, which the
installed provers cannot instantiate.

Only model-checked: the six liveness properties (`RequestsEnd`, `RunsEnd`, `MessagesEnd`,
`KeyIsReleased`, `ReadingEnds`, `ServedUnlessHeld`), whose proofs need `ENABLED` of the fair actions
and are out of the prover's reach here, and the three disagreements, which are refuted on an
instance.

## 5. Plan

Done: the modules above, their runs and mutants, and the proofs of section 4. Left, in this
order:

1. Referrals of policy transactions (`withPersistentPolicyReferral`: the policy transaction
   rolls back and the referral survives it), composed with `PolicyLifecycle`.
2. `JobSchedule` composed with `JobQueue`, so that an occurrence is followed from its schedule
   to the end of its run, with the invariants of both, which one module already proves.
3. Product governance (draft, review, publish), whose packages the other modules take as given.

## 6. Not modelled

* **Frontend** (`src/frontend`, a large part of the sources): renders and collects; the server
  relies on none of its state.
* **Record keeping** (customers, agencies, placement, forms administration, most admin routes):
  a request is one transaction on its own rows, so no two steps can interleave, and what it
  stores is what it was sent.
* **Rating and underwriting** (`services/rating.service.ts`, `packages/rules`): arithmetic over
  tables in one call. What matters to the models is the outcome, which is a choice there.
* **Documents, notifications, handoffs, reinsurance, bordereaux**: written by the servicing
  transaction, all or nothing with it (`IssuedOnce`), or by a query of committed rows.
* **Data import**: a batch in an outer transaction around transactions of its own; the caveat
  is in `docs/DATA_IMPORT_DESIGN.md`, and formats dominate the rest.
* **Identity and tenancy**: checks in front of every request. Tenants share no rows, which is
  why the modules have one tenant.
* **Transports, storage, e-mail, health, metrics**: I/O. A push is received or not and
  acknowledged or not; a signature verifies what was signed.
* **Read models, dashboards, portal**: queries.
