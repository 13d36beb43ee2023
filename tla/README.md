# Moventra TMS — formal models

TLA+ models of the parts of Moventra TMS whose correctness depends on the order
in which processes, timers, transactions and messages meet: durable jobs with
leases, the transactional outbox and its dispatcher, the dead-letter queue with
its ingestion, its reprocessors and its administration in idempotent, authorized
transactions; and the administration of a tenant: versioned configuration and
feature flags, the life cycles of its organization and identities, and the
access checks that run while these change.

The models are translated from the code (`src/src/**`, `src/db/migrations/**`);
`PROJECT.json` maps each definition to the lines it stands for.

## 1. The system

| Component | State | Operations | Correct when |
|---|---|---|---|
| Job store (`jobs.jobs`, `jobs.system_jobs`) | one row per job: status, attempts, schedule key, lease token and expiry, lineage | enqueue, reap, claim, heartbeat, complete (success / failure), cancel, replay; terminal capture trigger | the lease protocol fences superseded workers, nothing is stranded, terminal failures are quarantined, schedule keys are singletons |
| Job worker | where the loop is, the batch's lease token, per job the step of `executeJob` | runOnce, runForever, executeJob, heartbeat timer, timeout timer | every attempt ends; only handlers that returned in time count as success |
| Outbox (`outbox.events`) | availability, claim token and time, attempts, published_at | append, claimBatch, markPublished | published implies accepted by the broker; never claimed again |
| Outbox dispatcher (recurring system job) | claimed batch, event in hand, first failure, abort signal | claim, map, publish, confirm, mark | at-least-once, duplicates only by new claims |
| Messaging (RabbitMQ adapter) | connection, confirm channel, consumers | publish, subscribe, handleDelivery, close | no confirm without acceptance; ack after the handler |
| DLQ entries (`dlq.entries`, `dlq.system_entries`) | status, version, count, claim token and expiry, cooldown | quarantine, request, claim, complete, fail, resolve, discard | one decision per version, bounded attempts, an entry can always be decided |
| DLQ reprocessors and administration | steps of `reprocess`, the surrounding transaction | reprocess, resolve, discard | resolved only after the effect; effect and record agree |
| DLQ ingestion | delivery in hand, retries | handleDelivery | no ack without a durable entry |
| Authorized tenant operation | one database transaction | authenticate, authorize, scope, idempotency, operation, audit | effect and success audit are atomic, failure audit always attempted |
| Idempotency | one record per key: state, fingerprint, response | claim, complete, replay | at most one execution per key |
| Configuration, feature flags | current row with a version, append-only history, status; the platform's catalog | put, transition, restore; resolve, evaluate | row and history agree, one ACTIVE row per target, no lost update, nothing in force is overlooked |
| Organization and identity (tenant, company, branch, user, membership, external identity) | rows with status, version and profile | create, update the profile, transition | paths are legal, nothing becomes ACTIVE without operational parents, stored profiles satisfy the CHECKs |
| RBAC and organizational scope | roles, permissions, assignments, their scopes | grant, assign, revoke, assign scope; the five queries of an authorization | access only to a request that lacked nothing throughout |
| HTTP, observability, errors, health, scripts | none that other parts depend on | — | not modelled |

How they interact: producers append events and jobs in their own transactions;
worker processes poll the job table; the one recurring system job
`system.outbox_dispatch` drains the outbox into the broker; jobs that fail for
good are captured into the DLQ by a trigger, messages the broker dead-letters by
the ingestion consumer; an operator's request reprocesses an entry, which
inserts a new job or publishes the message again. A tenant's administrators
write settings, rules and entities in transactions of their own, and every
authorized operation reads identity, membership, permission and scope from the
tables that other administrators are changing at that moment.

What is hard: any number of worker processes share the tables; a worker can be
paused past its lease and come back; each call may fail before or after it took
effect; timers abort handlers that go on running; a replay, a recurrence and a
producer want the same schedule key; recovery of events (claim TTL) and
recovery of the job (lease) are two clocks; a message is dead-lettered again
while its entry is being decided. The tenant's transactions run at READ
COMMITTED, so each statement has a snapshot of its own: what a service checked
in one is stale in the next, and only WHERE clauses, unique indexes and row
locks still hold things together. `PROJECT.json` lists these hazards
line by line, with the property that watches each.

## 2. Modules

```
WorkQueue            what the job subsystem promises (abstract)
   ^ refined by                ^ extended by
JobStore <- JobWorker          OutboxDispatch
               ^ extended by      ^ extended by
            JobWorker_proofs   OutboxDispatch_proofs

DlqContract          what a dead-letter entry promises (abstract)
   ^ refined by
DlqReprocess -> DlqStore <- DlqAdmin <- DlqIngestion       (-> extends)
   ^ extended by               ^             ^
DlqReprocess_proofs    DlqAdmin_proofs <- DlqIngestion_proofs

RowLedger            what a history table promises (abstract)
   ^ refined by
VersionedRows <- RuleReads <- Configuration, FeatureFlags
EntityProfiles <- TenantLifecycle <- AccessControl
TenantAdministration -> Configuration, FeatureFlags, AccessControl
   ^ extended by
TenantRows_proofs, TenantAccess_proofs, TenantReads_proofs
```

**WorkQueue** — work is absent, waiting, granted, done, dead or withdrawn. It is
granted under a grant nobody else holds, at most `MaxTries` times between two
completions; a grant is revoked only by granting anew or by burying.

**JobStore** — the job table and its SQL statements, one operator per
statement. A row keeps status, schedule key, whether it recurs, attempts, lease
token and origin (`reprocessed_from_job_id`). Time enters the SQL only as two
comparisons with `clock_timestamp()`; the model keeps their outcome: `due`
(`available_at` reached) and `lease` (heartbeat intervals until
`lease_expires_at`, 0 is expired). `unborn` is an id no INSERT has used. The
order of eligible rows (priority, age) is abstracted: a claim takes any
`BatchLimit` of them. The capture trigger is part of every statement that can
make a row `failed_terminal`.

**JobWorker** — the workers. `phase` is where `runForever` is, `lease` the token
`runOnce` drew, `exec[w][j]` the step of `executeJob`: the handler runs, runs
aborted, or one of the repository calls is on its way. Between any two awaits
everybody else may move. `Exit` is a kill, a signal or an uncaught rejection of
a repository call; the rows stay leased. `SuccessErrored` is the driver error
around `completeSuccess` that may or may not have committed. A token is fresh
when no row and no worker refers to it, which is what a random UUID gives.

**OutboxDispatch** — the outbox rows, the copies the broker accepted, and any
number of overlapping invocations of the dispatcher handler. The job is an item
of WorkQueue, so all that JobWorker is shown to implement is available here
without its clocks. One attempt claims exactly once, hence grant and claim token
are one value. `Poison` are rows that the outbox contract accepts and the
message envelope refuses. Publish may fail before or after acceptance; confirm
and mark are separate steps, with the abort check in between as in the handler.

**DlqContract** — the transition table of `dlq-contract.js` with the budget of
attempts: an attempt is counted when it begins, an entry waits only while an
attempt is left, a final state is final.

**DlqStore** — one row of `dlq.entries` and the repository's statements: the
WHERE clause of each UPDATE as a predicate, its SET clause as the row it leaves.
Time is again two outcomes of comparisons: `live` (the claim has not expired)
and `ready` (`next_reprocess_at` is null or reached). `by` is whose
`resolution_code` the row carries.

**DlqReprocess** — both reprocessors and the operators' decisions, each
statement committing by itself. A process looks at an entry, and later
reprocesses or decides it with the version it saw; `at` is the await it is at.
`TakeEffect` is the publication (every copy counts) or the insertion of the
child job (one per entry, by the lineage index); either may be reported as an
error. Replies may be lost after a statement took effect (`Complete`,
`StatementErrored`), the record of a failure may be lost (`FailureLost`),
processes may end at every await (`Crash`).

**DlqAdmin** — the same row, as the program uses it today: `DlqAdminService`
runs a mutation in one transaction with its idempotency record and its success
audit. `req[p].mine` is the row as the transaction has written it; others see
only `row`. Locks are derived from where a request is: the key from the INSERT
on, the row from the first UPDATE on; a statement that meets a lock waits. The
broker is outside the transaction, so `copies` survives a rollback. A client
sends any version up to the current one and any key, also one used before.
Authentication, permission and scope are one choice, granted or denied.

**DlqIngestion** — what is around that administration: the consumer whose
rejections the broker dead-letters (`handleDelivery` of the adapter), the
ingestion consumer of the worker process, and `dlq.quarantine_outbox_message`.
`letter[d]` is a copy of a message as the broker has it, with the `redelivered`
flag the code reads; `again`, a history variable, remembers that it had come
back. `task[d]` is the handling of one delivery: its attempt, whether the
function's snapshot saw an entry (`saw`), and whether its channel still is open
(`attached`). The function is two steps, snapshot and INSERT, because ON CONFLICT
DO NOTHING returns nothing for a row that was inserted in between. `worker` is
down, listening, or deaf: after a lost connection the adapter reconnects for its
publisher, and nobody subscribes the consumer again. Every statement may fail
before or after it took effect; the process may end anywhere.

**RowLedger** — one append-only ledger per row, and which change may follow
which.

**VersionedRows** — `configuration.settings` and `feature_flags.rules`, which
follow one protocol: reads that prepare a statement (`req`), one INSERT or
UPDATE that waits for the row and for the partial unique index (`draft`), and a
COMMIT that publishes row, history entry and audit event together. The WHERE
clause is evaluated when the lock is granted; a loser rolls back.

**RuleReads** — the readers: one SELECT of the catalog, then one per candidate,
most specific first, each with a snapshot of its own. `steady` (what was in
force during the whole reading so far) and `winners` (what was the right answer
at some moment of it) are history variables; NeverOverlooked asks of an answer
that it is no less specific than anything steady, and that it is the winner when
there was only one throughout. Definitions, flags and policies have no writer in
the program; the platform changes them.

**Configuration**, **FeatureFlags** — which statements `putOverride`,
`transitionOverrideStatus`, `putRule`, `transitionRuleStatus` and
`restoreRuleVersion` prepare, from what they read, and how `resolveEffective`
and `evaluate` answer.

**EntityProfiles** — normalization of creations and profile updates in the
domain modules against NOT NULLs, CHECKs and unique indexes of the tables. A
text is a word, the word spelled otherwise, missing or malformed: that is all
the patterns tell apart.

**TenantLifecycle** — tenant, company, two branches, user, membership and
external identity. A transition is three steps: the SELECT with its checks, the
snapshot of its UPDATE, and the row as the UPDATE finds it; parents that were
operational in one of them may not be in the next.

**AccessControl** — roles, grants, assignments and scopes, and the five queries
of `AuthorizedTenantOperationService`. `since` is a history variable: what the
request has lacked at every moment since it began.

**TenantAdministration** — their composition. They write different tables, so a
behaviour exercises one `subject`: configuration, flags, profiles or access.

**MC…** modules only add symmetry sets and the sets the bounds are made of;
MCDlqAdmin is checked without symmetry, because it is not sound for its
liveness. `.cfg` files give the constants.

Definitions named "Mutant of …" are plausible bugs; substituted for their
originals they make the property named in `PROJECT.json` fail, which shows that
the property depends on the line.

## 3. Runs

| Run | Shows | Bounds |
|---|---|---|
| `job_worker` | TypeOK, AtMostOneOwner, NoStrandedRow, TerminalCaptured, SingletonKey, ReplayLineage, LiveLeaseRespected, SuccessIsEarned, ImplementsWorkQueue | 2 jobs, 2 workers, 3 tokens, 1 schedule key, 2 attempts, lease of 1 interval, batches of up to 2 |
| `job_live` | EveryAttemptEnds, OneShotSettles | 1 job, 2 workers, lease of 2 intervals |
| `job_expired_completion` | CompletionNeedsActiveLease is violated | 1 job, 2 workers |
| `outbox_dispatch` | TypeOK, PublishedWasAccepted, DuplicatesAreReclaims, MarkedByClaimant | 2 events, one of them poison, 2 grants that are reused, 2 tries, counters up to 3 |
| `outbox_live` | PublishedUnlessBuried | 1 event, 3 grants, 2 tries |
| `outbox_claim_ttl` | RecoverableByClaimTtl is violated | as `outbox_live` |
| `dlq_reprocess` | TypeOK, ResolvedAfterEffect, EffectsAreClaims, AttemptsLeft, VersionIsWitness, LiveClaimRespected, AnswerSettles, ImplementsContract | a message entry and a job entry, 2 requests, 3 tokens, budget 2, copies counted up to 3 |
| `dlq_stuck` | RecoveredByExpiry is violated | 1 message entry, 1 request, budget 2 |
| `dlq_admin` | PipelineTypeOK, SuccessIsDurable, AuditedOnce, OneKeyPerDecision, EveryRequestEnds, NothingLostQuietly, DeadLettersSettle | a message entry and a job entry, 2 requests, 2 keys (a slot for each operation and key), budget 1, 2 dead letters, 2 attempts to persist, copies counted up to 1, in casts |
| `dlq_admin_failure` | FailureIsKept is violated | 1 message entry, 1 request, 1 key, budget 1 |
| `tenant_administration` | TypeOK, RowIsItsHistory, UniqueIndexesHold, NoLostUpdate, ImplementsLedger, NeverOverlooked, StatusPathsLegal, ActivatedOnLiveGround, GrantedOnLiveGround | 2 rows, 2 values, 3 versions, 3 writes; 2 writers, or a writer and a reader; 1 change of the platform; 2 callers; families of 2 to 4 entities that change; symmetric requests, rows, values, callers |
| `flag_snapshot` | EvaluatesOneSnapshot is violated | 1 writer, 1 reader, no change of the platform |

Why the bounds suffice to see the interesting cases. Two workers and one job
already give the superseded worker; the second job gives the shared key, the
replay (which needs a source and a child) and a batch of two. Two attempts
separate "retry" from "last attempt". Two workers never hold more than two
tokens and two rows never more than two, one of which may be stale: a third
token makes a fresh one always available, and a fourth adds no state. In the
outbox two overlapping handlers suffice for supersession; grants return to the
pool when nobody refers to them. `MaxCount` saturates the counters of copies and
claims. DuplicatesAreReclaims is weaker once both are saturated, so the bound
is one above the number of tries.

In `dlq_reprocess` two requests give the superseded claimant; two attempts
separate "quarantined again" from "exhausted" and allow a takeover; two
requests and two rows refer to three tokens at most, since a row in
`reprocessing` is claimed with the token of the request that drew it or of one
that is gone. Copies are counted one beyond the budget, so that a breach would
show.

`dlq_admin` is explored in casts, sets of requests, entries, keys and letters
that take part together: two administrators of one message entry with two
keys, and of one job entry with one key; one administrator of both entries with
one key; one administrator of an entry whose message is dead-lettered
meanwhile; and two copies without an administrator, of one message or of two
sources, one of which may be unknown or unreadable. An attempt that fails is
rolled back with its count, so a budget above 1 adds nothing; the properties
ask only whether there is a copy, hence the count up to 1. Two attempts
separate the retry from the last attempt, and a requeue from the final
rejection needs no more: `redelivered` is one bit.

In `tenant_administration` two rows are what a second ACTIVE row for a target
takes, two writers what a lost update takes; three versions allow create,
inactivate and activate (or restore) of one row, three writes the same spread
over two rows. A writer and a reader show what a reading can miss; a second
writer would only produce the same sequence of commits, which one writer
produces with several requests. One change of the platform is a kill switch or
a new policy in the middle of a reading. Rules are for one user in production and
for the tenant everywhere, overrides for a branch and the tenant; other targets
and scopes follow the same path of the code with another rank. A family is the
set of entities that change; the others are settled. There is a family for each
entity with each parent its activation looks at, one for two assignments of one
membership, and one for the join behind `hasPermission`; the activations look at
each parent on its own, so a chain of three is the union of its links. Profiles are varied in behaviours
of their own, with the full set of inputs. The theorems of section 5 hold
without these bounds, but for those they mention.

Deadlock is checked for the job runs: producers, workers and time always have
a step; and for the DLQ runs, where a new request can always be made. It is off
for the outbox, which really may stop (everything published, or the dispatcher
job buried), and for the tenant, where the bounds on versions and writes end a
behaviour.

### Fairness

`JobWorker!Fairness`: weak fairness of the event loop's steps and of time
(`runForever` loops for ever; the platform restarts a process that ended), and
of handlers, which are assumed to return: the code awaits them without bound,
and a handler that ignores its AbortSignal would keep its lease alive for ever
by the heartbeat (listed as a hazard). Strong fairness of Reap and Claim only
excludes processes that for ever end just before these steps. Nothing is
assumed about success.

`OutboxDispatch!Fairness`: weak fairness of handler, report, time, and of
taking over (or reaping) an attempt whose process died, which is what
EveryAttemptEnds gives for JobWorker. PublishedUnlessBuried is conditional:
failures eventually stop, and the job is not buried.

`DlqReprocess!Fairness` serves the violated RecoveredByExpiry alone, and grants
more than the code promises: requests go on, time passes, and for every entry
somebody keeps looking at it and asking to reprocess it.

`DlqIngestion!FairPipeline` (and `DlqAdmin!FairSpec`) is strong fairness of the
steps of each request: every
await ends (the pool limits the wait for a connection, PostgreSQL answers a
query or its connection breaks, publish has a timeout), and PostgreSQL grants a contended lock in order, so a request that
waits again and again is served. Nothing is assumed about success or
failure: no statement has to be rejected for a request to end. For ingestion it
is weak fairness of each delivery's own steps: a query is answered or rejected,
`setTimeout` fires. DeadLettersSettle assumes besides, as a premise of the
property, that the consumer stays subscribed from some moment on: nothing in
the program resubscribes it after a lost connection (listed as a hazard).
EveryRequestEnds then says that keys and rows are never locked in a cycle: the
key always comes first, and a request locks one row.

## 4. Findings

* Completion with an expired lease (`job_expired_completion`).
  `docs/implementation/025-jobs.md:169` requires an active lease; the SQL of
  `completeSuccess` and `completeFailure` compares the token only. AtMostOneOwner
  and SuccessIsEarned show that this is harmless for ownership.
* The claim TTL does not recover events once the dispatcher job is buried
  (`outbox_claim_ttl`), against `docs/implementation/025-jobs.md:291`. Any
  non-retryable error of the only dispatcher job ends dispatching until an
  operator replays it (StrandedForever).
* Expiry does not recover an entry left in `reprocessing` (`dlq_stuck`), against
  the comments at `job-reprocessor.js:156` and `message-reprocessor.js:150`:
  both reprocessors refuse that status before they reach the claim that would
  take an expired one over, and decisions want `quarantined` (AbandonedForever). It takes a caller
  whose statements commit one by one; the only caller of today does not.
* Through the administration a failed attempt leaves no trace in its entry
  (`dlq_admin_failure`), against
  `docs/implementation/026-dlq-message-reprocessing.md:116`: the rethrown error
  rolls the recorded failure back, and with it the count and the cooldown,
  although the message may have been published. `max_reprocess_attempts` then
  bounds nothing, and `exhausted` is not reached (NoFailureIsCounted).
* An evaluation of a feature flag reads no consistent snapshot (`flag_snapshot`),
  against `docs/implementation/019-feature-flags.md:458`. The transaction begins
  with a plain BEGIN, so each SELECT has its own snapshot: a reader passes the
  user's rule before it is committed and then answers from a tenant's rule that
  was committed after it, an answer that was right at no moment. NeverOverlooked
  shows what remains true: a kill switch, a rule or an override in force during
  the whole evaluation decides it.

## 5. Proofs

The theorems hold for every number of processes, rows, keys, messages and
values, and for every value of the bounds in the modules; their assumptions are
the named ASSUMEs of the modules they extend, all of them facts about the
constants (NULLs are no values, bounds are positive, subsets are subsets; and for
the readers, that the keys are ranked by the precedence the documents state). Each
proof module follows one pattern: what a step may make of one row is a small
relation, a lemma shows that every action obeys it, and the invariant is
preserved along the relation.

**`JobWorker_proofs`** (NullAssumption, BoundAssumption)

| Theorem | Property |
|---|---|
| TypeCorrect | TypeOK |
| LeaseLifecycle | LeaseWhileRunning |
| NothingStranded | NoStrandedRow |
| FinishedIsFinal | FinishedForever |
| OneOwner | AtMostOneOwner |
| TerminalJobsCaptured | TerminalCaptured |
| OneActivePerKey | SingletonKey |
| ReplayIsLinked | ReplayLineage |
| LeaseIsRespected | LiveLeaseRespected |
| CompletionIsEarned | SuccessIsEarned |
| WorkersImplementQueue | ImplementsWorkQueue |

`RowsInv`, the type invariant with the soundness of each row (`Sound`: leased
exactly while running, an attempt left while waiting), is inductive along
`RowStep` and gives the first four theorems. AtMostOneOwner is not inductive by
itself: two workers could hold one token before a claim uses it.
`LeasesDistinct` (no two workers hold the same lease token) is, because Claim
draws a fresh token. ReplayLineage needs that no row descends from an id not yet
used (`NoOriginUnborn`). The action properties follow from the case analysis of
which actions move a running row (`RunningRowMoves`). The refinement reads each
one-row statement as a move of the queue (`QueueMove`), and the two statements
on many rows, claim and reap, as GrantBatch and Bury of a set; it needs
`UnusedIsFresh` (an id not yet used has no attempts behind it).

**`DlqReprocess_proofs`** (DlqAssumption, EntryAssumption, ProcessAssumption —
finitely many requests at a time — and CopiesAssumption)

| Theorem | Property |
|---|---|
| TypeCorrect | TypeOK |
| AttemptsRemain | AttemptsLeft |
| ContractRefinement | ImplementsContract |
| ClaimRespected | LiveClaimRespected |
| VersionWitness | VersionIsWitness |
| ResolvedHadEffect | ResolvedAfterEffect |
| Settled | AnswerSettles |
| EffectsCounted | EffectsAreClaims |
| AbandonedForever | what RecoveredByExpiry denies: an entry left in `reprocessing` stays there |

`IInv` is inductive along RowStep and ProcMoves (what a step makes of a
request): types, `RowSound` (a claim exactly while reprocessing, an attempt left
while waiting) and `ProcSound` (a token between claim and answer). The
refinement is a step simulation read off RowStep. Three properties need more:
the version seen is never ahead of the row (`WInv`); a request that completes
has had its effect (`EInv`); and effects plus the requests still about to have
one are counted attempts (`CInv`): a claim adds one to both sides, an effect
moves one from the requests to the effects. CopiesAssumption bounds the counter
of copies, but no proof depends on its value, so it may be above every budget.

AbandonedForever turns the counterexample of `dlq_stuck` into a statement about
every budget and every number of requests. `Abandoned(e)` says that no request
holds the claim of a row in `reprocessing`, and that no request which passed the
status check earlier is still on its way to the claim, unless the budget refuses
it. It is invariant, so the row keeps its status, its claim and its count: only a
request that had read the row before it was claimed could ever take the claim
over, and new ones are turned away.

**`OutboxDispatch_proofs`** (EventAssumption, OneJobAssumption — there is one
dispatcher job — and CountAssumption)

| Theorem | Property |
|---|---|
| AlwaysOutboxInv | the inductive invariant |
| OutboxTypes | TypeOK |
| ConfirmBeforeMark | PublishedWasAccepted |
| ClaimsBoundDuplicates | DuplicatesAreReclaims |
| OnlyTheClaimantMarks | MarkedByClaimant |
| StrandedForever | what RecoverableByClaimTtl denies: an event of a dead dispatcher stays unpublished |

That a published event was accepted needs that a handler about to mark has an
accepted copy (`Accepted`), and that needs where each handler keeps its batch
(`Shape`). Duplicates need an account: the copies of an event and the handlers
that may still send it (`Owed`) together are at most its claims (`Balanced`). A
claim pays for one more, publishing turns a debt into a copy, an attempt that
ends forgives it. The account is by cardinality, over any number of handlers.

StrandedForever is the counterexample of `outbox_claim_ttl` for every number of
events, handlers and tries: once the job is dead and the last handler has ended,
only producers and the clock move the outbox, so an event whose claim is past its
TTL keeps it for ever. `Stranded` is reached in that run.

**`DlqAdmin_proofs`** (DlqAssumption, AdminAssumption, CopiesAssumption)

| Theorem | Property |
|---|---|
| AlwaysAdminInv | the inductive invariant |
| AdminTypes | TypeOK of DlqAdmin |
| SuccessHolds | SuccessIsDurable |
| OneAuditPerDecision | AuditedOnce |
| OneDecisionPerKey | OneKeyPerDecision |
| NoFailureIsCounted | what FailureIsKept denies: no committed row counts a failed attempt |

`AdminInv` says what each transaction may assume between its statements: its key
and, from the first UPDATE on, its row are its own (`Locks`), what it has written
in private agrees with the committed row (`Tx`), and at COMMIT the decision and
the effect it records have been made. Of the tables it says that a row is
quarantined or decided and nothing in between (`RowOK`), that a decided entry has
exactly one key and an undecided one none (`KeyOK`), and that a stored answer is
true (`RecordOK`).

NoFailureIsCounted is what the counterexample of `dlq_admin_failure` amounts to for
every budget: a committed row has count one if a reprocessor resolved it and zero
otherwise, and is never `exhausted`. It needs the count as a transaction has
written it and not yet committed (`Counted`): zero after the request, one after
the claim, and whatever the recorded failure makes of it dies with the rollback.

**`DlqIngestion_proofs`** (with LetterAssumption, RetriesAssumption)

| Theorem | Property |
|---|---|
| AlwaysIngestInv | the inductive invariant |
| PipelineAdministers | PipelineSpec => Spec of DlqAdmin |
| PipelineTypes | PipelineTypeOK |
| DeadLettersAreKept | NothingLostQuietly |

PipelineAdministers carries the theorems above over to the pipeline: the
ingestion does nothing to the table that DlqAdmin does not allow. `LetterOK`
makes NothingLostQuietly inductive: the flag of the broker never says
redelivered of a letter that has not been back, and a task that has an answer of
the function has an entry in the table, also the answer "no entry", because
that is what a concurrent INSERT leaves behind.

**`TenantRows_proofs`** (RowsAssumption, VersionAssumption, SettingsAssumption,
RuleKeysAssumption, RulesAssumption)

| Theorem | Property |
|---|---|
| RowsTypes | the part of TypeOK about settings, rules, histories and requests |
| HistoryIsTheRow | RowIsItsHistory |
| OneActiveRow | OneActivePerKey, half of UniqueIndexesHold |
| NoWriteIsLost | NoLostUpdate |
| HistoriesAreLedgers | ImplementsLedger |

The properties are about what is committed, so `RowsInv` has to say what a draft
may become: it is publishable (one version on, with the entry that follows), its
key is held (`KeyHeld`: no committed row and no other draft is ACTIVE for it),
and two drafts stand apart (`Apart`: other rows, other keys). Waiting for locks
and for the unique index is what establishes them.

**`TenantAccess_proofs`** (WordsAssumption, EntityVersionAssumption,
ScopesAssumption, FamiliesAssumption, InputsAssumption)

| Theorem | Property |
|---|---|
| CreationsPassConstraints, UpdatesPassConstraints | the domain lets nothing through that a constraint refuses |
| AccessTypes | the part of TypeOK about entities, calls and scopes; every stored row satisfies its constraints |
| UniqueIndexes | UniqueIndexesHold |
| StatusesFollowPaths | StatusPathsLegal |
| ActivationsHaveGround | ActivatedOnLiveGround |
| SqlScopeIsContract | the SQL of hasScopedPermission grants what the domain's contract covers |
| GrantsHaveGround | GrantedOnLiveGround |

The two properties about live ground look back in time. `CallKnows` makes them
inductive: what a call has always lacked it lacks now (`since` is a subset of
what is missing at this moment), so a query that finds a row takes it out of
`since` for good; and the path that a transition checked stays legal because its
UPDATE insists on the version.

**`TenantReads_proofs`** (the assumptions of the two modules above, and
PlatformAssumption, PrecedenceAssumption, SourcesAssumption, ScopePrecedence,
TargetsAssumption, RulePrecedence)

| Theorem | Property |
|---|---|
| ReadsTypes | the part of TypeOK about readings and the catalog |
| AdministrationTypes | TypeOK of TenantAdministration |
| NothingIsOverlooked | NeverOverlooked |

ScopePrecedence and RulePrecedence say how `Rank` orders the keys: branch,
company, tenant, and user, branch, company, tenant, plan with the environment's
own rule before the rule for all, as `docs/implementation/018-configuracoes.md`
and `019-feature-flags.md` document it. The candidates of a reading are computed
from the code's list of pushes, independently of that ranking; two lemmas
(ResolutionOrdered, EvaluationOrdered) show that they come out in its order.

NeverOverlooked looks back over a whole reading. `ReadsInv` says what a reading
in progress knows: whatever is steady is present now and is none of the
candidates passed over, so it can only be further on in the list; the winner of this moment is among the winners, and if
it is the only one it is steady; and what the reading holds of the policy was
there when it read it. The step that answers then finds its source at a place
before everything steady. The candidates are concatenations, so no
induction over the list is needed. The environment's kill switch is the case
where the policy is read after the catalog: an OFF that was steady is found, and
the answer is not enabled.

Only model-checked: liveness (EveryAttemptEnds, OneShotSettles,
PublishedUnlessBuried, EveryRequestEnds, DeadLettersSettle), which is outside
the prover's reach, and the violations of section 4 (whose properties are
false; what remains of three of them is proved in AbandonedForever,
StrandedForever and NoFailureIsCounted). Every safety and action property that a
run checks is a theorem.

## 6. Not modelled, and why

Parsing, formatting and data checks: contracts and limits of payloads,
fingerprints, HTTP routing and problem details, bearer tokens (JWT and JWKS
verification is a chain of checks on one string, with a cache in front),
logging, metrics, health checks, CI, release and database scripts: they are
stateless or nothing depends on their state. Grants and row level security are
declarative; the models are of one tenant.

Of what is modelled, the following is left out.

* The administration of a tenant and the authorized transaction around it are
  not composed: the five queries are checked against everything that changes
  what they read, the writes against each other. A permission revoked between
  the queries and the COMMIT of the operation it allowed does not stop it, in
  the code or in the model.
* The best-effort audit of failures is not tracked. Waiting for a lock is not
  bounded by a timeout; only a rejected statement is.
* `putOverride` and `putRule` name a row by target and version, not by id. A
  request does not say which row its caller had seen, so that it may hit another
  row with the same version is listed as a hazard, without a property.
* A dispatcher's priorities and backoff delays: a claim takes any batch, time
  passes by any amount. Endless supply of urgent jobs, which starves the others,
  needs endlessly many ids.
* Whether the broker routes an accepted message to a queue, and a second
  connection opened by a concurrent publisher. Prefetch is at least the number
  of letters.
* The non-retryable branch of the ingestion handler (`error.retryable === false`)
  is not reachable with what the repository and the function raise.
* The contents of the job registry are a constant: `api/dlq-admin.js` constructs
  the service with the default, empty registry, so job entries cannot be
  reprocessed there until one is supplied.

What would come next: the authorized operation composed with the writes it
protects, and the retention of idempotency records (`expires_at`) with the clean
up that the documents announce and the code does not have yet.
