------------------------------ MODULE JobStore ------------------------------
(***************************************************************************)
(* The durable job table (jobs.jobs / jobs.system_jobs) and the statements *)
(* PostgresJobRepository and PostgresJobReprocessRepository run on it.     *)
(*                                                                         *)
(* Every repository method is one SQL statement, hence one atomic change   *)
(* of the table.  The operators below are those statements: they say when  *)
(* a row matches the WHERE clause and what the row becomes.  The modules   *)
(* that extend this one (JobWorker) decide who runs them and when.         *)
(*                                                                         *)
(* Time is the database clock.  It enters the statements through two       *)
(* comparisons only, and the model keeps just their outcome:               *)
(*   due    available_at <= clock_timestamp()                              *)
(*   lease  how many heartbeat intervals are left before lease_expires_at; *)
(*          0 means lease_expires_at <= clock_timestamp()                  *)
(***************************************************************************)
EXTENDS Integers, FiniteSets

CONSTANTS
  Job,          \* row identifiers (uuidv7, never reused)
  NoJob,        \* NULL in reprocessed_from_job_id
  Token,        \* lease tokens (randomUUID)
  NoToken,      \* NULL in lease_token
  Key,          \* schedule keys
  NoKey,        \* NULL in schedule_key
  MaxAttempts,  \* max_attempts, the same for every row
  LeaseSpan,    \* leaseMs in heartbeat intervals
  BatchLimit    \* min(batchSize, concurrency)

ASSUME NullAssumption ==
  NoJob \notin Job /\ NoToken \notin Token /\ NoKey \notin Key
ASSUME BoundAssumption ==
  /\ MaxAttempts \in Nat \ {0}
  /\ LeaseSpan \in Nat \ {0}
  /\ BatchLimit \in Nat \ {0}

VARIABLES
  job,         \* the table: job[j] is the row with id j
  deadLetter   \* ids of the jobs that have an entry in dlq.entries

storeVars == <<job, deadLetter>>

(***************************************************************************)
(* "unborn" marks an id no INSERT has used yet.                            *)
(***************************************************************************)
Waiting  == {"scheduled", "retry_scheduled"}
Active   == Waiting \cup {"running"}
Finished == {"succeeded", "failed_terminal", "cancelled"}
Status   == {"unborn"} \cup Active \cup Finished

Row == [status    : Status,
        key       : Key \cup {NoKey},
        recurrent : BOOLEAN,
        due       : BOOLEAN,
        attempts  : 0..MaxAttempts,
        token     : Token \cup {NoToken},
        lease     : 0..LeaseSpan,
        origin    : Job \cup {NoJob}]

Unborn == [status |-> "unborn", key |-> NoKey, recurrent |-> FALSE,
           due |-> FALSE, attempts |-> 0, token |-> NoToken, lease |-> 0,
           origin |-> NoJob]

StoreTypeOK ==
  /\ job \in [Job -> Row]
  /\ deadLetter \subseteq Job

StoreInit ==
  /\ job = [j \in Job |-> Unborn]
  /\ deadLetter = {}

-----------------------------------------------------------------------------
(***************************************************************************)
(* The AFTER UPDATE trigger of migration 0019: a row that becomes          *)
(* failed_terminal gets its dead-letter entry in the same transaction.     *)
(***************************************************************************)
BecameTerminal(old, new) ==
  {j \in Job : /\ new[j].status = "failed_terminal"
               /\ old[j].status # "failed_terminal"}

CaptureTerminal == deadLetter' = deadLetter \cup BecameTerminal(job, job')

(***************************************************************************)
(* INSERT ... ON CONFLICT DO NOTHING.  The row is refused when the partial *)
(* unique index on schedule_key already holds an active row of that key.   *)
(***************************************************************************)
(* Mutant of KeyFree: an index predicate that forgets running rows. *)
KeyNotWaiting(k) == k = NoKey \/ \A j \in Job : ~(job[j].key = k /\ job[j].status \in Waiting)

KeyFree(k) == k = NoKey \/ \A j \in Job : ~(job[j].key = k /\ job[j].status \in Active)

Inserted(k, rec, isDue, src) ==
  [Unborn EXCEPT !.status = "scheduled", !.key = k, !.recurrent = rec,
                 !.due = isDue, !.origin = src]

Enqueue(j, k, rec, isDue) ==
  /\ job[j].status = "unborn"
  /\ KeyFree(k)
  /\ job' = [job EXCEPT ![j] = Inserted(k, rec, isDue, NoJob)]
  /\ UNCHANGED deadLetter

(***************************************************************************)
(* The replay INSERT ... SELECT: copies key and recurrence of the terminal *)
(* source.  The lineage index lets one dead-letter entry have one child.   *)
(***************************************************************************)
(* Mutant of RescheduleFromTerminal: does not ask for a terminal source. *)
RescheduleAnything(src, j) ==
  /\ job[src].status \in Finished
  /\ job[j].status = "unborn"
  /\ \A c \in Job : job[c].origin # src
  /\ KeyFree(job[src].key)
  /\ job' = [job EXCEPT ![j] = Inserted(job[src].key, job[src].recurrent, TRUE, src)]
  /\ UNCHANGED deadLetter

RescheduleFromTerminal(src, j) ==
  /\ src \in deadLetter
  /\ job[src].status = "failed_terminal"
  /\ job[j].status = "unborn"
  /\ \A c \in Job : job[c].origin # src
  /\ KeyFree(job[src].key)
  /\ job' = [job EXCEPT ![j] = Inserted(job[src].key, job[src].recurrent, TRUE, src)]
  /\ UNCHANGED deadLetter

(***************************************************************************)
(* Releasing a row: token, leased_at, lease_expires_at and                 *)
(* last_heartbeat_at are all set to NULL.                                  *)
(***************************************************************************)
Released(r, s) == [r EXCEPT !.status = s, !.token = NoToken, !.lease = 0]

(* Mutant of Expired: takes a running row for an abandoned one. *)
RunningIsExpired(r) == r.status = "running"

Expired(r)   == r.status = "running" /\ r.lease = 0
Exhausted(r) == r.attempts >= MaxAttempts

(* Mutants of ReapExpiredExhausted: no entry for a reaped row; a row is    *)
(* reaped only beyond its last attempt.                                    *)
ReapUncaptured ==
  /\ job' = [j \in Job |-> IF Expired(job[j]) /\ Exhausted(job[j])
                           THEN Released(job[j], "failed_terminal") ELSE job[j]]
  /\ UNCHANGED deadLetter

ReapOffByOne ==
  /\ job' = [j \in Job |-> IF Expired(job[j]) /\ job[j].attempts > MaxAttempts
                           THEN Released(job[j], "failed_terminal") ELSE job[j]]
  /\ CaptureTerminal

ReapExpiredExhausted ==
  /\ job' = [j \in Job |-> IF Expired(job[j]) /\ Exhausted(job[j])
                           THEN Released(job[j], "failed_terminal") ELSE job[j]]
  /\ CaptureTerminal

(* Mutants of Eligible: ignores max_attempts; never takes over a lease. *)
EligibleUnbounded ==
  {j \in Job : \/ job[j].status \in Waiting /\ job[j].due
               \/ Expired(job[j])}

EligibleWaiting ==
  {j \in Job : job[j].status \in Waiting /\ job[j].due /\ ~Exhausted(job[j])}

Eligible ==
  {j \in Job : /\ \/ job[j].status \in Waiting /\ job[j].due
                  \/ Expired(job[j])
               /\ ~Exhausted(job[j])}

(***************************************************************************)
(* FOR UPDATE SKIP LOCKED LIMIT n: concurrent claims get disjoint batches. *)
(* Which of the eligible rows come first (priority, age) is left open.     *)
(***************************************************************************)
Batches ==
  {S \in SUBSET Eligible :
      \/ S = Eligible /\ Cardinality(S) <= BatchLimit
      \/ Cardinality(S) = BatchLimit}

Claimed(r, t) == [r EXCEPT !.status = "running", !.token = t,
                           !.lease = LeaseSpan, !.attempts = @ + 1]

ClaimBatch(S, t) ==
  /\ job' = [j \in Job |-> IF j \in S THEN Claimed(job[j], t) ELSE job[j]]
  /\ UNCHANGED deadLetter

(***************************************************************************)
(* Statements guarded by the lease token.  Holds is the ownership test of  *)
(* completeSuccess and completeFailure; only heartbeat also wants the      *)
(* lease unexpired.  A statement whose WHERE matches no row changes        *)
(* nothing and the caller sees that.                                       *)
(***************************************************************************)
(* Mutant of Holds: an ownership test without the token. *)
HoldsAnyLease(t, j) == job[j].status = "running"

Holds(t, j) == job[j].status = "running" /\ job[j].token = t

Heartbeat(j, t) ==
  /\ Holds(t, j)
  /\ ~Expired(job[j])
  /\ job' = [job EXCEPT ![j].lease = LeaseSpan]
  /\ UNCHANGED deadLetter

(* Mutant of Succeeded: a recurrence keeps its attempt count. *)
SucceededKeepingAttempts(r) ==
  IF r.recurrent
  THEN [Released(r, "scheduled") EXCEPT !.due = FALSE]
  ELSE Released(r, "succeeded")

Succeeded(r) ==
  IF r.recurrent
  THEN [Released(r, "scheduled") EXCEPT !.due = FALSE, !.attempts = 0]
  ELSE Released(r, "succeeded")

(* Mutant of CompleteSuccess: WHERE without lease_token. *)
CompleteAnySuccess(j, t) ==
  /\ job[j].status = "running"
  /\ job' = [job EXCEPT ![j] = Succeeded(@)]
  /\ UNCHANGED deadLetter

CompleteSuccess(j, t) ==
  /\ Holds(t, j)
  /\ job' = [job EXCEPT ![j] = Succeeded(@)]
  /\ UNCHANGED deadLetter

(* Mutant of Failed: retries without counting. *)
FailedUncounted(r, retryable) ==
  IF retryable
  THEN [Released(r, "retry_scheduled") EXCEPT !.due = FALSE]
  ELSE Released(r, "failed_terminal")

Failed(r, retryable) ==
  IF retryable /\ ~Exhausted(r)
  THEN [Released(r, "retry_scheduled") EXCEPT !.due = FALSE]
  ELSE Released(r, "failed_terminal")

CompleteFailure(j, t, retryable) ==
  /\ Holds(t, j)
  /\ job' = [job EXCEPT ![j] = Failed(@, retryable)]
  /\ CaptureTerminal

Cancel(j) ==
  /\ job[j].status \in Waiting
  /\ job' = [job EXCEPT ![j].status = "cancelled"]
  /\ UNCHANGED deadLetter

(***************************************************************************)
(* The passage of time.                                                    *)
(***************************************************************************)
BecomesDue(j) ==
  /\ job[j].status \in Waiting /\ ~job[j].due
  /\ job' = [job EXCEPT ![j].due = TRUE]
  /\ UNCHANGED deadLetter

LeaseAges(j) ==
  /\ job[j].status = "running" /\ job[j].lease > 0
  /\ job' = [job EXCEPT ![j].lease = @ - 1]
  /\ UNCHANGED deadLetter
=============================================================================
