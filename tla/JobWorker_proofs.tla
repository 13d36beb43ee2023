-------------------------- MODULE JobWorker_proofs --------------------------
(***************************************************************************)
(* Theorems about JobWorker, for every number of jobs, workers, tokens and *)
(* keys and every value of the bounds.                                     *)
(***************************************************************************)
EXTENDS JobWorker, TLAPS

(***************************************************************************)
(* What the row-level helpers return.                                      *)
(***************************************************************************)
LEMMA UnbornType == Unborn \in Row
BY BoundAssumption DEF Unborn, Row, Status

LEMMA InsertedType ==
  ASSUME NEW k \in Key \cup {NoKey}, NEW rec \in BOOLEAN, NEW isDue \in BOOLEAN,
         NEW src \in Job \cup {NoJob}
  PROVE  Inserted(k, rec, isDue, src) \in Row
<1>1. "scheduled" \in Status
  BY DEF Status, Active, Waiting
<1> QED
  BY <1>1, UnbornType DEF Inserted, Row

LEMMA ReleasedType ==
  ASSUME NEW r \in Row, NEW s \in Status
  PROVE  Released(r, s) \in Row
<1>1. NoToken \in Token \cup {NoToken} /\ 0 \in 0..LeaseSpan
  BY BoundAssumption
<1> QED
  BY <1>1 DEF Released, Row

LEMMA ClaimedType ==
  ASSUME NEW r \in Row, NEW t \in Token, ~Exhausted(r)
  PROVE  Claimed(r, t) \in Row
<1>1. "running" \in Status
  BY DEF Status, Active
<1>2. t \in Token \cup {NoToken} /\ LeaseSpan \in 0..LeaseSpan
  BY BoundAssumption
<1>3. r.attempts + 1 \in 0..MaxAttempts
  BY BoundAssumption DEF Exhausted, Row
<1> QED
  BY <1>1, <1>2, <1>3 DEF Claimed, Row

LEMMA SucceededType ==
  ASSUME NEW r \in Row
  PROVE  Succeeded(r) \in Row
<1>1. Released(r, "succeeded") \in Row
  BY ReleasedType DEF Status, Finished
<1>2. Released(r, "scheduled") \in Row
  BY ReleasedType DEF Status, Active, Waiting
<1>3. FALSE \in BOOLEAN /\ 0 \in 0..MaxAttempts
  BY BoundAssumption
<1>4. [Released(r, "scheduled") EXCEPT !.due = FALSE, !.attempts = 0] \in Row
  BY <1>2, <1>3 DEF Row
<1> QED
  BY <1>1, <1>4 DEF Succeeded

LEMMA FailedType ==
  ASSUME NEW r \in Row, NEW retryable \in BOOLEAN
  PROVE  Failed(r, retryable) \in Row
<1>1. Released(r, "failed_terminal") \in Row
  BY ReleasedType DEF Status, Finished
<1>2. Released(r, "retry_scheduled") \in Row
  BY ReleasedType DEF Status, Active, Waiting
<1>3. [Released(r, "retry_scheduled") EXCEPT !.due = FALSE] \in Row
  BY <1>2 DEF Row
<1> QED
  BY <1>1, <1>3 DEF Failed

(***************************************************************************)
(* Type correctness of every statement of the store.                       *)
(***************************************************************************)
LEMMA EnqueueType ==
  ASSUME StoreTypeOK, NEW j \in Job, NEW k \in Key \cup {NoKey},
         NEW rec \in BOOLEAN, NEW isDue \in BOOLEAN, Enqueue(j, k, rec, isDue)
  PROVE  StoreTypeOK'
BY InsertedType DEF StoreTypeOK, Enqueue

LEMMA RescheduleType ==
  ASSUME StoreTypeOK, NEW src \in Job, NEW j \in Job, RescheduleFromTerminal(src, j)
  PROVE  StoreTypeOK'
<1>1. job[src].key \in Key \cup {NoKey} /\ job[src].recurrent \in BOOLEAN
  BY DEF StoreTypeOK, Row
<1>2. Inserted(job[src].key, job[src].recurrent, TRUE, src) \in Row
  BY <1>1, InsertedType
<1> QED
  BY <1>2 DEF StoreTypeOK, RescheduleFromTerminal

LEMMA ReapType ==
  ASSUME StoreTypeOK, ReapExpiredExhausted
  PROVE  StoreTypeOK'
<1>1. "failed_terminal" \in Status
  BY DEF Status, Finished
<1> QED
  BY <1>1, ReleasedType DEF StoreTypeOK, ReapExpiredExhausted, CaptureTerminal, BecameTerminal

LEMMA ClaimType ==
  ASSUME StoreTypeOK, NEW S \in Batches, NEW t \in Token, ClaimBatch(S, t)
  PROVE  StoreTypeOK'
<1>1. \A j \in S : ~Exhausted(job[j])
  BY DEF Batches, Eligible
<1> QED
  BY <1>1, ClaimedType DEF StoreTypeOK, ClaimBatch

LEMMA TokenStatementsType ==
  ASSUME StoreTypeOK, NEW j \in Job, NEW t, NEW retryable \in BOOLEAN,
         \/ Heartbeat(j, t)
         \/ CompleteSuccess(j, t)
         \/ CompleteFailure(j, t, retryable)
  PROVE  StoreTypeOK'
<1>0. job[j] \in Row
  BY DEF StoreTypeOK
<1>1. CASE Heartbeat(j, t)
  <2>1. [job[j] EXCEPT !.lease = LeaseSpan] \in Row
    BY <1>0, BoundAssumption DEF Row
  <2> QED
    BY <1>1, <2>1 DEF Heartbeat, StoreTypeOK
<1>2. CASE CompleteSuccess(j, t)
  BY <1>0, <1>2, SucceededType DEF CompleteSuccess, StoreTypeOK
<1>3. CASE CompleteFailure(j, t, retryable)
  BY <1>0, <1>3, FailedType
     DEF CompleteFailure, CaptureTerminal, BecameTerminal, StoreTypeOK
<1> QED
  BY <1>1, <1>2, <1>3

LEMMA ClockAndCancelType ==
  ASSUME StoreTypeOK, NEW j \in Job, Cancel(j) \/ BecomesDue(j) \/ LeaseAges(j)
  PROVE  StoreTypeOK'
<1>0. job[j] \in Row
  BY DEF StoreTypeOK
<1>1. CASE Cancel(j)
  <2>1. [job[j] EXCEPT !.status = "cancelled"] \in Row
    BY <1>0 DEF Row, Status, Finished
  <2> QED
    BY <1>1, <2>1 DEF Cancel, StoreTypeOK
<1>2. CASE BecomesDue(j)
  <2>1. [job[j] EXCEPT !.due = TRUE] \in Row
    BY <1>0 DEF Row
  <2> QED
    BY <1>2, <2>1 DEF BecomesDue, StoreTypeOK
<1>3. CASE LeaseAges(j)
  <2>1. [job[j] EXCEPT !.lease = @ - 1] \in Row
    BY <1>0, <1>3, BoundAssumption DEF Row, LeaseAges
  <2> QED
    BY <1>3, <2>1 DEF LeaseAges, StoreTypeOK
<1> QED
  BY <1>1, <1>2, <1>3

-----------------------------------------------------------------------------
LEMMA InitType == Init => TypeOK
<1>1. Unborn \in Row
  BY BoundAssumption DEF Unborn, Row, Status
<1> QED
  BY <1>1 DEF Init, StoreInit, TypeOK, StoreTypeOK, IdleBatch, Phase, Step

LEMMA LoopType ==
  ASSUME TypeOK, NEW w \in Worker, Loop(w)
  PROVE  TypeOK'
<1>1. CASE Start(w)
  BY <1>1 DEF Start, Goto, TypeOK, StoreTypeOK, Phase
<1>2. CASE Reap(w)
  BY <1>2, ReapType DEF Reap, Goto, TypeOK, Phase
<1>3. CASE Claim(w)
  <2>1. PICK S \in Batches, t \in Token :
          /\ ClaimBatch(S, t)
          /\ lease' = [lease EXCEPT ![w] = t]
          /\ exec' = [exec EXCEPT ![w] = [j \in Job |-> IF j \in S THEN "claimed" ELSE "idle"]]
    BY <1>3 DEF Claim
  <2>2. StoreTypeOK'
    BY <2>1, ClaimType DEF TypeOK
  <2>3. [j \in Job |-> IF j \in S THEN "claimed" ELSE "idle"] \in [Job -> Step]
    BY DEF Step
  <2> QED
    BY <1>3, <2>1, <2>2, <2>3 DEF Claim, Goto, TypeOK, Phase
<1>4. CASE ClaimNothing(w)
  BY <1>4 DEF ClaimNothing, Goto, TypeOK, StoreTypeOK, Phase
<1>5. CASE BatchSettled(w)
  BY <1>5 DEF BatchSettled, Goto, TypeOK, StoreTypeOK, Phase
<1>6. CASE Exit(w)
  <2>1. IdleBatch \in [Job -> Step]
    BY DEF IdleBatch, Step
  <2> QED
    BY <1>6, <2>1 DEF Exit, Goto, TypeOK, StoreTypeOK, storeVars, Phase
<1> QED
  BY <1>1, <1>2, <1>3, <1>4, <1>5, <1>6 DEF Loop

LEMMA ExecuteType ==
  ASSUME TypeOK, NEW w \in Worker, NEW j \in Job, Execute(w, j)
  PROVE  TypeOK'
<1>0. /\ StoreTypeOK
      /\ \A s \in Step : [exec EXCEPT ![w][j] = s] \in [Worker -> [Job -> Step]]
  BY DEF TypeOK
<1>a. /\ {"idle", "claimed", "handling", "aborted", "completing", "retrying",
          "burying", "rejected"} \subseteq Step
  BY DEF Step, Handling, Persisting, Failing
<1>1. CASE Resolve(w, j)
  BY <1>0, <1>a, <1>1 DEF Resolve, Goes, TypeOK, StoreTypeOK
<1>2. CASE Beat(w, j)
  <2>1. StoreTypeOK'
    BY <1>0, <1>2, TokenStatementsType DEF Beat
  <2> QED
    BY <1>2, <2>1 DEF Beat, workerVars, TypeOK
<1>3. CASE Abort(w, j)
  BY <1>0, <1>a, <1>3 DEF Abort, Goes, TypeOK, StoreTypeOK
<1>4. CASE HandlerEnds(w, j)
  BY <1>0, <1>a, <1>4 DEF HandlerEnds, Goes, TypeOK, StoreTypeOK
<1>5. CASE RecordSuccess(w, j)
  <2>1. StoreTypeOK'
    BY <1>0, <1>5, TokenStatementsType DEF RecordSuccess
  <2> QED
    BY <1>0, <1>a, <1>5, <2>1 DEF RecordSuccess, Goes, TypeOK
<1>6. CASE SuccessRefused(w, j)
  BY <1>0, <1>a, <1>6 DEF SuccessRefused, Goes, TypeOK, StoreTypeOK
<1>7. CASE SuccessErrored(w, j)
  <2>1. StoreTypeOK'
    BY <1>0, <1>7, TokenStatementsType DEF SuccessErrored, StoreTypeOK, storeVars
  <2> QED
    BY <1>0, <1>a, <1>7, <2>1 DEF SuccessErrored, Goes, TypeOK
<1>8. CASE RecordFailure(w, j)
  <2>1. StoreTypeOK'
    BY <1>0, <1>8, TokenStatementsType DEF RecordFailure, StoreTypeOK, storeVars
  <2> QED
    BY <1>0, <1>a, <1>8, <2>1 DEF RecordFailure, Goes, TypeOK
<1> QED
  BY <1>1, <1>2, <1>3, <1>4, <1>5, <1>6, <1>7, <1>8 DEF Execute

LEMMA EnvironmentType ==
  ASSUME TypeOK, NEW j \in Job, Environment(j)
  PROVE  TypeOK'
<1>0. StoreTypeOK
  BY DEF TypeOK
<1>1. StoreTypeOK'
  <2>1. CASE Produce(j)
    BY <1>0, <2>1, EnqueueType DEF Produce
  <2>2. CASE Reprocess(j)
    BY <1>0, <2>2, RescheduleType DEF Reprocess
  <2>3. CASE Withdraw(j)
    BY <1>0, <2>3, ClockAndCancelType DEF Withdraw
  <2>4. CASE TimePasses(j)
    BY <1>0, <2>4, ClockAndCancelType DEF TimePasses
  <2> QED
    BY <2>1, <2>2, <2>3, <2>4 DEF Environment
<1>2. UNCHANGED workerVars
  BY DEF Environment, Produce, Reprocess, Withdraw, TimePasses
<1> QED
  BY <1>1, <1>2 DEF TypeOK, workerVars

LEMMA NextType == TypeOK /\ [Next]_vars => TypeOK'
<1> SUFFICES ASSUME TypeOK, [Next]_vars
             PROVE  TypeOK'
  OBVIOUS
<1>1. CASE Next
  BY <1>1, LoopType, ExecuteType, EnvironmentType DEF Next
<1>2. CASE UNCHANGED vars
  BY <1>2 DEF vars, TypeOK, StoreTypeOK
<1> QED
  BY <1>1, <1>2

(***************************************************************************)
(* Type correctness: in particular the attempt count of a row never        *)
(* exceeds max_attempts and a lease never outlives its span.               *)
(***************************************************************************)
THEOREM TypeCorrect == Spec => []TypeOK
BY InitType, NextType, PTL DEF Spec
-----------------------------------------------------------------------------
(***************************************************************************)
(* What one step may do to one row.                                        *)
(***************************************************************************)
RowStep(r, q) ==
  \/ q = r
  \/ /\ r.status = "unborn"
     /\ \E k \in Key \cup {NoKey}, rec, isDue \in BOOLEAN, src \in Job \cup {NoJob} :
          q = Inserted(k, rec, isDue, src)
  \/ Expired(r) /\ Exhausted(r) /\ q = Released(r, "failed_terminal")
  \/ /\ r.status \in Waiting \/ Expired(r)
     /\ ~Exhausted(r)
     /\ \E t \in Token : q = Claimed(r, t)
  \/ /\ r.status = "running"
     /\ \/ q = [r EXCEPT !.lease = LeaseSpan]
        \/ r.lease > 0 /\ q = [r EXCEPT !.lease = @ - 1]
        \/ q = Succeeded(r)
        \/ \E retryable \in BOOLEAN : q = Failed(r, retryable)
  \/ /\ r.status \in Waiting
     /\ q = [r EXCEPT !.status = "cancelled"] \/ q = [r EXCEPT !.due = TRUE]

LEMMA LoopRows ==
  ASSUME TypeOK, NEW w \in Worker, Loop(w), NEW i \in Job
  PROVE  RowStep(job[i], job'[i])
<1>1. CASE Reap(w)
  BY <1>1 DEF Reap, ReapExpiredExhausted, RowStep
<1>2. CASE Claim(w)
  <2>1. PICK S \in Batches, t \in Token : ClaimBatch(S, t)
    BY <1>2 DEF Claim
  <2>2. S \subseteq Eligible
    BY DEF Batches
  <2>3. CASE i \in S
    <3>1. job'[i] = Claimed(job[i], t)
      BY <2>1, <2>3 DEF ClaimBatch
    <3>2. (job[i].status \in Waiting \/ Expired(job[i])) /\ ~Exhausted(job[i])
      BY <2>2, <2>3 DEF Eligible
    <3> QED
      BY <3>1, <3>2 DEF RowStep
  <2>4. CASE i \notin S
    BY <2>1, <2>4 DEF ClaimBatch, RowStep
  <2> QED
    BY <2>3, <2>4
<1>3. CASE Start(w) \/ ClaimNothing(w) \/ BatchSettled(w) \/ Exit(w)
  BY <1>3 DEF Start, ClaimNothing, BatchSettled, Exit, storeVars, RowStep
<1> QED
  BY <1>1, <1>2, <1>3 DEF Loop

LEMMA ExecuteRows ==
  ASSUME TypeOK, NEW w \in Worker, NEW j \in Job, Execute(w, j), NEW i \in Job
  PROVE  RowStep(job[i], job'[i])
<1>0. job \in [Job -> Row]
  BY DEF TypeOK, StoreTypeOK
<1>1. CASE Beat(w, j)
  <2>1. /\ job[j].status = "running"
        /\ job' = [job EXCEPT ![j] = [job[j] EXCEPT !.lease = LeaseSpan]]
    BY <1>1 DEF Beat, Heartbeat, Holds
  <2> QED
    BY <1>0, <2>1 DEF RowStep
<1>2. CASE CompleteSuccess(j, lease[w])
  BY <1>0, <1>2 DEF CompleteSuccess, Holds, RowStep
<1>3. CASE CompleteFailure(j, lease[w], exec[w][j] = "retrying")
  <2>1. (exec[w][j] = "retrying") \in BOOLEAN
    OBVIOUS
  <2> QED
    BY <1>0, <1>3, <2>1 DEF CompleteFailure, Holds, RowStep
<1>4. CASE UNCHANGED job
  BY <1>4 DEF RowStep
<1> QED
  BY <1>1, <1>2, <1>3, <1>4
     DEF Execute, Resolve, Abort, HandlerEnds, RecordSuccess, SuccessRefused,
         SuccessErrored, RecordFailure, storeVars

LEMMA EnvironmentRows ==
  ASSUME TypeOK, NEW j \in Job, Environment(j), NEW i \in Job
  PROVE  RowStep(job[i], job'[i])
<1>0. job \in [Job -> Row] /\ job[j] \in Row
  BY DEF TypeOK, StoreTypeOK
<1>1. CASE Produce(j)
  <2>1. PICK k \in Key \cup {NoKey}, rec \in BOOLEAN, isDue \in BOOLEAN :
          Enqueue(j, k, rec, isDue)
    BY <1>1 DEF Produce
  <2> QED
    BY <1>0, <2>1 DEF Enqueue, RowStep
<1>2. CASE Reprocess(j)
  <2>1. PICK src \in Job : RescheduleFromTerminal(src, j)
    BY <1>2 DEF Reprocess
  <2>2. job[src].key \in Key \cup {NoKey} /\ job[src].recurrent \in BOOLEAN
    BY <1>0 DEF Row
  <2>3. /\ job[j].status = "unborn"
        /\ job' = [job EXCEPT ![j] = Inserted(job[src].key, job[src].recurrent, TRUE, src)]
    BY <2>1 DEF RescheduleFromTerminal
  <2>4. CASE i = j
    <3>1. job'[i] = Inserted(job[src].key, job[src].recurrent, TRUE, src)
      BY <1>0, <2>3, <2>4
    <3> QED
      BY <2>2, <2>3, <2>4, <3>1 DEF RowStep
  <2>5. CASE i # j
    BY <1>0, <2>3, <2>5 DEF RowStep
  <2> QED
    BY <2>4, <2>5
<1>3. CASE Withdraw(j)
  BY <1>0, <1>3 DEF Withdraw, Cancel, RowStep
<1>4. CASE TimePasses(j)
  <2>1. CASE BecomesDue(j)
    BY <1>0, <2>1 DEF BecomesDue, RowStep
  <2>2. CASE LeaseAges(j)
    BY <1>0, <2>2 DEF LeaseAges, RowStep
  <2> QED
    BY <1>4, <2>1, <2>2 DEF TimePasses
<1> QED
  BY <1>1, <1>2, <1>3, <1>4 DEF Environment

LEMMA NextRows ==
  ASSUME TypeOK, [Next]_vars, NEW i \in Job
  PROVE  RowStep(job[i], job'[i])
<1>1. CASE Next
  BY <1>1, LoopRows, ExecuteRows, EnvironmentRows DEF Next
<1>2. CASE UNCHANGED vars
  BY <1>2 DEF vars, RowStep
<1> QED
  BY <1>1, <1>2
-----------------------------------------------------------------------------
(***************************************************************************)
(* Columns of the rows the helpers build.                                  *)
(***************************************************************************)
LEMMA InsertedColumns ==
  ASSUME NEW k \in Key \cup {NoKey}, NEW rec \in BOOLEAN, NEW isDue \in BOOLEAN,
         NEW src \in Job \cup {NoJob}
  PROVE  LET q == Inserted(k, rec, isDue, src)
         IN  /\ q.status = "scheduled" /\ q.token = NoToken /\ q.lease = 0
             /\ q.attempts = 0 /\ q.key = k /\ q.origin = src
             /\ q.recurrent = rec
BY UnbornType DEF Inserted, Unborn, Row

LEMMA ReleasedColumns ==
  ASSUME NEW r \in Row, NEW s \in Status
  PROVE  LET q == Released(r, s)
         IN  /\ q.status = s /\ q.token = NoToken /\ q.lease = 0
             /\ q.attempts = r.attempts /\ q.key = r.key /\ q.origin = r.origin
             /\ q.recurrent = r.recurrent
BY DEF Released, Row

LEMMA ClaimedColumns ==
  ASSUME NEW r \in Row, NEW t \in Token
  PROVE  LET q == Claimed(r, t)
         IN  /\ q.status = "running" /\ q.token = t
             /\ q.key = r.key /\ q.origin = r.origin /\ q.recurrent = r.recurrent
BY DEF Claimed, Row

LEMMA SucceededColumns ==
  ASSUME NEW r \in Row
  PROVE  LET q == Succeeded(r)
         IN  /\ \/ q.status = "succeeded"
                \/ q.status = "scheduled" /\ q.attempts = 0
             /\ q.token = NoToken /\ q.lease = 0
             /\ q.key = r.key /\ q.origin = r.origin /\ q.recurrent = r.recurrent
<1>1. CASE r.recurrent
  <2> DEFINE q == Released(r, "scheduled")
  <2>1. /\ q \in Row /\ q.status = "scheduled" /\ q.token = NoToken /\ q.lease = 0
        /\ q.key = r.key /\ q.origin = r.origin /\ q.recurrent = r.recurrent
    BY ReleasedType, ReleasedColumns DEF Status, Active, Waiting
  <2>2. Succeeded(r) = [q EXCEPT !.due = FALSE, !.attempts = 0]
    BY <1>1 DEF Succeeded
  <2> HIDE DEF q
  <2> QED
    BY <2>1, <2>2 DEF Row
<1>2. CASE ~r.recurrent
  <2>1. Succeeded(r) = Released(r, "succeeded") /\ "succeeded" \in Status
    BY <1>2 DEF Succeeded, Status, Finished
  <2> QED
    BY <2>1, ReleasedColumns
<1> QED
  BY <1>1, <1>2

LEMMA FailedColumns ==
  ASSUME NEW r \in Row, NEW retryable \in BOOLEAN
  PROVE  LET q == Failed(r, retryable)
         IN  /\ \/ q.status = "failed_terminal"
                \/ q.status = "retry_scheduled" /\ ~Exhausted(q)
             /\ q.token = NoToken /\ q.lease = 0
             /\ q.key = r.key /\ q.origin = r.origin /\ q.recurrent = r.recurrent
<1>1. CASE retryable /\ ~Exhausted(r)
  <2> DEFINE q == Released(r, "retry_scheduled")
  <2>1. /\ q \in Row /\ q.status = "retry_scheduled" /\ q.token = NoToken /\ q.lease = 0
        /\ q.key = r.key /\ q.origin = r.origin /\ q.recurrent = r.recurrent
        /\ q.attempts = r.attempts
    BY ReleasedType, ReleasedColumns DEF Status, Active, Waiting
  <2>2. Failed(r, retryable) = [q EXCEPT !.due = FALSE]
    BY <1>1 DEF Failed
  <2> HIDE DEF q
  <2> QED
    BY <1>1, <2>1, <2>2 DEF Row, Exhausted
<1>2. CASE ~(retryable /\ ~Exhausted(r))
  <2>1. Failed(r, retryable) = Released(r, "failed_terminal") /\ "failed_terminal" \in Status
    BY <1>2 DEF Failed, Status, Finished
  <2> QED
    BY <2>1, ReleasedColumns
<1> QED
  BY <1>1, <1>2

(***************************************************************************)
(* The row invariant: LeaseWhileRunning and NoStrandedRow for one row.     *)
(***************************************************************************)
Sound(r) ==
  /\ r.status = "running" <=> r.token # NoToken
  /\ r.status # "running" => r.lease = 0
  /\ r.status \in Waiting => ~Exhausted(r)

LEMMA SoundStep ==
  ASSUME NEW r \in Row, NEW q, Sound(r), RowStep(r, q)
  PROVE  Sound(q)
<1>1. CASE \E k \in Key \cup {NoKey}, rec, isDue \in BOOLEAN, src \in Job \cup {NoJob} :
             q = Inserted(k, rec, isDue, src)
  BY <1>1, InsertedColumns, BoundAssumption DEF Sound, Exhausted
<1>2. CASE q = Released(r, "failed_terminal")
  <2>1. "failed_terminal" \in Status
    BY DEF Status, Finished
  <2> QED
    BY <1>2, <2>1, ReleasedColumns DEF Sound, Waiting
<1>3. CASE \E t \in Token : q = Claimed(r, t)
  BY <1>3, ClaimedColumns, NullAssumption DEF Sound, Waiting
<1>4. CASE q = Succeeded(r)
  BY <1>4, SucceededColumns, BoundAssumption DEF Sound, Waiting, Exhausted
<1>5. CASE \E retryable \in BOOLEAN : q = Failed(r, retryable)
  BY <1>5, FailedColumns DEF Sound, Waiting
<1>6. CASE /\ r.status = "running"
           /\ \/ q = [r EXCEPT !.lease = LeaseSpan]
              \/ q = [r EXCEPT !.lease = @ - 1]
  BY <1>6 DEF Sound, Row, Waiting
<1>7. CASE /\ r.status \in Waiting
           /\ q = [r EXCEPT !.status = "cancelled"] \/ q = [r EXCEPT !.due = TRUE]
  BY <1>7 DEF Sound, Row, Waiting, Exhausted
<1> QED
  BY <1>1, <1>2, <1>3, <1>4, <1>5, <1>6, <1>7 DEF RowStep

LEMMA RowsSound ==
  ASSUME TypeOK, \A j \in Job : Sound(job[j]), [Next]_vars
  PROVE  \A j \in Job : Sound(job'[j])
<1> TAKE j \in Job
<1>1. job[j] \in Row
  BY DEF TypeOK, StoreTypeOK
<1> QED
  BY <1>1, NextRows, SoundStep

LEMMA InitSound == Init => \A j \in Job : Sound(job[j])
BY BoundAssumption DEF Init, StoreInit, Unborn, Sound, Exhausted, Waiting

RowsInv == TypeOK /\ \A j \in Job : Sound(job[j])

LEMMA RowsInvariant == Spec => []RowsInv
<1>1. Init => RowsInv
  BY InitType, InitSound DEF RowsInv
<1>2. RowsInv /\ [Next]_vars => RowsInv'
  BY NextType, RowsSound DEF RowsInv
<1> QED
  BY <1>1, <1>2, PTL DEF Spec

(***************************************************************************)
(* A row has a lease exactly while it runs.                                *)
(***************************************************************************)
THEOREM LeaseLifecycle == Spec => []LeaseWhileRunning
<1>1. RowsInv => LeaseWhileRunning
  BY DEF RowsInv, Sound, LeaseWhileRunning
<1> QED
  BY <1>1, RowsInvariant, PTL

(***************************************************************************)
(* No row waits without an attempt left: what waits can be claimed.        *)
(***************************************************************************)
THEOREM NothingStranded == Spec => []NoStrandedRow
<1>1. RowsInv => NoStrandedRow
  BY DEF RowsInv, Sound, NoStrandedRow
<1> QED
  BY <1>1, RowsInvariant, PTL

(***************************************************************************)
(* A finished row never changes again.                                     *)
(***************************************************************************)
THEOREM FinishedIsFinal == Spec => FinishedForever
<1>1. ASSUME TypeOK, [Next]_vars, NEW j \in Job, job[j].status \in Finished
      PROVE  job'[j] = job[j]
  <2>1. RowStep(job[j], job'[j])
    BY <1>1, NextRows
  <2> QED
    BY <1>1, <2>1 DEF RowStep, Expired, Finished, Waiting
<1>2. TypeOK /\ [Next]_vars
      => [\A j \in Job : job[j].status \in Finished => job'[j] = job[j]]_vars
  BY <1>1
<1> QED
  BY <1>2, TypeCorrect, PTL DEF Spec, FinishedForever

-----------------------------------------------------------------------------
(***************************************************************************)
(* Two workers never hold the same lease token; with LeaseWhileRunning     *)
(* this makes the owner of a job unique.                                   *)
(***************************************************************************)
LeasesDistinct ==
  \A w1, w2 \in Worker : lease[w1] = lease[w2] /\ lease[w1] # NoToken => w1 = w2

OwnerInv == RowsInv /\ LeasesDistinct

LEMMA LeasesStayDistinct ==
  ASSUME TypeOK, LeasesDistinct, [Next]_vars
  PROVE  LeasesDistinct'
<1>0. lease \in [Worker -> Token \cup {NoToken}]
  BY DEF TypeOK
<1>1. ASSUME NEW w \in Worker, Claim(w)
      PROVE  LeasesDistinct'
  <2>1. PICK t \in Token : Fresh(t) /\ lease' = [lease EXCEPT ![w] = t]
    BY <1>1 DEF Claim
  <2>2. \A v \in Worker : lease[v] # t
    BY <2>1 DEF Fresh
  <2> QED
    BY <1>0, <2>1, <2>2 DEF LeasesDistinct
<1>2. ASSUME NEW w \in Worker, BatchSettled(w) \/ Exit(w)
      PROVE  LeasesDistinct'
  <2>1. lease' = [lease EXCEPT ![w] = NoToken]
    BY <1>2 DEF BatchSettled, Exit
  <2> QED
    BY <1>0, <2>1 DEF LeasesDistinct
<1>3. CASE UNCHANGED lease
  BY <1>3 DEF LeasesDistinct
<1>4. CASE \E w \in Worker : Loop(w)
  BY <1>1, <1>2, <1>3, <1>4 DEF Loop, Start, Reap, ClaimNothing
<1>5. CASE \E w \in Worker, j \in Job : Execute(w, j)
  BY <1>3, <1>5 DEF Execute, Resolve, Beat, workerVars, Abort, HandlerEnds,
     RecordSuccess, SuccessRefused, SuccessErrored, RecordFailure
<1>6. CASE \E j \in Job : Environment(j)
  BY <1>3, <1>6 DEF Environment, Produce, Reprocess, Withdraw, TimePasses, workerVars
<1>7. CASE UNCHANGED vars
  BY <1>3, <1>7 DEF vars
<1> QED
  BY <1>4, <1>5, <1>6, <1>7 DEF Next

(***************************************************************************)
(* However many workers race, restart and outlive their leases, at most    *)
(* one can still move the row of a job.                                    *)
(***************************************************************************)
THEOREM OneOwner == Spec => []AtMostOneOwner
<1>1. Init => OwnerInv
  BY InitType, InitSound DEF Init, OwnerInv, RowsInv, LeasesDistinct
<1>2. OwnerInv /\ [Next]_vars => OwnerInv'
  BY NextType, RowsSound, LeasesStayDistinct DEF OwnerInv, RowsInv
<1>3. OwnerInv => AtMostOneOwner
  BY DEF OwnerInv, RowsInv, Sound, LeasesDistinct, AtMostOneOwner, Owner, Holds
<1> QED
  BY <1>1, <1>2, <1>3, PTL DEF Spec
-----------------------------------------------------------------------------
(***************************************************************************)
(* The two inserts: of a producer, and of a governed replay.               *)
(***************************************************************************)
InsertedAs(j, k, rec, isDue, src) ==
  /\ job[j].status = "unborn"
  /\ KeyFree(k)
  /\ src \in Job => /\ job[src].status = "failed_terminal"
                    /\ job[src].key = k /\ job[src].recurrent = rec
                    /\ \A c \in Job : job[c].origin # src
  /\ job' = [job EXCEPT ![j] = Inserted(k, rec, isDue, src)]
  /\ UNCHANGED deadLetter

LEMMA InsertStep ==
  ASSUME TypeOK, NEW j \in Job, Produce(j) \/ Reprocess(j)
  PROVE  \E k \in Key \cup {NoKey}, rec \in BOOLEAN, isDue \in BOOLEAN, src \in Job \cup {NoJob} :
           InsertedAs(j, k, rec, isDue, src)
<1>1. CASE Produce(j)
  <2>1. PICK k \in Key \cup {NoKey}, rec \in BOOLEAN, isDue \in BOOLEAN :
          Enqueue(j, k, rec, isDue)
    BY <1>1 DEF Produce
  <2>2. InsertedAs(j, k, rec, isDue, NoJob)
    BY <2>1, NullAssumption DEF Enqueue, InsertedAs
  <2> QED
    BY <2>2
<1>2. CASE Reprocess(j)
  <2>1. PICK src \in Job : RescheduleFromTerminal(src, j)
    BY <1>2 DEF Reprocess
  <2>2. job[src].key \in Key \cup {NoKey} /\ job[src].recurrent \in BOOLEAN
    BY DEF TypeOK, StoreTypeOK, Row
  <2>3. InsertedAs(j, job[src].key, job[src].recurrent, TRUE, src)
    BY <2>1 DEF RescheduleFromTerminal, InsertedAs
  <2> QED
    BY <2>2, <2>3
<1> QED
  BY <1>1, <1>2

(***************************************************************************)
(* The capture trigger misses no transition.                               *)
(***************************************************************************)
LEMMA CaptureStep ==
  ASSUME TypeOK, [Next]_vars
  PROVE  CaptureTerminal
<1>0. job \in [Job -> Row]
  BY DEF TypeOK, StoreTypeOK
<1>a. ASSUME UNCHANGED deadLetter,
             \A j \in Job : \/ job'[j] = job[j]
                            \/ job'[j].status # "failed_terminal"
      PROVE  CaptureTerminal
  BY <1>a DEF CaptureTerminal, BecameTerminal
<1>1. ASSUME NEW w \in Worker, Loop(w)
      PROVE  CaptureTerminal
  <2>1. CASE Reap(w)
    BY <2>1 DEF Reap, ReapExpiredExhausted
  <2>2. CASE Claim(w)
    <3>1. PICK S \in Batches, t \in Token : ClaimBatch(S, t)
      BY <2>2 DEF Claim
    <3>2. \A j \in S : job'[j].status = "running"
      BY <1>0, <3>1, ClaimedColumns DEF ClaimBatch, Batches, Eligible
    <3> QED
      BY <1>a, <3>1, <3>2 DEF ClaimBatch
  <2>3. CASE Start(w) \/ ClaimNothing(w) \/ BatchSettled(w) \/ Exit(w)
    BY <1>a, <2>3 DEF Start, ClaimNothing, BatchSettled, Exit, storeVars
  <2> QED
    BY <1>1, <2>1, <2>2, <2>3 DEF Loop
<1>2. ASSUME NEW w \in Worker, NEW j \in Job, Execute(w, j)
      PROVE  CaptureTerminal
  <2>0. job[j] \in Row
    BY <1>0
  <2>1. CASE Beat(w, j)
    <3>1. /\ job[j].status = "running"
          /\ job' = [job EXCEPT ![j] = [job[j] EXCEPT !.lease = LeaseSpan]]
          /\ UNCHANGED deadLetter
      BY <2>1 DEF Beat, Heartbeat, Holds
    <3>2. [job[j] EXCEPT !.lease = LeaseSpan].status = "running"
      BY <2>0, <3>1 DEF Row
    <3> QED
      BY <1>0, <1>a, <3>1, <3>2
  <2>2. CASE CompleteSuccess(j, lease[w])
    <3>1. job' = [job EXCEPT ![j] = Succeeded(job[j])] /\ UNCHANGED deadLetter
      BY <2>2 DEF CompleteSuccess
    <3>2. Succeeded(job[j]).status # "failed_terminal"
      BY <2>0, SucceededColumns
    <3> QED
      BY <1>0, <1>a, <3>1, <3>2
  <2>3. CASE CompleteFailure(j, lease[w], exec[w][j] = "retrying")
    BY <2>3 DEF CompleteFailure
  <2>4. CASE UNCHANGED storeVars
    BY <1>a, <2>4 DEF storeVars
  <2> QED
    BY <1>2, <2>1, <2>2, <2>3, <2>4
       DEF Execute, Resolve, Abort, HandlerEnds, RecordSuccess, SuccessRefused,
           SuccessErrored, RecordFailure, storeVars
<1>3. ASSUME NEW j \in Job, Environment(j)
      PROVE  CaptureTerminal
  <2>0. job[j] \in Row
    BY <1>0
  <2>1. CASE Produce(j) \/ Reprocess(j)
    <3>1. PICK k \in Key \cup {NoKey}, rec \in BOOLEAN, isDue \in BOOLEAN, src \in Job \cup {NoJob} :
            InsertedAs(j, k, rec, isDue, src)
      BY <2>1, InsertStep
    <3>2. Inserted(k, rec, isDue, src).status # "failed_terminal"
      BY InsertedColumns
    <3> QED
      BY <1>0, <1>a, <3>1, <3>2 DEF InsertedAs
  <2>2. CASE Withdraw(j)
    BY <1>0, <1>a, <2>0, <2>2 DEF Withdraw, Cancel, Row
  <2>3. CASE BecomesDue(j)
    BY <1>0, <1>a, <2>0, <2>3 DEF BecomesDue, Row, Waiting
  <2>4. CASE LeaseAges(j)
    BY <1>0, <1>a, <2>0, <2>4 DEF LeaseAges, Row
  <2> QED
    BY <1>3, <2>1, <2>2, <2>3, <2>4 DEF Environment, TimePasses
<1>4. CASE UNCHANGED vars
  BY <1>a, <1>4 DEF vars
<1> QED
  BY <1>1, <1>2, <1>3, <1>4 DEF Next

(***************************************************************************)
(* The dead-letter entries are exactly those of the failed_terminal jobs.  *)
(***************************************************************************)
THEOREM TerminalJobsCaptured == Spec => []TerminalCaptured
<1>1. Init => TerminalCaptured
  BY DEF Init, StoreInit, Unborn, TerminalCaptured
<1>2. TypeOK /\ TerminalCaptured /\ [Next]_vars => TerminalCaptured'
  <2> SUFFICES ASSUME TypeOK, TerminalCaptured, [Next]_vars
               PROVE  TerminalCaptured'
    OBVIOUS
  <2>1. \A j \in Job : job[j].status = "failed_terminal" => job'[j] = job[j]
    BY NextRows DEF RowStep, Expired, Waiting
  <2> QED
    BY <2>1, CaptureStep DEF CaptureTerminal, BecameTerminal, TerminalCaptured
<1> QED
  BY <1>1, <1>2, TypeCorrect, PTL DEF Spec

-----------------------------------------------------------------------------
(***************************************************************************)
(* An id is used by an insert of a key that is free, or its row is not new *)
(* and keeps its key, recurrence and origin.                               *)
(***************************************************************************)
Identity(r, q) == q.key = r.key /\ q.recurrent = r.recurrent /\ q.origin = r.origin

LEMMA IdentityStep ==
  ASSUME NEW r \in Row, NEW q, RowStep(r, q), r.status # "unborn" \/ q = r
  PROVE  /\ Identity(r, q)
         /\ q.status \in Active => r.status \in Active
<1>1. CASE q = r
  BY <1>1 DEF Identity
<1>2. CASE r.status = "running" /\ q = Released(r, "failed_terminal")
  <2>1. "failed_terminal" \in Status
    BY DEF Status, Finished
  <2> QED
    BY <1>2, <2>1, ReleasedColumns DEF Identity, Active
<1>3. CASE r.status \in Active /\ \E t \in Token : q = Claimed(r, t)
  BY <1>3, ClaimedColumns DEF Identity
<1>4. CASE r.status = "running" /\ (q = Succeeded(r) \/ \E b \in BOOLEAN : q = Failed(r, b))
  BY <1>4, SucceededColumns, FailedColumns DEF Identity, Active
<1>5. CASE /\ r.status = "running"
           /\ \/ q = [r EXCEPT !.lease = LeaseSpan]
              \/ q = [r EXCEPT !.lease = @ - 1]
  BY <1>5 DEF Identity, Row, Active
<1>6. CASE /\ r.status \in Waiting
           /\ q = [r EXCEPT !.status = "cancelled"] \/ q = [r EXCEPT !.due = TRUE]
  BY <1>6 DEF Identity, Row, Active
<1> QED
  BY <1>1, <1>2, <1>3, <1>4, <1>5, <1>6 DEF RowStep, Expired, Active

LEMMA UnbornIsNeverMade ==
  ASSUME NEW r \in Row, NEW q, RowStep(r, q), q.status = "unborn"
  PROVE  r.status = "unborn"
<1>1. CASE r.status = "running"
  <2>1. "failed_terminal" \in Status
    BY DEF Status, Finished
  <2>2. /\ Released(r, "failed_terminal").status # "unborn"
        /\ Succeeded(r).status # "unborn"
        /\ \A t \in Token : Claimed(r, t).status # "unborn"
        /\ \A b \in BOOLEAN : Failed(r, b).status # "unborn"
    BY <2>1, ReleasedColumns, SucceededColumns, ClaimedColumns, FailedColumns
  <2>3. /\ [r EXCEPT !.lease = LeaseSpan].status = "running"
        /\ [r EXCEPT !.lease = @ - 1].status = "running"
    BY <1>1 DEF Row
  <2> QED
    BY <1>1, <2>2, <2>3 DEF RowStep, Waiting
<1>2. CASE r.status \in Waiting
  <2>1. /\ [r EXCEPT !.status = "cancelled"].status # "unborn"
        /\ [r EXCEPT !.due = TRUE].status # "unborn"
    BY <1>2 DEF Row, Waiting
  <2>2. \A t \in Token : Claimed(r, t).status # "unborn"
    BY ClaimedColumns
  <2>3. r.status # "unborn" /\ r.status # "running"
    BY <1>2 DEF Waiting
  <2>4. \/ q = r
        \/ \E t \in Token : q = Claimed(r, t)
        \/ q = [r EXCEPT !.status = "cancelled"] \/ q = [r EXCEPT !.due = TRUE]
    BY <2>3 DEF RowStep, Expired
  <2> QED
    BY <2>1, <2>2, <2>3, <2>4
<1> QED
  BY <1>1, <1>2 DEF RowStep, Expired

LEMMA UnbornOrInserted ==
  ASSUME TypeOK, [Next]_vars
  PROVE  \/ \A i \in Job : job[i].status = "unborn" => job'[i] = job[i]
         \/ \E j \in Job, k \in Key \cup {NoKey}, rec \in BOOLEAN, isDue \in BOOLEAN,
               src \in Job \cup {NoJob} : InsertedAs(j, k, rec, isDue, src)
<1>0. job \in [Job -> Row]
  BY DEF TypeOK, StoreTypeOK
<1> DEFINE UnbornKept == \A i \in Job : job[i].status = "unborn" => job'[i] = job[i]
<1>1. ASSUME NEW w \in Worker, Loop(w)
      PROVE  UnbornKept
  <2>1. CASE Claim(w)
    <3>1. PICK S \in Batches, t \in Token : ClaimBatch(S, t)
      BY <2>1 DEF Claim
    <3>2. \A i \in S : job[i].status # "unborn"
      BY DEF Batches, Eligible, Expired, Waiting
    <3> QED
      BY <3>1, <3>2 DEF ClaimBatch
  <2> QED
    BY <1>1, <2>1 DEF Loop, Start, Reap, ReapExpiredExhausted, Expired, ClaimNothing,
       BatchSettled, Exit, storeVars
<1>2. ASSUME NEW w \in Worker, NEW j \in Job, Execute(w, j)
      PROVE  UnbornKept
  BY <1>0, <1>2 DEF Execute, Resolve, Beat, Abort, HandlerEnds, RecordSuccess,
     SuccessRefused, SuccessErrored, RecordFailure, storeVars,
     Heartbeat, CompleteSuccess, CompleteFailure, Holds
<1>3. ASSUME NEW j \in Job, Withdraw(j) \/ TimePasses(j)
      PROVE  UnbornKept
  BY <1>0, <1>3 DEF Withdraw, Cancel, TimePasses, BecomesDue, LeaseAges, Waiting
<1>4. CASE UNCHANGED vars
  BY <1>4 DEF vars
<1> QED
  BY <1>1, <1>2, <1>3, <1>4, InsertStep DEF Next, Environment

(***************************************************************************)
(* Enqueue, recurrence and replay never give two active rows one key.      *)
(***************************************************************************)
THEOREM OneActivePerKey == Spec => []SingletonKey
<1>1. Init => SingletonKey
  BY DEF Init, StoreInit, Unborn, SingletonKey
<1>2. TypeOK /\ SingletonKey /\ [Next]_vars => SingletonKey'
  <2> SUFFICES ASSUME TypeOK, SingletonKey, [Next]_vars
               PROVE  SingletonKey'
    OBVIOUS
  <2>0. job \in [Job -> Row]
    BY DEF TypeOK, StoreTypeOK
  <2>1. \A i \in Job : \/ job[i].status # "unborn"
                       \/ job'[i] = job[i]
                       => /\ Identity(job[i], job'[i])
                          /\ job'[i].status \in Active => job[i].status \in Active
    BY <2>0, NextRows, IdentityStep
  <2>2. CASE \A i \in Job : job[i].status = "unborn" => job'[i] = job[i]
    BY <2>1, <2>2 DEF SingletonKey, Identity
  <2>3. ASSUME NEW j \in Job, NEW k \in Key \cup {NoKey}, NEW rec \in BOOLEAN,
               NEW isDue \in BOOLEAN, NEW src \in Job \cup {NoJob},
               InsertedAs(j, k, rec, isDue, src)
        PROVE  SingletonKey'
    <3>1. /\ \A i \in Job \ {j} : job'[i] = job[i]
          /\ job'[j].key = k
      BY <2>0, <2>3, InsertedColumns DEF InsertedAs
    <3>2. k # NoKey => \A i \in Job : ~(job[i].key = k /\ job[i].status \in Active)
      BY <2>3 DEF InsertedAs, KeyFree
    <3> QED
      BY <3>1, <3>2 DEF SingletonKey
  <2> QED
    BY <2>2, <2>3, UnbornOrInserted
<1> QED
  BY <1>1, <1>2, TypeCorrect, PTL DEF Spec

(***************************************************************************)
(* A replay is the only child of a job that is still failed_terminal and   *)
(* inherits its schedule.  Inductive with: an unused id has no origin.     *)
(***************************************************************************)
NoOriginUnborn == \A i \in Job : job[i].status = "unborn" => job[i].origin = NoJob

THEOREM ReplayIsLinked == Spec => []ReplayLineage
<1>1. Init => ReplayLineage /\ NoOriginUnborn
  BY NullAssumption DEF Init, StoreInit, Unborn, ReplayLineage, NoOriginUnborn
<1>2. TypeOK /\ ReplayLineage /\ NoOriginUnborn /\ [Next]_vars
      => (ReplayLineage /\ NoOriginUnborn)'
  <2> SUFFICES ASSUME TypeOK, ReplayLineage, NoOriginUnborn, [Next]_vars
               PROVE  ReplayLineage' /\ NoOriginUnborn'
    OBVIOUS
  <2>0. job \in [Job -> Row]
    BY DEF TypeOK, StoreTypeOK
  <2>1. \A i \in Job : \/ job[i].status # "unborn"
                       \/ job'[i] = job[i]
                       => Identity(job[i], job'[i])
    BY <2>0, NextRows, IdentityStep
  <2>2. \A i \in Job : job[i].status = "failed_terminal" => job'[i] = job[i]
    BY NextRows DEF RowStep, Expired, Waiting
  <2>3. CASE \A i \in Job : job[i].status = "unborn" => job'[i] = job[i]
    <3>1. \A i \in Job : Identity(job[i], job'[i])
      BY <2>1, <2>3
    <3>2. ReplayLineage'
      BY <2>2, <3>1 DEF ReplayLineage, Identity
    <3>3. \A i \in Job : job'[i].status = "unborn" => job[i].status = "unborn"
      <4> TAKE i \in Job
      <4>1. job[i] \in Row /\ RowStep(job[i], job'[i])
        BY <2>0, NextRows
      <4> QED
        BY <4>1, UnbornIsNeverMade
    <3> QED
      BY <3>1, <3>2, <3>3 DEF NoOriginUnborn, Identity
  <2>4. ASSUME NEW j \in Job, NEW k \in Key \cup {NoKey}, NEW rec \in BOOLEAN,
               NEW isDue \in BOOLEAN, NEW src \in Job \cup {NoJob},
               InsertedAs(j, k, rec, isDue, src)
        PROVE  ReplayLineage' /\ NoOriginUnborn'
    <3>1. /\ \A i \in Job \ {j} : job'[i] = job[i]
          /\ job'[j].key = k /\ job'[j].recurrent = rec /\ job'[j].origin = src
          /\ job'[j].status = "scheduled"
      BY <2>0, <2>4, InsertedColumns DEF InsertedAs
    <3>2. job[j].status = "unborn" /\ job[j].origin = NoJob
      BY <2>4 DEF InsertedAs, NoOriginUnborn
    <3>3. \A i \in Job : job[i].origin # j
      BY <3>2 DEF ReplayLineage
    <3>4. src \in Job => /\ job[src].status = "failed_terminal"
                        /\ job[src].key = k /\ job[src].recurrent = rec
                        /\ \A c \in Job : job[c].origin # src
      BY <2>4 DEF InsertedAs
    <3>5. src # j
      BY <3>2, <3>4
    <3> QED
      BY <3>1, <3>2, <3>3, <3>4, <3>5 DEF ReplayLineage, NoOriginUnborn
  <2> QED
    BY <2>3, <2>4, UnbornOrInserted
<1> QED
  BY <1>1, <1>2, TypeCorrect, PTL DEF Spec

-----------------------------------------------------------------------------
(***************************************************************************)
(* Who may take a running row out of its attempt.  Only a claim, the       *)
(* reaper (both after the lease expired) or a completion of the owner.     *)
(***************************************************************************)
Reported(w, j) == Owner(w, j) /\ exec[w][j] \in Persisting

LEMMA RunningRowMoves ==
  ASSUME TypeOK, [Next]_vars, NEW j \in Job, job[j].status = "running"
  PROVE  \/ job'[j].token = job[j].token /\ job'[j].status = "running"
         \/ job[j].lease = 0 /\ job'[j] = Released(job[j], "failed_terminal")
         \/ job[j].lease = 0 /\ \E t \in Token : job'[j] = Claimed(job[j], t)
         \/ /\ \E w \in Worker : Reported(w, j) /\ exec[w][j] = "completing"
            /\ job'[j] = Succeeded(job[j])
         \/ /\ \E w \in Worker : Reported(w, j)
            /\ \E b \in BOOLEAN : job'[j] = Failed(job[j], b)
<1>0. job \in [Job -> Row] /\ job[j] \in Row
  BY DEF TypeOK, StoreTypeOK
<1>k. /\ [job[j] EXCEPT !.lease = LeaseSpan].status = "running"
      /\ [job[j] EXCEPT !.lease = LeaseSpan].token = job[j].token
      /\ [job[j] EXCEPT !.lease = @ - 1].status = "running"
      /\ [job[j] EXCEPT !.lease = @ - 1].token = job[j].token
  BY <1>0 DEF Row
<1>1. ASSUME NEW w \in Worker, NEW i \in Job, Execute(w, i)
      PROVE  \/ job'[j].token = job[j].token /\ job'[j].status = "running"
             \/ Reported(w, j) /\ exec[w][j] = "completing" /\ job'[j] = Succeeded(job[j])
             \/ Reported(w, j) /\ \E b \in BOOLEAN : job'[j] = Failed(job[j], b)
  <2>1. CASE exec[w][i] = "completing" /\ CompleteSuccess(i, lease[w])
    <3>1. Reported(w, i)
      BY <2>1 DEF Reported, Owner, CompleteSuccess, Persisting
    <3> QED
      BY <1>0, <2>1, <3>1 DEF CompleteSuccess
  <2>2. CASE /\ exec[w][i] \in Failing
             /\ CompleteFailure(i, lease[w], exec[w][i] = "retrying")
    <3>1. Reported(w, i)
      BY <2>2 DEF Reported, Owner, CompleteFailure, Persisting, Failing
    <3>2. (exec[w][i] = "retrying") \in BOOLEAN
      OBVIOUS
    <3> QED
      BY <1>0, <2>2, <3>1, <3>2 DEF CompleteFailure
  <2>3. CASE Beat(w, i)
    <3>1. job' = [job EXCEPT ![i] = [job[i] EXCEPT !.lease = LeaseSpan]]
      BY <2>3 DEF Beat, Heartbeat
    <3> QED
      BY <1>0, <1>k, <3>1
  <2>4. CASE UNCHANGED job
    BY <2>4
  <2> QED
    BY <1>1, <2>1, <2>2, <2>3, <2>4
       DEF Execute, Resolve, Abort, HandlerEnds, RecordSuccess, SuccessRefused,
           SuccessErrored, RecordFailure, storeVars
<1>2. ASSUME NEW w \in Worker, Loop(w)
      PROVE  \/ job'[j] = job[j]
             \/ job[j].lease = 0 /\ job'[j] = Released(job[j], "failed_terminal")
             \/ job[j].lease = 0 /\ \E t \in Token : job'[j] = Claimed(job[j], t)
  <2>1. CASE Reap(w)
    BY <2>1 DEF Reap, ReapExpiredExhausted, Expired
  <2>2. CASE Claim(w)
    <3>1. PICK S \in Batches, t \in Token : ClaimBatch(S, t)
      BY <2>2 DEF Claim
    <3>2. j \in S => job[j].lease = 0
      BY DEF Batches, Eligible, Expired, Waiting
    <3> QED
      BY <3>1, <3>2 DEF ClaimBatch
  <2> QED
    BY <1>2, <2>1, <2>2
       DEF Loop, Start, ClaimNothing, BatchSettled, Exit, storeVars
<1>3. ASSUME NEW i \in Job, Environment(i)
      PROVE  job'[j].token = job[j].token /\ job'[j].status = "running"
  <2>1. CASE Produce(i) \/ Reprocess(i)
    BY <1>0, <2>1, InsertStep DEF InsertedAs
  <2>2. CASE Withdraw(i) \/ BecomesDue(i)
    BY <1>0, <2>2 DEF Withdraw, Cancel, BecomesDue, Waiting
  <2>3. CASE LeaseAges(i)
    BY <1>0, <1>k, <2>3 DEF LeaseAges
  <2> QED
    BY <1>3, <2>1, <2>2, <2>3 DEF Environment, TimePasses
<1>4. CASE UNCHANGED vars
  BY <1>4 DEF vars
<1> QED
  BY <1>1, <1>2, <1>3, <1>4 DEF Next

(***************************************************************************)
(* While its lease is unexpired nobody but the owner's own completion      *)
(* moves a row out of the attempt.                                         *)
(***************************************************************************)
THEOREM LeaseIsRespected == Spec => LiveLeaseRespected
<1> DEFINE Respects(j) ==
      /\ job[j].status = "running" /\ job[j].lease > 0
      /\ job'[j].token # job[j].token
      => \E w \in Worker : Owner(w, j) /\ exec[w][j] \in Persisting
<1>1. ASSUME TypeOK, [Next]_vars, NEW j \in Job
      PROVE  Respects(j)
  BY <1>1, RunningRowMoves DEF Reported
<1>2. TypeOK /\ [Next]_vars => [\A j \in Job : Respects(j)]_vars
  BY <1>1
<1> QED
  BY <1>2, TypeCorrect, PTL DEF Spec, LiveLeaseRespected

(***************************************************************************)
(* A job completes only in the step in which the owner of its current      *)
(* attempt reports a handler that returned without being aborted.          *)
(***************************************************************************)
THEOREM CompletionIsEarned == Spec => SuccessIsEarned
<1> DEFINE Earned(j) ==
      /\ job[j].status = "running"
      /\ job'[j].status \in {"succeeded", "scheduled"}
      => \E w \in Worker : Owner(w, j) /\ exec[w][j] = "completing"
<1>1. ASSUME TypeOK, [Next]_vars, NEW j \in Job
      PROVE  Earned(j)
  <2>0. job[j] \in Row /\ "failed_terminal" \in Status
    BY <1>1 DEF TypeOK, StoreTypeOK, Status, Finished
  <2>1. Released(job[j], "failed_terminal").status = "failed_terminal"
    BY <2>0, ReleasedColumns
  <2>a. \A t \in Token : Claimed(job[j], t).status = "running"
    BY <2>0, ClaimedColumns
  <2>b. \A b \in BOOLEAN : Failed(job[j], b).status \in {"failed_terminal", "retry_scheduled"}
    BY <2>0, FailedColumns
  <2>2. HAVE /\ job[j].status = "running"
             /\ job'[j].status \in {"succeeded", "scheduled"}
  <2>3. /\ job'[j].status # "running" /\ job'[j].status # "failed_terminal"
        /\ job'[j].status # "retry_scheduled"
    BY <2>2
  <2>4. \E w \in Worker : Reported(w, j) /\ exec[w][j] = "completing"
    BY <1>1, <2>1, <2>a, <2>b, <2>2, <2>3, RunningRowMoves
  <2> QED
    BY <2>4 DEF Reported
<1>2. TypeOK /\ [Next]_vars => [\A j \in Job : Earned(j)]_vars
  BY <1>1
<1> QED
  BY <1>2, TypeCorrect, PTL DEF Spec, SuccessIsEarned
-----------------------------------------------------------------------------
(***************************************************************************)
(* The table implements the plain queue.  What a statement makes of one    *)
(* row is seen by the queue as one of the moves of QueueMove; the two      *)
(* statements on many rows, claim and reap, are one step of the queue too. *)
(***************************************************************************)
LEMMA StageIs ==
  ASSUME NEW r
  PROVE  /\ r.status = "unborn" => StageOf(r) = "absent"
         /\ r.status \in Waiting => StageOf(r) = "waiting"
         /\ r.status = "running" => StageOf(r) = "granted"
         /\ r.status = "succeeded" => StageOf(r) = "done"
         /\ r.status = "failed_terminal" => StageOf(r) = "dead"
         /\ r.status = "cancelled" => StageOf(r) = "withdrawn"
BY DEF StageOf, Waiting

QueueMove(r, q) ==
  \/ StageOf(q) = StageOf(r) /\ q.token = r.token /\ q.attempts = r.attempts
  \/ /\ StageOf(r) = "absent" /\ StageOf(q) = "waiting"
     /\ q.token = r.token /\ q.attempts = r.attempts
  \/ /\ StageOf(r) = "granted" /\ q.token = NoToken
     /\ \/ StageOf(q) \in {"done", "dead"} /\ q.attempts = r.attempts
        \/ StageOf(q) = "waiting" /\ q.attempts = 0
        \/ StageOf(q) = "waiting" /\ q.attempts = r.attempts /\ r.attempts < MaxAttempts
  \/ /\ StageOf(r) = "waiting" /\ StageOf(q) = "withdrawn"
     /\ q.token = r.token /\ q.attempts = r.attempts

LEMMA OneRowInQueue ==
  ASSUME TypeOK, NEW j \in Job, NEW q, job' = [job EXCEPT ![j] = q], QueueMove(job[j], q)
  PROVE  [Queue!WQNext]_(Queue!wqVars)
<1> DEFINE st == [x \in Job |-> StageOf(job[x])]
           gr == [x \in Job |-> job[x].token]
           tr == [x \in Job |-> job[x].attempts]
<1>0. job \in [Job -> Row]
  BY DEF TypeOK, StoreTypeOK
<1>1. /\ st' = [st EXCEPT ![j] = StageOf(q)]
      /\ gr' = [gr EXCEPT ![j] = q.token]
      /\ tr' = [tr EXCEPT ![j] = q.attempts]
  BY <1>0
<1>2. st[j] = StageOf(job[j]) /\ gr[j] = job[j].token /\ tr[j] = job[j].attempts
  OBVIOUS
<1>3. /\ st = [st EXCEPT ![j] = st[j]]
      /\ gr = [gr EXCEPT ![j] = gr[j]]
      /\ tr = [tr EXCEPT ![j] = tr[j]]
  OBVIOUS
<1>4. CASE StageOf(q) = st[j] /\ q.token = gr[j] /\ q.attempts = tr[j]
  <2>1. st' = st /\ gr' = gr /\ tr' = tr
    BY <1>1, <1>3, <1>4
  <2> QED
    BY <2>1 DEF Queue!wqVars
<1>5. CASE st[j] = "absent" /\ StageOf(q) = "waiting" /\ q.token = gr[j] /\ q.attempts = tr[j]
  <2>1. Queue!Submit(j)
    BY <1>1, <1>3, <1>5 DEF Queue!Submit
  <2> QED
    BY <2>1 DEF Queue!WQNext
<1>6. ASSUME st[j] = "granted", q.token = NoToken,
             StageOf(q) = "done" /\ q.attempts = tr[j]
      PROVE  Queue!WQNext
  <2>1. Queue!Finish(j)
    BY <1>1, <1>6 DEF Queue!Finish, Queue!Leave
  <2> QED
    BY <2>1 DEF Queue!WQNext
<1>7. ASSUME st[j] = "granted", q.token = NoToken,
             StageOf(q) = "waiting" /\ q.attempts = 0
      PROVE  Queue!WQNext
  <2>1. Queue!Rearm(j)
    BY <1>1, <1>7 DEF Queue!Rearm, Queue!Leave
  <2> QED
    BY <2>1 DEF Queue!WQNext
<1>8. ASSUME st[j] = "granted", q.token = NoToken,
             StageOf(q) = "waiting" /\ q.attempts = tr[j] /\ tr[j] < MaxAttempts
      PROVE  Queue!WQNext
  <2>1. Queue!GiveBack(j)
    BY <1>1, <1>8 DEF Queue!GiveBack, Queue!Leave
  <2> QED
    BY <2>1 DEF Queue!WQNext
<1>9. ASSUME st[j] = "granted", q.token = NoToken,
             StageOf(q) = "dead" /\ q.attempts = tr[j]
      PROVE  Queue!WQNext
  <2>1. /\ st' = [x \in Job |-> IF x \in {j} THEN "dead" ELSE st[x]]
        /\ gr' = [x \in Job |-> IF x \in {j} THEN NoToken ELSE gr[x]]
        /\ tr' = tr
    BY <1>1, <1>3, <1>9
  <2>2. Queue!Bury({j})
    BY <1>9, <2>1 DEF Queue!Bury
  <2> QED
    BY <2>2 DEF Queue!WQNext
<1>10. CASE st[j] = "waiting" /\ StageOf(q) = "withdrawn" /\ q.token = gr[j] /\ q.attempts = tr[j]
  <2>1. Queue!Recall(j)
    BY <1>1, <1>3, <1>10 DEF Queue!Recall
  <2> QED
    BY <2>1 DEF Queue!WQNext
<1> HIDE DEF st, gr, tr
<1> QED
  BY <1>2, <1>4, <1>5, <1>6, <1>7, <1>8, <1>9, <1>10 DEF QueueMove
LEMMA ClaimInQueue ==
  ASSUME TypeOK, NEW S \in Batches, NEW t \in Token, Fresh(t), ClaimBatch(S, t)
  PROVE  Queue!WQNext
<1> DEFINE st == [x \in Job |-> StageOf(job[x])]
           gr == [x \in Job |-> job[x].token]
           tr == [x \in Job |-> job[x].attempts]
<1>0. job \in [Job -> Row] /\ S \subseteq Eligible
  BY DEF TypeOK, StoreTypeOK, Batches
<1>1. \A x \in S : st[x] \in {"waiting", "granted"} /\ tr[x] < MaxAttempts
  <2> TAKE x \in S
  <2>1. /\ x \in Job
        /\ job[x].status \in Waiting \/ job[x].status = "running"
        /\ ~Exhausted(job[x])
    BY <1>0 DEF Eligible, Expired
  <2>2. job[x].attempts < MaxAttempts
    BY <1>0, <2>1, BoundAssumption DEF Exhausted, Row
  <2> QED
    BY <2>1, <2>2, StageIs
<1>2. \A x \in Job : gr[x] # t
  BY DEF Fresh
<1>3. \A x \in Job : /\ StageOf(job'[x]) = IF x \in S THEN "granted" ELSE st[x]
                     /\ job'[x].token = IF x \in S THEN t ELSE gr[x]
                     /\ job'[x].attempts = IF x \in S THEN tr[x] + 1 ELSE tr[x]
  <2> TAKE x \in Job
  <2>1. CASE x \in S
    <3>1. job'[x] = Claimed(job[x], t) /\ job[x] \in Row
      BY <1>0, <2>1 DEF ClaimBatch
    <3>2. Claimed(job[x], t).attempts = job[x].attempts + 1
      BY <3>1 DEF Claimed, Row
    <3>3. Claimed(job[x], t).status = "running" /\ Claimed(job[x], t).token = t
      BY <3>1, ClaimedColumns
    <3>4. StageOf(job'[x]) = "granted"
      BY <3>1, <3>3, StageIs
    <3> QED
      BY <2>1, <3>1, <3>2, <3>3, <3>4
  <2>2. CASE x \notin S
    <3>1. job'[x] = job[x]
      BY <2>2 DEF ClaimBatch
    <3> QED
      BY <2>2, <3>1
  <2> QED
    BY <2>1, <2>2
<1>4. /\ st' = [x \in Job |-> IF x \in S THEN "granted" ELSE st[x]]
      /\ gr' = [x \in Job |-> IF x \in S THEN t ELSE gr[x]]
      /\ tr' = [x \in Job |-> IF x \in S THEN tr[x] + 1 ELSE tr[x]]
  BY <1>3
<1>5. Queue!GrantBatch(S, t)
  BY <1>1, <1>2, <1>4 DEF Queue!GrantBatch
<1>6. S \in SUBSET Job
  BY <1>0 DEF Eligible
<1> QED
  BY <1>5, <1>6 DEF Queue!WQNext

LEMMA ReapInQueue ==
  ASSUME TypeOK, ReapExpiredExhausted
  PROVE  Queue!WQNext
<1> DEFINE st == [x \in Job |-> StageOf(job[x])]
           gr == [x \in Job |-> job[x].token]
           tr == [x \in Job |-> job[x].attempts]
           S  == {x \in Job : Expired(job[x]) /\ Exhausted(job[x])}
<1>0. job \in [Job -> Row] /\ "failed_terminal" \in Status
  BY DEF TypeOK, StoreTypeOK, Status, Finished
<1>1. \A x \in S : st[x] = "granted"
  BY StageIs DEF Expired
<1>2. \A x \in Job : /\ StageOf(job'[x]) = IF x \in S THEN "dead" ELSE st[x]
                     /\ job'[x].token = IF x \in S THEN NoToken ELSE gr[x]
                     /\ job'[x].attempts = tr[x]
  <2> TAKE x \in Job
  <2>1. CASE x \in S
    <3>1. job'[x] = Released(job[x], "failed_terminal") /\ job[x] \in Row
      BY <1>0, <2>1 DEF ReapExpiredExhausted
    <3>2. /\ job'[x].status = "failed_terminal" /\ job'[x].token = NoToken
          /\ job'[x].attempts = job[x].attempts
      BY <1>0, <3>1, ReleasedColumns
    <3> QED
      BY <2>1, <3>2, StageIs
  <2>2. CASE x \notin S
    <3>1. job'[x] = job[x]
      BY <2>2 DEF ReapExpiredExhausted
    <3> QED
      BY <2>2, <3>1
  <2> QED
    BY <2>1, <2>2
<1>3. /\ st' = [x \in Job |-> IF x \in S THEN "dead" ELSE st[x]]
      /\ gr' = [x \in Job |-> IF x \in S THEN NoToken ELSE gr[x]]
      /\ tr' = tr
  BY <1>2
<1> HIDE DEF S
<1>4. PICK B \in SUBSET Job : B = S
  BY DEF S
<1>5. Queue!Bury(B)
  BY <1>1, <1>3, <1>4 DEF Queue!Bury
<1> QED
  BY <1>5 DEF Queue!WQNext

(***************************************************************************)
(* The moves of one row.  An unused id has no attempts behind it, which is *)
(* what the queue says of work it has not been given.                      *)
(***************************************************************************)
UnusedIsFresh == \A j \in Job : job[j].status = "unborn" => job[j].attempts = 0

QueueInv == RowsInv /\ UnusedIsFresh

LEMMA UnusedStaysFresh ==
  ASSUME QueueInv, [Next]_vars
  PROVE  UnusedIsFresh'
<1>0. TypeOK /\ UnusedIsFresh /\ job \in [Job -> Row]
  BY DEF QueueInv, RowsInv, TypeOK, StoreTypeOK
<1>1. ASSUME NEW j \in Job, job'[j].status = "unborn"
      PROVE  job'[j].attempts = 0
  <2>1. job[j] \in Row /\ RowStep(job[j], job'[j])
    BY <1>0, NextRows
  <2>2. job[j].status = "unborn"
    BY <1>1, <2>1, UnbornIsNeverMade
  <2>3. \A k \in Key \cup {NoKey}, rec, isDue \in BOOLEAN, src \in Job \cup {NoJob} :
          Inserted(k, rec, isDue, src).status = "scheduled"
    BY InsertedColumns
  <2>4. job'[j] = job[j]
    BY <1>1, <2>1, <2>2, <2>3 DEF RowStep, Expired, Waiting
  <2> QED
    BY <1>0, <2>2, <2>4 DEF UnusedIsFresh
<1> QED
  BY <1>1 DEF UnusedIsFresh

LEMMA CompletionMoves ==
  ASSUME NEW r \in Row, r.status = "running", NEW b \in BOOLEAN
  PROVE  QueueMove(r, Succeeded(r)) /\ QueueMove(r, Failed(r, b))
<1>0. StageOf(r) = "granted" /\ r.attempts \in 0..MaxAttempts
  BY StageIs DEF Row
<1>s. {"succeeded", "failed_terminal", "scheduled", "retry_scheduled"} \subseteq Status
  BY DEF Status, Finished, Active, Waiting
<1>1. QueueMove(r, Succeeded(r))
  <2>1. CASE r.recurrent
    <3> DEFINE q == Released(r, "scheduled")
    <3>1. q \in Row /\ q.status = "scheduled" /\ q.token = NoToken
      BY <1>s, ReleasedType, ReleasedColumns
    <3>2. Succeeded(r) = [q EXCEPT !.due = FALSE, !.attempts = 0]
      BY <2>1 DEF Succeeded
    <3> HIDE DEF q
    <3>3. /\ Succeeded(r).status = "scheduled" /\ Succeeded(r).token = NoToken
          /\ Succeeded(r).attempts = 0
      BY <3>1, <3>2 DEF Row
    <3>4. StageOf(Succeeded(r)) = "waiting"
      BY <3>3, StageIs DEF Waiting
    <3> QED
      BY <1>0, <3>3, <3>4 DEF QueueMove
  <2>2. CASE ~r.recurrent
    <3>1. Succeeded(r) = Released(r, "succeeded")
      BY <2>2 DEF Succeeded
    <3>2. /\ Succeeded(r).status = "succeeded" /\ Succeeded(r).token = NoToken
          /\ Succeeded(r).attempts = r.attempts
      BY <1>s, <3>1, ReleasedColumns
    <3>3. StageOf(Succeeded(r)) = "done"
      BY <3>2, StageIs
    <3> QED
      BY <1>0, <3>2, <3>3 DEF QueueMove
  <2> QED
    BY <2>1, <2>2
<1>2. QueueMove(r, Failed(r, b))
  <2>1. CASE b /\ ~Exhausted(r)
    <3> DEFINE q == Released(r, "retry_scheduled")
    <3>1. /\ q \in Row /\ q.status = "retry_scheduled" /\ q.token = NoToken
          /\ q.attempts = r.attempts
      BY <1>s, ReleasedType, ReleasedColumns
    <3>2. Failed(r, b) = [q EXCEPT !.due = FALSE]
      BY <2>1 DEF Failed
    <3> HIDE DEF q
    <3>3. /\ Failed(r, b).status = "retry_scheduled" /\ Failed(r, b).token = NoToken
          /\ Failed(r, b).attempts = r.attempts
      BY <3>1, <3>2 DEF Row
    <3>4. StageOf(Failed(r, b)) = "waiting"
      BY <3>3, StageIs DEF Waiting
    <3>5. r.attempts < MaxAttempts
      BY <1>0, <2>1, BoundAssumption DEF Exhausted
    <3> QED
      BY <1>0, <3>3, <3>4, <3>5 DEF QueueMove
  <2>2. CASE ~(b /\ ~Exhausted(r))
    <3>1. Failed(r, b) = Released(r, "failed_terminal")
      BY <2>2 DEF Failed
    <3>2. /\ Failed(r, b).status = "failed_terminal" /\ Failed(r, b).token = NoToken
          /\ Failed(r, b).attempts = r.attempts
      BY <1>s, <3>1, ReleasedColumns
    <3>3. StageOf(Failed(r, b)) = "dead"
      BY <3>2, StageIs
    <3> QED
      BY <1>0, <3>2, <3>3 DEF QueueMove
  <2> QED
    BY <2>1, <2>2
<1> QED
  BY <1>1, <1>2

LEMMA QuietMoves ==
  ASSUME NEW r \in Row
  PROVE  /\ QueueMove(r, [r EXCEPT !.lease = LeaseSpan])
         /\ QueueMove(r, [r EXCEPT !.lease = @ - 1])
         /\ QueueMove(r, [r EXCEPT !.due = TRUE])
         /\ r.status \in Waiting => QueueMove(r, [r EXCEPT !.status = "cancelled"])
<1>1. ASSUME NEW q, q.status = r.status, q.token = r.token, q.attempts = r.attempts
      PROVE  QueueMove(r, q)
  BY <1>1 DEF QueueMove, StageOf
<1>2. /\ QueueMove(r, [r EXCEPT !.lease = LeaseSpan])
      /\ QueueMove(r, [r EXCEPT !.lease = @ - 1])
      /\ QueueMove(r, [r EXCEPT !.due = TRUE])
  BY <1>1 DEF Row
<1>3. ASSUME r.status \in Waiting
      PROVE  QueueMove(r, [r EXCEPT !.status = "cancelled"])
  <2> DEFINE q == [r EXCEPT !.status = "cancelled"]
  <2>1. q.status = "cancelled" /\ q.token = r.token /\ q.attempts = r.attempts
    BY DEF Row
  <2> HIDE DEF q
  <2>2. StageOf(q) = "withdrawn" /\ StageOf(r) = "waiting"
    BY <1>3, <2>1, StageIs
  <2>3. QueueMove(r, q)
    BY <2>1, <2>2 DEF QueueMove
  <2> QED
    BY <2>3 DEF q
<1> QED
  BY <1>2, <1>3

LEMMA StoreSeenByQueue ==
  ASSUME QueueInv, [Next]_vars
  PROVE  [Queue!WQNext]_(Queue!wqVars)
<1>0. TypeOK /\ UnusedIsFresh /\ job \in [Job -> Row] /\ \A x \in Job : Sound(job[x])
  BY DEF QueueInv, RowsInv, TypeOK, StoreTypeOK
<1>1. CASE UNCHANGED job
  BY <1>1 DEF Queue!wqVars
<1>2. ASSUME NEW w \in Worker, Loop(w)
      PROVE  [Queue!WQNext]_(Queue!wqVars)
  <2>1. CASE Reap(w)
    BY <1>0, <2>1, ReapInQueue DEF Reap
  <2>2. CASE Claim(w)
    BY <1>0, <2>2, ClaimInQueue DEF Claim
  <2> QED
    BY <1>1, <1>2, <2>1, <2>2
       DEF Loop, Start, ClaimNothing, BatchSettled, Exit, storeVars
<1>3. ASSUME NEW w \in Worker, NEW j \in Job, Execute(w, j)
      PROVE  [Queue!WQNext]_(Queue!wqVars)
  <2>0. job[j] \in Row
    BY <1>0
  <2>1. CASE Beat(w, j)
    <3>1. job' = [job EXCEPT ![j] = [job[j] EXCEPT !.lease = LeaseSpan]]
      BY <2>1 DEF Beat, Heartbeat
    <3> QED
      BY <1>0, <2>0, <3>1, QuietMoves, OneRowInQueue
  <2>2. CASE CompleteSuccess(j, lease[w])
    <3>1. job[j].status = "running" /\ job' = [job EXCEPT ![j] = Succeeded(job[j])]
      BY <2>2 DEF CompleteSuccess, Holds
    <3>2. QueueMove(job[j], Succeeded(job[j]))
      BY <2>0, <3>1, CompletionMoves
    <3> QED
      BY <1>0, <3>1, <3>2, OneRowInQueue
  <2>3. CASE CompleteFailure(j, lease[w], exec[w][j] = "retrying")
    <3> DEFINE b == exec[w][j] = "retrying"
    <3>1. /\ job[j].status = "running"
          /\ job' = [job EXCEPT ![j] = Failed(job[j], b)]
          /\ b \in BOOLEAN
      BY <2>3 DEF CompleteFailure, Holds
    <3> HIDE DEF b
    <3>2. QueueMove(job[j], Failed(job[j], b))
      BY <2>0, <3>1, CompletionMoves
    <3> QED
      BY <1>0, <3>1, <3>2, OneRowInQueue
  <2> QED
    BY <1>1, <1>3, <2>1, <2>2, <2>3
       DEF Execute, Resolve, Abort, HandlerEnds, RecordSuccess, SuccessRefused,
           SuccessErrored, RecordFailure, storeVars
<1>4. ASSUME NEW j \in Job, Environment(j)
      PROVE  [Queue!WQNext]_(Queue!wqVars)
  <2>0. job[j] \in Row /\ Sound(job[j])
    BY <1>0
  <2>1. CASE Produce(j) \/ Reprocess(j)
    <3>1. PICK k \in Key \cup {NoKey}, rec \in BOOLEAN, isDue \in BOOLEAN,
               src \in Job \cup {NoJob} : InsertedAs(j, k, rec, isDue, src)
      BY <1>0, <2>1, InsertStep
    <3> DEFINE q == Inserted(k, rec, isDue, src)
    <3>2. q.status = "scheduled" /\ q.token = NoToken /\ q.attempts = 0
      BY InsertedColumns
    <3>3. /\ job[j].status = "unborn" /\ job[j].token = NoToken
          /\ job[j].attempts = 0 /\ job' = [job EXCEPT ![j] = q]
      BY <1>0, <2>0, <3>1 DEF InsertedAs, Sound, UnusedIsFresh
    <3> HIDE DEF q
    <3>4. StageOf(q) = "waiting" /\ StageOf(job[j]) = "absent"
      BY <3>2, <3>3, StageIs DEF Waiting
    <3>5. QueueMove(job[j], q)
      BY <3>2, <3>3, <3>4 DEF QueueMove
    <3> QED
      BY <1>0, <3>3, <3>5, OneRowInQueue
  <2>2. CASE Withdraw(j)
    <3>1. /\ job[j].status \in Waiting
          /\ job' = [job EXCEPT ![j] = [job[j] EXCEPT !.status = "cancelled"]]
      BY <2>2 DEF Withdraw, Cancel
    <3> QED
      BY <1>0, <2>0, <3>1, QuietMoves, OneRowInQueue
  <2>3. CASE BecomesDue(j)
    <3>1. job' = [job EXCEPT ![j] = [job[j] EXCEPT !.due = TRUE]]
      BY <2>3 DEF BecomesDue
    <3> QED
      BY <1>0, <2>0, <3>1, QuietMoves, OneRowInQueue
  <2>4. CASE LeaseAges(j)
    <3>1. job' = [job EXCEPT ![j] = [job[j] EXCEPT !.lease = @ - 1]]
      BY <2>4 DEF LeaseAges
    <3> QED
      BY <1>0, <2>0, <3>1, QuietMoves, OneRowInQueue
  <2> QED
    BY <1>4, <2>1, <2>2, <2>3, <2>4 DEF Environment, TimePasses
<1> QED
  BY <1>1, <1>2, <1>3, <1>4 DEF Next, vars

(***************************************************************************)
(* Workers that crash, hang, overrun their leases and race for rows still  *)
(* make of the table a plain queue: work is granted at most max_attempts   *)
(* times between two completions, and only a new grant or a burial         *)
(* revokes a grant.                                                        *)
(***************************************************************************)
THEOREM WorkersImplementQueue == Spec => ImplementsWorkQueue
<1>1. Init => Queue!WQInit
  BY StageIs DEF Init, StoreInit, Unborn, Queue!WQInit
<1>2. Init => QueueInv
  <2>1. Init => RowsInv
    BY InitType, InitSound DEF RowsInv
  <2>2. Init => UnusedIsFresh
    BY DEF UnusedIsFresh, Init, StoreInit, Unborn
  <2> QED
    BY <2>1, <2>2 DEF QueueInv
<1>3. QueueInv /\ [Next]_vars => QueueInv'
  <2> SUFFICES ASSUME QueueInv, [Next]_vars
               PROVE  QueueInv'
    OBVIOUS
  <2>1. RowsInv'
    BY NextType, RowsSound DEF QueueInv, RowsInv
  <2>2. UnusedIsFresh'
    BY UnusedStaysFresh
  <2> QED
    BY <2>1, <2>2 DEF QueueInv
<1> QED
  BY <1>1, <1>2, <1>3, StoreSeenByQueue, PTL
     DEF Spec, ImplementsWorkQueue, Queue!WQSpec
=============================================================================
