----------------------------- MODULE JobWorker ------------------------------
(***************************************************************************)
(* The job workers (JobWorker.runOnce / runForever / executeJob) running   *)
(* against the shared job table, with the producers and the reprocessing   *)
(* capability as their environment.                                        *)
(*                                                                         *)
(* A worker reaps, claims a batch under one fresh lease token, executes    *)
(* the jobs of the batch concurrently (Promise.all) and loops.  Every      *)
(* await is a point where other workers, timers and the clock may step in, *)
(* so each repository call is a step of its own.                           *)
(***************************************************************************)
EXTENDS JobStore

CONSTANT Worker   \* worker processes

VARIABLES
  phase,   \* where runForever of the worker is
  lease,   \* the lease token of its current batch
  exec     \* exec[w][j]: where executeJob of job j is in worker w

vars == <<job, deadLetter, phase, lease, exec>>

(***************************************************************************)
(* Steps of executeJob.  "aborted": the handler still runs but its signal  *)
(* is aborted (timeout or lease lost).  "completing", "retrying" and       *)
(* "burying": the repository call completeSuccess, completeFailure with    *)
(* retryable true, completeFailure with retryable false is on its way.     *)
(* "rejected": as "burying", for a job no handler is registered for.       *)
(***************************************************************************)
Handling   == {"handling", "aborted"}
Failing    == {"retrying", "burying", "rejected"}
Persisting == {"completing"} \cup Failing
Step       == {"idle", "claimed"} \cup Handling \cup Persisting
Phase      == {"down", "reap", "claim", "batch"}

IdleBatch == [j \in Job |-> "idle"]

TypeOK ==
  /\ StoreTypeOK
  /\ phase \in [Worker -> Phase]
  /\ lease \in [Worker -> Token \cup {NoToken}]
  /\ exec \in [Worker -> [Job -> Step]]

Init ==
  /\ StoreInit
  /\ phase = [w \in Worker |-> "down"]
  /\ lease = [w \in Worker |-> NoToken]
  /\ exec = [w \in Worker |-> IdleBatch]

workerVars == <<phase, lease, exec>>

(***************************************************************************)
(* randomUUID(): a token no row and no worker still refers to.             *)
(***************************************************************************)
Fresh(t) ==
  /\ \A j \in Job : job[j].token # t
  /\ \A w \in Worker : lease[w] # t

Goto(w, p)    == phase' = [phase EXCEPT ![w] = p]
Goes(w, j, s) == exec' = [exec EXCEPT ![w][j] = s]

-----------------------------------------------------------------------------
(***************************************************************************)
(* runForever and runOnce.                                                 *)
(***************************************************************************)
Start(w) ==
  /\ phase[w] = "down"
  /\ Goto(w, "reap")
  /\ UNCHANGED <<job, deadLetter, lease, exec>>

Reap(w) ==
  /\ phase[w] = "reap"
  /\ ReapExpiredExhausted
  /\ Goto(w, "claim")
  /\ UNCHANGED <<lease, exec>>

Claim(w) ==
  /\ phase[w] = "claim"
  /\ \E S \in Batches, t \in Token :
       /\ S # {}
       /\ Fresh(t)
       /\ ClaimBatch(S, t)
       /\ lease' = [lease EXCEPT ![w] = t]
       /\ exec' = [exec EXCEPT ![w] = [j \in Job |-> IF j \in S THEN "claimed" ELSE "idle"]]
  /\ Goto(w, "batch")

(* An empty claim: the worker sleeps and loops. *)
ClaimNothing(w) ==
  /\ phase[w] = "claim"
  /\ Eligible = {}
  /\ Goto(w, "reap")
  /\ UNCHANGED <<job, deadLetter, lease, exec>>

(* Promise.all resolved. *)
BatchSettled(w) ==
  /\ phase[w] = "batch"
  /\ exec[w] = IdleBatch
  /\ Goto(w, "reap")
  /\ lease' = [lease EXCEPT ![w] = NoToken]
  /\ UNCHANGED <<job, deadLetter, exec>>

(***************************************************************************)
(* The process ends: killed, stopped by a signal, or a repository call     *)
(* rejected where nothing catches it (reap, claim, persistFailure).  What  *)
(* it held stays leased in the table.                                      *)
(***************************************************************************)
Exit(w) ==
  /\ phase[w] # "down"
  /\ Goto(w, "down")
  /\ lease' = [lease EXCEPT ![w] = NoToken]
  /\ exec' = [exec EXCEPT ![w] = IdleBatch]
  /\ UNCHANGED storeVars

-----------------------------------------------------------------------------
(***************************************************************************)
(* executeJob.                                                             *)
(***************************************************************************)
(* registry.resolve finds the handler or throws; only then timers start. *)
Resolve(w, j) ==
  /\ exec[w][j] = "claimed"
  /\ \/ Goes(w, j, "handling")
     \/ Goes(w, j, "rejected")
  /\ UNCHANGED <<job, deadLetter, phase, lease>>

(* setInterval: renews the lease while the row still carries the token. *)
Beat(w, j) ==
  /\ exec[w][j] \in (Handling \cup Persisting) \ {"rejected"}
  /\ Heartbeat(j, lease[w])
  /\ UNCHANGED workerVars

(***************************************************************************)
(* controller.abort(): the handler timed out, the heartbeat found the      *)
(* lease lost, or the heartbeat query itself was rejected.                 *)
(***************************************************************************)
Abort(w, j) ==
  /\ exec[w][j] = "handling"
  /\ Goes(w, j, "aborted")
  /\ UNCHANGED <<job, deadLetter, phase, lease>>

(***************************************************************************)
(* The handler returned or threw.  throwIfAborted turns a late return into *)
(* the (retryable) abort reason; a thrown error carries its own verdict.   *)
(***************************************************************************)
HandlerEnds(w, j) ==
  /\ \/ exec[w][j] = "handling" /\ Goes(w, j, "completing")
     \/ exec[w][j] \in Handling /\ Goes(w, j, "retrying")
     \/ exec[w][j] \in Handling /\ Goes(w, j, "burying")
  /\ UNCHANGED <<job, deadLetter, phase, lease>>

(* completeSuccess returned the row. *)
RecordSuccess(w, j) ==
  /\ exec[w][j] = "completing"
  /\ CompleteSuccess(j, lease[w])
  /\ Goes(w, j, "idle")
  /\ UNCHANGED <<phase, lease>>

(* completeSuccess returned null: leaseError(), which is retryable. *)
SuccessRefused(w, j) ==
  /\ exec[w][j] = "completing"
  /\ ~Holds(lease[w], j)
  /\ Goes(w, j, "retrying")
  /\ UNCHANGED <<job, deadLetter, phase, lease>>

(***************************************************************************)
(* completeSuccess was rejected by the driver, before or after the         *)
(* statement took effect: an error without retryable, hence a burial.      *)
(***************************************************************************)
SuccessErrored(w, j) ==
  /\ exec[w][j] = "completing"
  /\ \/ CompleteSuccess(j, lease[w])
     \/ UNCHANGED storeVars
  /\ Goes(w, j, "burying")
  /\ UNCHANGED <<phase, lease>>

(* persistFailure: completeFailure matched the row, or matched nothing. *)
RecordFailure(w, j) ==
  /\ exec[w][j] \in Failing
  /\ \/ CompleteFailure(j, lease[w], exec[w][j] = "retrying")
     \/ ~Holds(lease[w], j) /\ UNCHANGED storeVars
  /\ Goes(w, j, "idle")
  /\ UNCHANGED <<phase, lease>>

-----------------------------------------------------------------------------
(***************************************************************************)
(* The environment of the workers: producers, cancellation, governed       *)
(* reprocessing and time.                                                  *)
(***************************************************************************)
Produce(j) ==
  /\ \E k \in Key \cup {NoKey}, rec, isDue \in BOOLEAN : Enqueue(j, k, rec, isDue)
  /\ UNCHANGED workerVars

Reprocess(j) ==
  /\ \E src \in Job : RescheduleFromTerminal(src, j)
  /\ UNCHANGED workerVars

Withdraw(j) == Cancel(j) /\ UNCHANGED workerVars

TimePasses(j) == (BecomesDue(j) \/ LeaseAges(j)) /\ UNCHANGED workerVars

Loop(w) ==
  \/ Start(w)
  \/ Reap(w)
  \/ Claim(w)
  \/ ClaimNothing(w)
  \/ BatchSettled(w)
  \/ Exit(w)

Execute(w, j) ==
  \/ Resolve(w, j)
  \/ Beat(w, j)
  \/ Abort(w, j)
  \/ HandlerEnds(w, j)
  \/ RecordSuccess(w, j)
  \/ SuccessRefused(w, j)
  \/ SuccessErrored(w, j)
  \/ RecordFailure(w, j)

Environment(j) ==
  \/ Produce(j)
  \/ Reprocess(j)
  \/ Withdraw(j)
  \/ TimePasses(j)

Next ==
  \/ \E w \in Worker : Loop(w)
  \/ \E w \in Worker, j \in Job : Execute(w, j)
  \/ \E j \in Job : Environment(j)

Spec == Init /\ [][Next]_vars

(***************************************************************************)
(* Fairness.  A started process keeps running its event loop, handlers     *)
(* eventually return once awaited, the clock advances and the platform     *)
(* restarts an ended process.  Processes may still end again and again;    *)
(* strong fairness says only that they do not forever end just before the  *)
(* reap or the claim.                                                      *)
(***************************************************************************)
Fairness ==
  /\ \A w \in Worker :
       /\ WF_vars(Start(w))
       /\ SF_vars(Reap(w))
       /\ SF_vars(Claim(w))
       /\ WF_vars(ClaimNothing(w))
       /\ WF_vars(BatchSettled(w))
  /\ \A w \in Worker, j \in Job :
       /\ WF_vars(Resolve(w, j))
       /\ WF_vars(HandlerEnds(w, j))
       /\ WF_vars(RecordSuccess(w, j) \/ SuccessRefused(w, j))
       /\ WF_vars(RecordFailure(w, j))
  /\ \A j \in Job : WF_vars(TimePasses(j))

FairSpec == Spec /\ Fairness
-----------------------------------------------------------------------------
(***************************************************************************)
(* Safety.                                                                 *)
(***************************************************************************)
Owner(w, j) == exec[w][j] # "idle" /\ Holds(lease[w], j)

(* However claims, expiries and restarts interleave, at most one worker    *)
(* can still move the row of a job: SKIP LOCKED plus the token test keep   *)
(* a superseded executeJob from completing its successor's attempt.        *)
AtMostOneOwner ==
  \A j \in Job : \A w1, w2 \in Worker : Owner(w1, j) /\ Owner(w2, j) => w1 = w2

(* No row is stranded: a waiting row always has an attempt left, so the    *)
(* claim can pick it (an exhausted waiting row would match neither the     *)
(* claim nor the reaper, for ever).                                        *)
NoStrandedRow == \A j \in Job : job[j].status \in Waiting => ~Exhausted(job[j])

(* The lease columns are set exactly while the row runs, so no statement   *)
(* ever trips ck_jobs_jobs_lease_lifecycle.                                *)
LeaseWhileRunning ==
  \A j \in Job : /\ job[j].status = "running" <=> job[j].token # NoToken
                 /\ job[j].status # "running" => job[j].lease = 0

(* Every terminal failure, whichever path made it (handler verdict,        *)
(* unknown handler, lost success reply, exhausted lease), is quarantined,  *)
(* and nothing else is.                                                    *)
TerminalCaptured == deadLetter = {j \in Job : job[j].status = "failed_terminal"}

(* Enqueue, recurrence and governed replay race for a schedule key; at     *)
(* most one active row has it.                                             *)
SingletonKey ==
  \A i, j \in Job : /\ job[i].key = job[j].key /\ job[i].key # NoKey
                    /\ job[i].status \in Active /\ job[j].status \in Active
                    => i = j

(* A replay comes from a job that is still failed_terminal, inherits its   *)
(* schedule, and is the only one of that failure.                          *)
ReplayLineage ==
  \A i, j \in Job : job[i].origin = j =>
    /\ job[j].status = "failed_terminal"
    /\ job[i].key = job[j].key /\ job[i].recurrent = job[j].recurrent
    /\ \A k \in Job : job[k].origin = j => k = i

(***************************************************************************)
(* Action properties.                                                      *)
(***************************************************************************)
(* While a lease is unexpired, only its owner's completeSuccess or         *)
(* completeFailure takes the row out of the attempt.                       *)
LiveLeaseRespected ==
  [][\A j \in Job :
       /\ job[j].status = "running" /\ job[j].lease > 0
       /\ job'[j].token # job[j].token
       => \E w \in Worker : Owner(w, j) /\ exec[w][j] \in Persisting]_vars

(* A job completes (one-shot success, or a recurrence rearmed) only in the *)
(* step in which the owner of the current attempt reports a handler that   *)
(* returned without being aborted.                                         *)
SuccessIsEarned ==
  [][\A j \in Job :
       /\ job[j].status = "running"
       /\ job'[j].status \in {"succeeded", "scheduled"}
       => \E w \in Worker : Owner(w, j) /\ exec[w][j] = "completing"]_vars

(* succeeded, failed_terminal and cancelled are final: a replay is a new   *)
(* row, never a resurrection.                                              *)
FinishedForever ==
  [][\A j \in Job : job[j].status \in Finished => job'[j] = job[j]]_vars

(* A completion needs a lease that is still active.                        *)
CompletionNeedsActiveLease ==
  [][\A w \in Worker, j \in Job :
       /\ Owner(w, j)
       /\ exec[w][j] \in Persisting
       /\ exec'[w][j] # exec[w][j]
       /\ job'[j].status # "running"
       => job[j].lease > 0]_vars

(***************************************************************************)
(* The table with its leases and the workers implement the plain queue of  *)
(* WorkQueue: a token is a grant, an expired lease is still one.           *)
(***************************************************************************)
StageOf(r) ==
  CASE r.status = "unborn" -> "absent"
    [] r.status \in Waiting -> "waiting"
    [] r.status = "running" -> "granted"
    [] r.status = "succeeded" -> "done"
    [] r.status = "failed_terminal" -> "dead"
    [] r.status = "cancelled" -> "withdrawn"

Queue == INSTANCE WorkQueue WITH
  Work <- Job, Grant <- Token, NoGrant <- NoToken, MaxTries <- MaxAttempts,
  stage <- [j \in Job |-> StageOf(job[j])],
  grant <- [j \in Job |-> job[j].token],
  tries <- [j \in Job |-> job[j].attempts]

(* Every step of workers, clock and producers is a step of the plain queue *)
(* or invisible to it.                                                     *)
ImplementsWorkQueue == Queue!WQSpec

(***************************************************************************)
(* Liveness.                                                               *)
(***************************************************************************)
(* No attempt lasts for ever: every granted lease token is eventually      *)
(* given back or taken over, also when its worker died.                    *)
EveryAttemptEnds ==
  \A j \in Job, t \in Token : job[j].token = t ~> job[j].token # t

(* A one-shot job that was accepted eventually finishes.                   *)
OneShotSettles ==
  \A j \in Job : job[j].status \in Active /\ ~job[j].recurrent
                 ~> job[j].status \in Finished
=============================================================================
