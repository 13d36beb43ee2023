---------------------------- MODULE DlqReprocess -----------------------------
(***************************************************************************)
(* DlqMessageReprocessor and DlqJobReprocessor on a repository whose       *)
(* statements take effect one by one, and the operators' decisions.  A     *)
(* process is one request: it looks at an entry, and later reprocesses or  *)
(* decides it with the version it saw.  Between two awaits anybody may     *)
(* move and claims may expire; a process may end at every await.           *)
(***************************************************************************)
EXTENDS DlqStore, FiniteSets

CONSTANTS
  Entry,     \* ids of DLQ entries
  Message,   \* those with source_kind = "message"; the others are jobs
  Process,   \* requests in progress
  NoEntry,
  MaxCopies  \* bound of the model: effects stop counting here

ASSUME EntryAssumption == Message \subseteq Entry /\ NoEntry \notin Entry
ASSUME ProcessAssumption == IsFiniteSet(Process)
ASSUME CopiesAssumption == MaxCopies \in Nat \ {0}

VARIABLES
  row,     \* the table
  effect,  \* messages the broker accepted, or child jobs, of an entry
  proc     \* proc[p]: where the request is

vars == <<row, effect, proc>>

At == {"idle", "looked", "requesting", "claiming", "working", "completing", "failing", "down"}

(* What a request saw of its entry, and the token of its claim. *)
Proc == [at      : At,
         entry   : Entry \cup {NoEntry},
         version : Nat,
         saw     : Status,
         token   : Token \cup {NoToken}]

Idle == [at |-> "idle", entry |-> NoEntry, version |-> 0, saw |-> "absent", token |-> NoToken]

TypeOK ==
  /\ row \in [Entry -> Row]
  /\ effect \in [Entry -> 0..MaxCopies]
  /\ proc \in [Process -> Proc]

Init ==
  /\ row = [e \in Entry |-> Absent]
  /\ effect = [e \in Entry |-> 0]
  /\ proc = [p \in Process |-> Idle]

Mine(p) == row[proc[p].entry]

(* The request goes on at s, or is over. *)
Continue(p, s) == proc' = [proc EXCEPT ![p].at = s]
End(p) == proc' = [proc EXCEPT ![p] = Idle]

Write(p, r) == row' = [row EXCEPT ![proc[p].entry] = r]

-----------------------------------------------------------------------------
(* Ingestion or the capture trigger inserts; a known source changes nothing. *)
Quarantine(e) ==
  /\ row[e] = Absent
  /\ row' = [row EXCEPT ![e] = Quarantined]
  /\ UNCHANGED <<effect, proc>>

Look(p, e) ==
  /\ proc[p].at = "idle" /\ row[e] # Absent
  /\ proc' = [proc EXCEPT ![p] = [Idle EXCEPT !.at = "looked", !.entry = e,
                                              !.version = row[e].version,
                                              !.saw = row[e].status]]
  /\ UNCHANGED <<row, effect>>

(* reprocess() reads the entry again.  A pending entry is resumed if it is *)
(* the version seen; the version of a quarantined one is left to the       *)
(* request statement; everything else is a conflict.                       *)
Reprocess(p) ==
  /\ proc[p].at = "looked"
  /\ \/ Mine(p).status = "quarantined" /\ Continue(p, "requesting")
     \/ /\ Mine(p).status = "reprocess_pending" /\ Mine(p).version = proc[p].version
        /\ Continue(p, "claiming")
     \/ /\ Mine(p).status # "quarantined"
        /\ Mine(p).status # "reprocess_pending" \/ Mine(p).version # proc[p].version
        /\ End(p)
  /\ UNCHANGED <<row, effect>>

Request(p) ==
  /\ proc[p].at = "requesting"
  /\ IF CanRequest(Mine(p), proc[p].version)
     THEN Write(p, Requested(Mine(p))) /\ Continue(p, "claiming")
     ELSE UNCHANGED row /\ End(p)
  /\ UNCHANGED effect

Fresh(t) == (\A e \in Entry : row[e].claim # t) /\ (\A q \in Process : proc[q].token # t)

(* Mutant of Claim: the work begins whatever the statement returned. *)
ClaimUnchecked(p, t) ==
  /\ proc[p].at = "claiming" /\ Fresh(t)
  /\ IF CanClaim(Mine(p)) THEN Write(p, Claimed(Mine(p), t)) ELSE UNCHANGED row
  /\ proc' = [proc EXCEPT ![p].at = "working", ![p].token = t]
  /\ UNCHANGED effect

Claim(p, t) ==
  /\ proc[p].at = "claiming" /\ Fresh(t)
  /\ IF CanClaim(Mine(p))
     THEN /\ Write(p, Claimed(Mine(p), t))
          /\ proc' = [proc EXCEPT ![p].at = "working", ![p].token = t]
     ELSE UNCHANGED row /\ End(p)
  /\ UNCHANGED effect

(* publish, or rescheduleFromTerminal.  The broker takes every copy; the   *)
(* unique lineage index keeps one child per entry.  An accepted effect may *)
(* still be reported as an error.                                          *)
TakeEffect(p) ==
  /\ proc[p].at = "working"
  /\ effect' = [effect EXCEPT ![proc[p].entry] =
                  IF proc[p].entry \in Message /\ @ < MaxCopies THEN @ + 1
                  ELSE IF @ = 0 THEN 1 ELSE @]
  /\ \E s \in {"completing", "failing"} : Continue(p, s)
  /\ UNCHANGED row

(* Mutant of NoEffect: an unconfirmed publication counts as done. *)
NoEffectAccepted(p) ==
  /\ proc[p].at = "working"
  /\ Continue(p, "completing")
  /\ UNCHANGED <<row, effect>>

(* The source is gone or not the one quarantined, the handler unknown, the *)
(* broker or the schedule key says no.                                     *)
NoEffect(p) ==
  /\ proc[p].at = "working"
  /\ Continue(p, "failing")
  /\ UNCHANGED <<row, effect>>

(* completeReprocess resolves; its reply may be lost. *)
Complete(p) ==
  /\ proc[p].at = "completing"
  /\ CanComplete(Mine(p), proc[p].token)
  /\ Write(p, Completed(Mine(p)))
  /\ End(p) \/ Continue(p, "failing")
  /\ UNCHANGED effect

(* Mutant of CompleteFails: a refused completion is simply reported. *)
CompleteFailsUnrecorded(p) ==
  /\ proc[p].at = "completing"
  /\ End(p)
  /\ UNCHANGED <<row, effect>>

(* It matches no row, or fails before it took effect. *)
CompleteFails(p) ==
  /\ proc[p].at = "completing"
  /\ Continue(p, "failing")
  /\ UNCHANGED <<row, effect>>

(* recordFailedAttempt: failReprocess does not look at the expiry. *)
RecordFailure(p) ==
  /\ proc[p].at = "failing"
  /\ IF Owns(Mine(p), proc[p].token) THEN Write(p, AttemptFailed(Mine(p))) ELSE UNCHANGED row
  /\ End(p)
  /\ UNCHANGED effect

(* The catch of recordFailedAttempt: best effort only. *)
FailureLost(p) ==
  /\ proc[p].at = "failing"
  /\ End(p)
  /\ UNCHANGED <<row, effect>>

(* The process ends without an answer; another takes its place. *)
Crash(p) ==
  /\ proc[p].at \notin {"idle", "down"}
  /\ proc' = [proc EXCEPT ![p] = [Idle EXCEPT !.at = "down"]]
  /\ UNCHANGED <<row, effect>>

Restart(p) == proc[p].at = "down" /\ End(p) /\ UNCHANGED <<row, effect>>

(* The request or the claim is answered by a driver error, taken or not:  *)
(* both are outside the try, nothing is recorded.                          *)
StatementErrored(p) ==
  /\ proc[p].at \in {"requesting", "claiming"}
  /\ \/ UNCHANGED row
     \/ proc[p].at = "requesting" /\ CanRequest(Mine(p), proc[p].version)
        /\ Write(p, Requested(Mine(p)))
     \/ /\ proc[p].at = "claiming" /\ CanClaim(Mine(p))
        /\ \E t \in Token : Fresh(t) /\ Write(p, Claimed(Mine(p), t))
  /\ End(p)
  /\ UNCHANGED effect

(* resolve and discard by an operator. *)
Decide(p, s) ==
  /\ proc[p].at = "looked"
  /\ IF CanDecide(Mine(p), proc[p].version) THEN Write(p, Decided(Mine(p), s)) ELSE UNCHANGED row
  /\ End(p)
  /\ UNCHANGED effect

ClaimExpires(e) ==
  /\ row[e].live
  /\ row' = [row EXCEPT ![e].live = FALSE]
  /\ UNCHANGED <<effect, proc>>

CooldownPasses(e) ==
  /\ row[e] # Absent /\ ~row[e].ready
  /\ row' = [row EXCEPT ![e].ready = TRUE]
  /\ UNCHANGED <<effect, proc>>

-----------------------------------------------------------------------------
Step(p) ==
  \/ Reprocess(p) \/ Request(p) \/ (\E t \in Token : Claim(p, t))
  \/ TakeEffect(p) \/ NoEffect(p) \/ Complete(p) \/ CompleteFails(p)
  \/ RecordFailure(p)

Lost(p) == FailureLost(p) \/ StatementErrored(p) \/ Crash(p) \/ Restart(p)

Time(e) == ClaimExpires(e) \/ CooldownPasses(e)

Next ==
  \/ \E e \in Entry : Quarantine(e) \/ Time(e)
  \/ \E p \in Process :
       \/ \E e \in Entry : Look(p, e)
       \/ \E s \in {"resolved", "discarded"} : Decide(p, s)
       \/ Step(p) \/ Lost(p)

Spec == Init /\ [][Next]_vars

(***************************************************************************)
(* Requests go on, time passes, and for every entry somebody keeps coming  *)
(* back to reprocess it: the most an operator can do.                      *)
(***************************************************************************)
Fairness ==
  /\ \A e \in Entry : WF_vars(Time(e))
  /\ \A p \in Process :
       /\ WF_vars(Step(p)) /\ WF_vars(Restart(p)) /\ SF_vars(Reprocess(p))
       /\ \A e \in Entry : SF_vars(Look(p, e))

FairSpec == Spec /\ Fairness

-----------------------------------------------------------------------------
(* An entry resolved by the reprocessor has had its effect: a message was  *)
(* accepted by the broker, or a child job inserted, before                 *)
(* completeReprocess wrote the resolution.                                 *)
ResolvedAfterEffect == \A e \in Entry : row[e].by = "reprocessor" => effect[e] > 0

(* Copies of a message are bounded by counted attempts, whatever fails,    *)
(* expires or is taken over; so they never exceed max_reprocess_attempts.  *)
(* A child job exists at most once.                                        *)
EffectsAreClaims ==
  \A e \in Entry : effect[e] <= row[e].count /\ (e \notin Message => effect[e] <= 1)

(* An entry that waits for an attempt has one left: none is stuck with its *)
(* budget spent but not exhausted.                                         *)
AttemptsLeft ==
  \A e \in Entry :
    row[e].status \in {"quarantined", "reprocess_pending"} => row[e].count < MaxReprocess

(* The version is a witness: while it is the one a request saw, the entry  *)
(* is in the state the request saw, so If-Match protects a decision.       *)
VersionIsWitness ==
  \A p \in Process :
    (proc[p].entry # NoEntry /\ Mine(p).version = proc[p].version) => Mine(p).status = proc[p].saw

(* While a claim is live nobody but the process that drew its token moves  *)
(* the entry out of it.                                                    *)
LiveClaimRespected ==
  [][\A e \in Entry :
       (row[e].live /\ row'[e].claim # row[e].claim)
         => \E p \in Process : proc[p].entry = e /\ proc[p].token = row[e].claim]_vars

(* A request that answers, with a result or an error, leaves no claim      *)
(* behind: its entry is settled, or claimed by somebody else.  The         *)
(* exception is the failure that could not be recorded.                    *)
AnswerSettles ==
  [][\A p \in Process :
       /\ proc[p].token # NoToken
       /\ proc'[p].at = "idle"
       /\ ~FailureLost(p)
       => row'[proc[p].entry].claim # proc[p].token]_vars

(* The statements implement the documented state machine with its budget.  *)
Contract == INSTANCE DlqContract WITH
  status <- [e \in Entry |-> row[e].status],
  attempts <- [e \in Entry |-> row[e].count]

ImplementsContract == Contract!ContractSpec

(* The comments of both reprocessors: an entry whose failure could not be  *)
(* recorded is recovered by the expiry of its claim.                       *)
Orphaned(e) ==
  /\ row[e].status = "reprocessing"
  /\ \A p \in Process : proc[p].token # row[e].claim

RecoveredByExpiry ==
  \A e \in Entry :
    (Orphaned(e) /\ ~row[e].live) ~> row[e].status # "reprocessing"
=============================================================================
