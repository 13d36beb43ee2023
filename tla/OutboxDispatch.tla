--------------------------- MODULE OutboxDispatch ---------------------------
(***************************************************************************)
(* The transactional outbox (outbox.events) and the recurring job that     *)
(* drains it into the broker (createOutboxDispatcherHandler).              *)
(*                                                                         *)
(* The job itself is an item of WorkQueue, which JobWorker implements: a   *)
(* grant is one attempt, i.e. one invocation of the handler.  Each         *)
(* invocation claims events once, so its claim token and its grant are one *)
(* value here.  A grant can be revoked while the handler goes on; such     *)
(* handlers and their successor share the events and the broker.           *)
(***************************************************************************)
EXTENDS WorkQueue, FiniteSets

CONSTANTS
  Event,      \* ids of outbox rows
  NoEvent,
  Poison,     \* rows the outbox contract accepts and the envelope refuses
  BatchSize,  \* OUTBOX_DISPATCH_BATCH_SIZE
  MaxCount    \* bound of the model: counters stop here

ASSUME EventAssumption == NoEvent \notin Event /\ Poison \subseteq Event
ASSUME OneJobAssumption == \E x \in Work : Work = {x}
ASSUME CountAssumption ==
  BatchSize \in Nat \ {0} /\ MaxCount \in Nat \ {0} /\ MaxTries \in Nat

VARIABLES
  event,   \* the table outbox.events
  copies,  \* how often the broker accepted the message of an event
  run      \* run[g]: the handler invocation under grant g

vars == <<stage, grant, tries, event, copies, run>>

dispatch == CHOOSE x \in Work : TRUE

(***************************************************************************)
(* A row: "delayed" until available_at; claim is claim_token; stale says   *)
(* that claimed_at is at least the claim TTL ago.                          *)
(***************************************************************************)
EventRow == [state    : {"absent", "delayed", "pending", "published"},
             claim    : Grant \cup {NoGrant},
             stale    : BOOLEAN,
             attempts : 0..MaxCount]

(***************************************************************************)
(* An invocation: where it is, the claimed events still to handle, the one *)
(* in hand, the first failure of the batch and its AbortSignal.            *)
(***************************************************************************)
At == {"off", "claiming", "looping", "publishing", "sent", "marking", "reporting"}
Verdict == {"none", "retryable", "fatal"}
Run == [at      : At,
        todo    : SUBSET Event,
        cur     : Event \cup {NoEvent},
        failure : Verdict,
        aborted : BOOLEAN]

Off == [at |-> "off", todo |-> {}, cur |-> NoEvent, failure |-> "none", aborted |-> FALSE]

TypeOK ==
  /\ WQTypeOK
  /\ event \in [Event -> EventRow]
  /\ copies \in [Event -> 0..MaxCount]
  /\ run \in [Grant -> Run]

(* The job row is seeded by the migration. *)
Init ==
  /\ stage = [x \in Work |-> "waiting"]
  /\ grant = [x \in Work |-> NoGrant]
  /\ tries = [x \in Work |-> 0]
  /\ event = [e \in Event |-> [state |-> "absent", claim |-> NoGrant,
                               stale |-> FALSE, attempts |-> 0]]
  /\ copies = [e \in Event |-> 0]
  /\ run = [g \in Grant |-> Off]

Bump(n) == IF n < MaxCount THEN n + 1 ELSE n

-----------------------------------------------------------------------------
(***************************************************************************)
(* The outbox table: append, claim and mark are single statements.         *)
(***************************************************************************)
Append(e) ==
  /\ event[e].state = "absent"
  /\ \E s \in {"pending", "delayed"} : event' = [event EXCEPT ![e].state = s]
  /\ UNCHANGED <<stage, grant, tries, copies, run>>

BecomesAvailable(e) ==
  /\ event[e].state = "delayed"
  /\ event' = [event EXCEPT ![e].state = "pending"]
  /\ UNCHANGED <<stage, grant, tries, copies, run>>

ClaimAges(e) ==
  /\ event[e].claim # NoGrant /\ ~event[e].stale
  /\ event' = [event EXCEPT ![e].stale = TRUE]
  /\ UNCHANGED <<stage, grant, tries, copies, run>>

(* Mutant of Claimable: forgets the TTL. *)
ClaimableUnclaimed == {e \in Event : event[e].state = "pending" /\ event[e].claim = NoGrant}

Claimable ==
  {e \in Event : /\ event[e].state = "pending"
                 /\ event[e].claim = NoGrant \/ event[e].stale}

ClaimedBatches ==
  {S \in SUBSET Claimable :
      \/ S = Claimable /\ Cardinality(S) <= BatchSize
      \/ Cardinality(S) = BatchSize}

ClaimRows(S, g) ==
  event' = [e \in Event |->
              IF e \in S
              THEN [event[e] EXCEPT !.claim = g, !.stale = FALSE, !.attempts = Bump(@)]
              ELSE event[e]]

(* Mutant of MarkPublished: without claim_token in the WHERE clause. *)
MarkAnyClaim(e, g) ==
  /\ event[e].state = "pending"
  /\ event' = [event EXCEPT ![e].state = "published", ![e].claim = NoGrant, ![e].stale = FALSE]

MarkPublished(e, g) ==
  /\ event[e].claim = g /\ event[e].state = "pending"
  /\ event' = [event EXCEPT ![e].state = "published", ![e].claim = NoGrant, ![e].stale = FALSE]

-----------------------------------------------------------------------------
(***************************************************************************)
(* The handler.                                                            *)
(***************************************************************************)
Moves(g, r) == run' = [run EXCEPT ![g] = r]

(* The worker starts an attempt; the claim token is a new one. *)
Attempt(g) ==
  /\ run[g].at = "off"
  /\ \A e \in Event : event[e].claim # g
  /\ GrantBatch(Work, g)
  /\ Moves(g, [Off EXCEPT !.at = "claiming"])
  /\ UNCHANGED <<event, copies>>

ThrowsIn(r, verdict) == [r EXCEPT !.at = "reporting", !.todo = {}, !.cur = NoEvent,
                                  !.failure = verdict]

ClaimEvents(g) ==
  /\ run[g].at = "claiming" /\ ~run[g].aborted
  /\ \E S \in ClaimedBatches :
       /\ ClaimRows(S, g)
       /\ Moves(g, [run[g] EXCEPT !.at = "looping", !.todo = S])
  /\ UNCHANGED <<stage, grant, tries, copies>>

(***************************************************************************)
(* The claim query is rejected, possibly after it took effect: a driver    *)
(* error, which carries no retryable.  Aborted before the claim: the abort *)
(* reason is retryable.                                                    *)
(***************************************************************************)
ClaimFails(g) ==
  /\ run[g].at = "claiming"
  /\ \/ /\ (\E S \in ClaimedBatches : ClaimRows(S, g)) \/ UNCHANGED event
        /\ Moves(g, ThrowsIn(run[g], "fatal"))
     \/ /\ run[g].aborted /\ UNCHANGED event
        /\ Moves(g, ThrowsIn(run[g], "retryable"))
  /\ UNCHANGED <<stage, grant, tries, copies>>

(* catch: a failure is remembered if it is the first, unless aborted. *)
Noted(r, verdict) ==
  [r EXCEPT !.at = "looping", !.cur = NoEvent,
            !.failure = IF @ = "none" THEN verdict ELSE @]

(* throwIfAborted at the head of the loop, or the loop ran out of events. *)
LoopEnds(g) ==
  /\ run[g].at = "looping"
  /\ \/ run[g].todo = {} /\ Moves(g, [run[g] EXCEPT !.at = "reporting"])
     \/ run[g].todo # {} /\ run[g].aborted /\ Moves(g, ThrowsIn(run[g], "retryable"))
  /\ UNCHANGED <<stage, grant, tries, event, copies>>

(* Mutant of NextEvent: leaves the event in the batch it iterates over. *)
NextEventAgain(g) ==
  /\ run[g].at = "looping" /\ ~run[g].aborted
  /\ \E e \in run[g].todo \ Poison : Moves(g, [run[g] EXCEPT !.at = "publishing", !.cur = e])
  /\ UNCHANGED <<stage, grant, tries, event, copies>>

(* The mapper refuses a poison event with retryable = false. *)
NextEvent(g) ==
  /\ run[g].at = "looping" /\ ~run[g].aborted
  /\ \E e \in run[g].todo :
       IF e \in Poison
       THEN Moves(g, Noted([run[g] EXCEPT !.todo = @ \ {e}], "fatal"))
       ELSE Moves(g, [run[g] EXCEPT !.at = "publishing", !.todo = @ \ {e}, !.cur = e])
  /\ UNCHANGED <<stage, grant, tries, event, copies>>

(* The broker takes the message; the confirm is on its way back. *)
BrokerAccepts(g) ==
  /\ run[g].at = "publishing"
  /\ copies' = [copies EXCEPT ![run[g].cur] = Bump(@)]
  /\ Moves(g, [run[g] EXCEPT !.at = "sent"])
  /\ UNCHANGED <<stage, grant, tries, event>>

(***************************************************************************)
(* publish rejects: no connection, channel closed, nack, or no confirm in  *)
(* time although the broker has the message.  All of these are retryable.  *)
(***************************************************************************)
(* Mutant of PublishFails: a failure is taken for a confirm. *)
PublishFailsSilently(g) ==
  /\ run[g].at \in {"publishing", "sent"}
  /\ Moves(g, [run[g] EXCEPT !.at = "marking"])
  /\ UNCHANGED <<stage, grant, tries, event, copies>>

PublishFails(g) ==
  /\ run[g].at \in {"publishing", "sent"}
  /\ IF run[g].aborted
     THEN Moves(g, ThrowsIn(run[g], "retryable"))
     ELSE Moves(g, Noted(run[g], "retryable"))
  /\ UNCHANGED <<stage, grant, tries, event, copies>>

(* Confirmed: throwIfAborted stands between the confirm and the mark. *)
Confirmed(g) ==
  /\ run[g].at = "sent"
  /\ IF run[g].aborted
     THEN Moves(g, ThrowsIn(run[g], "retryable"))
     ELSE Moves(g, [run[g] EXCEPT !.at = "marking"])
  /\ UNCHANGED <<stage, grant, tries, event, copies>>

Mark(g) ==
  /\ run[g].at = "marking"
  /\ MarkPublished(run[g].cur, g)
  /\ Moves(g, [run[g] EXCEPT !.at = "looping", !.cur = NoEvent])
  /\ UNCHANGED <<stage, grant, tries, copies>>

(***************************************************************************)
(* The mark matched no row (MVT_OUTBOX_PUBLISH_CONFLICT) or the query was  *)
(* rejected, possibly after it took effect.  Neither error carries         *)
(* retryable: rethrown by an aborted handler it is fatal, remembered as    *)
(* firstFailure it counts as retryable.                                    *)
(***************************************************************************)
MarkFails(g) ==
  /\ run[g].at = "marking"
  /\ MarkPublished(run[g].cur, g) \/ UNCHANGED event
  /\ IF run[g].aborted
     THEN Moves(g, ThrowsIn(run[g], "fatal"))
     ELSE Moves(g, Noted(run[g], "retryable"))
  /\ UNCHANGED <<stage, grant, tries, copies>>

-----------------------------------------------------------------------------
(***************************************************************************)
(* The job worker around the handler.                                      *)
(***************************************************************************)
(* Handler timeout or lost lease. *)
Abort(g) ==
  /\ run[g].at # "off" /\ ~run[g].aborted
  /\ Moves(g, [run[g] EXCEPT !.aborted = TRUE])
  /\ UNCHANGED <<stage, grant, tries, event, copies>>

(* The worker process dies; its lease has to expire. *)
Die(g) ==
  /\ run[g].at # "off"
  /\ Moves(g, Off)
  /\ UNCHANGED <<stage, grant, tries, event, copies>>

Outcome(r) == IF r.failure = "none" /\ r.aborted THEN "retryable" ELSE r.failure

(***************************************************************************)
(* completeSuccess rearms the recurring job, or fails in the driver and    *)
(* the job is buried; completeFailure retries or buries.  A superseded     *)
(* attempt reports to nobody.                                              *)
(***************************************************************************)
Report(g) ==
  /\ run[g].at = "reporting"
  /\ \/ grant[dispatch] # g /\ UNCHANGED wqVars
     \/ /\ grant[dispatch] = g
        /\ \/ Outcome(run[g]) = "none" /\ Rearm(dispatch)
           \/ Outcome(run[g]) = "retryable" /\ GiveBack(dispatch)
           \/ Outcome(run[g]) = "retryable" /\ tries[dispatch] = MaxTries /\ Bury(Work)
           \/ Outcome(run[g]) \in {"none", "fatal"} /\ Bury(Work)
  /\ Moves(g, Off)
  /\ UNCHANGED <<event, copies>>

(* The reaper buries an attempt whose lease expired and was the last. *)
Reaped ==
  /\ tries[dispatch] = MaxTries
  /\ Bury(Work)
  /\ UNCHANGED <<event, copies, run>>

Handler(g) ==
  \/ ClaimEvents(g)
  \/ ClaimFails(g)
  \/ NextEvent(g)
  \/ LoopEnds(g)
  \/ BrokerAccepts(g)
  \/ PublishFails(g)
  \/ Confirmed(g)
  \/ Mark(g)
  \/ MarkFails(g)

Next ==
  \/ \E e \in Event : Append(e) \/ BecomesAvailable(e) \/ ClaimAges(e)
  \/ \E g \in Grant : Attempt(g) \/ Handler(g) \/ Abort(g) \/ Die(g) \/ Report(g)
  \/ Reaped

Spec == Init /\ [][Next]_vars

(***************************************************************************)
(* Fairness: time passes, invoked handlers and the job worker go on, and   *)
(* an attempt whose process died is taken over (or reaped) once its lease  *)
(* has expired.  Nothing here says that a publication ever succeeds.       *)
(***************************************************************************)
Unattended == grant[dispatch] # NoGrant => run[grant[dispatch]].at = "off"

Fairness ==
  /\ WF_vars(Unattended /\ \E g \in Grant : Attempt(g))
  /\ WF_vars(Unattended /\ Reaped)
  /\ \A g \in Grant : WF_vars(Handler(g)) /\ WF_vars(Report(g))
  /\ \A e \in Event : WF_vars(BecomesAvailable(e)) /\ WF_vars(ClaimAges(e))

FairSpec == Spec /\ Fairness
-----------------------------------------------------------------------------
(***************************************************************************)
(* Properties.                                                             *)
(***************************************************************************)
(* publisher confirm, then markPublished, never the inverse: whatever      *)
(* fails, ages, dies or is superseded in between, no event counts as       *)
(* published that the broker has not accepted.                             *)
PublishedWasAccepted == \A e \in Event : event[e].state = "published" => copies[e] > 0

(* At-least-once is not at-will: every duplicate message is paid for by a  *)
(* further claim of the event, so attempt_count bounds the duplicates.     *)
DuplicatesAreReclaims == \A e \in Event : copies[e] <= event[e].attempts

(* An event is marked only by the handler whose claim it carries at that   *)
(* moment, also when an older handler still waits for its own confirm.     *)
MarkedByClaimant ==
  [][\A e \in Event :
       event[e].state # "published" /\ event'[e].state = "published"
       => \E g \in Grant : /\ event[e].claim = g
                           /\ run[g].at = "marking" /\ run[g].cur = e]_vars

(* Broker, database and worker processes fail as often as they like, but   *)
(* eventually stop failing.                                                *)
Failure ==
  \E g \in Grant : ClaimFails(g) \/ PublishFails(g) \/ MarkFails(g) \/ Abort(g) \/ Die(g)

FailuresEnd == <>[][~Failure]_vars

(* Once failures end, and as long as the recurring job was not buried,     *)
(* every event the mapper accepts is eventually published: no aborted,     *)
(* dead or superseded handler leaves an event behind that a later attempt  *)
(* cannot take over.                                                       *)
PublishedUnlessBuried ==
  FailuresEnd =>
    \A e \in Event \ Poison :
      event[e].state # "absent" ~> event[e].state = "published" \/ stage[dispatch] = "dead"

(* A failure leaves the event recoverable by the claim TTL.                *)
RecoverableByClaimTtl ==
  FailuresEnd => \A e \in Event \ Poison : event[e].stale ~> ~event[e].stale
=============================================================================
