------------------------ MODULE OutboxDispatch_proofs -----------------------
(***************************************************************************)
(* Theorems about OutboxDispatch, for every set of events, every number of *)
(* handlers that outlive their lease, every batch size and every bound on  *)
(* the counters.                                                           *)
(*                                                                         *)
(* The safety properties are not inductive: that a published event was     *)
(* accepted needs that an event on its way to the mark was, and that each  *)
(* message is paid for by a claim needs the account of the claims that     *)
(* have not led to a message yet (Owed).                                   *)
(***************************************************************************)
EXTENDS OutboxDispatch, FiniteSetTheorems, TLAPS

InHand(r) == r.at \in {"publishing", "sent", "marking"}

(* The shape of an invocation. *)
Shape(r) ==
  /\ InHand(r) => r.cur \in Event /\ r.cur \notin r.todo
  /\ r.at \in {"off", "claiming", "reporting"} => r.todo = {}

Accepted(r) == r.at \in {"sent", "marking"} => copies[r.cur] > 0

(* The invocations that may still send event e. *)
Owes(r, e) == e \in r.todo \/ (r.at = "publishing" /\ r.cur = e)
Owed(e) == {g \in Grant : Owes(run[g], e)}

(* Each claim of e paid for a message already sent or one still owed.  The *)
(* counter stops at MaxCount, and with it the account.                     *)
Balanced(e) ==
  /\ IsFiniteSet(Owed(e))
  /\ event[e].attempts = MaxCount \/ copies[e] + Cardinality(Owed(e)) <= event[e].attempts

OutboxInv ==
  /\ TypeOK
  /\ \A g \in Grant : Shape(run[g]) /\ Accepted(run[g])
  /\ PublishedWasAccepted
  /\ \A e \in Event : Balanced(e)

-----------------------------------------------------------------------------
LEMMA DispatchIsTheJob == dispatch \in Work /\ Work = {dispatch}
BY OneJobAssumption DEF dispatch

LEMMA BumpType ==
  ASSUME NEW n \in 0..MaxCount
  PROVE  Bump(n) \in 0..MaxCount /\ Bump(n) > 0 /\ Bump(n) >= n
BY CountAssumption DEF Bump

LEMMA OffType == Off \in Run /\ Shape(Off)
BY DEF Off, Run, At, Verdict, Shape, InHand

LEMMA ThrowsType ==
  ASSUME NEW r \in Run, NEW v \in Verdict
  PROVE  /\ ThrowsIn(r, v) \in Run
         /\ ThrowsIn(r, v).at = "reporting"
         /\ ThrowsIn(r, v).todo = {}
BY DEF ThrowsIn, Run, At

LEMMA NotedType ==
  ASSUME NEW r \in Run, NEW v \in Verdict
  PROVE  /\ Noted(r, v) \in Run
         /\ Noted(r, v).at = "looping"
         /\ Noted(r, v).todo = r.todo
BY DEF Noted, Run, At, Verdict

(***************************************************************************)
(* The four ways in which a step can disturb the invariant: the queue      *)
(* keeps its type whatever happens; the rest only reads what follows.      *)
(***************************************************************************)
(* No claim is made, and a row is published only by g's mark. *)
TableAtRest(g) ==
  /\ event' \in [Event -> EventRow]
  /\ \A e \in Event :
       /\ event'[e].attempts = event[e].attempts
       /\ event'[e].state = "published" =>
            event[e].state = "published" \/ (run[g].at = "marking" /\ run[g].cur = e)

(* g goes on as r, which owes no more than g did. *)
Settles(g, r) ==
  /\ r \in Run /\ Shape(r)
  /\ r.todo \subseteq run[g].todo
  /\ r.at = "publishing" => \/ run[g].at = "publishing" /\ r.cur = run[g].cur
                            \/ r.cur \in run[g].todo
  /\ r.at \in {"sent", "marking"} => run[g].at \in {"sent", "marking"} /\ r.cur = run[g].cur

SettleStep ==
  /\ copies' = copies
  /\ \E g \in Grant, r \in Run :
       Settles(g, r) /\ run' = [run EXCEPT ![g] = r] /\ TableAtRest(g)

(* Nobody moves. *)
TableStep ==
  /\ copies' = copies /\ run' = run
  /\ event' \in [Event -> EventRow]
  /\ \A e \in Event : /\ event'[e].attempts = event[e].attempts
                      /\ event'[e].state = "published" => event[e].state = "published"

(* g claims S and goes on with all of it or, if the answer is lost, none.  *)
ClaimStep ==
  /\ copies' = copies
  /\ \E g \in Grant, S \in SUBSET Event, r \in Run :
       /\ run[g].at = "claiming" /\ ClaimRows(S, g)
       /\ \A e \in S : event[e].state = "pending"
       /\ r.at \in {"looping", "reporting"} /\ Shape(r) /\ r.todo \subseteq S
       /\ run' = [run EXCEPT ![g] = r]

AcceptStep ==
  /\ event' = event
  /\ \E g \in Grant : BrokerAccepts(g)

-----------------------------------------------------------------------------
(* The row helpers. *)
LEMMA AppendType ==
  ASSUME TypeOK, NEW e \in Event,
         Append(e) \/ BecomesAvailable(e) \/ ClaimAges(e)
  PROVE  TableStep
<1>1. event[e] \in EventRow /\ event \in [Event -> EventRow]
  BY DEF TypeOK
<1>2. CASE Append(e)
  <2>1. PICK s \in {"pending", "delayed"} : event' = [event EXCEPT ![e].state = s]
    BY <1>2 DEF Append
  <2>2. [event[e] EXCEPT !.state = s] \in EventRow
    BY <1>1, <2>1 DEF EventRow
  <2> QED
    BY <1>1, <1>2, <2>1, <2>2 DEF Append, TableStep
<1>3. CASE BecomesAvailable(e)
  <2>1. [event[e] EXCEPT !.state = "pending"] \in EventRow
    BY <1>1 DEF EventRow
  <2> QED
    BY <1>1, <1>3, <2>1 DEF BecomesAvailable, TableStep
<1>4. CASE ClaimAges(e)
  <2>1. [event[e] EXCEPT !.stale = TRUE] \in EventRow
    BY <1>1 DEF EventRow
  <2>2. [event[e] EXCEPT !.stale = TRUE].attempts = event[e].attempts
        /\ [event[e] EXCEPT !.stale = TRUE].state = event[e].state
    BY <1>1 DEF EventRow
  <2> QED
    BY <1>1, <1>4, <2>1, <2>2 DEF ClaimAges, TableStep
<1> QED
  BY <1>2, <1>3, <1>4

LEMMA MarkType ==
  ASSUME TypeOK, NEW g \in Grant, NEW e \in Event, MarkPublished(e, g),
         run[g].at = "marking", run[g].cur = e
  PROVE  TableAtRest(g)
<1>1. event[e] \in EventRow /\ event \in [Event -> EventRow]
  BY DEF TypeOK
<1> DEFINE r == [event[e] EXCEPT !.state = "published", !.claim = NoGrant, !.stale = FALSE]
<1>2. r \in EventRow /\ r.attempts = event[e].attempts
  BY <1>1 DEF EventRow
<1>3. event' = [event EXCEPT ![e] = r]
  BY DEF MarkPublished
<1> HIDE DEF r
<1> QED
  BY <1>1, <1>2, <1>3 DEF TableAtRest

LEMMA NoMarkType ==
  ASSUME TypeOK, NEW g \in Grant, UNCHANGED event
  PROVE  TableAtRest(g)
BY DEF TypeOK, TableAtRest

LEMMA ClaimRowsType ==
  ASSUME TypeOK, NEW g \in Grant, NEW S \in SUBSET Event, ClaimRows(S, g)
  PROVE  /\ event' \in [Event -> EventRow]
         /\ \A e \in Event : event'[e].state = event[e].state
         /\ \A e \in Event \ S : event'[e] = event[e]
         /\ \A e \in S : event'[e].attempts = Bump(event[e].attempts)
<1>1. event \in [Event -> EventRow]
  BY DEF TypeOK
<1> DEFINE c(e) == [event[e] EXCEPT !.claim = g, !.stale = FALSE, !.attempts = Bump(@)]
<1>2. ASSUME NEW e \in Event
      PROVE  /\ c(e) \in EventRow /\ c(e).state = event[e].state
             /\ c(e).attempts = Bump(event[e].attempts)
  <2>1. event[e] \in EventRow
    BY <1>1
  <2>2. Bump(event[e].attempts) \in 0..MaxCount
    BY <2>1, BumpType DEF EventRow
  <2> QED
    BY <2>1, <2>2 DEF EventRow
<1>3. event' = [e \in Event |-> IF e \in S THEN c(e) ELSE event[e]]
  BY DEF ClaimRows
<1> HIDE DEF c
<1> QED
  BY <1>1, <1>2, <1>3

-----------------------------------------------------------------------------
(* Every step is one of the four. *)
LEMMA ThrowsSettles ==
  ASSUME NEW g \in Grant, run[g] \in Run, NEW v \in Verdict
  PROVE  ThrowsIn(run[g], v) \in Run /\ Settles(g, ThrowsIn(run[g], v))
<1>1. /\ ThrowsIn(run[g], v) \in Run
      /\ ThrowsIn(run[g], v).at = "reporting"
      /\ ThrowsIn(run[g], v).todo = {}
  BY ThrowsType
<1> QED
  BY <1>1 DEF Settles, Shape, InHand

LEMMA NotedSettles ==
  ASSUME NEW g \in Grant, run[g] \in Run, NEW v \in Verdict
  PROVE  Noted(run[g], v) \in Run /\ Settles(g, Noted(run[g], v))
<1>1. /\ Noted(run[g], v) \in Run
      /\ Noted(run[g], v).at = "looping"
      /\ Noted(run[g], v).todo = run[g].todo
  BY NotedType
<1> QED
  BY <1>1 DEF Settles, Shape, InHand

LEMMA MovesSettle ==
  ASSUME TypeOK, NEW g \in Grant, NEW r \in Run, Settles(g, r), Moves(g, r),
         UNCHANGED copies, TableAtRest(g)
  PROVE  SettleStep
BY DEF SettleStep, Moves

LEMMA BatchIsPending ==
  ASSUME NEW S \in ClaimedBatches
  PROVE  S \in SUBSET Event /\ \A e \in S : event[e].state = "pending"
BY DEF ClaimedBatches, Claimable

LEMMA ClaimEventsClaims ==
  ASSUME TypeOK, NEW g \in Grant, ClaimEvents(g)
  PROVE  ClaimStep
<1>1. run[g] \in Run
  BY DEF TypeOK
<1>2. PICK S \in ClaimedBatches :
        ClaimRows(S, g) /\ Moves(g, [run[g] EXCEPT !.at = "looping", !.todo = S])
  BY DEF ClaimEvents
<1>3. S \in SUBSET Event /\ \A e \in S : event[e].state = "pending"
  BY BatchIsPending
<1> DEFINE r == [run[g] EXCEPT !.at = "looping", !.todo = S]
<1>4. r \in Run /\ r.at = "looping" /\ r.todo = S
  BY <1>1, <1>3 DEF Run, At
<1>5. run' = [run EXCEPT ![g] = r] /\ run[g].at = "claiming" /\ copies' = copies
  BY <1>2 DEF Moves, ClaimEvents
<1> HIDE DEF r
<1>6. Shape(r)
  BY <1>4 DEF Shape, InHand
<1> QED
  BY <1>2, <1>3, <1>4, <1>5, <1>6 DEF ClaimStep

LEMMA ClaimFailsSettlesOrClaims ==
  ASSUME TypeOK, NEW g \in Grant, ClaimFails(g)
  PROVE  ClaimStep \/ SettleStep
<1>1. run[g] \in Run /\ {"fatal", "retryable"} \subseteq Verdict
  BY DEF TypeOK, Verdict
<1>2. run[g].at = "claiming" /\ copies' = copies
  BY DEF ClaimFails
<1>3. CASE UNCHANGED event
  <2>1. PICK v \in {"fatal", "retryable"} : Moves(g, ThrowsIn(run[g], v))
    BY DEF ClaimFails
  <2> QED
    BY <1>1, <1>2, <1>3, <2>1, ThrowsSettles, MovesSettle, NoMarkType
<1>4. CASE \E S \in ClaimedBatches : ClaimRows(S, g)
                                     /\ Moves(g, ThrowsIn(run[g], "fatal"))
  <2>1. PICK S \in ClaimedBatches : ClaimRows(S, g) /\ Moves(g, ThrowsIn(run[g], "fatal"))
    BY <1>4
  <2>2. S \in SUBSET Event /\ \A e \in S : event[e].state = "pending"
    BY BatchIsPending
  <2> DEFINE r == ThrowsIn(run[g], "fatal")
  <2>3. r \in Run /\ r.at = "reporting" /\ r.todo = {}
    BY <1>1, ThrowsType
  <2>4. run' = [run EXCEPT ![g] = r]
    BY <2>1 DEF Moves
  <2> HIDE DEF r
  <2>5. Shape(r)
    BY <2>3 DEF Shape, InHand
  <2> QED
    BY <1>2, <2>1, <2>2, <2>3, <2>4, <2>5 DEF ClaimStep
<1> QED
  BY <1>3, <1>4 DEF ClaimFails

LEMMA NextEventSettles ==
  ASSUME TypeOK, NEW g \in Grant, Shape(run[g]), NextEvent(g)
  PROVE  SettleStep
<1>1. run[g] \in Run /\ "fatal" \in Verdict
  BY DEF TypeOK, Verdict
<1>2. TableAtRest(g) /\ copies' = copies
  BY NoMarkType DEF NextEvent
<1>3. PICK e \in run[g].todo :
        IF e \in Poison
        THEN Moves(g, Noted([run[g] EXCEPT !.todo = @ \ {e}], "fatal"))
        ELSE Moves(g, [run[g] EXCEPT !.at = "publishing", !.todo = @ \ {e}, !.cur = e])
  BY DEF NextEvent
<1>4. e \in Event /\ run[g].todo \in SUBSET Event
  BY <1>1, <1>3 DEF Run
<1> DEFINE rest == [run[g] EXCEPT !.todo = @ \ {e}]
           hand == [run[g] EXCEPT !.at = "publishing", !.todo = @ \ {e}, !.cur = e]
<1>5. rest \in Run /\ rest.todo = run[g].todo \ {e}
  BY <1>1, <1>4 DEF Run
<1>6. /\ hand \in Run /\ hand.at = "publishing"
      /\ hand.todo = run[g].todo \ {e} /\ hand.cur = e
  BY <1>1, <1>4 DEF Run, At
<1>7. Moves(g, Noted(rest, "fatal")) \/ Moves(g, hand)
  BY <1>3
<1> HIDE DEF rest, hand
<1>8. /\ Noted(rest, "fatal") \in Run
      /\ Noted(rest, "fatal").at = "looping"
      /\ Noted(rest, "fatal").todo = rest.todo
  BY <1>1, <1>5, NotedType
<1>9. Settles(g, Noted(rest, "fatal"))
  BY <1>5, <1>8 DEF Settles, Shape, InHand
<1>10. Settles(g, hand)
  BY <1>3, <1>4, <1>6 DEF Settles, Shape, InHand
<1> QED
  BY <1>2, <1>6, <1>7, <1>8, <1>9, <1>10, MovesSettle

LEMMA LoopEndsSettles ==
  ASSUME TypeOK, NEW g \in Grant, LoopEnds(g)
  PROVE  SettleStep
<1>1. run[g] \in Run /\ "retryable" \in Verdict
  BY DEF TypeOK, Verdict
<1>2. TableAtRest(g) /\ copies' = copies
  BY NoMarkType DEF LoopEnds
<1>3. CASE run[g].todo = {} /\ Moves(g, [run[g] EXCEPT !.at = "reporting"])
  <2> DEFINE r == [run[g] EXCEPT !.at = "reporting"]
  <2>1. r \in Run /\ r.at = "reporting" /\ r.todo = run[g].todo
    BY <1>1 DEF Run, At
  <2>2. Moves(g, r)
    BY <1>3
  <2> HIDE DEF r
  <2>3. Settles(g, r)
    BY <1>3, <2>1 DEF Settles, Shape, InHand
  <2> QED
    BY <1>2, <2>1, <2>2, <2>3, MovesSettle
<1>4. CASE Moves(g, ThrowsIn(run[g], "retryable"))
  BY <1>1, <1>2, <1>4, ThrowsSettles, MovesSettle
<1> QED
  BY <1>3, <1>4 DEF LoopEnds

LEMMA PublishFailsSettles ==
  ASSUME TypeOK, NEW g \in Grant, PublishFails(g)
  PROVE  SettleStep
<1>1. run[g] \in Run /\ "retryable" \in Verdict
  BY DEF TypeOK, Verdict
<1>2. TableAtRest(g) /\ copies' = copies
  BY NoMarkType DEF PublishFails
<1>3. Moves(g, ThrowsIn(run[g], "retryable")) \/ Moves(g, Noted(run[g], "retryable"))
  BY DEF PublishFails
<1> QED
  BY <1>1, <1>2, <1>3, ThrowsSettles, NotedSettles, MovesSettle

LEMMA ConfirmedSettles ==
  ASSUME TypeOK, NEW g \in Grant, Shape(run[g]), Confirmed(g)
  PROVE  SettleStep
<1>1. run[g] \in Run /\ "retryable" \in Verdict
  BY DEF TypeOK, Verdict
<1>2. TableAtRest(g) /\ copies' = copies /\ run[g].at = "sent"
  BY NoMarkType DEF Confirmed
<1> DEFINE r == [run[g] EXCEPT !.at = "marking"]
<1>3. /\ r \in Run /\ r.at = "marking"
      /\ r.todo = run[g].todo /\ r.cur = run[g].cur
  BY <1>1 DEF Run, At
<1>4. Moves(g, ThrowsIn(run[g], "retryable")) \/ Moves(g, r)
  BY DEF Confirmed
<1> HIDE DEF r
<1>5. Settles(g, r)
  BY <1>2, <1>3 DEF Settles, Shape, InHand
<1> QED
  BY <1>1, <1>2, <1>3, <1>4, <1>5, ThrowsSettles, MovesSettle

LEMMA MarkingSettles ==
  ASSUME TypeOK, NEW g \in Grant, Shape(run[g]), Mark(g) \/ MarkFails(g)
  PROVE  SettleStep
<1>1. run[g] \in Run /\ {"fatal", "retryable"} \subseteq Verdict
  BY DEF TypeOK, Verdict
<1>2. run[g].at = "marking" /\ copies' = copies
  BY DEF Mark, MarkFails
<1>3. run[g].cur \in Event
  BY <1>2 DEF Shape, InHand
<1>4. MarkPublished(run[g].cur, g) \/ UNCHANGED event
  BY DEF Mark, MarkFails
<1>5. TableAtRest(g)
  BY <1>2, <1>3, <1>4, MarkType, NoMarkType
<1> DEFINE r == [run[g] EXCEPT !.at = "looping", !.cur = NoEvent]
<1>6. r \in Run /\ r.at = "looping" /\ r.todo = run[g].todo
  BY <1>1 DEF Run, At
<1>7. \/ Moves(g, r) \/ Moves(g, ThrowsIn(run[g], "fatal"))
      \/ Moves(g, Noted(run[g], "retryable"))
  BY DEF Mark, MarkFails
<1> HIDE DEF r
<1>8. Settles(g, r)
  BY <1>6 DEF Settles, Shape, InHand
<1> QED
  BY <1>1, <1>2, <1>5, <1>6, <1>7, <1>8, ThrowsSettles, NotedSettles, MovesSettle

LEMMA WorkerSettles ==
  ASSUME TypeOK, NEW g \in Grant, Shape(run[g]),
         Attempt(g) \/ Abort(g) \/ Die(g) \/ Report(g)
  PROVE  SettleStep
<1>1. run[g] \in Run /\ Off \in Run /\ Shape(Off)
  BY OffType DEF TypeOK
<1>2. TableAtRest(g) /\ copies' = copies
  BY NoMarkType DEF Attempt, Abort, Die, Report
<1>3. Settles(g, Off)
  BY <1>1 DEF Settles, Off
<1>4. CASE Die(g) \/ Report(g)
  BY <1>1, <1>2, <1>3, <1>4, MovesSettle DEF Die, Report
<1>5. CASE Attempt(g)
  <2> DEFINE r == [Off EXCEPT !.at = "claiming"]
  <2>1. r \in Run /\ r.at = "claiming" /\ r.todo = {}
    BY DEF Run, At, Verdict, Off
  <2>2. Moves(g, r)
    BY <1>5 DEF Attempt
  <2> HIDE DEF r
  <2>3. Settles(g, r)
    BY <2>1 DEF Settles, Shape, InHand
  <2> QED
    BY <1>2, <2>1, <2>2, <2>3, MovesSettle
<1>6. CASE Abort(g)
  <2> DEFINE r == [run[g] EXCEPT !.aborted = TRUE]
  <2>1. /\ r \in Run /\ r.at = run[g].at
        /\ r.todo = run[g].todo /\ r.cur = run[g].cur
    BY <1>1 DEF Run
  <2>2. Moves(g, r)
    BY <1>6 DEF Abort
  <2> HIDE DEF r
  <2>3. Settles(g, r)
    BY <2>1 DEF Settles, Shape, InHand
  <2> QED
    BY <1>2, <2>1, <2>2, <2>3, MovesSettle
<1> QED
  BY <1>4, <1>5, <1>6

LEMMA ReapedRests ==
  ASSUME TypeOK, Reaped
  PROVE  TableStep
BY DEF TypeOK, Reaped, TableStep

LEMMA EveryStep ==
  ASSUME TypeOK, \A g \in Grant : Shape(run[g]), [Next]_vars
  PROVE  TableStep \/ SettleStep \/ ClaimStep \/ AcceptStep
<1>1. CASE UNCHANGED vars
  BY <1>1 DEF TypeOK, vars, TableStep
<1>2. ASSUME NEW e \in Event, Append(e) \/ BecomesAvailable(e) \/ ClaimAges(e)
      PROVE  TableStep
  BY <1>2, AppendType
<1>3. ASSUME NEW g \in Grant, Handler(g)
      PROVE  SettleStep \/ ClaimStep \/ AcceptStep
  <2>1. CASE BrokerAccepts(g)
    BY <2>1 DEF BrokerAccepts, AcceptStep
  <2>2. CASE ClaimEvents(g) \/ ClaimFails(g)
    BY <2>2, ClaimEventsClaims, ClaimFailsSettlesOrClaims
  <2>3. CASE NextEvent(g) \/ LoopEnds(g) \/ PublishFails(g) \/ Confirmed(g)
    BY <2>3, NextEventSettles, LoopEndsSettles, PublishFailsSettles, ConfirmedSettles
  <2>4. CASE Mark(g) \/ MarkFails(g)
    BY <2>4, MarkingSettles
  <2> QED
    BY <1>3, <2>1, <2>2, <2>3, <2>4 DEF Handler
<1>4. ASSUME NEW g \in Grant, Attempt(g) \/ Abort(g) \/ Die(g) \/ Report(g)
      PROVE  SettleStep
  BY <1>4, WorkerSettles
<1>5. CASE Reaped
  BY <1>5, ReapedRests
<1> QED
  BY <1>1, <1>2, <1>3, <1>4, <1>5 DEF Next

-----------------------------------------------------------------------------
(* The queue keeps its type. *)
LEMMA QueueType ==
  ASSUME TypeOK, [Next]_vars
  PROVE  WQTypeOK'
<1>1. WQTypeOK /\ dispatch \in Work /\ Work = {dispatch} /\ MaxTries \in Nat
  BY DispatchIsTheJob, CountAssumption DEF TypeOK
<1>2. CASE UNCHANGED wqVars
  BY <1>1, <1>2 DEF wqVars, WQTypeOK
<1>3. ASSUME NEW g \in Grant, GrantBatch(Work, g)
      PROVE  WQTypeOK'
  BY <1>1, <1>3 DEF GrantBatch, WQTypeOK, Stage
<1>4. CASE Rearm(dispatch) \/ GiveBack(dispatch)
  BY <1>1, <1>4 DEF Rearm, GiveBack, Leave, WQTypeOK, Stage
<1>5. CASE Bury(Work)
  BY <1>1, <1>5 DEF Bury, WQTypeOK, Stage
<1>6. \/ UNCHANGED wqVars \/ Rearm(dispatch) \/ GiveBack(dispatch) \/ Bury(Work)
      \/ \E g \in Grant : GrantBatch(Work, g)
  BY DEF Next, vars, wqVars, Append, BecomesAvailable, ClaimAges, Attempt, Handler,
         ClaimEvents, ClaimFails, NextEvent, LoopEnds, BrokerAccepts, PublishFails,
         Confirmed, Mark, MarkFails, Abort, Die, Report, Reaped
<1> QED
  BY <1>2, <1>3, <1>4, <1>5, <1>6

-----------------------------------------------------------------------------
(* An accepted message leaves its own trace, and no other. *)
LEMMA AcceptEffect ==
  ASSUME TypeOK, \A g \in Grant : Shape(run[g]), NEW g \in Grant, BrokerAccepts(g)
  PROVE  /\ run[g].at = "publishing" /\ run[g].cur \in Event
         /\ run[g].cur \notin run[g].todo
         /\ copies' \in [Event -> 0..MaxCount]
         /\ copies'[run[g].cur] = Bump(copies[run[g].cur])
         /\ \A e \in Event : e # run[g].cur => copies'[e] = copies[e]
         /\ run' \in [Grant -> Run]
         /\ run'[g].at = "sent" /\ run'[g].todo = run[g].todo /\ run'[g].cur = run[g].cur
         /\ \A h \in Grant \ {g} : run'[h] = run[h]
<1>1. run[g] \in Run /\ run \in [Grant -> Run] /\ copies \in [Event -> 0..MaxCount]
  BY DEF TypeOK
<1>2. run[g].at = "publishing" /\ run[g].cur \in Event /\ run[g].cur \notin run[g].todo
  BY DEF BrokerAccepts, Shape, InHand
<1>3. Bump(copies[run[g].cur]) \in 0..MaxCount
  BY <1>1, <1>2, BumpType
<1>4. copies' = [copies EXCEPT ![run[g].cur] = Bump(copies[run[g].cur])]
  BY DEF BrokerAccepts
<1> DEFINE r == [run[g] EXCEPT !.at = "sent"]
<1>5. r \in Run /\ r.at = "sent" /\ r.todo = run[g].todo /\ r.cur = run[g].cur
  BY <1>1 DEF Run, At
<1>6. run' = [run EXCEPT ![g] = r]
  BY DEF BrokerAccepts, Moves
<1> HIDE DEF r
<1> QED
  BY <1>1, <1>2, <1>3, <1>4, <1>5, <1>6

LEMMA TypePreserved ==
  ASSUME OutboxInv, [Next]_vars
  PROVE  TypeOK'
<1>1. TypeOK /\ \A g \in Grant : Shape(run[g])
  BY DEF OutboxInv
<1>2. WQTypeOK'
  BY <1>1, QueueType
<1>3. copies \in [Event -> 0..MaxCount] /\ run \in [Grant -> Run]
      /\ event \in [Event -> EventRow]
  BY <1>1 DEF TypeOK
<1>4. CASE TableStep
  BY <1>2, <1>3, <1>4 DEF TableStep, TypeOK
<1>5. CASE SettleStep
  BY <1>2, <1>3, <1>5 DEF SettleStep, TableAtRest, TypeOK
<1>6. CASE ClaimStep
  <2>1. event' \in [Event -> EventRow]
    BY <1>1, <1>6, ClaimRowsType DEF ClaimStep
  <2> QED
    BY <1>2, <1>3, <1>6, <2>1 DEF ClaimStep, TypeOK
<1>7. CASE AcceptStep
  <2>1. PICK g \in Grant : BrokerAccepts(g)
    BY <1>7 DEF AcceptStep
  <2>2. copies' \in [Event -> 0..MaxCount] /\ run' \in [Grant -> Run]
    BY <1>1, <2>1, AcceptEffect
  <2> QED
    BY <1>2, <1>3, <1>7, <2>2 DEF AcceptStep, TypeOK
<1> QED
  BY <1>1, <1>4, <1>5, <1>6, <1>7, EveryStep

LEMMA ShapePreserved ==
  ASSUME OutboxInv, [Next]_vars, NEW h \in Grant
  PROVE  Shape(run'[h])
<1>1. TypeOK /\ (\A g \in Grant : Shape(run[g])) /\ run \in [Grant -> Run]
  BY DEF OutboxInv, TypeOK
<1>2. CASE TableStep
  BY <1>1, <1>2 DEF TableStep
<1>3. CASE SettleStep
  BY <1>1, <1>3 DEF SettleStep, Settles
<1>4. CASE ClaimStep
  BY <1>1, <1>4 DEF ClaimStep
<1>5. CASE AcceptStep
  <2>1. PICK g \in Grant : BrokerAccepts(g)
    BY <1>5 DEF AcceptStep
  <2>2. CASE h = g
    BY <1>1, <2>1, <2>2, AcceptEffect DEF Shape, InHand
  <2>3. CASE h # g
    BY <1>1, <2>1, <2>3, AcceptEffect
  <2> QED
    BY <2>2, <2>3
<1> QED
  BY <1>1, <1>2, <1>3, <1>4, <1>5, EveryStep

(* Copies never decrease. *)
LEMMA CopiesGrow ==
  ASSUME OutboxInv, [Next]_vars, NEW e \in Event
  PROVE  copies'[e] >= copies[e] /\ copies[e] \in Nat
<1>1. TypeOK /\ (\A g \in Grant : Shape(run[g])) /\ copies[e] \in 0..MaxCount
  BY DEF OutboxInv, TypeOK
<1>2. copies[e] \in Nat
  BY <1>1
<1>3. CASE copies' = copies
  BY <1>2, <1>3
<1>4. CASE AcceptStep
  <2>1. PICK g \in Grant : BrokerAccepts(g)
    BY <1>4 DEF AcceptStep
  <2>2. copies'[e] = Bump(copies[e]) \/ copies'[e] = copies[e]
    BY <1>1, <2>1, AcceptEffect
  <2> QED
    BY <1>1, <1>2, <2>2, BumpType
<1> QED
  BY <1>1, <1>2, <1>3, <1>4, EveryStep DEF TableStep, SettleStep, ClaimStep

LEMMA AcceptedPreserved ==
  ASSUME OutboxInv, [Next]_vars, NEW h \in Grant
  PROVE  Accepted(run[h])'
<1>1. /\ TypeOK /\ (\A g \in Grant : Shape(run[g])) /\ run \in [Grant -> Run]
      /\ \A g \in Grant : Accepted(run[g])
  BY DEF OutboxInv, TypeOK
<1>2. \A e \in Event : copies[e] > 0 => copies'[e] > 0
  <2> SUFFICES ASSUME NEW e \in Event, copies[e] > 0 PROVE copies'[e] > 0
    OBVIOUS
  <2>1. copies'[e] >= copies[e] /\ copies[e] \in Nat
    BY CopiesGrow
  <2>2. copies'[e] \in 0..MaxCount
    BY TypePreserved DEF TypeOK
  <2> QED
    BY <2>1, <2>2, CountAssumption
<1>3. \A g \in Grant : run[g].at \in {"sent", "marking"} => run[g].cur \in Event
  BY <1>1 DEF Shape, InHand
<1>4. CASE TableStep
  BY <1>1, <1>2, <1>3, <1>4 DEF TableStep, Accepted
<1>5. CASE SettleStep
  BY <1>1, <1>2, <1>3, <1>5 DEF SettleStep, Settles, Accepted
<1>6. CASE ClaimStep
  BY <1>1, <1>2, <1>3, <1>6 DEF ClaimStep, Accepted
<1>7. CASE AcceptStep
  <2>1. PICK g \in Grant : BrokerAccepts(g)
    BY <1>7 DEF AcceptStep
  <2>2. CASE h = g
    <3>1. run[g].cur \in Event /\ copies'[run[g].cur] = Bump(copies[run[g].cur])
          /\ run'[g].cur = run[g].cur
      BY <1>1, <2>1, AcceptEffect
    <3>2. copies[run[g].cur] \in 0..MaxCount
      BY <1>1, <3>1 DEF TypeOK
    <3>3. copies'[run'[g].cur] > 0
      BY <3>1, <3>2, BumpType
    <3> QED
      BY <2>2, <3>3 DEF Accepted
  <2>3. CASE h # g
    <3>1. run'[h] = run[h]
      BY <1>1, <2>1, <2>3, AcceptEffect
    <3> QED
      BY <1>1, <1>2, <1>3, <3>1 DEF Accepted
  <2> QED
    BY <2>2, <2>3
<1> QED
  BY <1>1, <1>4, <1>5, <1>6, <1>7, EveryStep

LEMMA PublishedPreserved ==
  ASSUME OutboxInv, [Next]_vars
  PROVE  PublishedWasAccepted'
<1>1. TypeOK /\ (\A g \in Grant : Shape(run[g]) /\ Accepted(run[g])) /\ PublishedWasAccepted
  BY DEF OutboxInv
<1> SUFFICES ASSUME NEW e \in Event, event'[e].state = "published"
             PROVE  copies'[e] > 0
  BY DEF PublishedWasAccepted
<1>2. copies'[e] \in 0..MaxCount /\ copies[e] \in 0..MaxCount /\ copies'[e] >= copies[e]
  BY <1>1, TypePreserved, CopiesGrow DEF TypeOK
<1>3. SUFFICES copies[e] > 0
  BY <1>2, CountAssumption
<1>4. \/ event[e].state = "published"
      \/ \E g \in Grant : run[g].at = "marking" /\ run[g].cur = e
  <2>1. CASE TableStep
    BY <2>1 DEF TableStep
  <2>2. CASE SettleStep
    BY <2>2 DEF SettleStep, TableAtRest
  <2>3. CASE ClaimStep
    BY <1>1, <2>3, ClaimRowsType DEF ClaimStep
  <2>4. CASE AcceptStep
    BY <2>4 DEF AcceptStep
  <2> QED
    BY <1>1, <2>1, <2>2, <2>3, <2>4, EveryStep
<1> QED
  BY <1>1, <1>4 DEF PublishedWasAccepted, Accepted

(* The account of one event. *)
LEMMA BalancePreserved ==
  ASSUME OutboxInv, [Next]_vars, NEW e \in Event
  PROVE  Balanced(e)'
<1>1. /\ TypeOK /\ (\A g \in Grant : Shape(run[g])) /\ run \in [Grant -> Run]
      /\ event[e] \in EventRow /\ copies[e] \in 0..MaxCount
      /\ Balanced(e)
  BY DEF OutboxInv, TypeOK
<1>2. IsFiniteSet(Owed(e)) /\ Cardinality(Owed(e)) \in Nat
  BY <1>1, FS_CardinalityType DEF Balanced
<1>3. event[e].attempts \in 0..MaxCount
  BY <1>1 DEF EventRow
<1>4. ASSUME Owed(e)' \subseteq Owed(e), copies'[e] = copies[e],
             event'[e].attempts = event[e].attempts
      PROVE  Balanced(e)'
  <2>1. /\ IsFiniteSet(Owed(e)') /\ Cardinality(Owed(e)') \in Nat
        /\ Cardinality(Owed(e)') <= Cardinality(Owed(e))
    BY <1>2, <1>4, FS_Subset, FS_CardinalityType
  <2>2. event[e].attempts = MaxCount
        \/ copies[e] + Cardinality(Owed(e)') <= event[e].attempts
    BY <1>1, <1>2, <1>3, <2>1 DEF Balanced
  <2> QED
    BY <1>4, <2>1, <2>2 DEF Balanced
<1>5. CASE TableStep
  BY <1>4, <1>5 DEF TableStep, Owed
<1>6. CASE SettleStep
  <2>1. PICK g \in Grant, r \in Run :
          Settles(g, r) /\ run' = [run EXCEPT ![g] = r] /\ TableAtRest(g)
    BY <1>6 DEF SettleStep
  <2>2. Owes(r, e) => Owes(run[g], e)
    BY <2>1 DEF Settles, Owes
  <2>3. Owed(e)' \subseteq Owed(e)
    BY <1>1, <2>1, <2>2 DEF Owed
  <2> QED
    BY <1>4, <1>6, <2>1, <2>3 DEF SettleStep, TableAtRest
<1>7. CASE ClaimStep
  <2>1. PICK g \in Grant, S \in SUBSET Event, r \in Run :
          /\ run[g].at = "claiming" /\ ClaimRows(S, g)
          /\ r.at \in {"looping", "reporting"} /\ r.todo \subseteq S
          /\ run' = [run EXCEPT ![g] = r]
    BY <1>7 DEF ClaimStep
  <2>2. copies'[e] = copies[e]
    BY <1>7 DEF ClaimStep
  <2>3. CASE e \notin S
    <3>1. event'[e] = event[e]
      BY <1>1, <2>1, <2>3, ClaimRowsType
    <3>2. ~Owes(r, e)
      BY <2>1, <2>3 DEF Owes
    <3>3. Owed(e)' \subseteq Owed(e)
      BY <1>1, <2>1, <3>2 DEF Owed
    <3> QED
      BY <1>4, <2>2, <3>1, <3>3
  <2>4. CASE e \in S
    <3>1. event'[e].attempts = Bump(event[e].attempts)
      BY <1>1, <2>1, <2>4, ClaimRowsType
    <3>2. Owed(e)' \subseteq Owed(e) \cup {g}
      BY <1>1, <2>1 DEF Owed
    <3>3. /\ IsFiniteSet(Owed(e) \cup {g})
          /\ Cardinality(Owed(e) \cup {g}) <= Cardinality(Owed(e)) + 1
          /\ Cardinality(Owed(e) \cup {g}) \in Nat
      <4>1. /\ IsFiniteSet(Owed(e) \cup {g})
            /\ Cardinality(Owed(e) \cup {g}) =
                 IF g \in Owed(e) THEN Cardinality(Owed(e)) ELSE Cardinality(Owed(e)) + 1
        BY <1>2, FS_AddElement
      <4> QED
        BY <1>2, <4>1
    <3>4. /\ IsFiniteSet(Owed(e)') /\ Cardinality(Owed(e)') \in Nat
          /\ Cardinality(Owed(e)') <= Cardinality(Owed(e) \cup {g})
      BY <3>2, <3>3, FS_Subset, FS_CardinalityType
    <3>5. CASE event[e].attempts < MaxCount
      <4>1. event'[e].attempts = event[e].attempts + 1
        BY <3>1, <3>5 DEF Bump
      <4>2. copies[e] + Cardinality(Owed(e)) <= event[e].attempts
        BY <1>1, <1>3, <3>5, CountAssumption DEF Balanced
      <4>3. copies[e] + Cardinality(Owed(e)') <= event[e].attempts + 1
        BY <1>1, <1>2, <1>3, <3>3, <3>4, <4>2
      <4> QED
        BY <2>2, <3>4, <4>1, <4>3 DEF Balanced
    <3>6. CASE event[e].attempts = MaxCount
      <4>1. event'[e].attempts = MaxCount
        BY <3>1, <3>6, CountAssumption DEF Bump
      <4> QED
        BY <3>4, <4>1 DEF Balanced
    <3> QED
      BY <1>3, <3>5, <3>6, CountAssumption
  <2> QED
    BY <2>3, <2>4
<1>8. CASE AcceptStep
  <2>1. PICK g \in Grant : BrokerAccepts(g)
    BY <1>8 DEF AcceptStep
  <2>2. event'[e].attempts = event[e].attempts
    BY <1>8 DEF AcceptStep
  <2>3. /\ run[g].at = "publishing" /\ run[g].cur \notin run[g].todo
        /\ run'[g].at = "sent" /\ run'[g].todo = run[g].todo
        /\ \A h \in Grant \ {g} : run'[h] = run[h]
        /\ e # run[g].cur => copies'[e] = copies[e]
        /\ e = run[g].cur => copies'[e] = Bump(copies[e])
    BY <1>1, <2>1, AcceptEffect
  <2>4. CASE e # run[g].cur
    <3>1. Owed(e)' \subseteq Owed(e)
      BY <2>3 DEF Owed, Owes
    <3> QED
      BY <1>4, <2>2, <2>3, <2>4, <3>1
  <2>5. CASE e = run[g].cur
    <3>1. g \in Owed(e)
      BY <2>3, <2>5 DEF Owed, Owes
    <3>2. Owed(e)' \subseteq Owed(e) \ {g}
      BY <2>3, <2>5 DEF Owed, Owes
    <3>3. /\ IsFiniteSet(Owed(e) \ {g})
          /\ Cardinality(Owed(e) \ {g}) = Cardinality(Owed(e)) - 1
      BY <1>2, <3>1, FS_RemoveElement
    <3>4. /\ IsFiniteSet(Owed(e)') /\ Cardinality(Owed(e)') \in Nat
          /\ Cardinality(Owed(e)') <= Cardinality(Owed(e) \ {g})
      BY <3>2, <3>3, FS_Subset, FS_CardinalityType
    <3>5. copies'[e] \in 0..MaxCount /\ copies'[e] <= copies[e] + 1
      BY <1>1, <2>3, <2>5, BumpType, CountAssumption DEF Bump
    <3>6. event[e].attempts = MaxCount
          \/ copies'[e] + Cardinality(Owed(e)') <= event[e].attempts
      BY <1>1, <1>2, <1>3, <3>3, <3>4, <3>5 DEF Balanced
    <3> QED
      BY <2>2, <3>4, <3>6 DEF Balanced
  <2> QED
    BY <2>4, <2>5
<1> QED
  BY <1>1, <1>5, <1>6, <1>7, <1>8, EveryStep

-----------------------------------------------------------------------------
LEMMA InitEstablishes ==
  ASSUME Init
  PROVE  OutboxInv
<1>1. TypeOK
  <2>1. WQTypeOK
    BY CountAssumption DEF Init, WQTypeOK, Stage
  <2>2. event \in [Event -> EventRow]
    BY CountAssumption DEF Init, EventRow
  <2>3. copies \in [Event -> 0..MaxCount]
    BY CountAssumption DEF Init
  <2>4. run \in [Grant -> Run]
    BY OffType DEF Init
  <2> QED
    BY <2>1, <2>2, <2>3, <2>4 DEF TypeOK
<1>2. ASSUME NEW g \in Grant
      PROVE  run[g] = Off /\ Shape(run[g]) /\ Accepted(run[g])
  BY OffType DEF Init, Accepted, Off
<1>3. PublishedWasAccepted
  BY DEF Init, PublishedWasAccepted
<1>4. ASSUME NEW e \in Event
      PROVE  Balanced(e)
  <2>1. Owed(e) = {}
    BY <1>2 DEF Owed, Owes, Off
  <2>2. IsFiniteSet(Owed(e)) /\ Cardinality(Owed(e)) = 0
    BY <2>1, FS_EmptySet
  <2>3. event[e].attempts = 0 /\ copies[e] = 0
    BY DEF Init
  <2> QED
    BY <2>2, <2>3 DEF Balanced
<1> QED
  BY <1>1, <1>2, <1>3, <1>4 DEF OutboxInv

(* OutboxInv is inductive. *)
THEOREM AlwaysOutboxInv == Spec => []OutboxInv
<1>1. Init => OutboxInv
  BY InitEstablishes
<1>2. OutboxInv /\ [Next]_vars => OutboxInv'
  <2> SUFFICES ASSUME OutboxInv, [Next]_vars PROVE OutboxInv'
    OBVIOUS
  <2>1. ASSUME NEW g \in Grant PROVE (Shape(run[g]) /\ Accepted(run[g]))'
    BY ShapePreserved, AcceptedPreserved
  <2>2. ASSUME NEW e \in Event PROVE Balanced(e)'
    BY BalancePreserved
  <2> QED
    BY <2>1, <2>2, TypePreserved, PublishedPreserved DEF OutboxInv
<1> QED
  BY <1>1, <1>2, PTL DEF Spec

(* Type correctness of the outbox, the broker's count and the handlers. *)
THEOREM OutboxTypes == Spec => []TypeOK
BY AlwaysOutboxInv, PTL DEF OutboxInv

(* Whatever fails, ages, dies or is superseded, and however many handlers  *)
(* run side by side, no event counts as published that the broker has not  *)
(* accepted: publisher confirm before markPublished.                       *)
THEOREM ConfirmBeforeMark == Spec => []PublishedWasAccepted
BY AlwaysOutboxInv, PTL DEF OutboxInv

(* attempt_count bounds the messages of an event, however the claims of    *)
(* overlapping handlers interleave with their publications.                *)
THEOREM ClaimsBoundDuplicates == Spec => []DuplicatesAreReclaims
<1>1. OutboxInv => DuplicatesAreReclaims
  <2> SUFFICES ASSUME OutboxInv, NEW e \in Event PROVE copies[e] <= event[e].attempts
    BY DEF DuplicatesAreReclaims
  <2>1. copies[e] \in 0..MaxCount /\ event[e] \in EventRow /\ Balanced(e)
    BY DEF OutboxInv, TypeOK
  <2>2. event[e].attempts \in 0..MaxCount
    BY <2>1 DEF EventRow
  <2>3. Cardinality(Owed(e)) \in Nat
    BY <2>1, FS_CardinalityType DEF Balanced
  <2> QED
    BY <2>1, <2>2, <2>3 DEF Balanced
<1> QED
  BY <1>1, AlwaysOutboxInv, PTL

(* Only the handler whose claim token the row carries at that moment marks *)
(* an event: markPublished of a superseded handler matches no row.         *)
THEOREM OnlyTheClaimantMarks == Spec => MarkedByClaimant
<1> DEFINE P(e) == \E g \in Grant : /\ event[e].claim = g
                                    /\ run[g].at = "marking" /\ run[g].cur = e
           A == \A e \in Event :
                  event[e].state # "published" /\ event'[e].state = "published" => P(e)
<1>1. OutboxInv /\ [Next]_vars => [A]_vars
  <2> SUFFICES ASSUME OutboxInv, [Next]_vars, NEW e \in Event,
                      event[e].state # "published", event'[e].state = "published"
               PROVE  P(e)
    OBVIOUS
  <2>1. TypeOK /\ event[e] \in EventRow /\ (\A g \in Grant : Shape(run[g]))
        /\ event \in [Event -> EventRow]
    BY DEF OutboxInv, TypeOK
  <2>2. ASSUME NEW g \in Grant, Mark(g) \/ MarkFails(g)
        PROVE  P(e)
    <3>1. run[g].at = "marking" /\ run[g].cur \in Event
      BY <2>1, <2>2 DEF Mark, MarkFails, Shape, InHand
    <3>2. MarkPublished(run[g].cur, g)
      BY <2>2 DEF Mark, MarkFails
    <3>3. run[g].cur = e /\ event[run[g].cur].claim = g
      BY <2>1, <3>1, <3>2 DEF MarkPublished
    <3> QED
      BY <3>1, <3>3
  <2>3. ASSUME NEW g \in Grant, ClaimEvents(g) \/ ClaimFails(g)
        PROVE  FALSE
    <3>1. UNCHANGED event \/ \E S \in ClaimedBatches : ClaimRows(S, g)
      BY <2>3 DEF ClaimEvents, ClaimFails
    <3> QED
      BY <2>1, <3>1, BatchIsPending, ClaimRowsType
  <2>4. ASSUME NEW d \in Event, Append(d) \/ BecomesAvailable(d) \/ ClaimAges(d)
        PROVE  FALSE
    BY <2>1, <2>4, AppendType DEF TableStep
  <2> QED
    BY <2>2, <2>3, <2>4
       DEF Next, vars, Attempt, Handler, NextEvent, LoopEnds, BrokerAccepts, PublishFails,
           Confirmed, Abort, Die, Report, Reaped
<1>2. Spec => [][A]_vars
  BY <1>1, AlwaysOutboxInv, PTL DEF Spec
<1> QED
  BY <1>2 DEF MarkedByClaimant
-----------------------------------------------------------------------------
(***************************************************************************)
(* What the claim TTL cannot do: the dispatcher job is buried and the last *)
(* handler has ended, while an event still carries a claim.                *)
(***************************************************************************)
Deserted == stage[dispatch] = "dead" /\ \A g \in Grant : run[g].at = "off"
Stranded(e) == Deserted /\ event[e].state = "pending" /\ event[e].stale

(* In a deserted outbox only time passes and producers append. *)
LEMMA DesertedStep ==
  ASSUME Deserted, [Next]_vars
  PROVE  /\ stage' = stage /\ run' = run
         /\ event' # event => \E e \in Event : Append(e) \/ BecomesAvailable(e) \/ ClaimAges(e)
<1>1. ASSUME NEW g \in Grant, Attempt(g) \/ Handler(g) \/ Abort(g) \/ Die(g) \/ Report(g)
      PROVE  FALSE
  <2>1. run[g].at = "off" /\ stage[dispatch] = "dead"
    BY DEF Deserted
  <2>2. ~GrantBatch(Work, g)
    BY <2>1, DispatchIsTheJob DEF GrantBatch
  <2>3. ~Handler(g)
    BY <2>1 DEF Handler, ClaimEvents, ClaimFails, NextEvent, LoopEnds, BrokerAccepts,
                PublishFails, Confirmed, Mark, MarkFails
  <2> QED
    BY <1>1, <2>1, <2>2, <2>3 DEF Attempt, Abort, Die, Report
<1>2. ~Reaped
  BY DispatchIsTheJob DEF Reaped, Bury, Deserted
<1>3. CASE UNCHANGED vars
  BY <1>3 DEF vars
<1>4. ASSUME NEW e \in Event, Append(e) \/ BecomesAvailable(e) \/ ClaimAges(e)
      PROVE  stage' = stage /\ run' = run
  BY <1>4 DEF Append, BecomesAvailable, ClaimAges
<1> QED
  BY <1>1, <1>2, <1>3, <1>4 DEF Next

(* A stranded event is never published, nor claimed again: the claim is    *)
(* past its TTL, but claiming anew is up to the one job that is dead       *)
(* (an operator's replay of that job is not part of the model).            *)
(* RecoverableByClaimTtl fails for every number of events and handlers and *)
(* every bound on the tries.                                               *)
THEOREM StrandedForever ==
  ASSUME NEW e \in Event
  PROVE  Spec => [](Stranded(e) => []Stranded(e))
<1>1. ASSUME OutboxInv, Stranded(e), [Next]_vars PROVE Stranded(e)'
  <2>1. stage' = stage /\ run' = run
    BY <1>1, DesertedStep DEF Stranded
  <2>2. event'[e].state = "pending" /\ event'[e].stale
    <3>1. event \in [Event -> EventRow] /\ event[e].state = "pending" /\ event[e].stale
      BY <1>1 DEF OutboxInv, TypeOK, Stranded
    <3>2. ASSUME NEW d \in Event, Append(d) \/ BecomesAvailable(d) \/ ClaimAges(d)
          PROVE  d # e /\ event'[e] = event[e]
      BY <3>1, <3>2 DEF Append, BecomesAvailable, ClaimAges
    <3> QED
      BY <1>1, <3>1, <3>2, DesertedStep DEF Stranded
  <2> QED
    BY <1>1, <2>1, <2>2 DEF Stranded, Deserted
<1> QED
  BY <1>1, AlwaysOutboxInv, PTL DEF Spec
=============================================================================
