------------------------- MODULE DlqReprocess_proofs -------------------------
(***************************************************************************)
(* Proofs about DlqReprocess for every set of entries, requests and tokens *)
(* and every budget of attempts.  What one row may become in one step is a *)
(* small relation, RowStep; the invariant IInv is inductive along it, and  *)
(* the step simulation of the contract is read off it.                     *)
(***************************************************************************)
EXTENDS DlqReprocess, FiniteSetTheorems, TLAPS

(* What one statement, or time, makes of a row. *)
RowStep(r, s) ==
  \/ r = Absent /\ s = Quarantined
  \/ r.status = "quarantined" /\ r.count < MaxReprocess /\ s = Requested(r)
  \/ CanClaim(r) /\ \E t \in Token : s = Claimed(r, t)
  \/ r.status = "reprocessing" /\ s \in {Completed(r), AttemptFailed(r)}
  \/ r.status = "quarantined" /\ \E x \in {"resolved", "discarded"} : s = Decided(r, x)
  \/ r.live /\ s = [r EXCEPT !.live = FALSE]
  \/ s = [r EXCEPT !.ready = TRUE]

(* A claim exactly while reprocessing, live only then, and an attempt left *)
(* while the entry waits for one.                                          *)
RowSound(r) ==
  /\ r.status = "reprocessing" <=> r.claim # NoToken
  /\ r.live => r.status = "reprocessing"
  /\ r.status \in {"quarantined", "reprocess_pending"} => r.count < MaxReprocess

(* A request has an entry while it is in progress, and a token between its *)
(* claim and its answer.                                                   *)
ProcSound(q) ==
  /\ q.at \notin {"idle", "down"} => q.entry \in Entry
  /\ q.at \in {"idle", "down"} => q.entry = NoEntry
  /\ q.token # NoToken <=> q.at \in {"working", "completing", "failing"}

RowsSound == \A e \in Entry : RowSound(row[e])
ProcsSound == \A p \in Process : ProcSound(proc[p])

IInv == TypeOK /\ RowsSound /\ ProcsSound

OneRowMoves ==
  \/ UNCHANGED row
  \/ \E e \in Entry : \E s \in Row :
       RowStep(row[e], s) /\ RowSound(s) /\ row' = [row EXCEPT ![e] = s]

-----------------------------------------------------------------------------
LEMMA RowStepKeeps ==
  ASSUME NEW r \in Row, RowSound(r), NEW s, RowStep(r, s)
  PROVE  s \in Row /\ RowSound(s)
<1> USE DlqAssumption
<1>0. /\ r.version + 1 \in Nat
      /\ r.count < MaxReprocess => r.count + 1 \in 0..MaxReprocess
      /\ r.count >= MaxReprocess \/ r.count < MaxReprocess
  BY DEF Row
<1>1. CASE r = Absent /\ s = Quarantined
  BY <1>1 DEF Quarantined, Row, RowSound, Status, Final
<1>2. CASE r.status = "quarantined" /\ r.count < MaxReprocess /\ s = Requested(r)
  <2>1. s \in Row
    BY <1>0, <1>2 DEF Requested, Row, Status
  <2>2. s.status = "reprocess_pending" /\ s.count = r.count /\ s.claim = r.claim /\ s.live = r.live
    BY <1>2 DEF Requested, Row
  <2> QED BY <1>2, <2>1, <2>2 DEF RowSound
<1>3. ASSUME CanClaim(r), NEW t \in Token, s = Claimed(r, t)
      PROVE  s \in Row /\ RowSound(s)
  <2>1. s \in Row
    BY <1>0, <1>3 DEF CanClaim, Claimed, Row, Status
  <2>2. s.status = "reprocessing" /\ s.claim = t
    BY <1>3 DEF Claimed, Row
  <2> QED BY <2>1, <2>2 DEF RowSound
<1>4. CASE r.status = "reprocessing" /\ s = Completed(r)
  <2>1. s \in Row
    BY <1>0, <1>4 DEF Completed, Row, Status, Final
  <2>2. s.status = "resolved" /\ s.claim = NoToken /\ ~s.live
    BY <1>4 DEF Completed, Row
  <2> QED BY <2>1, <2>2 DEF RowSound
<1>5. CASE r.status = "reprocessing" /\ s = AttemptFailed(r)
  <2>1. /\ s \in Row
        /\ s.status = IF r.count >= MaxReprocess THEN "exhausted" ELSE "quarantined"
        /\ s.count = r.count /\ s.claim = NoToken /\ ~s.live
    <3>1. CASE r.count >= MaxReprocess
      BY <1>0, <1>5, <3>1 DEF AttemptFailed, Row, Status, Final
    <3>2. CASE ~(r.count >= MaxReprocess)
      <4>1. (r.count >= MaxReprocess) = FALSE
        BY <3>2
      <4> QED BY <1>0, <1>5, <4>1 DEF AttemptFailed, Row, Status
    <3> QED BY <3>1, <3>2
  <2> QED BY <1>0, <2>1 DEF RowSound
<1>6. ASSUME r.status = "quarantined", NEW x \in {"resolved", "discarded"}, s = Decided(r, x)
      PROVE  s \in Row /\ RowSound(s)
  <2>1. s \in Row
    BY <1>0, <1>6 DEF Decided, Row, Status, Final
  <2>2. s.status = x /\ s.claim = r.claim /\ s.live = r.live
    BY <1>6 DEF Decided, Row
  <2> QED BY <1>6, <2>1, <2>2 DEF RowSound
<1>7. CASE r.live /\ s = [r EXCEPT !.live = FALSE]
  BY <1>7 DEF Row, RowSound
<1>8. CASE s = [r EXCEPT !.ready = TRUE]
  BY <1>8 DEF Row, RowSound
<1> QED BY <1>1, <1>2, <1>3, <1>4, <1>5, <1>6, <1>7, <1>8 DEF RowStep

(* One row at most moves in a step, as RowStep says. *)
LEMMA NextRows ==
  ASSUME IInv, [Next]_vars
  PROVE  OneRowMoves
<1> USE DEF IInv, TypeOK, RowsSound, ProcsSound
<1>1. ASSUME NEW e \in Entry, NEW s, RowStep(row[e], s), row' = [row EXCEPT ![e] = s]
      PROVE  OneRowMoves
  <2>1. row[e] \in Row /\ RowSound(row[e])
    OBVIOUS
  <2> QED BY <1>1, <2>1, RowStepKeeps DEF OneRowMoves
<1>2. ASSUME NEW p \in Process, proc[p].at \notin {"idle", "down"}
      PROVE  proc[p].entry \in Entry
  BY <1>2 DEF ProcSound
<1>3. ASSUME NEW p \in Process, NEW s, proc[p].at \notin {"idle", "down"},
             RowStep(Mine(p), s), Write(p, s)
      PROVE  OneRowMoves
  BY <1>1, <1>2, <1>3 DEF Mine, Write
<1>4. ASSUME UNCHANGED row PROVE OneRowMoves
  BY <1>4 DEF OneRowMoves
<1>5. CASE UNCHANGED vars
  BY <1>4, <1>5 DEF vars
<1>6. ASSUME NEW e \in Entry, Quarantine(e) \/ Time(e) PROVE OneRowMoves
  <2>1. CASE Quarantine(e)
    BY <1>1, <2>1 DEF Quarantine, RowStep
  <2>2. CASE ClaimExpires(e)
    <3>1. row' = [row EXCEPT ![e] = [row[e] EXCEPT !.live = FALSE]]
      BY <2>2 DEF ClaimExpires
    <3>2. RowStep(row[e], [row[e] EXCEPT !.live = FALSE])
      BY <2>2 DEF ClaimExpires, RowStep
    <3> QED BY <1>1, <3>1, <3>2
  <2>3. CASE CooldownPasses(e)
    <3>1. row' = [row EXCEPT ![e] = [row[e] EXCEPT !.ready = TRUE]]
      BY <2>3 DEF CooldownPasses
    <3>2. RowStep(row[e], [row[e] EXCEPT !.ready = TRUE])
      BY DEF RowStep
    <3> QED BY <1>1, <3>1, <3>2
  <2> QED BY <1>6, <2>1, <2>2, <2>3 DEF Time
<1>7. ASSUME NEW p \in Process, NEW e \in Entry, Look(p, e) PROVE OneRowMoves
  BY <1>4, <1>7 DEF Look
<1>8. ASSUME NEW p \in Process, NEW x \in {"resolved", "discarded"}, Decide(p, x)
      PROVE  OneRowMoves
  <2>1. CASE UNCHANGED row
    BY <1>4, <2>1
  <2>2. CASE CanDecide(Mine(p), proc[p].version) /\ Write(p, Decided(Mine(p), x))
    <3>1. RowStep(Mine(p), Decided(Mine(p), x))
      BY <2>2 DEF RowStep, CanDecide
    <3> QED BY <1>3, <1>8, <2>2, <3>1 DEF Decide
  <2> QED BY <1>8, <2>1, <2>2 DEF Decide
<1>9. ASSUME NEW p \in Process, Request(p) \/ StatementErrored(p), proc[p].at = "requesting"
      PROVE  OneRowMoves
  <2>1. CASE UNCHANGED row
    BY <1>4, <2>1
  <2>2. CASE CanRequest(Mine(p), proc[p].version) /\ Write(p, Requested(Mine(p)))
    <3>1. RowStep(Mine(p), Requested(Mine(p)))
      BY <2>2 DEF RowStep, CanRequest
    <3> QED BY <1>3, <1>9, <2>2, <3>1
  <2> QED BY <1>9, <2>1, <2>2 DEF Request, StatementErrored
<1>10. ASSUME NEW p \in Process, NEW t \in Token, proc[p].at = "claiming",
              CanClaim(Mine(p)), Write(p, Claimed(Mine(p), t))
       PROVE  OneRowMoves
  <2>1. RowStep(Mine(p), Claimed(Mine(p), t))
    BY <1>10 DEF RowStep
  <2> QED BY <1>3, <1>10, <2>1
<1>11. ASSUME NEW p \in Process, Step(p) PROVE OneRowMoves
  <2>1. CASE Reprocess(p) \/ TakeEffect(p) \/ NoEffect(p) \/ CompleteFails(p)
    BY <1>4, <2>1 DEF Reprocess, TakeEffect, NoEffect, CompleteFails
  <2>2. CASE Request(p)
    BY <1>9, <2>2 DEF Request
  <2>3. ASSUME NEW t \in Token, Claim(p, t) PROVE OneRowMoves
    BY <1>4, <1>10, <2>3 DEF Claim
  <2>4. CASE Complete(p)
    <3>1. RowStep(Mine(p), Completed(Mine(p)))
      BY <2>4 DEF Complete, CanComplete, Owns, RowStep
    <3> QED BY <1>3, <2>4, <3>1 DEF Complete
  <2>5. CASE RecordFailure(p)
    <3>1. CASE UNCHANGED row
      BY <1>4, <3>1
    <3>2. CASE Owns(Mine(p), proc[p].token) /\ Write(p, AttemptFailed(Mine(p)))
      <4>1. RowStep(Mine(p), AttemptFailed(Mine(p)))
        BY <3>2 DEF Owns, RowStep
      <4> QED BY <1>3, <2>5, <3>2, <4>1 DEF RecordFailure
    <3> QED BY <2>5, <3>1, <3>2 DEF RecordFailure
  <2> QED BY <1>11, <2>1, <2>2, <2>3, <2>4, <2>5 DEF Step
<1>12. ASSUME NEW p \in Process, Lost(p) PROVE OneRowMoves
  <2>1. CASE FailureLost(p) \/ Crash(p) \/ Restart(p)
    BY <1>4, <2>1 DEF FailureLost, Crash, Restart
  <2>2. CASE StatementErrored(p)
    <3>1. CASE proc[p].at = "requesting"
      BY <1>9, <2>2, <3>1
    <3>2. CASE proc[p].at = "claiming"
      BY <1>4, <1>10, <2>2, <3>2 DEF StatementErrored
    <3> QED BY <2>2, <3>1, <3>2 DEF StatementErrored
  <2> QED BY <1>12, <2>1, <2>2 DEF Lost
<1> QED BY <1>5, <1>6, <1>7, <1>8, <1>11, <1>12 DEF Next

(* A request moves from one await to the next. *)
LEMMA NextProcs ==
  ASSUME IInv, [Next]_vars
  PROVE  proc' \in [Process -> Proc] /\ ProcsSound'
<1> DEFINE Good == proc' \in [Process -> Proc] /\ ProcsSound'
           Bare == {"looked", "requesting", "claiming"}
           Held == {"working", "completing", "failing"}
<1> USE DEF IInv, TypeOK
<1>0. ASSUME UNCHANGED proc PROVE Good
  BY <1>0 DEF ProcsSound
<1>1. ASSUME NEW p \in Process, NEW q \in Proc, ProcSound(q), proc' = [proc EXCEPT ![p] = q]
      PROVE  Good
  BY <1>1 DEF ProcsSound
<1>2. ASSUME NEW p \in Process, NEW s, Continue(p, s),
             \/ proc[p].at \in Held /\ s \in Held
             \/ proc[p].at \in Bare /\ s \in Bare
      PROVE  Good
  <2> DEFINE q == [proc[p] EXCEPT !.at = s]
  <2>1. proc[p] \in Proc /\ ProcSound(proc[p])
    BY DEF ProcsSound
  <2>2. q \in Proc
    BY <1>2, <2>1 DEF Proc, At
  <2>3. q.at = s /\ q.entry = proc[p].entry /\ q.token = proc[p].token
    BY <2>1 DEF Proc
  <2>4. ProcSound(q)
    BY <1>2, <2>1, <2>3 DEF ProcSound
  <2>5. proc' = [proc EXCEPT ![p] = q]
    BY <1>2 DEF Continue
  <2> HIDE DEF q
  <2> QED BY <1>1, <2>2, <2>4, <2>5
<1>3. ASSUME NEW p \in Process, NEW s \in {"idle", "down"},
             proc' = [proc EXCEPT ![p] = [Idle EXCEPT !.at = s]]
      PROVE  Good
  <2>1. [Idle EXCEPT !.at = s] \in Proc /\ ProcSound([Idle EXCEPT !.at = s])
    BY DEF Idle, Proc, At, Status, ProcSound
  <2> QED BY <1>1, <1>3, <2>1
<1>4. ASSUME NEW p \in Process, End(p) PROVE Good
  <2>1. Idle = [Idle EXCEPT !.at = "idle"]
    BY DEF Idle
  <2> QED BY <1>3, <1>4, <2>1 DEF End
<1>5. ASSUME NEW p \in Process, NEW e \in Entry, Look(p, e) PROVE Good
  <2> DEFINE q == [Idle EXCEPT !.at = "looked", !.entry = e, !.version = row[e].version,
                               !.saw = row[e].status]
  <2>1. row[e].version \in Nat /\ row[e].status \in Status
    BY DEF Row
  <2>2. q \in Proc /\ ProcSound(q)
    BY <2>1 DEF Idle, Proc, At, ProcSound
  <2>3. proc' = [proc EXCEPT ![p] = q]
    BY <1>5 DEF Look
  <2> HIDE DEF q
  <2> QED BY <1>1, <2>2, <2>3
<1>6. ASSUME NEW p \in Process, NEW t \in Token, Claim(p, t) PROVE Good
  <2>1. CASE End(p)
    BY <1>4, <2>1
  <2>2. CASE proc' = [proc EXCEPT ![p].at = "working", ![p].token = t]
    <3> DEFINE q == [proc[p] EXCEPT !.at = "working", !.token = t]
    <3>1. proc[p] \in Proc /\ ProcSound(proc[p]) /\ proc[p].at = "claiming"
      BY <1>6 DEF ProcsSound, Claim
    <3>2. q \in Proc /\ q.at = "working" /\ q.entry = proc[p].entry /\ q.token = t
      BY <3>1 DEF Proc, At
    <3>3. ProcSound(q)
      BY <3>1, <3>2, DlqAssumption DEF ProcSound
    <3>4. proc' = [proc EXCEPT ![p] = q]
      BY <2>2
    <3> HIDE DEF q
    <3> QED BY <1>1, <3>2, <3>3, <3>4
  <2> QED BY <1>6, <2>1, <2>2 DEF Claim
<1>7. ASSUME NEW p \in Process, Step(p) PROVE Good
  <2>1. CASE Reprocess(p)
    BY <1>2, <1>4, <2>1 DEF Reprocess
  <2>2. CASE Request(p)
    BY <1>2, <1>4, <2>2 DEF Request
  <2>3. CASE TakeEffect(p)
    BY <1>2, <2>3 DEF TakeEffect
  <2>4. CASE NoEffect(p) \/ CompleteFails(p)
    BY <1>2, <2>4 DEF NoEffect, CompleteFails
  <2>5. CASE Complete(p)
    BY <1>2, <1>4, <2>5 DEF Complete
  <2>6. CASE RecordFailure(p)
    BY <1>4, <2>6 DEF RecordFailure
  <2> QED BY <1>6, <1>7, <2>1, <2>2, <2>3, <2>4, <2>5, <2>6 DEF Step
<1>8. ASSUME NEW p \in Process, Lost(p) PROVE Good
  <2>1. CASE FailureLost(p) \/ Restart(p) \/ StatementErrored(p)
    BY <1>4, <2>1 DEF FailureLost, Restart, StatementErrored
  <2>2. CASE Crash(p)
    BY <1>3, <2>2 DEF Crash
  <2> QED BY <1>8, <2>1, <2>2 DEF Lost
<1>9. ASSUME NEW p \in Process, NEW x, Decide(p, x) PROVE Good
  BY <1>4, <1>9 DEF Decide
<1>10. ASSUME NEW e \in Entry, Quarantine(e) \/ Time(e) PROVE Good
  BY <1>0, <1>10 DEF Quarantine, Time, ClaimExpires, CooldownPasses
<1>11. CASE UNCHANGED vars
  BY <1>0, <1>11 DEF vars
<1> QED BY <1>5, <1>7, <1>8, <1>9, <1>10, <1>11 DEF Next

LEMMA EffectMoves ==
  ASSUME [Next]_vars
  PROVE  (\E p \in Process : TakeEffect(p)) \/ UNCHANGED effect
<1>1. ASSUME NEW p \in Process, Step(p) PROVE TakeEffect(p) \/ UNCHANGED effect
  BY <1>1 DEF Step, Reprocess, Request, Claim, NoEffect, Complete, CompleteFails,
              RecordFailure
<1>2. ASSUME NEW p \in Process, Lost(p) PROVE UNCHANGED effect
  BY <1>2 DEF Lost, FailureLost, StatementErrored, Crash, Restart
<1>3. ASSUME NEW e \in Entry, Quarantine(e) \/ Time(e) PROVE UNCHANGED effect
  BY <1>3 DEF Quarantine, Time, ClaimExpires, CooldownPasses
<1>4. ASSUME NEW p \in Process, NEW e \in Entry, Look(p, e) PROVE UNCHANGED effect
  BY <1>4 DEF Look
<1>5. ASSUME NEW p \in Process, NEW x, Decide(p, x) PROVE UNCHANGED effect
  BY <1>5 DEF Decide
<1>6. CASE UNCHANGED vars
  BY <1>6 DEF vars
<1> QED BY <1>1, <1>2, <1>3, <1>4, <1>5, <1>6 DEF Next

(* Effects are never undone. *)
LEMMA NextEffects ==
  ASSUME IInv, [Next]_vars
  PROVE  effect' \in [Entry -> 0..MaxCopies] /\ \A e \in Entry : effect[e] <= effect'[e]
<1> USE DEF IInv, TypeOK
<1>1. CASE UNCHANGED effect
  BY <1>1, CopiesAssumption
<1>2. ASSUME NEW p \in Process, TakeEffect(p)
      PROVE  effect' \in [Entry -> 0..MaxCopies] /\ \A e \in Entry : effect[e] <= effect'[e]
  <2> DEFINE x == proc[p].entry
             n == IF x \in Message /\ effect[x] < MaxCopies THEN effect[x] + 1
                  ELSE IF effect[x] = 0 THEN 1 ELSE effect[x]
  <2>1. x \in Entry
    BY <1>2 DEF TakeEffect, ProcsSound, ProcSound
  <2>2. effect[x] \in 0..MaxCopies
    BY <2>1
  <2>3. n \in 0..MaxCopies /\ effect[x] <= n
    BY <2>2, CopiesAssumption
  <2>4. effect' = [effect EXCEPT ![x] = n]
    BY <1>2 DEF TakeEffect
  <2> HIDE DEF n, x
  <2> QED BY <2>1, <2>3, <2>4
<1> QED BY <1>1, <1>2, EffectMoves

LEMMA InvInit == Init => IInv
<1> SUFFICES ASSUME Init PROVE IInv
  OBVIOUS
<1>1. Absent \in Row /\ RowSound(Absent)
  BY DlqAssumption DEF Absent, Row, Status, RowSound
<1>2. Idle \in Proc /\ ProcSound(Idle)
  BY DEF Idle, Proc, At, Status, ProcSound
<1>3. TypeOK
  BY <1>1, <1>2, CopiesAssumption DEF Init, TypeOK
<1> QED BY <1>1, <1>2, <1>3 DEF Init, IInv, RowsSound, ProcsSound

LEMMA InvNext == IInv /\ [Next]_vars => IInv'
<1> SUFFICES ASSUME IInv, [Next]_vars PROVE IInv'
  OBVIOUS
<1>1. row' \in [Entry -> Row] /\ RowsSound'
  BY NextRows DEF OneRowMoves, IInv, TypeOK, RowsSound
<1> QED BY <1>1, NextProcs, NextEffects DEF IInv, TypeOK

LEMMA Invariant == Spec => []IInv
BY InvInit, InvNext, PTL DEF Spec

-----------------------------------------------------------------------------
(* Rows, effects and requests have their types in every reachable state; in *)
(* particular reprocess_attempt_count never passes max_reprocess_attempts,  *)
(* whatever is retried, taken over or lost.                                 *)
THEOREM TypeCorrect == Spec => []TypeOK
BY Invariant, PTL DEF IInv

(* An entry that waits for an attempt has one left, for every budget.      *)
THEOREM AttemptsRemain == Spec => []AttemptsLeft
<1>1. IInv => AttemptsLeft
  BY DEF IInv, RowsSound, RowSound, AttemptsLeft
<1> QED BY <1>1, Invariant, PTL

-----------------------------------------------------------------------------
(* What a row step does to status and count is a step of the contract, or  *)
(* none.                                                                   *)
LEMMA RowStepContract ==
  ASSUME NEW r \in Row, RowSound(r), NEW s \in Row, RowSound(s), RowStep(r, s)
  PROVE  \/ s.status = r.status /\ s.count = r.count
         \/ /\ r.count < MaxReprocess /\ s.count = r.count + 1
            /\ s.status = "reprocessing"
            /\ r.status \in {"reprocess_pending", "reprocessing"}
         \/ /\ s.count = r.count /\ <<r.status, s.status>> \in Contract!Transitions
            /\ \/ s.status \in {"quarantined", "reprocess_pending"} /\ r.count < MaxReprocess
               \/ s.status \in {"resolved", "discarded"}
               \/ s.status = "exhausted" /\ r.count = MaxReprocess
<1> USE DlqAssumption
<1>0. r.count \in 0..MaxReprocess
  BY DEF Row
<1>1. CASE r = Absent /\ s = Quarantined
  BY <1>1 DEF Absent, Quarantined, Contract!Transitions
<1>2. CASE r.status = "quarantined" /\ r.count < MaxReprocess /\ s = Requested(r)
  <2>1. s.status = "reprocess_pending" /\ s.count = r.count
    BY <1>2 DEF Requested, Row
  <2> QED BY <1>2, <2>1 DEF Contract!Transitions
<1>3. ASSUME CanClaim(r), NEW t \in Token, s = Claimed(r, t)
      PROVE  /\ r.count < MaxReprocess /\ s.count = r.count + 1
             /\ s.status = "reprocessing"
             /\ r.status \in {"reprocess_pending", "reprocessing"}
  BY <1>3 DEF CanClaim, Claimed, Row
<1>4. CASE r.status = "reprocessing" /\ s = Completed(r)
  <2>1. s.status = "resolved" /\ s.count = r.count
    BY <1>4 DEF Completed, Row
  <2> QED BY <1>4, <2>1 DEF Contract!Transitions
<1>5. CASE r.status = "reprocessing" /\ s = AttemptFailed(r)
  <2>1. /\ s.status = IF r.count >= MaxReprocess THEN "exhausted" ELSE "quarantined"
        /\ s.count = r.count
    BY <1>5 DEF AttemptFailed, Row
  <2>2. CASE r.count >= MaxReprocess
    BY <1>0, <1>5, <2>1, <2>2 DEF Contract!Transitions
  <2>3. CASE ~(r.count >= MaxReprocess)
    BY <1>0, <1>5, <2>1, <2>3 DEF Contract!Transitions
  <2> QED BY <2>2, <2>3
<1>6. ASSUME r.status = "quarantined", NEW x \in {"resolved", "discarded"}, s = Decided(r, x)
      PROVE  /\ s.count = r.count /\ <<r.status, s.status>> \in Contract!Transitions
             /\ s.status \in {"resolved", "discarded"}
  <2>1. s.status = x /\ s.count = r.count
    BY <1>6 DEF Decided, Row
  <2> QED BY <1>6, <2>1 DEF Contract!Transitions
<1>7. CASE s = [r EXCEPT !.live = FALSE] \/ s = [r EXCEPT !.ready = TRUE]
  BY <1>7 DEF Row
<1> QED BY <1>1, <1>2, <1>3, <1>4, <1>5, <1>6, <1>7 DEF RowStep

LEMMA ContractStep ==
  ASSUME IInv, [Next]_vars
  PROVE  [Contract!ContractNext]_(Contract!contractVars)
<1> USE DEF IInv, TypeOK
<1>1. CASE UNCHANGED row
  BY <1>1 DEF Contract!contractVars
<1>2. ASSUME NEW e \in Entry, NEW s \in Row, RowStep(row[e], s), RowSound(s),
             row' = [row EXCEPT ![e] = s]
      PROVE  [Contract!ContractNext]_(Contract!contractVars)
  <2> DEFINE st == [x \in Entry |-> row[x].status]
             at == [x \in Entry |-> row[x].count]
  <2>1. row[e] \in Row /\ RowSound(row[e])
    BY DEF RowsSound
  <2>2. st' = [st EXCEPT ![e] = s.status] /\ at' = [at EXCEPT ![e] = s.count]
    BY <1>2
  <2>3. st[e] = row[e].status /\ at[e] = row[e].count
    OBVIOUS
  <2>4. CASE s.status = row[e].status /\ s.count = row[e].count
    <3>1. st' = st /\ at' = at
      BY <2>2, <2>3, <2>4
    <3> QED BY <3>1 DEF Contract!contractVars
  <2>5. CASE /\ row[e].count < MaxReprocess /\ s.count = row[e].count + 1
             /\ s.status = "reprocessing"
             /\ row[e].status \in {"reprocess_pending", "reprocessing"}
    <3>1. at' = [at EXCEPT ![e] = at[e] + 1] /\ at[e] < MaxReprocess
      BY <2>2, <2>3, <2>5
    <3>2. CASE row[e].status = "reprocessing"
      <4>1. st' = st /\ st[e] = "reprocessing"
        BY <2>2, <2>3, <2>5, <3>2
      <4> QED BY <3>1, <4>1 DEF Contract!ContractNext, Contract!Begin
    <3>3. CASE row[e].status = "reprocess_pending"
      <4>1. Contract!Move(e, "reprocessing")
        BY <2>2, <2>3, <2>5, <3>3 DEF Contract!Move, Contract!Transitions
      <4> QED BY <3>1, <4>1 DEF Contract!ContractNext, Contract!Begin
    <3> QED BY <2>5, <3>2, <3>3
  <2>6. CASE /\ s.count = row[e].count
             /\ <<row[e].status, s.status>> \in Contract!Transitions
             /\ \/ s.status \in {"quarantined", "reprocess_pending"} /\ row[e].count < MaxReprocess
                \/ s.status \in {"resolved", "discarded"}
                \/ s.status = "exhausted" /\ row[e].count = MaxReprocess
    <3>1. Contract!Move(e, s.status) /\ at' = at
      BY <2>2, <2>3, <2>6 DEF Contract!Move
    <3> QED BY <2>3, <2>6, <3>1
            DEF Contract!ContractNext, Contract!Wait, Contract!Decide, Contract!Exhaust
  <2> QED BY <1>2, <2>1, <2>4, <2>5, <2>6, RowStepContract
<1> QED BY <1>1, <1>2, NextRows DEF OneRowMoves

(* Whatever requests, decisions, expiries and lost processes do, the rows  *)
(* behave as the documented state machine with its budget says: an entry   *)
(* leaves a final state never, and is exhausted only with its budget spent.*)
THEOREM ContractRefinement == Spec => ImplementsContract
<1>1. Init => Contract!ContractInit
  BY DEF Init, Contract!ContractInit, Absent
<1> QED BY <1>1, ContractStep, Invariant, PTL
        DEF Spec, ImplementsContract, Contract!ContractSpec

-----------------------------------------------------------------------------
(* Between its claim and its answer the request p changes the row of its   *)
(* own entry only, and drops a claim only if it is its own.                *)
LEMMA ClaimDrops ==
  ASSUME IInv, [Next]_vars, NEW e \in Entry, row'[e].claim # row[e].claim
  PROVE  \/ ~row[e].live
         \/ \E p \in Process : proc[p].entry = e /\ proc[p].token = row[e].claim
<1> USE DEF IInv, TypeOK
<1> SUFFICES ASSUME row[e].live
             PROVE  \E p \in Process : proc[p].entry = e /\ proc[p].token = row[e].claim
  OBVIOUS
<1>0. row[e] \in Row /\ RowSound(row[e]) /\ row[e].status = "reprocessing" /\ ~CanClaim(row[e])
  BY DEF RowsSound, RowSound, CanClaim
<1>1. ASSUME NEW x \in Entry, NEW s, row' = [row EXCEPT ![x] = s], x = e => s.claim = row[e].claim
      PROVE  FALSE
  BY <1>1
<1>2. ASSUME NEW p \in Process, proc[p].at \notin {"idle", "down"}
      PROVE  proc[p].entry \in Entry
  BY <1>2 DEF ProcsSound, ProcSound
<1>3. ASSUME NEW p \in Process, NEW s, proc[p].at \notin {"idle", "down"}, Write(p, s),
             Owns(Mine(p), proc[p].token)
      PROVE  proc[p].entry = e /\ proc[p].token = row[e].claim
  BY <1>1, <1>2, <1>3 DEF Write, Mine, Owns
<1>4. ASSUME NEW p \in Process, NEW s, proc[p].at \notin {"idle", "down"}, Write(p, s),
             \/ CanRequest(Mine(p), proc[p].version)
             \/ CanClaim(Mine(p))
             \/ CanDecide(Mine(p), proc[p].version)
      PROVE  FALSE
  BY <1>0, <1>1, <1>2, <1>4 DEF Write, Mine, CanRequest, CanDecide
<1>5. ~UNCHANGED row
  OBVIOUS
<1>6. ASSUME NEW x \in Entry, Quarantine(x) \/ Time(x) PROVE FALSE
  <2>1. CASE Quarantine(x)
    BY <1>0, <1>1, <2>1 DEF Quarantine, Absent
  <2>2. CASE ClaimExpires(x)
    BY <1>0, <1>1, <2>2 DEF ClaimExpires, Row
  <2>3. CASE CooldownPasses(x)
    BY <1>0, <1>1, <2>3 DEF CooldownPasses, Row
  <2> QED BY <1>6, <2>1, <2>2, <2>3 DEF Time
<1>7. ASSUME NEW p \in Process, NEW x \in Entry, Look(p, x) PROVE FALSE
  BY <1>5, <1>7 DEF Look
<1>8. ASSUME NEW p \in Process, NEW x, Decide(p, x) PROVE FALSE
  BY <1>4, <1>5, <1>8 DEF Decide
<1>9. ASSUME NEW p \in Process, Lost(p) PROVE FALSE
  BY <1>4, <1>5, <1>9 DEF Lost, FailureLost, StatementErrored, Crash, Restart
<1>10. ASSUME NEW p \in Process, Step(p)
       PROVE  proc[p].entry = e /\ proc[p].token = row[e].claim
  <2>1. CASE Reprocess(p) \/ TakeEffect(p) \/ NoEffect(p) \/ CompleteFails(p)
    BY <1>5, <2>1 DEF Reprocess, TakeEffect, NoEffect, CompleteFails
  <2>2. CASE Request(p)
    BY <1>4, <1>5, <2>2 DEF Request
  <2>3. ASSUME NEW t \in Token, Claim(p, t) PROVE FALSE
    BY <1>4, <1>5, <2>3 DEF Claim
  <2>4. CASE Complete(p)
    BY <1>3, <2>4 DEF Complete, CanComplete
  <2>5. CASE RecordFailure(p)
    BY <1>3, <1>5, <2>5 DEF RecordFailure
  <2> QED BY <1>10, <2>1, <2>2, <2>3, <2>4, <2>5 DEF Step
<1>11. ~UNCHANGED vars
  BY <1>5 DEF vars
<1> QED BY <1>6, <1>7, <1>8, <1>9, <1>10, <1>11 DEF Next

(* While a claim is live nobody but the process that drew its token moves  *)
(* the entry out of it, however many processes compete.                    *)
THEOREM ClaimRespected == Spec => LiveClaimRespected
<1>1. ASSUME IInv, [Next]_vars
      PROVE  [\A e \in Entry :
                (row[e].live /\ row'[e].claim # row[e].claim)
                  => \E p \in Process : proc[p].entry = e /\ proc[p].token = row[e].claim]_vars
  BY <1>1, ClaimDrops
<1> QED BY <1>1, Invariant, PTL DEF Spec, LiveClaimRespected

-----------------------------------------------------------------------------
(* What a request remembers of its entry: all of it until it is over, and  *)
(* what it sees when it looks.                                             *)
StartsWork(p) == CanClaim(Mine(p)) /\ \E t \in Token : Claim(p, t)

Remembers(p) ==
  /\ proc'[p].entry = proc[p].entry
  /\ proc'[p].version = proc[p].version
  /\ proc'[p].saw = proc[p].saw
  /\ proc'[p].at = "completing" => proc[p].at = "completing" \/ TakeEffect(p)
  /\ proc'[p].at = "working" => proc[p].at = "working" \/ StartsWork(p)

Looks(p) ==
  /\ UNCHANGED row
  /\ proc'[p].at = "looked"
  /\ \E e \in Entry : proc'[p].entry = e /\ proc'[p].version = row[e].version
                       /\ proc'[p].saw = row[e].status

Over(p) == proc'[p].entry = NoEntry /\ proc'[p].at \in {"idle", "down"}

LEMMA ProcMoves ==
  ASSUME IInv, [Next]_vars, NEW p \in Process
  PROVE  Remembers(p) \/ Looks(p) \/ Over(p)
<1> DEFINE Good == Remembers(p) \/ Looks(p) \/ Over(p)
<1> USE DEF IInv, TypeOK
<1>0. proc \in [Process -> Proc] /\ proc[p] \in Proc
  OBVIOUS
<1>1. CASE UNCHANGED proc
  BY <1>1 DEF Remembers
<1>2. ASSUME NEW q \in Process, NEW s, Continue(q, s), s # "working",
             q = p /\ s = "completing" => TakeEffect(p)
      PROVE  Good
  <2>1. CASE q = p
    <3>1. proc'[p] = [proc[p] EXCEPT !.at = s]
      BY <1>0, <1>2, <2>1 DEF Continue
    <3> QED BY <1>0, <1>2, <2>1, <3>1 DEF Remembers, Proc
  <2>2. CASE q # p
    <3>1. proc'[p] = proc[p]
      BY <1>0, <1>2, <2>2 DEF Continue
    <3> QED BY <3>1 DEF Remembers
  <2> QED BY <2>1, <2>2
<1>3. ASSUME NEW q \in Process, NEW s \in {"idle", "down"},
             proc' = [proc EXCEPT ![q] = [Idle EXCEPT !.at = s]]
      PROVE  Good
  <2>1. CASE q = p
    <3>1. proc'[p] = [Idle EXCEPT !.at = s]
      BY <1>0, <1>3, <2>1
    <3> QED BY <3>1 DEF Over, Idle
  <2>2. CASE q # p
    <3>1. proc'[p] = proc[p]
      BY <1>0, <1>3, <2>2
    <3> QED BY <3>1 DEF Remembers
  <2> QED BY <2>1, <2>2
<1>4. ASSUME NEW q \in Process, End(q) PROVE Good
  <2>1. Idle = [Idle EXCEPT !.at = "idle"]
    BY DEF Idle
  <2> QED BY <1>3, <1>4, <2>1 DEF End
<1>5. ASSUME NEW q \in Process, NEW e \in Entry, Look(q, e) PROVE Good
  <2> DEFINE n == [Idle EXCEPT !.at = "looked", !.entry = e, !.version = row[e].version,
                               !.saw = row[e].status]
  <2>1. proc' = [proc EXCEPT ![q] = n] /\ UNCHANGED row
    BY <1>5 DEF Look
  <2>2. n.at = "looked" /\ n.entry = e /\ n.version = row[e].version /\ n.saw = row[e].status
    BY DEF Idle
  <2> HIDE DEF n
  <2>3. CASE q = p
    <3>1. proc'[p] = n
      BY <1>0, <2>1, <2>3
    <3> QED BY <2>1, <2>2, <3>1 DEF Looks
  <2>4. CASE q # p
    <3>1. proc'[p] = proc[p]
      BY <1>0, <2>1, <2>4
    <3> QED BY <3>1 DEF Remembers
  <2> QED BY <2>3, <2>4
<1>6. ASSUME NEW q \in Process, NEW t \in Token, Claim(q, t) PROVE Good
  <2>1. CASE ~CanClaim(Mine(q))
    BY <1>4, <1>6, <2>1 DEF Claim
  <2>2. CASE CanClaim(Mine(q))
    <3> DEFINE n == [proc[q] EXCEPT !.at = "working", !.token = t]
    <3>1. proc' = [proc EXCEPT ![q] = n]
      BY <1>6, <2>2 DEF Claim
    <3>2. n.at = "working" /\ n.entry = proc[q].entry /\ n.version = proc[q].version
          /\ n.saw = proc[q].saw
      BY <1>0 DEF Proc
    <3> HIDE DEF n
    <3>3. CASE q = p
      <4>1. proc'[p] = n
        BY <1>0, <3>1, <3>3
      <4> QED BY <1>6, <2>2, <3>2, <3>3, <4>1 DEF Remembers, StartsWork
    <3>4. CASE q # p
      <4>1. proc'[p] = proc[p]
        BY <1>0, <3>1, <3>4
      <4> QED BY <4>1 DEF Remembers
    <3> QED BY <3>3, <3>4
  <2> QED BY <2>1, <2>2
<1>7. ASSUME NEW q \in Process, Step(q) PROVE Good
  <2>1. CASE Reprocess(q)
    BY <1>2, <1>4, <2>1 DEF Reprocess
  <2>2. CASE Request(q)
    BY <1>2, <1>4, <2>2 DEF Request
  <2>3. CASE TakeEffect(q)
    BY <1>2, <2>3 DEF TakeEffect
  <2>4. CASE NoEffect(q) \/ CompleteFails(q)
    BY <1>2, <2>4 DEF NoEffect, CompleteFails
  <2>5. CASE Complete(q)
    BY <1>2, <1>4, <2>5 DEF Complete
  <2>6. CASE RecordFailure(q)
    BY <1>4, <2>6 DEF RecordFailure
  <2> QED BY <1>6, <1>7, <2>1, <2>2, <2>3, <2>4, <2>5, <2>6 DEF Step
<1>8. ASSUME NEW q \in Process, Lost(q) PROVE Good
  <2>1. CASE FailureLost(q) \/ Restart(q) \/ StatementErrored(q)
    BY <1>4, <2>1 DEF FailureLost, Restart, StatementErrored
  <2>2. CASE Crash(q)
    BY <1>3, <2>2 DEF Crash
  <2> QED BY <1>8, <2>1, <2>2 DEF Lost
<1>9. ASSUME NEW q \in Process, NEW x, Decide(q, x) PROVE Good
  BY <1>4, <1>9 DEF Decide
<1>10. ASSUME NEW e \in Entry, Quarantine(e) \/ Time(e) PROVE Good
  BY <1>1, <1>10 DEF Quarantine, Time, ClaimExpires, CooldownPasses
<1>11. CASE UNCHANGED vars
  BY <1>1, <1>11 DEF vars
<1> QED BY <1>5, <1>7, <1>8, <1>9, <1>10, <1>11 DEF Next

(* The version of a row grows whenever its status changes. *)
LEMMA VersionGrows ==
  ASSUME NEW r \in Row, NEW s, RowStep(r, s)
  PROVE  \/ s.version = r.version /\ s.status = r.status
         \/ s.version = r.version + 1
<1>1. CASE r = Absent /\ s = Quarantined
  BY <1>1 DEF Absent, Quarantined
<1>2. CASE s \in {Requested(r), Completed(r), AttemptFailed(r)}
  BY <1>2 DEF Requested, Completed, AttemptFailed, Row
<1>3. ASSUME NEW t, s = Claimed(r, t) PROVE s.version = r.version + 1
  BY <1>3 DEF Claimed, Row
<1>4. ASSUME NEW x, s = Decided(r, x) PROVE s.version = r.version + 1
  BY <1>4 DEF Decided, Row
<1>5. CASE s = [r EXCEPT !.live = FALSE] \/ s = [r EXCEPT !.ready = TRUE]
  BY <1>5 DEF Row
<1> QED BY <1>1, <1>2, <1>3, <1>4, <1>5 DEF RowStep

(* The inductive form of VersionIsWitness: the version seen is not ahead.  *)
Witness(p) ==
  LET q == proc[p]
  IN  q.entry # NoEntry =>
        /\ row[q.entry].version >= q.version
        /\ row[q.entry].version = q.version => row[q.entry].status = q.saw

WInv == \A p \in Process : Witness(p)

LEMMA WitnessNext ==
  ASSUME IInv, WInv, [Next]_vars
  PROVE  WInv'
<1> SUFFICES ASSUME NEW p \in Process, (proc[p].entry # NoEntry)'
             PROVE  /\ row'[proc'[p].entry].version >= proc'[p].version
                    /\ row'[proc'[p].entry].version = proc'[p].version
                         => row'[proc'[p].entry].status = proc'[p].saw
  BY DEF WInv, Witness
<1> USE DEF IInv, TypeOK
<1>1. CASE Looks(p)
  <2>1. PICK e \in Entry : proc'[p].entry = e /\ proc'[p].version = row[e].version
                           /\ proc'[p].saw = row[e].status /\ row' = row
    BY <1>1 DEF Looks
  <2>2. row[e].version \in Nat
    BY DEF Row
  <2> QED BY <2>1, <2>2
<1>2. CASE Remembers(p)
  <2> DEFINE e == proc[p].entry
  <2>1. e \in Entry /\ proc'[p].entry = e /\ proc'[p].version = proc[p].version
        /\ proc'[p].saw = proc[p].saw
    BY <1>2 DEF Remembers, Proc
  <2>2. row[e].version >= proc[p].version
        /\ (row[e].version = proc[p].version => row[e].status = proc[p].saw)
    BY <2>1, EntryAssumption DEF WInv, Witness
  <2>3. row[e].version \in Nat /\ proc[p].version \in Nat
    BY <2>1 DEF Row, Proc
  <2>4. \/ row'[e].version = row[e].version /\ row'[e].status = row[e].status
        \/ row'[e].version = row[e].version + 1
    <3>1. CASE UNCHANGED row
      BY <3>1
    <3>2. ASSUME NEW x \in Entry, NEW s \in Row, RowStep(row[x], s),
                 row' = [row EXCEPT ![x] = s]
          PROVE  \/ row'[e].version = row[e].version /\ row'[e].status = row[e].status
                 \/ row'[e].version = row[e].version + 1
      <4>1. row[x] \in Row
        OBVIOUS
      <4>2. \/ s.version = row[x].version /\ s.status = row[x].status
            \/ s.version = row[x].version + 1
        BY <3>2, <4>1, VersionGrows
      <4>3. row'[e] = IF e = x THEN s ELSE row[e]
        BY <2>1, <3>2
      <4> HIDE DEF e
      <4> QED BY <4>2, <4>3
    <3> QED BY <3>1, <3>2, NextRows DEF OneRowMoves
  <2> HIDE DEF e
  <2> QED BY <2>1, <2>2, <2>3, <2>4
<1>3. CASE Over(p)
  BY <1>3 DEF Over
<1> QED BY <1>1, <1>2, <1>3, ProcMoves

(* While the version is the one a request saw, the entry is in the state   *)
(* the request saw: If-Match protects a decision from every interleaving.  *)
THEOREM VersionWitness == Spec => []VersionIsWitness
<1>1. Init => WInv
  BY DEF Init, WInv, Witness, Idle
<1>2. WInv => VersionIsWitness
  BY DEF WInv, Witness, VersionIsWitness, Mine
<1> QED BY <1>1, <1>2, WitnessNext, Invariant, PTL DEF Spec

-----------------------------------------------------------------------------
(* A resolution by the reprocessor is the completion of a request that     *)
(* works on the entry.                                                     *)
LEMMA ResolvedByCompletion ==
  ASSUME IInv, [Next]_vars, NEW e \in Entry,
         row[e].by # "reprocessor", row'[e].by = "reprocessor"
  PROVE  \E p \in Process : proc[p].entry = e /\ proc[p].at = "completing"
<1> USE DEF IInv, TypeOK
<1>0. row[e] \in Row
  OBVIOUS
<1>1. ASSUME NEW x \in Entry, NEW s, row' = [row EXCEPT ![x] = s]
      PROVE  x = e /\ s.by = "reprocessor"
  BY <1>1
<1>2. ~UNCHANGED row
  OBVIOUS
<1>3. ASSUME NEW p \in Process, proc[p].at \notin {"idle", "down"}, NEW s, Write(p, s)
      PROVE  proc[p].entry = e /\ Mine(p) = row[e] /\ s.by = "reprocessor"
  <2>1. proc[p].entry \in Entry
    BY <1>3 DEF ProcsSound, ProcSound
  <2> QED BY <1>1, <1>3, <2>1 DEF Write, Mine
<1>4. ASSUME NEW p \in Process, proc[p].at \notin {"idle", "down"},
             \/ Write(p, Requested(Mine(p)))
             \/ \E t \in Token : Write(p, Claimed(Mine(p), t))
             \/ Write(p, AttemptFailed(Mine(p)))
             \/ \E x \in {"resolved", "discarded"} : Write(p, Decided(Mine(p), x))
      PROVE  FALSE
  <2>1. Requested(row[e]).by # "reprocessor" /\ AttemptFailed(row[e]).by # "reprocessor"
    BY <1>0 DEF Requested, AttemptFailed, Row
  <2>2. \A t \in Token : Claimed(row[e], t).by # "reprocessor"
    BY <1>0 DEF Claimed, Row
  <2>3. \A x \in {"resolved", "discarded"} : Decided(row[e], x).by # "reprocessor"
    BY <1>0 DEF Decided, Row
  <2> QED BY <1>3, <1>4, <2>1, <2>2, <2>3
<1>5. ASSUME NEW x \in Entry, Quarantine(x) \/ Time(x) PROVE FALSE
  <2>1. CASE Quarantine(x)
    BY <1>1, <2>1 DEF Quarantine, Quarantined
  <2>2. CASE ClaimExpires(x)
    BY <1>0, <1>1, <2>2 DEF ClaimExpires, Row
  <2>3. CASE CooldownPasses(x)
    BY <1>0, <1>1, <2>3 DEF CooldownPasses, Row
  <2> QED BY <1>5, <2>1, <2>2, <2>3 DEF Time
<1>6. ASSUME NEW p \in Process, NEW x \in Entry, Look(p, x) PROVE FALSE
  BY <1>2, <1>6 DEF Look
<1>7. ASSUME NEW p \in Process, NEW x \in {"resolved", "discarded"}, Decide(p, x) PROVE FALSE
  BY <1>2, <1>4, <1>7 DEF Decide
<1>8. ASSUME NEW p \in Process, Lost(p) PROVE FALSE
  BY <1>2, <1>4, <1>8 DEF Lost, FailureLost, StatementErrored, Crash, Restart
<1>9. ASSUME NEW p \in Process, Step(p)
      PROVE  proc[p].entry = e /\ proc[p].at = "completing"
  <2>1. CASE Reprocess(p) \/ TakeEffect(p) \/ NoEffect(p) \/ CompleteFails(p)
    BY <1>2, <2>1 DEF Reprocess, TakeEffect, NoEffect, CompleteFails
  <2>2. CASE Request(p) \/ RecordFailure(p)
    BY <1>2, <1>4, <2>2 DEF Request, RecordFailure
  <2>3. ASSUME NEW t \in Token, Claim(p, t) PROVE FALSE
    BY <1>2, <1>4, <2>3 DEF Claim
  <2>4. CASE Complete(p)
    BY <1>3, <2>4 DEF Complete
  <2> QED BY <1>9, <2>1, <2>2, <2>3, <2>4 DEF Step
<1>10. ~UNCHANGED vars
  BY <1>2 DEF vars
<1> QED BY <1>5, <1>6, <1>7, <1>8, <1>9, <1>10 DEF Next

(* The inductive form of ResolvedAfterEffect: a request that completes has *)
(* had its effect.                                                         *)
EInv ==
  /\ ResolvedAfterEffect
  /\ \A p \in Process : proc[p].at = "completing" => effect[proc[p].entry] > 0

LEMMA EffectNext ==
  ASSUME IInv, EInv, [Next]_vars
  PROVE  EInv'
<1> USE DEF IInv, TypeOK
<1>1. /\ \A e \in Entry : effect[e] \in Int /\ effect'[e] \in Int /\ effect[e] <= effect'[e]
      /\ row' \in [Entry -> Row]
      /\ \A p \in Process : proc[p].at = "completing" => proc[p].entry \in Entry
  BY NextEffects, InvNext, CopiesAssumption DEF ProcsSound, ProcSound
<1>2. ResolvedAfterEffect'
  <2> SUFFICES ASSUME NEW e \in Entry, row'[e].by = "reprocessor" PROVE effect'[e] > 0
    BY DEF ResolvedAfterEffect
  <2>1. effect[e] > 0
    BY ResolvedByCompletion DEF EInv, ResolvedAfterEffect
  <2> QED BY <1>1, <2>1
<1>3. ASSUME NEW p \in Process, proc'[p].at = "completing"
      PROVE  effect'[proc'[p].entry] > 0
  <2>1. proc'[p].entry = proc[p].entry /\ (proc[p].at = "completing" \/ TakeEffect(p))
    BY <1>3, ProcMoves DEF Remembers, Looks, Over
  <2>2. CASE proc[p].at = "completing"
    BY <1>1, <2>1, <2>2 DEF EInv
  <2>3. CASE TakeEffect(p)
    <3> DEFINE x == proc[p].entry
               n == IF x \in Message /\ effect[x] < MaxCopies THEN effect[x] + 1
                    ELSE IF effect[x] = 0 THEN 1 ELSE effect[x]
    <3>1. x \in Entry
      BY <2>3 DEF TakeEffect, ProcsSound, ProcSound
    <3>2. effect' = [effect EXCEPT ![x] = n]
      BY <2>3 DEF TakeEffect
    <3>3. n > 0
      BY <3>1, CopiesAssumption
    <3> HIDE DEF n, x
    <3>4. effect'[x] > 0
      BY <3>1, <3>2, <3>3
    <3> QED BY <2>1, <3>4 DEF x
  <2> QED BY <2>1, <2>2, <2>3
<1> QED BY <1>2, <1>3 DEF EInv

(* An entry that the reprocessor resolved has had its effect, whatever was *)
(* lost, retried or taken over on the way.                                 *)
THEOREM ResolvedHadEffect == Spec => []ResolvedAfterEffect
<1>1. Init => EInv
  BY DEF Init, EInv, ResolvedAfterEffect, Absent, Idle
<1>2. EInv => ResolvedAfterEffect
  BY DEF EInv
<1> QED BY <1>1, <1>2, EffectNext, Invariant, PTL DEF Spec

-----------------------------------------------------------------------------
(* A request that holds a token moves by its own actions only.             *)
LEMMA AnswerOfHolder ==
  ASSUME IInv, [Next]_vars, NEW p \in Process,
         proc[p].token # NoToken, proc'[p].at = "idle", ~FailureLost(p)
  PROVE  Complete(p) \/ RecordFailure(p)
<1> USE DEF IInv, TypeOK
<1>0. proc[p].at \in {"working", "completing", "failing"}
  BY DEF ProcsSound, ProcSound
<1>1. proc'[p] # proc[p]
  BY <1>0
<1>2. ASSUME NEW q \in Process, NEW n, proc' = [proc EXCEPT ![q] = n] PROVE q = p /\ n.at = "idle"
  BY <1>1, <1>2
<1>3. ASSUME NEW q \in Process, NEW s, Continue(q, s) PROVE q = p /\ s = "idle"
  <2>1. proc[p] \in Proc /\ q = p
    BY <1>1, <1>3 DEF Continue
  <2>2. proc'[p].at = s
    BY <1>3, <2>1 DEF Continue, Proc
  <2> QED BY <2>1, <2>2
<1>4. ASSUME NEW q \in Process, End(q) PROVE q = p
  BY <1>2, <1>4 DEF End
<1>5. ~UNCHANGED proc
  BY <1>1
<1>6. ASSUME NEW e \in Entry, Quarantine(e) \/ Time(e) PROVE FALSE
  BY <1>5, <1>6 DEF Quarantine, Time, ClaimExpires, CooldownPasses
<1>7. ASSUME NEW q \in Process, NEW e \in Entry, Look(q, e) PROVE FALSE
  <2>1. q = p
    BY <1>2, <1>7 DEF Look
  <2> QED BY <1>0, <1>7, <2>1 DEF Look
<1>8. ASSUME NEW q \in Process, NEW x, Decide(q, x) PROVE FALSE
  BY <1>0, <1>4, <1>8 DEF Decide
<1>9. ASSUME NEW q \in Process, Lost(q) PROVE FALSE
  <2>1. CASE FailureLost(q) \/ Restart(q) \/ StatementErrored(q)
    BY <1>0, <1>4, <2>1 DEF FailureLost, Restart, StatementErrored
  <2>2. CASE Crash(q)
    <3>1. proc' = [proc EXCEPT ![q] = [Idle EXCEPT !.at = "down"]]
      BY <2>2 DEF Crash
    <3>2. [Idle EXCEPT !.at = "down"].at = "down"
      BY DEF Idle
    <3> QED BY <1>2, <3>1, <3>2
  <2> QED BY <1>9, <2>1, <2>2 DEF Lost
<1>10. ASSUME NEW q \in Process, Step(q) PROVE Complete(p) \/ RecordFailure(p)
  <2>1. CASE Reprocess(q)
    BY <1>0, <1>3, <1>4, <2>1 DEF Reprocess
  <2>2. CASE Request(q)
    BY <1>0, <1>3, <1>4, <2>2 DEF Request
  <2>3. ASSUME NEW t \in Token, Claim(q, t) PROVE FALSE
    <3>1. proc[q].at = "claiming"
      BY <2>3 DEF Claim
    <3>2. q # p
      BY <1>0, <3>1
    <3>3. proc'[p] = proc[p]
      BY <2>3, <3>2 DEF Claim, End
    <3> QED BY <1>1, <3>3
  <2>4. CASE TakeEffect(q) \/ NoEffect(q) \/ CompleteFails(q)
    BY <1>3, <2>4 DEF TakeEffect, NoEffect, CompleteFails
  <2>5. CASE Complete(q)
    BY <1>3, <1>4, <2>5 DEF Complete
  <2>6. CASE RecordFailure(q)
    BY <1>4, <2>6 DEF RecordFailure
  <2> QED BY <1>10, <2>1, <2>2, <2>3, <2>4, <2>5, <2>6 DEF Step
<1>11. ~UNCHANGED vars
  BY <1>5 DEF vars
<1> QED BY <1>6, <1>7, <1>8, <1>9, <1>10, <1>11 DEF Next

(* A request that answers leaves no claim of its own behind, unless its    *)
(* failure could not be recorded.                                          *)
THEOREM Settled == Spec => AnswerSettles
<1>1. ASSUME IInv, [Next]_vars, NEW p \in Process,
             proc[p].token # NoToken, proc'[p].at = "idle", ~FailureLost(p)
      PROVE  row'[proc[p].entry].claim # proc[p].token
  <2> USE DEF IInv, TypeOK
  <2> DEFINE e == proc[p].entry
  <2>1. e \in Entry /\ row[e] \in Row /\ RowSound(row[e]) /\ Mine(p) = row[e]
    BY <1>1 DEF ProcsSound, ProcSound, RowsSound, Mine
  <2>2. Completed(row[e]).claim = NoToken /\ AttemptFailed(row[e]).claim = NoToken
    BY <2>1 DEF Completed, AttemptFailed, Row
  <2>3. CASE Complete(p)
    BY <1>1, <2>1, <2>2, <2>3 DEF Complete, Write
  <2>4. CASE RecordFailure(p)
    <3>1. CASE Owns(row[e], proc[p].token)
      BY <1>1, <2>1, <2>2, <2>4, <3>1 DEF RecordFailure, Write
    <3>2. CASE ~Owns(row[e], proc[p].token)
      BY <1>1, <2>1, <2>4, <3>2 DEF RecordFailure, Owns, RowSound
    <3> QED BY <3>1, <3>2
  <2> QED BY <1>1, <2>3, <2>4, AnswerOfHolder
<1>2. ASSUME IInv, [Next]_vars
      PROVE  [\A p \in Process :
                /\ proc[p].token # NoToken
                /\ proc'[p].at = "idle"
                /\ ~FailureLost(p)
                => row'[proc[p].entry].claim # proc[p].token]_vars
  BY <1>1, <1>2
<1> QED BY <1>2, Invariant, PTL DEF Spec, AnswerSettles

-----------------------------------------------------------------------------
(* The requests that may still have an effect on an entry. *)
Working(e) == {p \in Process : proc[p].at = "working" /\ proc[p].entry = e}

(* The inductive form of EffectsAreClaims: every effect, and every request *)
(* about to have one, was counted by a claim of its own.                   *)
CInv ==
  \A e \in Entry :
    /\ effect[e] + Cardinality(Working(e)) <= row[e].count
    /\ e \notin Message => effect[e] <= 1

LEMMA CountGrows ==
  ASSUME IInv, [Next]_vars, NEW e \in Entry
  PROVE  row'[e].count >= row[e].count
<1> USE DEF IInv, TypeOK
<1>1. ASSUME NEW r \in Row, NEW s, RowStep(r, s) PROVE s.count >= r.count
  <2>1. r.count \in Nat
    BY DlqAssumption DEF Row
  <2>2. CASE r = Absent /\ s = Quarantined
    BY <2>2 DEF Absent, Quarantined
  <2>3. CASE s \in {Requested(r), Completed(r), AttemptFailed(r)}
    <3>1. s.count = r.count
      BY <2>3 DEF Requested, Completed, AttemptFailed, Row
    <3> QED BY <2>1, <3>1
  <2>4. ASSUME NEW t, s = Claimed(r, t) PROVE s.count >= r.count
    BY <2>1, <2>4 DEF Claimed, Row
  <2>5. ASSUME NEW x, s = Decided(r, x) PROVE s.count >= r.count
    BY <2>1, <2>5 DEF Decided, Row
  <2>6. CASE s = [r EXCEPT !.live = FALSE] \/ s = [r EXCEPT !.ready = TRUE]
    BY <2>1, <2>6 DEF Row
  <2> QED BY <1>1, <2>2, <2>3, <2>4, <2>5, <2>6 DEF RowStep
<1>2. row[e].count \in Nat
  BY DlqAssumption DEF Row
<1>3. CASE UNCHANGED row
  BY <1>2, <1>3
<1>4. ASSUME NEW x \in Entry, NEW s \in Row, RowStep(row[x], s), row' = [row EXCEPT ![x] = s]
      PROVE  row'[e].count >= row[e].count
  BY <1>1, <1>2, <1>4
<1> QED BY <1>3, <1>4, NextRows DEF OneRowMoves

LEMMA WorkingMoves ==
  ASSUME IInv, [Next]_vars, NEW e \in Entry
  PROVE  \/ effect'[e] = effect[e] /\ Working(e)' \subseteq Working(e)
         \/ /\ effect'[e] = effect[e] /\ row'[e].count = row[e].count + 1
            /\ \E p \in Process : Working(e)' \subseteq Working(e) \cup {p}
         \/ /\ effect'[e] <= effect[e] + 1 /\ (e \in Message \/ effect'[e] <= 1)
            /\ \E p \in Working(e) : Working(e)' \subseteq Working(e) \ {p}
<1> USE DEF IInv, TypeOK
<1>0. ASSUME NEW p \in Process, proc[p].at \notin {"idle", "down"} PROVE proc[p].entry \in Entry
  BY <1>0 DEF ProcsSound, ProcSound
<1>1. ASSUME NEW p \in Process, TakeEffect(p)
      PROVE  \/ effect'[e] = effect[e] /\ Working(e)' \subseteq Working(e)
             \/ /\ effect'[e] <= effect[e] + 1 /\ (e \in Message \/ effect'[e] <= 1)
                /\ p \in Working(e) /\ Working(e)' \subseteq Working(e) \ {p}
  <2> DEFINE x == proc[p].entry
             n == IF x \in Message /\ effect[x] < MaxCopies THEN effect[x] + 1
                  ELSE IF effect[x] = 0 THEN 1 ELSE effect[x]
  <2>1. x \in Entry /\ proc[p] \in Proc
    BY <1>0, <1>1 DEF TakeEffect
  <2>2. \A q \in Process \ {p} : proc'[q] = proc[q]
    BY <1>1 DEF TakeEffect, Continue
  <2>3. proc'[p].at # "working"
    BY <1>1, <2>1 DEF TakeEffect, Continue, Proc
  <2>4. Working(e)' \subseteq Working(e) \ {p}
    BY <2>2, <2>3 DEF Working
  <2>5. effect' = [effect EXCEPT ![x] = n]
    BY <1>1 DEF TakeEffect
  <2>6. CASE x = e
    <3>1. p \in Working(e)
      BY <1>1, <2>6 DEF TakeEffect, Working
    <3>2. effect[e] \in Nat /\ effect'[e] = n
      BY <2>1, <2>5, <2>6, CopiesAssumption
    <3>3. n <= effect[e] + 1
      BY <2>6, <3>2
    <3>4. e \in Message \/ n <= 1 \/ n = effect[e]
      BY <2>6, <3>2
    <3> HIDE DEF n, x
    <3>5. CASE n = effect[e]
      BY <2>4, <3>2, <3>5
    <3> QED BY <2>4, <3>1, <3>2, <3>3, <3>4, <3>5
  <2>7. CASE x # e
    <3> HIDE DEF n, x
    <3> QED BY <2>1, <2>4, <2>5, <2>7
  <2> QED BY <2>6, <2>7
<1>2. ASSUME NEW p \in Process, StartsWork(p)
      PROVE  \/ effect'[e] = effect[e] /\ Working(e)' \subseteq Working(e)
             \/ /\ effect'[e] = effect[e] /\ row'[e].count = row[e].count + 1
                /\ Working(e)' \subseteq Working(e) \cup {p}
  <2>1. PICK t \in Token : Claim(p, t)
    BY <1>2 DEF StartsWork
  <2>2. /\ effect' = effect
        /\ row' = [row EXCEPT ![proc[p].entry] = Claimed(Mine(p), t)]
        /\ proc' = [proc EXCEPT ![p].at = "working", ![p].token = t]
        /\ proc[p].entry \in Entry /\ proc[p] \in Proc
    BY <1>0, <1>2, <2>1 DEF StartsWork, Claim, Write
  <2>3. proc'[p].entry = proc[p].entry /\ \A q \in Process \ {p} : proc'[q] = proc[q]
    BY <2>2 DEF Proc
  <2>4. CASE proc[p].entry = e
    <3>1. row'[e].count = row[e].count + 1
      BY <2>2, <2>4 DEF Mine, Claimed, Row
    <3> QED BY <2>2, <2>3, <2>4, <3>1 DEF Working
  <2>5. CASE proc[p].entry # e
    BY <2>2, <2>3, <2>5 DEF Working
  <2> QED BY <2>4, <2>5
<1>3. CASE UNCHANGED effect /\ \A p \in Process : ~StartsWork(p)
  <2>1. ASSUME NEW p \in Process, proc'[p].at = "working"
        PROVE  proc[p].at = "working" /\ proc'[p].entry = proc[p].entry
    BY <1>3, <2>1, ProcMoves DEF Remembers, Looks, Over
  <2> QED BY <1>3, <2>1 DEF Working
<1> QED BY <1>1, <1>2, <1>3, EffectMoves

LEMMA CountNext ==
  ASSUME IInv, CInv, [Next]_vars
  PROVE  CInv'
<1> SUFFICES ASSUME NEW e \in Entry
             PROVE  /\ effect'[e] + Cardinality(Working(e)') <= row'[e].count
                    /\ e \notin Message => effect'[e] <= 1
  BY DEF CInv
<1>1. /\ IsFiniteSet(Working(e)) /\ IsFiniteSet(Working(e)')
  BY FS_Subset, ProcessAssumption DEF Working
<1>2. Cardinality(Working(e)) \in Nat /\ Cardinality(Working(e)') \in Nat
  BY <1>1, FS_CardinalityType
<1>3. /\ effect[e] \in Nat /\ effect'[e] \in Nat
      /\ row[e].count \in Nat /\ row'[e].count \in Nat
  <2>1. IInv'
    BY InvNext
  <2> QED BY <2>1, DlqAssumption, CopiesAssumption DEF IInv, TypeOK, Row
<1>4. /\ effect[e] + Cardinality(Working(e)) <= row[e].count
      /\ e \notin Message => effect[e] <= 1
  BY DEF CInv
<1>5. row'[e].count >= row[e].count
  BY CountGrows
<1>6. CASE effect'[e] = effect[e] /\ Working(e)' \subseteq Working(e)
  <2>1. Cardinality(Working(e)') <= Cardinality(Working(e))
    BY <1>1, <1>6, FS_Subset
  <2> QED BY <1>2, <1>3, <1>4, <1>5, <1>6, <2>1
<1>7. ASSUME effect'[e] = effect[e], row'[e].count = row[e].count + 1,
             NEW p \in Process, Working(e)' \subseteq Working(e) \cup {p}
      PROVE  /\ effect'[e] + Cardinality(Working(e)') <= row'[e].count
             /\ e \notin Message => effect'[e] <= 1
  <2>1. /\ IsFiniteSet(Working(e) \cup {p})
        /\ Cardinality(Working(e) \cup {p}) <= Cardinality(Working(e)) + 1
    <3>1. /\ IsFiniteSet(Working(e) \cup {p})
          /\ Cardinality(Working(e) \cup {p}) =
               IF p \in Working(e) THEN Cardinality(Working(e)) ELSE Cardinality(Working(e)) + 1
      BY <1>1, FS_AddElement
    <3> QED BY <1>2, <3>1
  <2>2. Cardinality(Working(e)') <= Cardinality(Working(e) \cup {p})
    BY <1>7, <2>1, FS_Subset
  <2>3. Cardinality(Working(e) \cup {p}) \in Nat
    BY <2>1, FS_CardinalityType
  <2> QED BY <1>2, <1>3, <1>4, <1>7, <2>1, <2>2, <2>3
<1>8. ASSUME effect'[e] <= effect[e] + 1, e \in Message \/ effect'[e] <= 1,
             NEW p \in Working(e), Working(e)' \subseteq Working(e) \ {p}
      PROVE  /\ effect'[e] + Cardinality(Working(e)') <= row'[e].count
             /\ e \notin Message => effect'[e] <= 1
  <2>1. /\ IsFiniteSet(Working(e) \ {p})
        /\ Cardinality(Working(e) \ {p}) = Cardinality(Working(e)) - 1
    BY <1>1, FS_RemoveElement
  <2>2. Cardinality(Working(e)') <= Cardinality(Working(e) \ {p})
    BY <1>8, <2>1, FS_Subset
  <2> QED BY <1>2, <1>3, <1>4, <1>5, <1>8, <2>1, <2>2
<1> QED BY <1>6, <1>7, <1>8, WorkingMoves DEF IInv

(* Copies of a message never exceed the attempts counted, for every number *)
(* of entries and requests and whatever fails, expires or is taken over;   *)
(* a child job exists at most once.                                        *)
THEOREM EffectsCounted == Spec => []EffectsAreClaims
<1>1. Init => CInv
  <2> SUFFICES ASSUME Init, NEW e \in Entry
               PROVE  /\ effect[e] + Cardinality(Working(e)) <= row[e].count
                      /\ e \notin Message => effect[e] <= 1
    BY DEF CInv
  <2>1. Working(e) = {}
    BY DEF Init, Working, Idle
  <2>2. Cardinality(Working(e)) = 0
    BY <2>1, FS_EmptySet
  <2> QED BY <2>2 DEF Init, Absent
<1>2. IInv /\ CInv => EffectsAreClaims
  <2> SUFFICES ASSUME IInv, CInv, NEW e \in Entry
               PROVE  effect[e] <= row[e].count /\ (e \notin Message => effect[e] <= 1)
    BY DEF EffectsAreClaims
  <2>1. IsFiniteSet(Working(e))
    BY FS_Subset, ProcessAssumption DEF Working
  <2>2. Cardinality(Working(e)) \in Nat
    BY <2>1, FS_CardinalityType
  <2>3. effect[e] \in Nat /\ row[e].count \in Nat
    BY DlqAssumption, CopiesAssumption DEF IInv, TypeOK, Row
  <2> QED BY <2>2, <2>3 DEF CInv
<1> QED BY <1>1, <1>2, CountNext, Invariant, PTL DEF Spec
-----------------------------------------------------------------------------
(* What becomes of a claim whose holder is gone, once nobody is left that   *)
(* passed the checks of reprocess() before and is about to claim.           *)
Abandoned(e) ==
  /\ Orphaned(e)
  /\ \A p \in Process :
       proc[p].at = "claiming" /\ proc[p].entry = e => row[e].count = MaxReprocess

LEMMA AbandonedRow ==
  ASSUME IInv, [Next]_vars, NEW e \in Entry, Abandoned(e)
  PROVE  /\ row'[e].status = row[e].status /\ row'[e].claim = row[e].claim
         /\ row'[e].count = row[e].count
<1> DEFINE Same(s) == /\ s.status = row[e].status /\ s.claim = row[e].claim
                      /\ s.count = row[e].count
<1> SUFFICES ASSUME ~Same(row'[e]) PROVE FALSE
  OBVIOUS
<1> USE DEF IInv, TypeOK
<1>0. /\ row[e] \in Row /\ row[e].status = "reprocessing" /\ row[e].claim # NoToken
      /\ \A p \in Process : proc[p].token # row[e].claim
  BY DEF RowsSound, RowSound, Abandoned, Orphaned
<1>1. ASSUME NEW x \in Entry, NEW s, row' = [row EXCEPT ![x] = s], x = e => Same(s)
      PROVE  FALSE
  BY <1>1
<1>2. ASSUME NEW p \in Process, proc[p].at \notin {"idle", "down"}
      PROVE  proc[p].entry \in Entry
  BY <1>2 DEF ProcsSound, ProcSound
<1>3. ASSUME NEW p \in Process, NEW s, proc[p].at \notin {"idle", "down"}, Write(p, s),
             Owns(Mine(p), proc[p].token)
      PROVE  FALSE
  BY <1>0, <1>1, <1>2, <1>3 DEF Write, Mine, Owns
<1>4. ASSUME NEW p \in Process, NEW s, proc[p].at \notin {"idle", "down"}, Write(p, s),
             CanRequest(Mine(p), proc[p].version) \/ CanDecide(Mine(p), proc[p].version)
      PROVE  FALSE
  BY <1>0, <1>1, <1>2, <1>4 DEF Write, Mine, CanRequest, CanDecide
<1>5. ASSUME NEW p \in Process, NEW s, proc[p].at = "claiming", Write(p, s), CanClaim(Mine(p))
      PROVE  FALSE
  <2>1. proc[p].entry \in Entry
    BY <1>2, <1>5
  <2>2. proc[p].entry = e => row[e].count = MaxReprocess /\ row[e].count < MaxReprocess
    BY <1>5 DEF Abandoned, CanClaim, Mine
  <2>3. proc[p].entry # e
    BY <2>2, DlqAssumption
  <2> QED
    BY <1>1, <1>5, <2>1, <2>3 DEF Write
<1>6. ~UNCHANGED row
  OBVIOUS
<1>7. ASSUME NEW x \in Entry, Quarantine(x) \/ Time(x) PROVE FALSE
  <2>1. CASE Quarantine(x)
    BY <1>0, <1>1, <2>1 DEF Quarantine, Absent
  <2>2. CASE ClaimExpires(x)
    BY <1>0, <1>1, <2>2 DEF ClaimExpires, Row
  <2>3. CASE CooldownPasses(x)
    BY <1>0, <1>1, <2>3 DEF CooldownPasses, Row
  <2> QED BY <1>7, <2>1, <2>2, <2>3 DEF Time
<1>8. ASSUME NEW p \in Process, NEW x \in Entry, Look(p, x) PROVE FALSE
  BY <1>6, <1>8 DEF Look
<1>9. ASSUME NEW p \in Process, NEW x, Decide(p, x) PROVE FALSE
  BY <1>4, <1>6, <1>9 DEF Decide
<1>10. ASSUME NEW p \in Process, Lost(p) PROVE FALSE
  BY <1>4, <1>5, <1>6, <1>10 DEF Lost, FailureLost, StatementErrored, Crash, Restart
<1>11. ASSUME NEW p \in Process, Step(p) PROVE FALSE
  <2>1. CASE Reprocess(p) \/ TakeEffect(p) \/ NoEffect(p) \/ CompleteFails(p)
    BY <1>6, <2>1 DEF Reprocess, TakeEffect, NoEffect, CompleteFails
  <2>2. CASE Request(p)
    BY <1>4, <1>6, <2>2 DEF Request
  <2>3. ASSUME NEW t \in Token, Claim(p, t) PROVE FALSE
    BY <1>5, <1>6, <2>3 DEF Claim
  <2>4. CASE Complete(p)
    BY <1>3, <2>4 DEF Complete, CanComplete
  <2>5. CASE RecordFailure(p)
    BY <1>3, <1>6, <2>5 DEF RecordFailure
  <2> QED BY <1>11, <2>1, <2>2, <2>3, <2>4, <2>5 DEF Step
<1>12. ~UNCHANGED vars
  BY <1>6 DEF vars
<1> QED BY <1>7, <1>8, <1>9, <1>10, <1>11, <1>12 DEF Next

(* Nobody comes to the claim of an entry that is reprocessing: reprocess()  *)
(* refuses that status, and a request that is refused ends.                 *)
LEMMA AbandonedProcs ==
  ASSUME IInv, [Next]_vars, NEW e \in Entry, Abandoned(e), NEW p \in Process
  PROVE  /\ proc'[p].token # row[e].claim
         /\ proc'[p].at = "claiming" /\ proc'[p].entry = e => row[e].count = MaxReprocess
<1> DEFINE Good == /\ proc'[p].token # row[e].claim
                   /\ proc'[p].at = "claiming" /\ proc'[p].entry = e => row[e].count = MaxReprocess
<1>0. /\ proc \in [Process -> Proc] /\ proc[p] \in Proc
      /\ row[e].status = "reprocessing" /\ row[e].claim # NoToken
      /\ proc[p].token # row[e].claim
      /\ proc[p].at = "claiming" /\ proc[p].entry = e => row[e].count = MaxReprocess
  BY DEF IInv, TypeOK, RowsSound, RowSound, Abandoned, Orphaned
<1>1. CASE proc'[p] = proc[p]
  BY <1>0, <1>1
<1>2. ASSUME NEW q \in Process, NEW s, Continue(q, s),
             q = p /\ s = "claiming" => proc[p].entry # e
      PROVE  Good
  <2>1. CASE q = p
    <3>1. proc'[p] = [proc[p] EXCEPT !.at = s]
      BY <1>0, <1>2, <2>1 DEF Continue
    <3> QED BY <1>0, <1>2, <2>1, <3>1 DEF Proc
  <2>2. CASE q # p
    BY <1>0, <1>1, <1>2, <2>2 DEF Continue
  <2> QED BY <2>1, <2>2
<1>3. ASSUME NEW q \in Process, NEW n, proc' = [proc EXCEPT ![q] = n],
             n.token # row[e].claim, n.at # "claiming"
      PROVE  Good
  BY <1>0, <1>1, <1>3
<1>4. ASSUME NEW q \in Process, End(q) PROVE Good
  <2>1. Idle.token # row[e].claim /\ Idle.at # "claiming"
    BY <1>0 DEF Idle
  <2> QED BY <1>3, <1>4, <2>1 DEF End
<1>5. ASSUME NEW q \in Process, NEW x \in Entry, Look(q, x) PROVE Good
  <2> DEFINE n == [Idle EXCEPT !.at = "looked", !.entry = x, !.version = row[x].version,
                               !.saw = row[x].status]
  <2>1. proc' = [proc EXCEPT ![q] = n]
    BY <1>5 DEF Look
  <2>2. n.token # row[e].claim /\ n.at # "claiming"
    BY <1>0 DEF Idle
  <2> HIDE DEF n
  <2> QED BY <1>3, <2>1, <2>2
<1>6. ASSUME NEW q \in Process, NEW t \in Token, Claim(q, t) PROVE Good
  <2>1. CASE ~CanClaim(Mine(q))
    BY <1>4, <1>6, <2>1 DEF Claim
  <2>2. CASE CanClaim(Mine(q))
    <3> DEFINE n == [proc[q] EXCEPT !.at = "working", !.token = t]
    <3>1. proc' = [proc EXCEPT ![q] = n]
      BY <1>6, <2>2 DEF Claim
    <3>2. n.token # row[e].claim /\ n.at # "claiming"
      BY <1>0, <1>6 DEF Proc, Claim, Fresh
    <3> HIDE DEF n
    <3> QED BY <1>3, <3>1, <3>2
  <2> QED BY <2>1, <2>2
<1>7. ASSUME NEW q \in Process, Step(q) PROVE Good
  <2>1. CASE Reprocess(q)
    BY <1>0, <1>2, <1>4, <2>1 DEF Reprocess, Mine
  <2>2. CASE Request(q)
    BY <1>0, <1>2, <1>4, <2>2 DEF Request, CanRequest, Mine
  <2>3. CASE TakeEffect(q)
    BY <1>2, <2>3 DEF TakeEffect
  <2>4. CASE NoEffect(q) \/ CompleteFails(q)
    BY <1>2, <2>4 DEF NoEffect, CompleteFails
  <2>5. CASE Complete(q)
    BY <1>2, <1>4, <2>5 DEF Complete
  <2>6. CASE RecordFailure(q)
    BY <1>4, <2>6 DEF RecordFailure
  <2> QED BY <1>6, <1>7, <2>1, <2>2, <2>3, <2>4, <2>5, <2>6 DEF Step
<1>8. ASSUME NEW q \in Process, Lost(q) PROVE Good
  <2>1. CASE FailureLost(q) \/ Restart(q) \/ StatementErrored(q)
    BY <1>4, <2>1 DEF FailureLost, Restart, StatementErrored
  <2>2. CASE Crash(q)
    <3>1. [Idle EXCEPT !.at = "down"].token # row[e].claim /\ [Idle EXCEPT !.at = "down"].at # "claiming"
      BY <1>0 DEF Idle
    <3> QED BY <1>3, <2>2, <3>1 DEF Crash
  <2> QED BY <1>8, <2>1, <2>2 DEF Lost
<1>9. ASSUME NEW q \in Process, NEW x, Decide(q, x) PROVE Good
  BY <1>4, <1>9 DEF Decide
<1>10. ASSUME NEW x \in Entry, Quarantine(x) \/ Time(x) PROVE Good
  BY <1>1, <1>10 DEF Quarantine, Time, ClaimExpires, CooldownPasses
<1>11. CASE UNCHANGED vars
  BY <1>1, <1>11 DEF vars
<1> QED BY <1>5, <1>7, <1>8, <1>9, <1>10, <1>11 DEF Next

(* An abandoned entry is never recovered: neither the expiry of its claim   *)
(* nor any later request, decision or restart moves it.  RecoveredByExpiry  *)
(* fails for every number of requests and every budget.                     *)
THEOREM AbandonedForever ==
  ASSUME NEW e \in Entry
  PROVE  Spec => [](Abandoned(e) => []Abandoned(e))
<1>1. ASSUME IInv, Abandoned(e), [Next]_vars PROVE Abandoned(e)'
  BY <1>1, AbandonedRow, AbandonedProcs DEF Abandoned, Orphaned
<1> QED
  BY <1>1, Invariant, PTL DEF Spec
=============================================================================
