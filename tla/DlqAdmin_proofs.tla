--------------------------- MODULE DlqAdmin_proofs --------------------------
(***************************************************************************)
(* Theorems about DlqAdmin, for any number of entries, requests and keys.  *)
(*                                                                         *)
(* None of the three properties is inductive.  That a decision is made,    *)
(* audited and recorded once rests on the two locks: no two transactions   *)
(* hold one key, no two have written one row, and while a transaction      *)
(* holds them nobody else changes what it read (AdminInv).                 *)
(***************************************************************************)
EXTENDS DlqAdmin, FiniteSetTheorems, TLAPS

(* Where the transaction has its key for sure. *)
InKey == {"reading", "preparing", "requesting", "claiming", "working",
          "completing", "failing", "deciding", "committing"}

Unwritten == {"idle", "authorizing", "keying", "reading", "preparing",
              "requesting", "deciding", "succeeded"}
Written == {"claiming", "working", "completing", "failing", "committing"}
Reprocessing == {"preparing", "requesting", "claiming", "working", "completing", "failing"}

Outcome(action) == IF action = "discard" THEN "discarded" ELSE "resolved"
Author(action) == IF action = "reprocess" THEN "reprocessor" ELSE "operator"

(* The effect of a reprocessing, given the broker's counts. *)
Effected(r, c) == IF r.entry \in Message THEN c[r.entry] > 0 ELSE r.born

(* What the table says once the intent of key i is carried out. *)
Done(i, e, v) ==
  /\ row[e].version > v
  /\ row[e].status = Outcome(i[1])
  /\ row[e].by = Author(i[1])
  /\ i[1] = "reprocess" => IF e \in Message THEN copies[e] > 0 ELSE e \in child

(* What a transaction relies on; c is the count of the broker. *)
Tx(r, c) ==
  /\ r.at \in Unwritten => r.mine = Absent
  /\ r.at \in Written => r.mine # Absent
  /\ r.mine # Absent => row[r.entry] = Quarantined /\ r.version = 1 /\ r.mine.version >= 2
  /\ r.at \in Reprocessing => r.slot[1] = "reprocess"
  /\ r.at = "deciding" => r.slot[1] # "reprocess"
  /\ r.at \in InKey => record[r.slot] = NoRecord
  /\ r.at = "completing" => Effected(r, c)
  /\ r.at = "committing" => /\ r.mine.status = Outcome(r.slot[1])
                            /\ r.mine.by = Author(r.slot[1])
                            /\ r.slot[1] = "reprocess" => Effected(r, c)

Locks ==
  \A p, q \in Request : p # q =>
    /\ req[p].slot = req[q].slot => ~(req[p].at \in InKey /\ req[q].at \in InKey)
    /\ req[p].entry = req[q].entry => req[p].mine = Absent \/ req[q].mine = Absent

RowOK(e) == row[e] \in {Absent, Quarantined} \/ row[e].status \in {"resolved", "discarded"}

Users(e) == {i \in Slot : record[i].entry = e}

(* One key of a decided entry, none of another. *)
KeyOK(e) == IF row[e].status \in Final THEN \E i \in Slot : Users(e) = {i} ELSE Users(e) = {}

RecordOK(i) ==
  record[i] # NoRecord =>
    record[i].entry \in Entry /\ Done(i, record[i].entry, record[i].version)

AdminInv ==
  /\ TypeOK
  /\ Locks
  /\ \A p \in Request : Tx(req[p], copies)
  /\ \A p \in Request : req[p].at = "succeeded" => Done(req[p].slot, req[p].entry, req[p].version)
  /\ \A e \in Entry : RowOK(e) /\ KeyOK(e)
  /\ AuditedOnce
  /\ \A i \in Slot : RecordOK(i)

-----------------------------------------------------------------------------
(***************************************************************************)
(* The three kinds of steps that matter: a request advances in private, it *)
(* commits, or the table or a record changes by itself.                    *)
(***************************************************************************)
(* p goes on as r: only the broker may notice. *)
Advances(p, r) ==
  /\ UNCHANGED Committed
  /\ copies' \in [Entry -> 0..MaxCopies]
  /\ \A e \in Entry : copies[e] > 0 => copies'[e] > 0
  /\ r \in Req
  /\ req' = [req EXCEPT ![p] = r]
  /\ Tx(r, copies')
  /\ r.at \in InKey => r.slot = req[p].slot /\ (req[p].at \in InKey \/ KeyFree(p))
  /\ r.mine # Absent => r.entry = req[p].entry /\ (req[p].mine # Absent \/ RowFree(p))
  /\ r.at = "succeeded" => Done(r.slot, r.entry, r.version)

-----------------------------------------------------------------------------
(* The rows that the statements leave. *)
LEMMA AbsentType ==
  Absent \in Row /\ Quarantined \in Row /\ Quarantined # Absent
  /\ Quarantined.version = 1 /\ Quarantined.status = "quarantined" /\ Absent.status = "absent"
  /\ Absent.version = 0
BY DlqAssumption DEF Absent, Quarantined, Row, Status, Final

LEMMA RequestedType ==
  ASSUME NEW r \in Row
  PROVE  Requested(r) \in Row /\ Requested(r).version = r.version + 1
<1>1. r.version + 1 \in Nat
  BY DEF Row
<1> QED
  BY <1>1 DEF Requested, Row, Status

LEMMA ClaimedType ==
  ASSUME NEW r \in Row, CanClaim(r), NEW t \in Token
  PROVE  Claimed(r, t) \in Row /\ Claimed(r, t).version = r.version + 1
<1>1. r.count + 1 \in 0..MaxReprocess /\ r.version + 1 \in Nat
  BY DlqAssumption DEF CanClaim, Row
<1> QED
  BY <1>1 DEF Claimed, Row, Status

LEMMA CompletedType ==
  ASSUME NEW r \in Row
  PROVE  /\ Completed(r) \in Row /\ Completed(r).version = r.version + 1
         /\ Completed(r).status = "resolved" /\ Completed(r).by = "reprocessor"
<1>1. r.version + 1 \in Nat
  BY DEF Row
<1> QED
  BY <1>1 DEF Completed, Row, Status, Final

LEMMA FailedType ==
  ASSUME NEW r \in Row
  PROVE  AttemptFailed(r) \in Row /\ AttemptFailed(r).version = r.version + 1
<1>1. r.version + 1 \in Nat
  BY DEF Row
<1>2. CASE r.count >= MaxReprocess
  BY <1>1, <1>2 DEF AttemptFailed, Row, Status, Final
<1>3. CASE ~(r.count >= MaxReprocess)
  <2>1. (r.count >= MaxReprocess) = FALSE
    BY <1>3
  <2> QED
    BY <1>1, <2>1 DEF AttemptFailed, Row, Status
<1> QED
  BY <1>2, <1>3

LEMMA DecidedType ==
  ASSUME NEW r \in Row, NEW s \in {"resolved", "discarded"}
  PROVE  /\ Decided(r, s) \in Row /\ Decided(r, s).version = r.version + 1
         /\ Decided(r, s).status = s /\ Decided(r, s).by = "operator"
<1>1. r.version + 1 \in Nat
  BY DEF Row
<1> QED
  BY <1>1 DEF Decided, Row, Status, Final

LEMMA IdleType ==
  Idle \in Req /\ Idle.at = "idle" /\ Idle.mine = Absent
<1>1. Slot # {}
  <2>1. PICK k \in Key : TRUE
    BY AdminAssumption
  <2>2. <<"resolve", k>> \in Slot
    BY <2>1 DEF Slot, Action
  <2> QED
    BY <2>2
<1>2. (CHOOSE i \in Slot : TRUE) \in Slot /\ (CHOOSE e \in Entry : TRUE) \in Entry
  BY <1>1, AdminAssumption
<1> QED
  BY <1>2, AbsentType DEF Idle, Req, At

(* A request that is idle or has thrown relies on nothing. *)
LEMMA IdleTx ==
  ASSUME NEW c
  PROVE  Tx(Idle, c)
BY IdleType DEF Tx, Unwritten, Written, Reprocessing, InKey


(* What a statement of p reads is a row; p's own if it has written one. *)
LEMMA ViewType ==
  ASSUME AdminInv, NEW p \in Request
  PROVE  /\ View(p) \in Row /\ req[p] \in Req /\ req[p].entry \in Entry /\ row[req[p].entry] \in Row
         /\ req[p].mine = Absent => View(p) = row[req[p].entry]
         /\ req[p].mine # Absent => View(p) = req[p].mine
         /\ RowOK(req[p].entry) /\ Tx(req[p], copies)
BY DEF AdminInv, TypeOK, View, Req

(* Where a quarantined entry is read nobody has decided it. *)
LEMMA QuarantinedIsNew ==
  ASSUME AdminInv, NEW e \in Entry, row[e].status = "quarantined"
  PROVE  row[e] = Quarantined /\ row[e].version = 1
BY AbsentType DEF AdminInv, RowOK

(* p goes from one place to another without a write. *)
LEMMA GoAdvances ==
  ASSUME AdminInv, NEW p \in Request, NEW s \in At, Go(p, s),
         UNCHANGED <<Committed, copies>>,
         s \in Unwritten => req[p].mine = Absent,
         s \in Written => req[p].mine # Absent,
         s \in Reprocessing => req[p].slot[1] = "reprocess",
         s = "deciding" => req[p].slot[1] # "reprocess",
         s \in InKey => \/ req[p].at \in InKey
                        \/ KeyFree(p) /\ record[req[p].slot] = NoRecord,
         s # "completing", s # "committing",
         s = "succeeded" => Done(req[p].slot, req[p].entry, req[p].version)
  PROVE  \E r \in Req : Advances(p, r)
<1>1. req[p] \in Req /\ Tx(req[p], copies) /\ copies \in [Entry -> 0..MaxCopies]
  BY ViewType DEF AdminInv, TypeOK
<1> DEFINE r == [req[p] EXCEPT !.at = s]
<1>2. /\ r \in Req /\ r.at = s /\ r.mine = req[p].mine /\ r.slot = req[p].slot
      /\ r.entry = req[p].entry /\ r.version = req[p].version
  BY <1>1 DEF Req
<1>3. req' = [req EXCEPT ![p] = r]
  BY DEF Go
<1> HIDE DEF r
<1>4. Tx(r, copies)
  BY <1>1, <1>2 DEF Tx
<1> QED
  BY <1>1, <1>2, <1>3, <1>4 DEF Advances

(* p writes its row, which it holds or finds free. *)
LEMMA GoWithAdvances ==
  ASSUME AdminInv, NEW p \in Request, NEW s \in At, NEW m \in Row, GoWith(p, s, m),
         UNCHANGED <<Committed, copies>>,
         req[p].at \in InKey, s \in Written \cup {"throwing"}, s # "completing",
         row[req[p].entry] = Quarantined, req[p].version = 1, m.version >= 2,
         s \in Reprocessing => req[p].slot[1] = "reprocess",
         s = "committing" => /\ m.status = Outcome(req[p].slot[1])
                             /\ m.by = Author(req[p].slot[1])
                             /\ req[p].slot[1] = "reprocess" => Effected(req[p], copies),
         req[p].mine # Absent \/ RowFree(p)
  PROVE  \E r \in Req : Advances(p, r)
<1>1. req[p] \in Req /\ Tx(req[p], copies) /\ copies \in [Entry -> 0..MaxCopies]
  BY ViewType DEF AdminInv, TypeOK
<1> DEFINE r == [req[p] EXCEPT !.at = s, !.mine = m]
<1>2. /\ r \in Req /\ r.at = s /\ r.mine = m /\ r.slot = req[p].slot
      /\ r.entry = req[p].entry /\ r.version = req[p].version /\ r.born = req[p].born
  BY <1>1 DEF Req
<1>3. req' = [req EXCEPT ![p] = r]
  BY DEF GoWith
<1> HIDE DEF r
<1>4. m # Absent
  BY AbsentType
<1>5. Tx(r, copies)
  BY <1>1, <1>2, <1>4 DEF Tx, Unwritten, Written, Effected
<1>6. s # "succeeded"
  BY DEF Written
<1> QED
  BY <1>1, <1>2, <1>3, <1>5, <1>6 DEF Advances

(* p is idle again, or begins anew. *)
LEMMA ResetAdvances ==
  ASSUME AdminInv, NEW p \in Request, req' = [req EXCEPT ![p] = Idle],
         UNCHANGED <<Committed, copies>>
  PROVE  \E r \in Req : Advances(p, r)
<1>1. copies \in [Entry -> 0..MaxCopies]
  BY DEF AdminInv, TypeOK
<1>2. Idle \in Req /\ Tx(Idle, copies) /\ Idle.at \notin InKey /\ Idle.mine = Absent
      /\ Idle.at # "succeeded"
  BY IdleType, IdleTx DEF InKey
<1> QED
  BY <1>1, <1>2 DEF Advances

-----------------------------------------------------------------------------
(* One lemma per action: it advances its request. *)
LEMMA SendAdvances ==
  ASSUME AdminInv, NEW p \in Request, NEW i \in Slot, NEW e \in Entry, NEW v \in Nat,
         Send(p, i, e, v)
  PROVE  \E r \in Req : Advances(p, r)
<1>1. copies \in [Entry -> 0..MaxCopies]
  BY DEF AdminInv, TypeOK
<1> DEFINE r == [Idle EXCEPT !.at = "authorizing", !.slot = i, !.entry = e, !.version = v]
<1>2. r \in Req /\ r.at = "authorizing" /\ r.mine = Absent
  BY IdleType DEF Req, At
<1>3. req' = [req EXCEPT ![p] = r] /\ UNCHANGED <<Committed, copies>>
  BY DEF Send
<1> HIDE DEF r
<1>4. Tx(r, copies)
  BY <1>2 DEF Tx, Unwritten, Written, Reprocessing, InKey
<1> QED
  BY <1>1, <1>2, <1>3, <1>4 DEF Advances, InKey

LEMMA AuthorizeAdvances ==
  ASSUME AdminInv, NEW p \in Request, Authorize(p)
  PROVE  \E r \in Req : Advances(p, r)
<1>1. req[p].mine = Absent
  BY ViewType DEF Authorize, Tx, Unwritten
<1>2. CASE Go(p, "keying")
  BY <1>1, <1>2, GoAdvances DEF Authorize, At, Written, Reprocessing, InKey
<1>3. CASE Go(p, "throwing")
  BY <1>3, GoAdvances DEF Authorize, At, Unwritten, Written, Reprocessing, InKey
<1> QED
  BY <1>2, <1>3 DEF Authorize

LEMMA ClaimKeyAdvances ==
  ASSUME AdminInv, NEW p \in Request, ClaimKey(p)
  PROVE  \E r \in Req : Advances(p, r)
<1>1. req[p].mine = Absent /\ UNCHANGED <<Committed, copies>> /\ KeyFree(p)
      /\ req[p].slot \in Slot /\ req[p].entry \in Entry
  BY ViewType DEF ClaimKey, Tx, Unwritten, Req
<1>2. CASE record[req[p].slot] = NoRecord /\ Go(p, "reading")
  BY <1>1, <1>2, GoAdvances DEF At, Unwritten, Written, Reprocessing, InKey
<1>3. CASE Go(p, "throwing")
  BY <1>1, <1>3, GoAdvances DEF At, Unwritten, Written, Reprocessing, InKey
<1>4. CASE record[req[p].slot] # NoRecord /\ SameIntent(p) /\ Go(p, "succeeded")
  <2>1. Done(req[p].slot, req[p].entry, req[p].version)
    BY <1>1, <1>4 DEF AdminInv, RecordOK, SameIntent
  <2> QED
    BY <1>1, <1>4, <2>1, GoAdvances DEF At, Unwritten, Written, Reprocessing, InKey
<1> QED
  BY <1>2, <1>3, <1>4 DEF ClaimKey

LEMMA ReadAdvances ==
  ASSUME AdminInv, NEW p \in Request, Read(p)
  PROVE  \E r \in Req : Advances(p, r)
<1>1. req[p].mine = Absent /\ UNCHANGED <<Committed, copies>> /\ req[p].at = "reading"
  BY ViewType DEF Read, Tx, Unwritten
<1>2. CASE Go(p, "throwing")
  BY <1>1, <1>2, GoAdvances DEF At, Unwritten, Written, Reprocessing, InKey
<1>3. CASE DoAction(p) = "reprocess" /\ Go(p, "preparing")
  BY <1>1, <1>3, GoAdvances DEF DoAction, At, Unwritten, Written, Reprocessing, InKey
<1>4. CASE DoAction(p) # "reprocess" /\ Go(p, "deciding")
  BY <1>1, <1>4, GoAdvances DEF DoAction, At, Unwritten, Written, Reprocessing, InKey
<1> QED
  BY <1>2, <1>3, <1>4 DEF Read

LEMMA PrepareAdvances ==
  ASSUME AdminInv, NEW p \in Request, Prepare(p)
  PROVE  \E r \in Req : Advances(p, r)
<1>1. /\ req[p].mine = Absent /\ UNCHANGED <<Committed, copies>> /\ req[p].at = "preparing"
      /\ req[p].slot[1] = "reprocess" /\ View(p) = row[req[p].entry] /\ RowOK(req[p].entry)
  BY ViewType DEF Prepare, Tx, Unwritten, Reprocessing
<1>2. View(p).status # "reprocess_pending"
  BY <1>1, AbsentType DEF RowOK
<1>3. CASE Go(p, "throwing")
  BY <1>1, <1>3, GoAdvances DEF At, Unwritten, Written, Reprocessing, InKey
<1>4. CASE Go(p, "requesting")
  BY <1>1, <1>4, GoAdvances DEF At, Unwritten, Written, Reprocessing, InKey
<1> QED
  BY <1>2, <1>3, <1>4 DEF Prepare

LEMMA RequestEntryAdvances ==
  ASSUME AdminInv, NEW p \in Request, RequestEntry(p)
  PROVE  \E r \in Req : Advances(p, r)
<1>1. /\ req[p].mine = Absent /\ UNCHANGED <<Committed, copies>> /\ req[p].at = "requesting"
      /\ req[p].slot[1] = "reprocess" /\ View(p) = row[req[p].entry] /\ RowFree(p)
      /\ req[p].entry \in Entry /\ View(p) \in Row
  BY ViewType DEF RequestEntry, Tx, Unwritten, Reprocessing
<1>2. CASE Go(p, "throwing")
  BY <1>1, <1>2, GoAdvances DEF At, Unwritten, Written, Reprocessing, InKey
<1>3. CASE CanRequest(View(p), req[p].version) /\ GoWith(p, "claiming", Requested(View(p)))
  <2>1. row[req[p].entry] = Quarantined /\ req[p].version = 1 /\ View(p).version = 1
    BY <1>1, <1>3, QuarantinedIsNew DEF CanRequest
  <2>2. Requested(View(p)) \in Row /\ Requested(View(p)).version >= 2
    BY <1>1, <2>1, RequestedType
  <2> QED
    BY <1>1, <1>3, <2>1, <2>2, GoWithAdvances DEF At, Written, Reprocessing, InKey
<1> QED
  BY <1>2, <1>3 DEF RequestEntry

(* After the request the transaction works on the row it has written. *)
LEMMA WorksOnItsOwn ==
  ASSUME AdminInv, NEW p \in Request, req[p].at \in Written
  PROVE  /\ req[p].mine # Absent /\ View(p) = req[p].mine /\ View(p) \in Row
         /\ row[req[p].entry] = Quarantined /\ req[p].version = 1 /\ View(p).version >= 2
BY ViewType DEF Tx

LEMMA ClaimEntryAdvances ==
  ASSUME AdminInv, NEW p \in Request, NEW t \in Token, ClaimEntry(p, t)
  PROVE  \E r \in Req : Advances(p, r)
<1>1. /\ UNCHANGED <<Committed, copies>> /\ req[p].at = "claiming"
      /\ req[p].slot[1] = "reprocess"
  BY ViewType DEF ClaimEntry, Tx, Reprocessing
<1>2. /\ req[p].mine # Absent /\ View(p) \in Row
      /\ row[req[p].entry] = Quarantined /\ req[p].version = 1 /\ View(p).version >= 2
  BY <1>1, WorksOnItsOwn DEF Written
<1>3. CASE Go(p, "throwing")
  BY <1>1, <1>3, GoAdvances DEF At, Unwritten, Written, Reprocessing, InKey
<1>4. CASE CanClaim(View(p)) /\ GoWith(p, "working", Claimed(View(p), t))
  <2>1. Claimed(View(p), t) \in Row /\ Claimed(View(p), t).version = View(p).version + 1
        /\ View(p).version \in Nat
    BY <1>2, <1>4, ClaimedType DEF Row
  <2>2. Claimed(View(p), t).version >= 2
    BY <1>2, <2>1
  <2> QED
    BY <1>1, <1>2, <1>4, <2>1, <2>2, GoWithAdvances DEF At, Written, Reprocessing, InKey
<1> QED
  BY <1>3, <1>4 DEF ClaimEntry

LEMMA PublishAdvances ==
  ASSUME AdminInv, NEW p \in Request, Publish(p)
  PROVE  \E r \in Req : Advances(p, r)
<1>1. /\ req[p] \in Req /\ Tx(req[p], copies) /\ copies \in [Entry -> 0..MaxCopies]
      /\ req[p].entry \in Entry
  BY ViewType DEF AdminInv, TypeOK
<1>2. req[p].at = "working" /\ UNCHANGED Committed /\ req[p].entry \in Message
  BY DEF Publish
<1> DEFINE e == req[p].entry
           n == IF copies[e] < MaxCopies THEN copies[e] + 1 ELSE copies[e]
<1>3. n \in 0..MaxCopies /\ n > 0
  BY <1>1, CopiesAssumption
<1>4. copies' = [copies EXCEPT ![e] = n]
  BY DEF Publish
<1> HIDE DEF n
<1>5. copies' \in [Entry -> 0..MaxCopies] /\ copies'[e] > 0
  BY <1>1, <1>3, <1>4
<1>6. \A d \in Entry : copies[d] > 0 => copies'[d] > 0
  BY <1>1, <1>3, <1>4
<1>7. PICK s \in {"completing", "failing"} : Go(p, s)
  BY DEF Publish
<1> DEFINE r == [req[p] EXCEPT !.at = s]
<1>8. /\ r \in Req /\ r.at = s /\ r.mine = req[p].mine /\ r.slot = req[p].slot
      /\ r.entry = req[p].entry /\ r.version = req[p].version
  BY <1>1 DEF Req, At
<1>9. req' = [req EXCEPT ![p] = r]
  BY <1>7 DEF Go
<1> HIDE DEF r
<1>10. Tx(r, copies')
  BY <1>1, <1>2, <1>5, <1>7, <1>8
     DEF Tx, Unwritten, Written, Reprocessing, InKey, Effected
<1> QED
  BY <1>2, <1>5, <1>6, <1>7, <1>8, <1>9, <1>10 DEF Advances, InKey

LEMMA RescheduleAdvances ==
  ASSUME AdminInv, NEW p \in Request, Reschedule(p)
  PROVE  \E r \in Req : Advances(p, r)
<1>1. /\ req[p] \in Req /\ Tx(req[p], copies) /\ copies \in [Entry -> 0..MaxCopies]
  BY ViewType DEF AdminInv, TypeOK
<1>2. /\ req[p].at = "working" /\ UNCHANGED <<Committed, copies>>
      /\ req[p].entry \notin Message
  BY AdminAssumption DEF Reschedule
<1> DEFINE r == [req[p] EXCEPT !.at = "completing", !.born = TRUE]
<1>3. /\ r \in Req /\ r.at = "completing" /\ r.mine = req[p].mine /\ r.slot = req[p].slot
      /\ r.entry = req[p].entry /\ r.version = req[p].version /\ r.born = TRUE
  BY <1>1 DEF Req, At
<1>4. req' = [req EXCEPT ![p] = r]
  BY DEF Reschedule
<1> HIDE DEF r
<1>5. Tx(r, copies)
  BY <1>1, <1>2, <1>3 DEF Tx, Unwritten, Written, Reprocessing, InKey, Effected
<1> QED
  BY <1>1, <1>2, <1>3, <1>4, <1>5 DEF Advances, InKey

LEMMA NoEffectAdvances ==
  ASSUME AdminInv, NEW p \in Request, NoEffect(p)
  PROVE  \E r \in Req : Advances(p, r)
<1>1. /\ UNCHANGED <<Committed, copies>> /\ req[p].at = "working" /\ Go(p, "failing")
      /\ req[p].slot[1] = "reprocess" /\ req[p].mine # Absent
  BY ViewType DEF NoEffect, Tx, Reprocessing, Written
<1> QED
  BY <1>1, GoAdvances DEF At, Unwritten, Written, Reprocessing, InKey

LEMMA CompleteEntryAdvances ==
  ASSUME AdminInv, NEW p \in Request, CompleteEntry(p)
  PROVE  \E r \in Req : Advances(p, r)
<1>1. /\ UNCHANGED <<Committed, copies>> /\ req[p].at = "completing"
      /\ req[p].slot[1] = "reprocess" /\ Effected(req[p], copies)
  BY ViewType DEF CompleteEntry, Tx, Reprocessing
<1>2. /\ req[p].mine # Absent /\ View(p) \in Row
      /\ row[req[p].entry] = Quarantined /\ req[p].version = 1 /\ View(p).version >= 2
  BY <1>1, WorksOnItsOwn DEF Written
<1>3. CASE Go(p, "failing")
  BY <1>1, <1>2, <1>3, GoAdvances DEF At, Unwritten, Written, Reprocessing, InKey
<1>4. CASE GoWith(p, "committing", Completed(View(p)))
  <2>1. /\ Completed(View(p)) \in Row /\ Completed(View(p)).version = View(p).version + 1
        /\ Completed(View(p)).status = Outcome(req[p].slot[1])
        /\ Completed(View(p)).by = Author(req[p].slot[1])
        /\ View(p).version \in Nat
    BY <1>1, <1>2, CompletedType DEF Row, Outcome, Author
  <2>2. Completed(View(p)).version >= 2
    BY <1>2, <2>1
  <2> QED
    BY <1>1, <1>2, <1>4, <2>1, <2>2, GoWithAdvances DEF At, Written, Reprocessing, InKey
<1> QED
  BY <1>3, <1>4 DEF CompleteEntry

LEMMA RecordFailureAdvances ==
  ASSUME AdminInv, NEW p \in Request, RecordFailure(p)
  PROVE  \E r \in Req : Advances(p, r)
<1>1. /\ UNCHANGED <<Committed, copies>> /\ req[p].at = "failing"
      /\ GoWith(p, "throwing", AttemptFailed(View(p)))
  BY DEF RecordFailure
<1>2. /\ req[p].mine # Absent /\ View(p) \in Row
      /\ row[req[p].entry] = Quarantined /\ req[p].version = 1 /\ View(p).version >= 2
  BY <1>1, WorksOnItsOwn DEF Written
<1>3. /\ AttemptFailed(View(p)) \in Row
      /\ AttemptFailed(View(p)).version = View(p).version + 1 /\ View(p).version \in Nat
  BY <1>2, FailedType DEF Row
<1>4. AttemptFailed(View(p)).version >= 2
  BY <1>2, <1>3
<1> QED
  BY <1>1, <1>2, <1>3, <1>4, GoWithAdvances DEF At, Reprocessing, InKey

LEMMA DecideEntryAdvances ==
  ASSUME AdminInv, NEW p \in Request, DecideEntry(p)
  PROVE  \E r \in Req : Advances(p, r)
<1>1. /\ req[p].mine = Absent /\ UNCHANGED <<Committed, copies>> /\ req[p].at = "deciding"
      /\ req[p].slot[1] # "reprocess" /\ View(p) = row[req[p].entry] /\ RowFree(p)
      /\ req[p].entry \in Entry /\ View(p) \in Row /\ req[p].slot \in Slot
  BY ViewType DEF DecideEntry, Tx, Unwritten, Req
<1>2. CASE Go(p, "throwing")
  BY <1>1, <1>2, GoAdvances DEF At, Unwritten, Written, Reprocessing, InKey
<1> DEFINE s == IF DoAction(p) = "resolve" THEN "resolved" ELSE "discarded"
<1>3. CASE CanDecide(View(p), req[p].version) /\ GoWith(p, "committing", Decided(View(p), s))
  <2>1. row[req[p].entry] = Quarantined /\ req[p].version = 1 /\ View(p).version = 1
    BY <1>1, <1>3, QuarantinedIsNew DEF CanDecide
  <2>2. req[p].slot[1] \in {"resolve", "discard"}
    BY <1>1 DEF Slot, Action
  <2>3. s \in {"resolved", "discarded"} /\ s = Outcome(req[p].slot[1])
        /\ Author(req[p].slot[1]) = "operator"
    BY <2>2 DEF Outcome, Author, DoAction
  <2> HIDE DEF s
  <2>4. /\ Decided(View(p), s) \in Row /\ Decided(View(p), s).version = 2
        /\ Decided(View(p), s).status = s /\ Decided(View(p), s).by = "operator"
    BY <1>1, <2>1, <2>3, DecidedType
  <2> QED
    BY <1>1, <1>3, <2>1, <2>3, <2>4, GoWithAdvances DEF At, Written, Reprocessing, InKey
<1> QED
  BY <1>2, <1>3 DEF DecideEntry

LEMMA FailuresAdvance ==
  ASSUME AdminInv, NEW p \in Request,
         StatementFails(p) \/ Rollback(p) \/ Crash(p) \/ Answered(p)
  PROVE  \E r \in Req : Advances(p, r)
<1>1. CASE StatementFails(p)
  BY <1>1, GoAdvances DEF StatementFails, At, Unwritten, Written, Reprocessing, InKey
<1>2. CASE Rollback(p) \/ Crash(p) \/ Answered(p)
  BY <1>2, ResetAdvances DEF Rollback, Crash, Answered
<1> QED
  BY <1>1, <1>2

LEMMA ClaimExpiresAdvances ==
  ASSUME AdminInv, NEW p \in Request, ClaimExpires(p)
  PROVE  \E r \in Req : Advances(p, r)
<1>1. /\ req[p] \in Req /\ Tx(req[p], copies) /\ copies \in [Entry -> 0..MaxCopies]
      /\ req[p].at = "succeeded" => Done(req[p].slot, req[p].entry, req[p].version)
  BY ViewType DEF AdminInv, TypeOK
<1>2. req[p].mine.live /\ UNCHANGED <<Committed, copies>> /\ req[p].mine \in Row
  BY <1>1 DEF ClaimExpires, Req
<1>3. req[p].mine # Absent
  BY <1>2 DEF Absent
<1> DEFINE m == [req[p].mine EXCEPT !.live = FALSE]
           r == [req[p] EXCEPT !.mine = m]
<1>4. /\ m \in Row /\ m.version = req[p].mine.version /\ m.status = req[p].mine.status
      /\ m.by = req[p].mine.by
  BY <1>2 DEF Row
<1> HIDE DEF m
<1>5. /\ r \in Req /\ r.at = req[p].at /\ r.mine = m /\ r.slot = req[p].slot
      /\ r.entry = req[p].entry /\ r.version = req[p].version /\ r.born = req[p].born
  BY <1>1, <1>4 DEF Req
<1>6. req' = [req EXCEPT ![p] = [req[p] EXCEPT !.mine = m]]
  BY <1>1 DEF ClaimExpires, m, Req
<1>7. req' = [req EXCEPT ![p] = r]
  BY <1>6
<1> HIDE DEF r
<1>8. m.version >= 2
  BY <1>1, <1>3, <1>4 DEF Tx
<1>9. m # Absent
  BY <1>8, AbsentType
<1>10. Tx(r, copies)
  BY <1>1, <1>3, <1>4, <1>5, <1>8, <1>9 DEF Tx, Effected
<1> QED
  BY <1>1, <1>2, <1>3, <1>5, <1>7, <1>10 DEF Advances

-----------------------------------------------------------------------------
(* The invariant along a private step. *)
LEMMA AdvanceKeepsInv ==
  ASSUME AdminInv, NEW p \in Request, NEW r \in Req, Advances(p, r)
  PROVE  AdminInv'
<1>1. /\ row' = row /\ child' = child /\ record' = record /\ audit' = audit
      /\ copies' \in [Entry -> 0..MaxCopies]
      /\ \A e \in Entry : copies[e] > 0 => copies'[e] > 0
      /\ req' = [req EXCEPT ![p] = r] /\ req \in [Request -> Req]
      /\ req'[p] = r /\ \A q \in Request \ {p} : req'[q] = req[q]
  BY DEF Advances, Committed, AdminInv, TypeOK
<1>2. TypeOK'
  BY <1>1 DEF TypeOK, AdminInv
<1>3. ASSUME NEW i \in Slot, NEW e \in Entry, NEW v, Done(i, e, v)
      PROVE  Done(i, e, v)'
  BY <1>1, <1>3 DEF Done
<1>4. ASSUME NEW a \in Request, NEW b \in Request, a # b
      PROVE  /\ req'[a].slot = req'[b].slot => ~(req'[a].at \in InKey /\ req'[b].at \in InKey)
             /\ req'[a].entry = req'[b].entry => req'[a].mine = Absent \/ req'[b].mine = Absent
  <2>1. ASSUME NEW q \in Request \ {p}
        PROVE  /\ r.slot = req[q].slot => ~(r.at \in InKey /\ req[q].at \in InKey)
               /\ r.entry = req[q].entry => r.mine = Absent \/ req[q].mine = Absent
    <3>1. ASSUME r.slot = req[q].slot, r.at \in InKey, req[q].at \in InKey
          PROVE  FALSE
      <4>1. r.slot = req[p].slot /\ (req[p].at \in InKey \/ KeyFree(p))
        BY <3>1 DEF Advances
      <4>2. ~KeyFree(p)
        BY <3>1, <4>1 DEF KeyFree, HoldsKey, InKey
      <4> QED
        BY <3>1, <4>1, <4>2 DEF AdminInv, Locks
    <3>2. ASSUME r.entry = req[q].entry, r.mine # Absent, req[q].mine # Absent
          PROVE  FALSE
      <4>1. r.entry = req[p].entry /\ (req[p].mine # Absent \/ RowFree(p))
        BY <3>2 DEF Advances
      <4>2. ~RowFree(p)
        BY <3>2, <4>1 DEF RowFree
      <4> QED
        BY <3>2, <4>1, <4>2 DEF AdminInv, Locks
    <3> QED
      BY <3>1, <3>2
  <2>2. CASE a = p
    BY <1>1, <1>4, <2>1, <2>2
  <2>3. CASE b = p
    BY <1>1, <1>4, <2>1, <2>3
  <2>4. CASE a # p /\ b # p
    BY <1>1, <1>4, <2>4 DEF AdminInv, Locks
  <2> QED
    BY <2>2, <2>3, <2>4
<1>5. Locks'
  BY <1>4 DEF Locks
<1>6. ASSUME NEW q \in Request
      PROVE  /\ Tx(req[q], copies)'
             /\ (req[q].at = "succeeded" => Done(req[q].slot, req[q].entry, req[q].version))'
  <2>1. CASE q = p
    <3>1. Tx(r, copies')
      BY DEF Advances
    <3>2. Tx(req[q], copies)'
      BY <1>1, <2>1, <3>1 DEF Tx, Effected
    <3>3. r.at = "succeeded" => Done(r.slot, r.entry, r.version)'
      BY <1>3 DEF Advances, Req
    <3> QED
      BY <1>1, <2>1, <3>2, <3>3 DEF Done
  <2>2. CASE q # p
    <3>1. req'[q] = req[q] /\ req[q] \in Req /\ Tx(req[q], copies)
          /\ (req[q].at = "succeeded" => Done(req[q].slot, req[q].entry, req[q].version))
      BY <1>1, <2>2 DEF AdminInv
    <3>2. Tx(req[q], copies)'
      BY <1>1, <3>1 DEF Tx, Effected, Req
    <3>3. req[q].at = "succeeded" => Done(req[q].slot, req[q].entry, req[q].version)'
      BY <1>3, <3>1 DEF Req
    <3> QED
      BY <3>1, <3>2, <3>3 DEF Done
  <2> QED
    BY <2>1, <2>2
<1>7. ASSUME NEW e \in Entry
      PROVE  RowOK(e)' /\ KeyOK(e)'
  BY <1>1 DEF AdminInv, RowOK, KeyOK, Users
<1>8. AuditedOnce'
  BY <1>1 DEF AdminInv, AuditedOnce
<1>9. ASSUME NEW i \in Slot
      PROVE  RecordOK(i)'
  <2>1. RecordOK(i)
    BY DEF AdminInv
  <2>2. CASE record[i] = NoRecord
    BY <1>1, <2>2 DEF RecordOK
  <2>3. CASE record[i] # NoRecord
    <3>1. record[i].entry \in Entry /\ Done(i, record[i].entry, record[i].version)
      BY <2>1, <2>3 DEF RecordOK
    <3> QED
      BY <1>1, <3>1 DEF Done, RecordOK
  <2> QED
    BY <2>2, <2>3
<1> QED
  BY <1>2, <1>5, <1>6, <1>7, <1>8, <1>9 DEF AdminInv

(* The invariant along the arrival of an entry. *)
LEMMA QuarantineKeepsInv ==
  ASSUME AdminInv, NEW d \in Entry, Quarantine(d)
  PROVE  AdminInv'
<1>1. /\ row[d] = Absent /\ row' = [row EXCEPT ![d] = Quarantined]
      /\ child' = child /\ record' = record /\ audit' = audit
      /\ copies' = copies /\ req' = req
      /\ row \in [Entry -> Row]
  BY DEF Quarantine, AdminInv, TypeOK
<1>2. row'[d] = Quarantined /\ \A e \in Entry \ {d} : row'[e] = row[e]
  BY <1>1
<1>3. TypeOK'
  BY <1>1, AbsentType DEF TypeOK, AdminInv
<1>4. ASSUME NEW i \in Slot, NEW e \in Entry, NEW v \in Nat, Done(i, e, v)
      PROVE  e # d /\ row'[e] = row[e]
  <2>1. e # d
    BY <1>1, <1>4, AbsentType DEF Done
  <2> QED
    BY <1>2, <2>1
<1>5. Locks'
  BY <1>1 DEF AdminInv, Locks
<1>6. ASSUME NEW q \in Request
      PROVE  /\ Tx(req[q], copies)'
             /\ (req[q].at = "succeeded" => Done(req[q].slot, req[q].entry, req[q].version))'
  <2>1. req[q] \in Req /\ Tx(req[q], copies)
        /\ (req[q].at = "succeeded" => Done(req[q].slot, req[q].entry, req[q].version))
    BY DEF AdminInv, TypeOK
  <2>2. req[q].mine # Absent => req[q].entry # d
    BY <1>1, <2>1, AbsentType DEF Tx
  <2>3. Tx(req[q], copies)'
    BY <1>1, <1>2, <2>1, <2>2 DEF Tx, Effected, Req
  <2>4. req[q].at = "succeeded" => row'[req[q].entry] = row[req[q].entry]
    BY <1>4, <2>1 DEF Req
  <2> QED
    BY <1>1, <2>1, <2>3, <2>4 DEF Done
<1>7. ASSUME NEW e \in Entry
      PROVE  RowOK(e)' /\ KeyOK(e)'
  <2>1. CASE e = d
    BY <1>1, <1>2, <2>1, AbsentType DEF AdminInv, RowOK, KeyOK, Users, Final
  <2>2. CASE e # d
    BY <1>1, <1>2, <2>2 DEF AdminInv, RowOK, KeyOK, Users
  <2> QED
    BY <2>1, <2>2
<1>8. AuditedOnce'
  <2>1. row[d].status \notin Final /\ row'[d].status \notin Final
    BY <1>1, <1>2, AbsentType DEF Final
  <2> QED
    BY <1>1, <1>2, <2>1 DEF AdminInv, AuditedOnce
<1>9. ASSUME NEW i \in Slot
      PROVE  RecordOK(i)'
  <2>1. RecordOK(i) /\ record[i] \in Record
    BY DEF AdminInv, TypeOK
  <2>2. CASE record[i] = NoRecord
    BY <1>1, <2>2 DEF RecordOK
  <2>3. CASE record[i] # NoRecord
    <3>1. /\ record[i].entry \in Entry /\ Done(i, record[i].entry, record[i].version)
          /\ record[i].version \in Nat
      BY <2>1, <2>3 DEF RecordOK, Record
    <3>2. row'[record[i].entry] = row[record[i].entry]
      BY <1>4, <3>1
    <3> QED
      BY <1>1, <3>1, <3>2 DEF Done, RecordOK
  <2> QED
    BY <2>2, <2>3
<1> QED
  BY <1>3, <1>5, <1>6, <1>7, <1>8, <1>9 DEF AdminInv

(* The invariant along the expiry of a record. *)
LEMMA ExpiryKeepsInv ==
  ASSUME AdminInv, NEW j \in Slot, RecordExpires(j)
  PROVE  AdminInv'
<1>1. /\ row' = row /\ child' = child /\ audit' = audit /\ copies' = copies /\ req' = req
      /\ record[j].fresh /\ record[j] \in Record /\ record \in [Slot -> Record]
      /\ record' = [record EXCEPT ![j].fresh = FALSE]
  BY DEF RecordExpires, AdminInv, TypeOK
<1> DEFINE m == [record[j] EXCEPT !.fresh = FALSE]
<1>2. m \in Record /\ m.entry = record[j].entry /\ m.version = record[j].version
  BY <1>1 DEF Record
<1>3. record' = [record EXCEPT ![j] = m]
  BY <1>1 DEF Record
<1> HIDE DEF m
<1>4. /\ \A i \in Slot : record'[i].entry = record[i].entry
                        /\ record'[i].version = record[i].version
      /\ \A i \in Slot \ {j} : record'[i] = record[i]
      /\ record' \in [Slot -> Record]
  BY <1>1, <1>2, <1>3
<1>5. record[j] # NoRecord
  BY <1>1 DEF NoRecord
<1>6. TypeOK'
  BY <1>1, <1>4 DEF TypeOK, AdminInv
<1>7. Locks' /\ AuditedOnce'
  BY <1>1 DEF AdminInv, Locks, AuditedOnce
<1>8. ASSUME NEW q \in Request
      PROVE  /\ Tx(req[q], copies)'
             /\ (req[q].at = "succeeded" => Done(req[q].slot, req[q].entry, req[q].version))'
  <2>1. req[q] \in Req /\ Tx(req[q], copies)
        /\ (req[q].at = "succeeded" => Done(req[q].slot, req[q].entry, req[q].version))
    BY DEF AdminInv, TypeOK
  <2>2. req[q].at \in InKey => req[q].slot # j /\ req[q].slot \in Slot
    BY <1>5, <2>1 DEF Tx, Req
  <2> QED
    BY <1>1, <1>4, <2>1, <2>2 DEF Tx, Effected, Done
<1>9. ASSUME NEW e \in Entry
      PROVE  RowOK(e)' /\ KeyOK(e)'
  <2>1. Users(e)' = Users(e)
    BY <1>4 DEF Users
  <2> QED
    BY <1>1, <2>1 DEF AdminInv, RowOK, KeyOK
<1>10. ASSUME NEW i \in Slot
       PROVE  RecordOK(i)'
  <2>1. RecordOK(i) /\ (record'[i] # NoRecord => record[i] # NoRecord)
    BY <1>4, <1>5 DEF AdminInv
  <2> QED
    BY <1>1, <1>4, <2>1 DEF RecordOK, Done
<1> QED
  BY <1>6, <1>7, <1>8, <1>9, <1>10 DEF AdminInv

-----------------------------------------------------------------------------
(* COMMIT: what it finds, and what it leaves. *)
LEMMA CommitEffect ==
  ASSUME AdminInv, NEW p \in Request, Commit(p),
         NEW d \in Entry, d = req[p].entry, NEW j \in Slot, j = req[p].slot
  PROVE  /\ req[p] \in Req
         /\ row[d] = Quarantined /\ record[j] = NoRecord /\ audit[d] = 0
         /\ row' \in [Entry -> Row] /\ row'[d] = req[p].mine
         /\ row'[d].status = Outcome(j[1]) /\ row'[d].by = Author(j[1])
         /\ row'[d].version > 1 /\ req[p].version = 1
         /\ \A e \in Entry \ {d} : row'[e] = row[e]
         /\ record' \in [Slot -> Record]
         /\ record'[j] = [entry |-> d, version |-> 1, fresh |-> TRUE]
         /\ \A i \in Slot \ {j} : record'[i] = record[i]
         /\ audit' \in [Entry -> 0..1] /\ audit'[d] = 1
         /\ \A e \in Entry \ {d} : audit'[e] = audit[e]
         /\ child \subseteq child' /\ child' \subseteq Entry /\ copies' = copies
         /\ j[1] = "reprocess" => IF d \in Message THEN copies'[d] > 0 ELSE d \in child'
<1>1. /\ req[p] \in Req /\ Tx(req[p], copies) /\ req[p].at = "committing"
      /\ row \in [Entry -> Row] /\ record \in [Slot -> Record] /\ audit \in [Entry -> 0..1]
      /\ child \subseteq Entry
  BY ViewType DEF Commit, AdminInv, TypeOK
<1>2. /\ d \in Entry /\ j \in Slot /\ req[p].mine \in Row
      /\ row[d] = Quarantined /\ record[j] = NoRecord /\ req[p].version = 1
      /\ req[p].mine.version >= 2 /\ req[p].mine.version \in Nat
      /\ req[p].mine.status = Outcome(j[1]) /\ req[p].mine.by = Author(j[1])
      /\ j[1] = "reprocess" => Effected(req[p], copies)
  BY <1>1 DEF Tx, Req, Written, InKey, Row
<1>3. audit[d] = 0
  BY <1>2, AbsentType DEF AdminInv, AuditedOnce, Final
<1> DEFINE m == [entry |-> d, version |-> 1, fresh |-> TRUE]
<1>4. m \in Record
  BY <1>2 DEF Record
<1>5. /\ row' = [row EXCEPT ![d] = req[p].mine]
      /\ record' = [record EXCEPT ![j] = m]
      /\ audit' = [audit EXCEPT ![d] = @ + 1]
      /\ child' = IF req[p].born THEN child \cup {d} ELSE child
      /\ copies' = copies
  BY <1>2 DEF Commit
<1>6. /\ row' \in [Entry -> Row] /\ row'[d] = req[p].mine
      /\ \A e \in Entry \ {d} : row'[e] = row[e]
  BY <1>1, <1>2, <1>5
<1>7. /\ record' \in [Slot -> Record] /\ record'[j] = m
      /\ \A i \in Slot \ {j} : record'[i] = record[i]
  <2> HIDE DEF m
  <2> QED
    BY <1>1, <1>2, <1>4, <1>5
<1>8. /\ audit' \in [Entry -> 0..1] /\ audit'[d] = 1
      /\ \A e \in Entry \ {d} : audit'[e] = audit[e]
  BY <1>1, <1>2, <1>3, <1>5
<1>9. /\ child \subseteq child' /\ child' \subseteq Entry
      /\ j[1] = "reprocess" => IF d \in Message THEN copies'[d] > 0 ELSE d \in child'
  BY <1>1, <1>2, <1>5 DEF Effected
<1>10. row'[d].version > 1
  BY <1>2, <1>6
<1> QED
  BY <1>1, <1>2, <1>3, <1>6, <1>7, <1>8, <1>9, <1>10, <1>5

(* What was done stays done. *)
LEMMA CommitKeepsDone ==
  ASSUME AdminInv, NEW p \in Request, Commit(p),
         NEW i \in Slot, NEW e \in Entry, NEW v \in Nat, Done(i, e, v)
  PROVE  e # req[p].entry /\ Done(i, e, v)'
<1>1. Done(i, e, v) => row[e] # Quarantined
  BY AbsentType DEF Done, Outcome
<1>2. PICK d \in Entry, j \in Slot : d = req[p].entry /\ j = req[p].slot
  BY DEF AdminInv, TypeOK, Req
<1>3. /\ e # d => row'[e] = row[e]
      /\ row[d] = Quarantined /\ child \subseteq child' /\ copies' = copies
  BY <1>2, CommitEffect
<1> QED
  BY <1>1, <1>2, <1>3 DEF Done

LEMMA CommitKeepsInv ==
  ASSUME AdminInv, NEW p \in Request, Commit(p)
  PROVE  AdminInv'
<1>0. PICK d \in Entry, j \in Slot : d = req[p].entry /\ j = req[p].slot
  BY DEF AdminInv, TypeOK, Req
<1>a. req[p].at = "committing"
  BY DEF Commit
<1>1. /\ req[p] \in Req /\ req[p].at = "committing"
      /\ row[d] = Quarantined /\ record[j] = NoRecord /\ audit[d] = 0
      /\ row' \in [Entry -> Row]
      /\ row'[d].status = Outcome(j[1]) /\ row'[d].by = Author(j[1])
      /\ row'[d].version > 1 /\ req[p].version = 1
      /\ \A e \in Entry \ {d} : row'[e] = row[e]
      /\ record' \in [Slot -> Record]
      /\ record'[j] = [entry |-> d, version |-> 1, fresh |-> TRUE]
      /\ \A i \in Slot \ {j} : record'[i] = record[i]
      /\ audit' \in [Entry -> 0..1] /\ audit'[d] = 1
      /\ \A e \in Entry \ {d} : audit'[e] = audit[e]
      /\ child \subseteq child' /\ child' \subseteq Entry /\ copies' = copies
      /\ j[1] = "reprocess" => IF d \in Message THEN copies'[d] > 0 ELSE d \in child'
  BY <1>0, <1>a, CommitEffect
<1> DEFINE won == [req[p] EXCEPT !.at = "succeeded", !.mine = Absent, !.born = FALSE]
<1>2. PICK r \in {Idle, won} : req' = [req EXCEPT ![p] = r]
  BY DEF Commit
<1>3. /\ won \in Req /\ won.at = "succeeded" /\ won.mine = Absent
      /\ won.entry = d /\ won.slot = j /\ won.version = 1
  BY <1>0, <1>1, AbsentType DEF Req, At
<1> HIDE DEF won
<1>4. r \in Req /\ r.at \in {"idle", "succeeded"} /\ r.mine = Absent
  BY <1>2, <1>3, IdleType
<1>5. /\ req'[p] = r /\ req' \in [Request -> Req]
      /\ \A q \in Request \ {p} : req'[q] = req[q] /\ req[q] \in Req /\ Tx(req[q], copies)
  BY <1>2, <1>4 DEF AdminInv, TypeOK
<1>6. TypeOK'
  BY <1>1, <1>5 DEF TypeOK, AdminInv
<1>7. Done(j, d, 1)'
  BY <1>1 DEF Done
<1>8. Locks'
  <2> SUFFICES ASSUME NEW a \in Request, NEW b \in Request, a # b
               PROVE
                 /\ req'[a].slot = req'[b].slot => ~(req'[a].at \in InKey /\ req'[b].at \in InKey)
                 /\ req'[a].entry = req'[b].entry => req'[a].mine = Absent \/ req'[b].mine = Absent
    BY DEF Locks
  <2>1. CASE a = p \/ b = p
    BY <1>4, <1>5, <2>1 DEF InKey
  <2>2. CASE a # p /\ b # p
    BY <1>5, <2>2 DEF AdminInv, Locks
  <2> QED
    BY <2>1, <2>2
<1>9. ASSUME NEW q \in Request
      PROVE  /\ Tx(req[q], copies)'
             /\ (req[q].at = "succeeded" => Done(req[q].slot, req[q].entry, req[q].version))'
  <2>1. CASE q = p
    <3>1. Tx(req[q], copies)'
      BY <1>4, <1>5, <2>1 DEF Tx, Unwritten, Written, Reprocessing, InKey
    <3>2. r.at = "succeeded" => r = won
      BY <1>2, IdleType
    <3>3. (req[q].at = "succeeded" => Done(req[q].slot, req[q].entry, req[q].version))'
      BY <1>3, <1>5, <1>7, <2>1, <3>2 DEF Done
    <3> QED
      BY <3>1, <3>3
  <2>2. CASE q # p
    <3>1. /\ req'[q] = req[q] /\ req[q] \in Req /\ Tx(req[q], copies)
          /\ (req[q].at = "succeeded" => Done(req[q].slot, req[q].entry, req[q].version))
      BY <1>5, <2>2 DEF AdminInv
    <3>2. req[q].mine # Absent => req[q].entry # d
      <4>1. req[p].mine # Absent
        BY <1>1, ViewType DEF Tx, Written
      <4> QED
        BY <1>0, <2>2, <4>1 DEF AdminInv, Locks
    <3>3. req[q].at \in InKey => req[q].slot # j
      BY <1>0, <1>1, <2>2 DEF AdminInv, Locks, InKey
    <3>4. Tx(req[q], copies)'
      BY <1>1, <3>1, <3>2, <3>3 DEF Tx, Effected, Req
    <3>5. req[q].at = "succeeded" => Done(req[q].slot, req[q].entry, req[q].version)'
      BY <1>5, <2>2, <3>1, CommitKeepsDone DEF Req
    <3> QED
      BY <3>1, <3>4, <3>5 DEF Done
  <2> QED
    BY <2>1, <2>2
<1>10. row'[d].status \in {"resolved", "discarded"} /\ row[d].status \notin Final
  BY <1>1, AbsentType DEF Outcome, Final
<1>11. ASSUME NEW e \in Entry
       PROVE  RowOK(e)' /\ KeyOK(e)'
  <2>1. RowOK(e) /\ KeyOK(e)
    BY DEF AdminInv
  <2>2. CASE e = d
    <3>1. Users(e) = {}
      BY <1>10, <2>1, <2>2 DEF KeyOK
    <3>2. Users(e)' = {j}
      BY <1>1, <2>2, <3>1 DEF Users
    <3> QED
      BY <1>1, <1>10, <2>2, <3>2 DEF RowOK, KeyOK, Final
  <2>3. CASE e # d
    <3>1. record[j].entry # e
      BY <1>1, AdminAssumption DEF NoRecord
    <3>2. Users(e)' = Users(e)
      BY <1>1, <2>3, <3>1 DEF Users
    <3> QED
      BY <1>1, <2>1, <2>3, <3>2 DEF RowOK, KeyOK
  <2> QED
    BY <2>2, <2>3
<1>12. AuditedOnce'
  BY <1>1, <1>10 DEF AdminInv, AuditedOnce, Final
<1>13. ASSUME NEW i \in Slot
       PROVE  RecordOK(i)'
  <2>1. CASE i = j
    BY <1>1, <1>7, <2>1 DEF RecordOK, Done
  <2>2. CASE i # j
    <3>1. RecordOK(i) /\ record[i] \in Record /\ record'[i] = record[i]
      BY <1>1, <2>2 DEF AdminInv, TypeOK
    <3>2. CASE record[i] = NoRecord
      BY <3>1, <3>2 DEF RecordOK
    <3>3. CASE record[i] # NoRecord
      <4>1. /\ record[i].entry \in Entry /\ record[i].version \in Nat
            /\ Done(i, record[i].entry, record[i].version)
        BY <3>1, <3>3 DEF RecordOK, Record
      <4>2. Done(i, record[i].entry, record[i].version)'
        BY <3>1, <4>1, CommitKeepsDone DEF Done
      <4> QED
        BY <3>1, <4>1, <4>2 DEF RecordOK
    <3> QED
      BY <3>2, <3>3
  <2> QED
    BY <2>1, <2>2
<1> QED
  BY <1>6, <1>8, <1>9, <1>11, <1>12, <1>13 DEF AdminInv

-----------------------------------------------------------------------------
LEMMA StepKeepsInv ==
  ASSUME AdminInv, NEW p \in Request, Step(p)
  PROVE  AdminInv'
<1>1. CASE Commit(p)
  BY <1>1, CommitKeepsInv
<1>2. CASE ~Commit(p)
  <2>1. \E r \in Req : Advances(p, r)
    BY <1>2, AuthorizeAdvances, ClaimKeyAdvances, ReadAdvances, PrepareAdvances,
       RequestEntryAdvances, ClaimEntryAdvances, PublishAdvances, RescheduleAdvances,
       NoEffectAdvances, CompleteEntryAdvances, RecordFailureAdvances,
       DecideEntryAdvances, FailuresAdvance DEF Step
  <2> QED
    BY <2>1, AdvanceKeepsInv
<1> QED
  BY <1>1, <1>2

LEMMA NextKeepsInv ==
  ASSUME AdminInv, [Next]_vars
  PROVE  AdminInv'
<1>1. ASSUME NEW p \in Request, NEW i \in Slot, NEW e \in Entry, NEW v \in 1..row[e].version,
             Send(p, i, e, v)
      PROVE  AdminInv'
  <2>1. row[e].version \in Nat
    BY DEF AdminInv, TypeOK, Row
  <2>2. v \in Nat
    BY <2>1
  <2> QED
    BY <1>1, <2>2, SendAdvances, AdvanceKeepsInv
<1>2. ASSUME NEW p \in Request,
             StatementFails(p) \/ Crash(p) \/ Answered(p) \/ ClaimExpires(p)
      PROVE  AdminInv'
  BY <1>2, FailuresAdvance, ClaimExpiresAdvances, AdvanceKeepsInv
<1>3. CASE UNCHANGED vars
  <2>1. row' = row /\ child' = child /\ record' = record /\ audit' = audit
        /\ copies' = copies /\ req' = req
    BY <1>3 DEF vars
  <2> QED
    BY <2>1 DEF AdminInv, TypeOK, Locks, Tx, Effected, Done, RowOK, KeyOK, Users,
                AuditedOnce, RecordOK
<1> QED
  BY <1>1, <1>2, <1>3, StepKeepsInv, QuarantineKeepsInv, ExpiryKeepsInv DEF Next

LEMMA InitEstablishes ==
  ASSUME Init
  PROVE  AdminInv
<1>1. NoRecord \in Record
  BY DEF NoRecord, Record
<1>2. TypeOK
  <2>1. row \in [Entry -> Row] /\ record \in [Slot -> Record] /\ req \in [Request -> Req]
    BY <1>1, AbsentType, IdleType DEF Init
  <2>2. copies \in [Entry -> 0..MaxCopies] /\ audit \in [Entry -> 0..1] /\ child \subseteq Entry
    BY CopiesAssumption DEF Init
  <2> QED
    BY <2>1, <2>2 DEF TypeOK
<1>3. ASSUME NEW p \in Request
      PROVE  req[p] = Idle /\ Tx(req[p], copies) /\ req[p].at # "succeeded"
             /\ req[p].mine = Absent /\ req[p].at \notin InKey
  BY IdleType, IdleTx DEF Init, InKey
<1>4. ASSUME NEW e \in Entry
      PROVE  RowOK(e) /\ KeyOK(e) /\ row[e] = Absent /\ audit[e] = 0
  BY AbsentType, AdminAssumption DEF Init, RowOK, KeyOK, Users, Final, NoRecord
<1>5. AuditedOnce
  BY <1>4, AbsentType DEF AuditedOnce, Final
<1>6. Locks
  BY <1>3 DEF Locks
<1>7. \A i \in Slot : RecordOK(i)
  BY DEF Init, RecordOK
<1> QED
  BY <1>2, <1>3, <1>4, <1>5, <1>6, <1>7 DEF AdminInv

(* AdminInv is inductive. *)
THEOREM AlwaysAdminInv == Spec => []AdminInv
<1>1. Init => AdminInv
  BY InitEstablishes
<1>2. AdminInv /\ [Next]_vars => AdminInv'
  BY NextKeepsInv
<1> QED
  BY <1>1, <1>2, PTL DEF Spec

-----------------------------------------------------------------------------
LEMMA InvImpliesSuccess ==
  ASSUME AdminInv
  PROVE  SuccessIsDurable
BY DEF AdminInv, SuccessIsDurable, Done, Outcome, Author, DoAction

LEMMA InvImpliesOneKey ==
  ASSUME AdminInv
  PROVE  OneKeyPerDecision
<1> SUFFICES ASSUME NEW e \in Entry
             PROVE  Cardinality(Users(e)) = IF row[e].status \in Final THEN 1 ELSE 0
  BY DEF OneKeyPerDecision, Users
<1>1. KeyOK(e)
  BY DEF AdminInv
<1>2. CASE row[e].status \in Final
  <2>1. PICK i \in Slot : Users(e) = {i}
    BY <1>1, <1>2 DEF KeyOK
  <2>2. Cardinality({i}) = 1
    BY FS_Singleton
  <2> QED
    BY <1>2, <2>1, <2>2
<1>3. CASE row[e].status \notin Final
  <2>1. Users(e) = {}
    BY <1>1, <1>3 DEF KeyOK
  <2> QED
    BY <1>3, <2>1, FS_EmptySet
<1> QED
  BY <1>2, <1>3

(* Type correctness; of the audit it says that no entry has two events. *)
THEOREM AdminTypes == Spec => []TypeOK
BY AlwaysAdminInv, PTL DEF AdminInv

(* Whoever was told of success, at first hand or by a replay of the key,   *)
(* finds the decision and its effect in the table, whatever the others do. *)
THEOREM SuccessHolds == Spec => []SuccessIsDurable
BY AlwaysAdminInv, InvImpliesSuccess, PTL

(* Decision and audit event commit together and once. *)
THEOREM OneAuditPerDecision == Spec => []AuditedOnce
BY AlwaysAdminInv, PTL DEF AdminInv

(* A decision used one key, and a key made one decision. *)
THEOREM OneDecisionPerKey == Spec => []OneKeyPerDecision
BY AlwaysAdminInv, InvImpliesOneKey, PTL
-----------------------------------------------------------------------------
(***************************************************************************)
(* What the administration never persists: an attempt that failed.         *)
(***************************************************************************)
(* No failed attempt is counted in the table: the count of an entry is one *)
(* once the reprocessor has resolved it and zero before.                   *)
CountOf(r) == r.count = IF r.by = "reprocessor" THEN 1 ELSE 0

FailuresUncounted ==
  \A e \in Entry : row[e].status # "exhausted" /\ CountOf(row[e])

(* The count of the row as a transaction has written it. *)
Untried(r) == r.count = 0 /\ r.by = "none"
Tried(r) == r.count = 1 /\ r.by = "none"

Counted(r) ==
  /\ r.at = "claiming" => Untried(r.mine)
  /\ r.at \in {"working", "completing", "failing"} => Tried(r.mine)
  /\ r.at = "committing" => CountOf(r.mine)

CountsInv == FailuresUncounted /\ \A p \in Request : Counted(req[p])

LEMMA NewRowCounts ==
  /\ Absent.count = 0 /\ Absent.by = "none"
  /\ Quarantined.count = 0 /\ Quarantined.by = "none" /\ Quarantined.status = "quarantined"
BY DEF Absent, Quarantined

LEMMA StatementCounts ==
  ASSUME NEW r \in Row
  PROVE  /\ Requested(r).count = r.count /\ Requested(r).by = r.by
         /\ \A t \in Token : Claimed(r, t).count = r.count + 1 /\ Claimed(r, t).by = r.by
         /\ Completed(r).count = r.count /\ Completed(r).by = "reprocessor"
         /\ \A s : Decided(r, s).count = r.count /\ Decided(r, s).by = "operator"
BY DEF Row, Requested, Claimed, Completed, Decided

LEMMA RequestCounts ==
  ASSUME AdminInv, CountsInv, [Next]_vars, NEW p \in Request
  PROVE  Counted(req'[p])
<1> DEFINE Idling == {"idle", "authorizing", "keying", "reading", "preparing", "requesting",
                      "deciding", "throwing", "succeeded"}
<1>0. Counted(req[p]) /\ req \in [Request -> Req]
  BY DEF CountsInv, AdminInv, TypeOK
<1>1. ASSUME UNCHANGED req PROVE Counted(req'[p])
  BY <1>0, <1>1
<1>2. ASSUME NEW q \in Request, NEW n, req' = [req EXCEPT ![q] = n], Counted(n)
      PROVE  Counted(req'[p])
  BY <1>0, <1>2
<1>3. ASSUME NEW q \in Request, NEW s \in Idling, Go(q, s) PROVE Counted(req'[p])
  <2> DEFINE n == [req[q] EXCEPT !.at = s]
  <2>1. n.at = s
    BY <1>0 DEF Req
  <2>2. req' = [req EXCEPT ![q] = n]
    BY <1>3 DEF Go
  <2> HIDE DEF n
  <2>3. Counted(n)
    BY <2>1 DEF Counted
  <2> QED
    BY <1>2, <2>2, <2>3
<1>4. ASSUME NEW q \in Request, NEW s \in {"completing", "failing"}, Go(q, s),
             req[q].at \in {"working", "completing", "failing"}
      PROVE  Counted(req'[p])
  <2> DEFINE n == [req[q] EXCEPT !.at = s]
  <2>1. n.at = s /\ n.mine = req[q].mine /\ Counted(req[q])
    BY <1>0 DEF Req, CountsInv
  <2>2. req' = [req EXCEPT ![q] = n]
    BY <1>4 DEF Go
  <2> HIDE DEF n
  <2>3. Counted(n)
    BY <1>4, <2>1 DEF Counted
  <2> QED
    BY <1>2, <2>2, <2>3
<1>5. ASSUME NEW q \in Request, NEW s, NEW r, GoWith(q, s, r),
             \/ s = "claiming" /\ Untried(r)
             \/ s = "working" /\ Tried(r)
             \/ s = "committing" /\ CountOf(r)
             \/ s = "throwing"
      PROVE  Counted(req'[p])
  <2> DEFINE n == [req[q] EXCEPT !.at = s, !.mine = r]
  <2>1. n.at = s /\ n.mine = r
    BY <1>0 DEF Req
  <2>2. req' = [req EXCEPT ![q] = n]
    BY <1>5 DEF GoWith
  <2> HIDE DEF n
  <2>3. Counted(n)
    BY <1>5, <2>1 DEF Counted
  <2> QED
    BY <1>2, <2>2, <2>3
<1>6. ASSUME NEW q \in Request, req' = [req EXCEPT ![q] = Idle] PROVE Counted(req'[p])
  <2>1. Counted(Idle)
    BY IdleType DEF Counted
  <2> QED
    BY <1>2, <1>6, <2>1
<1>7. ASSUME NEW q \in Request, NEW i \in Slot, NEW e \in Entry, NEW v, Send(q, i, e, v)
      PROVE  Counted(req'[p])
  <2> DEFINE n == [Idle EXCEPT !.at = "authorizing", !.slot = i, !.entry = e, !.version = v]
  <2>1. n.at = "authorizing"
    BY IdleType DEF Req
  <2>2. req' = [req EXCEPT ![q] = n]
    BY <1>7 DEF Send
  <2> HIDE DEF n
  <2>3. Counted(n)
    BY <2>1 DEF Counted
  <2> QED
    BY <1>2, <2>2, <2>3
<1>8. ASSUME NEW q \in Request, Step(q) PROVE Counted(req'[p])
  <2>0. /\ View(q) \in Row /\ Counted(req[q]) /\ req[q] \in Req /\ Tx(req[q], copies)
        /\ req[q].mine = Absent => View(q) = row[req[q].entry]
        /\ req[q].mine # Absent => View(q) = req[q].mine
        /\ req[q].entry \in Entry /\ RowOK(req[q].entry)
    BY ViewType DEF CountsInv
  <2>1. CASE Authorize(q) \/ ClaimKey(q) \/ Read(q)
    BY <1>3, <2>1 DEF Authorize, ClaimKey, Read
  <2>2. CASE Prepare(q)
    <3>1. req[q].mine = Absent
      BY <2>0, <2>2 DEF Tx, Unwritten, Prepare
    <3>2. View(q).status # "reprocess_pending"
      BY <2>0, <3>1, AbsentType DEF RowOK
    <3> QED
      BY <1>3, <2>2, <3>2 DEF Prepare
  <2>3. CASE RequestEntry(q)
    <3>1. CASE CanRequest(View(q), req[q].version)
      <4>1. req[q].mine = Absent
        BY <2>0, <2>3 DEF Tx, Unwritten, RequestEntry
      <4>2. View(q) = Quarantined
        BY <2>0, <3>1, <4>1, QuarantinedIsNew DEF CanRequest
      <4>3. Untried(Requested(View(q)))
        BY <2>0, <4>2, StatementCounts, NewRowCounts DEF Untried
      <4>4. GoWith(q, "claiming", Requested(View(q)))
        BY <2>3, <3>1 DEF RequestEntry
      <4> QED
        BY <1>5, <4>3, <4>4
    <3>2. CASE ~CanRequest(View(q), req[q].version)
      BY <1>3, <2>3, <3>2 DEF RequestEntry
    <3> QED
      BY <3>1, <3>2
  <2>4. ASSUME NEW t \in Token, ClaimEntry(q, t) PROVE Counted(req'[p])
    <3>1. CASE CanClaim(View(q))
      <4>1. View(q) = req[q].mine /\ req[q].at = "claiming"
        BY <2>0, <2>4 DEF Tx, Written, ClaimEntry
      <4>2. View(q).count = 0 /\ View(q).by = "none"
        BY <2>0, <4>1 DEF Counted, Untried
      <4>3. Tried(Claimed(View(q), t))
        BY <2>0, <4>2, StatementCounts DEF Tried
      <4>4. GoWith(q, "working", Claimed(View(q), t))
        BY <2>4, <3>1 DEF ClaimEntry
      <4> QED
        BY <1>5, <4>3, <4>4
    <3>2. CASE ~CanClaim(View(q))
      BY <1>3, <2>4, <3>2 DEF ClaimEntry
    <3> QED
      BY <3>1, <3>2
  <2>5. CASE Publish(q) \/ NoEffect(q)
    BY <1>4, <2>5 DEF Publish, NoEffect
  <2>6. CASE Reschedule(q)
    <3> DEFINE n == [req[q] EXCEPT !.at = "completing", !.born = TRUE]
    <3>1. n.at = "completing" /\ n.mine = req[q].mine /\ req[q].at = "working"
      BY <2>0, <2>6 DEF Req, Reschedule
    <3>2. req' = [req EXCEPT ![q] = n]
      BY <2>6 DEF Reschedule
    <3> HIDE DEF n
    <3>3. Counted(n)
      BY <2>0, <3>1 DEF Counted
    <3> QED
      BY <1>2, <3>2, <3>3
  <2>7. CASE CompleteEntry(q)
    <3>1. View(q) = req[q].mine /\ req[q].at = "completing"
      BY <2>0, <2>7 DEF Tx, Written, CompleteEntry
    <3>2. View(q).count = 1
      BY <2>0, <3>1 DEF Counted, Tried
    <3>3. CountOf(Completed(View(q)))
      BY <2>0, <3>2, StatementCounts DEF CountOf
    <3> QED
      BY <1>4, <1>5, <2>7, <3>1, <3>3 DEF CompleteEntry
  <2>8. CASE RecordFailure(q)
    BY <1>5, <2>8 DEF RecordFailure
  <2>9. CASE DecideEntry(q)
    <3>1. CASE CanDecide(View(q), req[q].version)
      <4>1. req[q].mine = Absent
        BY <2>0, <2>9 DEF Tx, Unwritten, DecideEntry
      <4>2. View(q) = Quarantined
        BY <2>0, <3>1, <4>1, QuarantinedIsNew DEF CanDecide
      <4>3. \A s : CountOf(Decided(View(q), s))
        BY <2>0, <4>2, StatementCounts, NewRowCounts DEF CountOf
      <4> QED
        BY <1>5, <2>9, <3>1, <4>3 DEF DecideEntry
    <3>2. CASE ~CanDecide(View(q), req[q].version)
      BY <1>3, <2>9, <3>2 DEF DecideEntry
    <3> QED
      BY <3>1, <3>2
  <2>10. CASE Commit(q)
    <3> DEFINE n == [req[q] EXCEPT !.at = "succeeded", !.mine = Absent, !.born = FALSE]
    <3>1. n.at = "succeeded"
      BY <2>0 DEF Req
    <3>2. req' = [req EXCEPT ![q] = Idle] \/ req' = [req EXCEPT ![q] = n]
      BY <2>10 DEF Commit
    <3> HIDE DEF n
    <3>3. Counted(n)
      BY <3>1 DEF Counted
    <3> QED
      BY <1>2, <1>6, <3>2, <3>3
  <2>11. CASE Rollback(q)
    BY <1>6, <2>11 DEF Rollback
  <2> QED
    BY <1>8, <2>1, <2>2, <2>3, <2>4, <2>5, <2>6, <2>7, <2>8, <2>9, <2>10, <2>11 DEF Step
<1>9. ASSUME NEW q \in Request, StatementFails(q) \/ Crash(q) \/ Answered(q)
      PROVE  Counted(req'[p])
  BY <1>3, <1>6, <1>9 DEF StatementFails, Crash, Answered
<1>10. ASSUME NEW q \in Request, ClaimExpires(q) PROVE Counted(req'[p])
  <2> DEFINE n == [req[q] EXCEPT !.mine.live = FALSE]
  <2>1. req[q] \in Req /\ Counted(req[q])
    BY <1>0 DEF CountsInv
  <2>2. n.at = req[q].at /\ n.mine.count = req[q].mine.count /\ n.mine.by = req[q].mine.by
    BY <2>1 DEF Req, Row
  <2>3. req' = [req EXCEPT ![q] = n]
    BY <1>10 DEF ClaimExpires
  <2> HIDE DEF n
  <2>4. Counted(n)
    BY <2>1, <2>2 DEF Counted, CountOf, Untried, Tried
  <2> QED
    BY <1>2, <2>3, <2>4
<1> QED
  BY <1>1, <1>7, <1>8, <1>9, <1>10 DEF Next, Quarantine, RecordExpires, vars

LEMMA TableCounts ==
  ASSUME AdminInv, CountsInv, [Next]_vars
  PROVE  FailuresUncounted'
<1>0. AdminInv'
  BY NextKeepsInv
<1>1. \A e \in Entry : row'[e].status # "exhausted"
  <2>1. \A e \in Entry : RowOK(e)'
    BY <1>0 DEF AdminInv
  <2> QED
    BY <2>1, AbsentType DEF RowOK
<1>2. row \in [Entry -> Row] /\ \A e \in Entry : CountOf(row[e])
  BY DEF AdminInv, TypeOK, CountsInv, FailuresUncounted
<1>3. ASSUME NEW d \in Entry, NEW r, row' = [row EXCEPT ![d] = r], CountOf(r)
      PROVE  \A e \in Entry : CountOf(row'[e])
  BY <1>2, <1>3
<1>4. ASSUME NEW d \in Entry, Quarantine(d) PROVE \A e \in Entry : CountOf(row'[e])
  BY <1>3, <1>4, NewRowCounts DEF Quarantine, CountOf
<1>5. ASSUME NEW p \in Request, Commit(p) PROVE \A e \in Entry : CountOf(row'[e])
  <2>1. req[p].entry \in Entry /\ Counted(req[p]) /\ req[p].at = "committing"
    BY <1>5, ViewType DEF CountsInv, Commit
  <2>2. CountOf(req[p].mine)
    BY <2>1 DEF Counted
  <2> QED
    BY <1>3, <1>5, <2>1, <2>2 DEF Commit
<1>6. ASSUME UNCHANGED row PROVE \A e \in Entry : CountOf(row'[e])
  BY <1>2, <1>6
<1>7. UNCHANGED row \/ (\E d \in Entry : Quarantine(d)) \/ \E p \in Request : Commit(p)
  <2>1. ASSUME NEW p \in Request, Step(p) PROVE UNCHANGED row \/ Commit(p)
    BY <2>1 DEF Step, Committed, Authorize, ClaimKey, Read, Prepare, RequestEntry, ClaimEntry,
                Publish, Reschedule, NoEffect, CompleteEntry, RecordFailure, DecideEntry, Rollback
  <2>2. ASSUME NEW p \in Request, StatementFails(p) \/ Crash(p) \/ Answered(p) \/ ClaimExpires(p)
        PROVE  UNCHANGED row
    BY <2>2 DEF Committed, StatementFails, Crash, Answered, ClaimExpires
  <2>3. ASSUME NEW p \in Request, NEW i \in Slot, NEW e \in Entry, NEW v, Send(p, i, e, v)
        PROVE  UNCHANGED row
    BY <2>3 DEF Committed, Send
  <2>4. ASSUME NEW i \in Slot, RecordExpires(i) PROVE UNCHANGED row
    BY <2>4 DEF RecordExpires
  <2> QED
    BY <2>1, <2>2, <2>3, <2>4 DEF Next, vars
<1>8. \A e \in Entry : CountOf(row'[e])
  BY <1>4, <1>5, <1>6, <1>7
<1> QED
  BY <1>1, <1>8 DEF FailuresUncounted, CountOf

(* Whatever is tried and however often it fails, the table shows no failed *)
(* attempt: the budget max_reprocess_attempts never binds, and no entry is *)
(* exhausted.                                                              *)
THEOREM NoFailureIsCounted == Spec => []FailuresUncounted
<1>1. Init => CountsInv
  <2>1. ASSUME Init PROVE CountsInv
    BY <2>1, NewRowCounts, IdleType, AbsentType
       DEF Init, CountsInv, FailuresUncounted, CountOf, Counted
  <2> QED
    BY <2>1
<1>2. AdminInv /\ CountsInv /\ [Next]_vars => CountsInv'
  <2>1. ASSUME AdminInv, CountsInv, [Next]_vars PROVE CountsInv'
    BY <2>1, RequestCounts, TableCounts DEF CountsInv
  <2> QED
    BY <2>1
<1>3. CountsInv => FailuresUncounted
  BY DEF CountsInv
<1> QED
  BY <1>1, <1>2, <1>3, AlwaysAdminInv, PTL DEF Spec
=============================================================================
