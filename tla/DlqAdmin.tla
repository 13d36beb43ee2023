------------------------------ MODULE DlqAdmin -------------------------------
(***************************************************************************)
(* The administration of tenant DLQ entries: DlqAdminService runs each     *)
(* mutation as an authorized tenant operation, in one READ COMMITTED       *)
(* transaction with its idempotency record and its audit events.  Inside   *)
(* it the reprocessors of DlqReprocess see their own writes; everybody     *)
(* else sees them at COMMIT or never.  An UPDATE or a conflicting INSERT   *)
(* waits for the transaction that holds the row or the key.                *)
(***************************************************************************)
EXTENDS DlqStore, FiniteSets

CONSTANTS
  Entry,
  Message,     \* entries with source_kind = "message"; the others are jobs
  Registered,  \* jobs whose type the registry of the service resolves
  Request,     \* HTTP requests in progress
  Key,         \* values of the Idempotency-Key header
  NoEntry,
  MaxCopies    \* bound of the model: copies stop counting here

ASSUME AdminAssumption ==
  /\ Message \subseteq Entry /\ Registered \subseteq Entry \ Message /\ NoEntry \notin Entry
  /\ Entry # {} /\ Key # {}
ASSUME CopiesAssumption == MaxCopies \in Nat \ {0}

VARIABLES
  row,     \* the table, as committed
  child,   \* entries that have a committed child job
  record,  \* idempotency.records, as committed: one per operation and key
  audit,   \* audit[e]: committed SUCCESS events of mutations of e
  copies,  \* copies[e]: messages of e the broker accepted
  req      \* req[p]: the request and its transaction

vars == <<row, child, record, audit, copies, req>>

Action == {"reprocess", "resolve", "discard"}
Slot == Action \X Key

(* The intent a key was used for (its fingerprint) and whether the record  *)
(* is younger than its expiry.                                             *)
Record == [entry : Entry \cup {NoEntry}, version : Nat, fresh : BOOLEAN]
NoRecord == [entry |-> NoEntry, version |-> 0, fresh |-> FALSE]

At == {"idle", "authorizing", "keying", "reading", "preparing", "requesting",
       "claiming", "working", "completing", "failing", "deciding",
       "committing", "throwing", "succeeded"}

(* mine is the row as the transaction has written it, Absent before; born  *)
(* says that it has inserted a child job.                                  *)
Req == [at      : At,
        slot    : Slot,
        entry   : Entry,
        version : Nat,
        mine    : Row,
        born    : BOOLEAN]

TypeOK ==
  /\ row \in [Entry -> Row]
  /\ child \subseteq Entry
  /\ record \in [Slot -> Record]
  /\ audit \in [Entry -> 0..1]
  /\ copies \in [Entry -> 0..MaxCopies]
  /\ req \in [Request -> Req]

Idle == [at |-> "idle", slot |-> CHOOSE i \in Slot : TRUE, entry |-> CHOOSE e \in Entry : TRUE,
         version |-> 0, mine |-> Absent, born |-> FALSE]

Init ==
  /\ row = [e \in Entry |-> Absent]
  /\ child = {}
  /\ record = [i \in Slot |-> NoRecord]
  /\ audit = [e \in Entry |-> 0]
  /\ copies = [e \in Entry |-> 0]
  /\ req = [p \in Request |-> Idle]

-----------------------------------------------------------------------------
(* Mutant of HoldsKey: a key is reserved by asking for it. *)
HoldsKeyByAsking(p) == req[p].at \notin {"idle", "authorizing", "succeeded"}

(* Locks: the key from the INSERT, the row from the first UPDATE.  A        *)
(* request that throws before it has the key counts as holding it until    *)
(* its ROLLBACK, which delays others by that one step.                     *)
HoldsKey(p) ==
  req[p].at \in {"reading", "preparing", "requesting", "claiming", "working",
                 "completing", "failing", "deciding", "committing", "throwing"}

KeyFree(p) == \A q \in Request \ {p} : req[q].slot = req[p].slot => ~HoldsKey(q)

RowFree(p) ==
  \A q \in Request \ {p} : req[q].entry = req[p].entry => req[q].mine = Absent

(* What a statement of p reads. *)
View(p) == IF req[p].mine # Absent THEN req[p].mine ELSE row[req[p].entry]

DoAction(p) == req[p].slot[1]

Go(p, s) == req' = [req EXCEPT ![p].at = s]
GoWith(p, s, r) == req' = [req EXCEPT ![p].at = s, ![p].mine = r]

Committed == <<row, child, record, audit>>

-----------------------------------------------------------------------------
Quarantine(e) ==
  /\ row[e] = Absent
  /\ row' = [row EXCEPT ![e] = Quarantined]
  /\ UNCHANGED <<child, record, audit, copies, req>>

(* A client sends some version up to the current one in If-Match. *)
Send(p, i, e, v) ==
  /\ req[p].at = "idle" /\ row[e] # Absent /\ v <= row[e].version
  /\ req' = [req EXCEPT ![p] = [Idle EXCEPT !.at = "authorizing", !.slot = i,
                                            !.entry = e, !.version = v]]
  /\ UNCHANGED <<Committed, copies>>

(* BEGIN; identity, permission and scope are granted or denied. *)
Authorize(p) ==
  /\ req[p].at = "authorizing"
  /\ Go(p, "keying") \/ Go(p, "throwing")
  /\ UNCHANGED <<Committed, copies>>

SameIntent(p) ==
  /\ record[req[p].slot].entry = req[p].entry
  /\ record[req[p].slot].version = req[p].version

(* Mutant of ClaimKey: no comparison of fingerprints. *)
ClaimKeyAnyIntent(p) ==
  /\ req[p].at = "keying" /\ KeyFree(p)
  /\ IF record[req[p].slot] = NoRecord THEN Go(p, "reading")
     ELSE IF record[req[p].slot].fresh
          THEN Go(p, "succeeded")
          ELSE Go(p, "throwing")
  /\ UNCHANGED <<Committed, copies>>

(* INSERT ... ON CONFLICT DO NOTHING, then the existing record: a replay   *)
(* needs the same fingerprint and an unexpired result, and writes nothing. *)
ClaimKey(p) ==
  /\ req[p].at = "keying" /\ KeyFree(p)
  /\ IF record[req[p].slot] = NoRecord THEN Go(p, "reading")
     ELSE IF SameIntent(p) /\ record[req[p].slot].fresh
          THEN Go(p, "succeeded")
          ELSE Go(p, "throwing")
  /\ UNCHANGED <<Committed, copies>>

(* findById, the comparison with If-Match, assertState. *)
Read(p) ==
  /\ req[p].at = "reading"
  /\ IF row[req[p].entry].version # req[p].version THEN Go(p, "throwing")
     ELSE IF DoAction(p) = "reprocess"
          THEN Go(p, IF row[req[p].entry].status \in {"quarantined", "reprocess_pending"}
                     THEN "preparing" ELSE "throwing")
          ELSE Go(p, IF row[req[p].entry].status = "quarantined"
                     THEN "deciding" ELSE "throwing")
  /\ UNCHANGED <<Committed, copies>>

(* The reprocessor's own findById. *)
Prepare(p) ==
  /\ req[p].at = "preparing"
  /\ Go(p, IF View(p).status = "quarantined" THEN "requesting"
           ELSE IF View(p).status = "reprocess_pending" /\ View(p).version = req[p].version
           THEN "claiming" ELSE "throwing")
  /\ UNCHANGED <<Committed, copies>>

(* Mutant of RequestEntry: does not wait for the row. *)
RequestEntryUnlocked(p) ==
  /\ req[p].at = "requesting"
  /\ IF CanRequest(View(p), req[p].version)
     THEN GoWith(p, "claiming", Requested(View(p))) ELSE Go(p, "throwing")
  /\ UNCHANGED <<Committed, copies>>

RequestEntry(p) ==
  /\ req[p].at = "requesting" /\ RowFree(p)
  /\ IF CanRequest(View(p), req[p].version)
     THEN GoWith(p, "claiming", Requested(View(p))) ELSE Go(p, "throwing")
  /\ UNCHANGED <<Committed, copies>>

ClaimEntry(p, t) ==
  /\ req[p].at = "claiming" /\ RowFree(p)
  /\ IF CanClaim(View(p)) THEN GoWith(p, "working", Claimed(View(p), t)) ELSE Go(p, "throwing")
  /\ UNCHANGED <<Committed, copies>>

(* The broker is not part of the transaction.  It may accept and confirm,  *)
(* or accept and the publisher reports an error.                           *)
Publish(p) ==
  /\ req[p].at = "working" /\ req[p].entry \in Message
  /\ copies' = [copies EXCEPT ![req[p].entry] = IF @ < MaxCopies THEN @ + 1 ELSE @]
  /\ Go(p, "completing") \/ Go(p, "failing")
  /\ UNCHANGED Committed

(* The child job is inserted in the transaction, or found: one per entry.  *)
Reschedule(p) ==
  /\ req[p].at = "working" /\ req[p].entry \in Registered
  /\ req' = [req EXCEPT ![p].at = "completing", ![p].born = TRUE]
  /\ UNCHANGED <<Committed, copies>>

NoEffect(p) ==
  /\ req[p].at = "working"
  /\ Go(p, "failing")
  /\ UNCHANGED <<Committed, copies>>

CompleteEntry(p) ==
  /\ req[p].at = "completing"
  /\ IF CanComplete(View(p), View(p).claim)
     THEN GoWith(p, "committing", Completed(View(p))) ELSE Go(p, "failing")
  /\ UNCHANGED <<Committed, copies>>

(* failReprocess is written, and the error thrown on. *)
RecordFailure(p) ==
  /\ req[p].at = "failing"
  /\ GoWith(p, "throwing", AttemptFailed(View(p)))
  /\ UNCHANGED <<Committed, copies>>

DecideEntry(p) ==
  /\ req[p].at = "deciding" /\ RowFree(p)
  /\ IF CanDecide(View(p), req[p].version)
     THEN GoWith(p, "committing",
                 Decided(View(p), IF DoAction(p) = "resolve" THEN "resolved" ELSE "discarded"))
     ELSE Go(p, "throwing")
  /\ UNCHANGED <<Committed, copies>>

(* Mutant of Commit: the stored result is written elsewhere, later. *)
CommitWithoutRecord(p) ==
  /\ req[p].at = "committing"
  /\ row' = [row EXCEPT ![req[p].entry] = req[p].mine]
  /\ child' = IF req[p].born THEN child \cup {req[p].entry} ELSE child
  /\ audit' = [audit EXCEPT ![req[p].entry] = @ + 1]
  /\ \E q \in {Idle, [req[p] EXCEPT !.at = "succeeded", !.mine = Absent, !.born = FALSE]} :
       req' = [req EXCEPT ![p] = q]
  /\ UNCHANGED <<record, copies>>

(* The audit of the service, the stored result, the audit of the operation *)
(* and COMMIT; its reply may be lost.                                      *)
Commit(p) ==
  /\ req[p].at = "committing"
  /\ row' = [row EXCEPT ![req[p].entry] = req[p].mine]
  /\ child' = IF req[p].born THEN child \cup {req[p].entry} ELSE child
  /\ record' = [record EXCEPT ![req[p].slot] =
                  [entry |-> req[p].entry, version |-> req[p].version, fresh |-> TRUE]]
  /\ audit' = [audit EXCEPT ![req[p].entry] = @ + 1]
  /\ \E q \in {Idle, [req[p] EXCEPT !.at = "succeeded", !.mine = Absent, !.born = FALSE]} :
       req' = [req EXCEPT ![p] = q]
  /\ UNCHANGED copies

(* A query, the COMMIT or the publisher's set-up is rejected.  After an     *)
(* error PostgreSQL takes no further statement of the transaction, so a    *)
(* failReprocess would be refused too, and its error swallowed.            *)
StatementFails(p) ==
  /\ (HoldsKey(p) /\ req[p].at # "throwing") \/ req[p].at = "keying"
  /\ Go(p, "throwing")
  /\ UNCHANGED <<Committed, copies>>

(* Mutant of Rollback: the written row survives. *)
RollbackPartial(p) ==
  /\ req[p].at = "throwing"
  /\ row' = [row EXCEPT ![req[p].entry] = View(p)]
  /\ req' = [req EXCEPT ![p] = Idle]
  /\ UNCHANGED <<child, record, audit, copies>>

(* ROLLBACK and the answer; the audit of the failure is a second,          *)
(* best-effort transaction that touches nothing else.                      *)
Rollback(p) ==
  /\ req[p].at = "throwing"
  /\ req' = [req EXCEPT ![p] = Idle]
  /\ UNCHANGED <<Committed, copies>>

(* The function instance is gone; PostgreSQL rolls its session back. *)
Crash(p) ==
  /\ req[p].at \notin {"idle", "succeeded"}
  /\ req' = [req EXCEPT ![p] = Idle]
  /\ UNCHANGED <<Committed, copies>>

Answered(p) ==
  /\ req[p].at = "succeeded"
  /\ req' = [req EXCEPT ![p] = Idle]
  /\ UNCHANGED <<Committed, copies>>

ClaimExpires(p) ==
  /\ req[p].mine.live
  /\ req' = [req EXCEPT ![p].mine.live = FALSE]
  /\ UNCHANGED <<Committed, copies>>

RecordExpires(i) ==
  /\ record[i].fresh
  /\ record' = [record EXCEPT ![i].fresh = FALSE]
  /\ UNCHANGED <<row, child, audit, copies, req>>

-----------------------------------------------------------------------------
Step(p) ==
  \/ Authorize(p) \/ ClaimKey(p) \/ Read(p) \/ Prepare(p) \/ RequestEntry(p)
  \/ (\E t \in Token : ClaimEntry(p, t))
  \/ Publish(p) \/ Reschedule(p) \/ NoEffect(p) \/ CompleteEntry(p)
  \/ RecordFailure(p) \/ DecideEntry(p) \/ Commit(p) \/ Rollback(p)

Next ==
  \/ \E e \in Entry : Quarantine(e)
  \/ \E i \in Slot : RecordExpires(i)
  \/ \E p \in Request :
       \/ \E i \in Slot, e \in Entry : \E v \in 1..row[e].version : Send(p, i, e, v)
       \/ Step(p) \/ StatementFails(p) \/ Crash(p) \/ Answered(p) \/ ClaimExpires(p)

Spec == Init /\ [][Next]_vars

(* A request that is not killed goes on: a query is answered or its        *)
(* connection breaks, publish has a timeout.  Two requests that wait for   *)
(* one lock get it in some order.                                          *)
FairSpec == Spec /\ \A p \in Request : SF_vars(Step(p))

-----------------------------------------------------------------------------
(* A client that was told of success, at first hand or by a replay, finds  *)
(* its own decision in the table: for the entry it named, of the kind it   *)
(* asked for, made at the version it had seen, and of a reprocessing also  *)
(* the effect: the message is published, the child job is there.           *)
SuccessIsDurable ==
  \A p \in Request :
    req[p].at = "succeeded" =>
      LET r == row[req[p].entry]
      IN  /\ r.version > req[p].version
          /\ r.status = IF DoAction(p) = "discard" THEN "discarded" ELSE "resolved"
          /\ r.by = IF DoAction(p) = "reprocess" THEN "reprocessor" ELSE "operator"
          /\ DoAction(p) = "reprocess" =>
               IF req[p].entry \in Message THEN copies[req[p].entry] > 0 ELSE req[p].entry \in child

(* An entry carries one SUCCESS audit event of a mutation if it is decided *)
(* and none otherwise: decision and audit commit together, and concurrent  *)
(* requests do not both decide.                                            *)
AuditedOnce ==
  \A e \in Entry : audit[e] = IF row[e].status \in Final THEN 1 ELSE 0

(* Each decision used exactly one key, whose record names it for ever, and *)
(* a key never serves two intents: a client whose COMMIT reply was lost    *)
(* can learn of it, and an expired record does not free its key.           *)
OneKeyPerDecision ==
  \A e \in Entry :
    Cardinality({i \in Slot : record[i].entry = e}) = IF row[e].status \in Final THEN 1 ELSE 0

(* Requests queue for keys and rows, and every request is answered or lost *)
(* with its process: there is no deadlock between the two kinds of lock.   *)
EveryRequestEnds ==
  \A p \in Request : req[p].at = "authorizing" ~> req[p].at \in {"idle", "succeeded"}

(* The documentation of both reprocessors: a failure after the claim ends  *)
(* in the life cycle of the entry, which is quarantined again with a       *)
(* backoff and its attempt counted, or exhausted; so attempts are bounded. *)
FailureIsKept ==
  [][\A p \in Request :
       (Rollback(p) /\ req[p].mine.status \in {"quarantined", "exhausted"})
         => row'[req[p].entry].count >= req[p].mine.count]_vars
=============================================================================
