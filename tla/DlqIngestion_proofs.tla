------------------------- MODULE DlqIngestion_proofs ------------------------
(***************************************************************************)
(* Theorems about DlqIngestion, for any number of letters, entries and     *)
(* requests and any number of persistence retries: ingestion disturbs      *)
(* nothing of the administration, and no dead letter is lost quietly.      *)
(***************************************************************************)
EXTENDS DlqIngestion, DlqAdmin_proofs

(* What the broker and a task know of a letter: a redelivery from the      *)
(* ingestion queue follows an earlier one, and a task that has an answer   *)
(* has it because the entry is there.                                      *)
LetterOK(d) ==
  /\ letter[d].at \in {"dead", "unacked"} /\ letter[d].redelivered => letter[d].again
  /\ task[d].at \in {"found", "missing"} /\ letter[d].source \in Message
       => row[letter[d].source] # Absent

IngestTypes ==
  /\ letter \in [Letter -> LetterRow]
  /\ task \in [Letter -> Task]
  /\ worker \in {"down", "listening", "deaf"}
  /\ cast \in Casts

IngestInv == AdminInv /\ IngestTypes /\ \A d \in Letter : LetterOK(d)

(* What a step may do to letter d, besides keeping LetterOK. *)
GoodLeave(d) ==
  Leaves(d) /\ letter[d].source \in Message =>
    \/ row'[letter[d].source] # Absent
    \/ letter'[d].at = "rejected" /\ letter[d].again /\ Exhausted(d)

LetterStep(d) == LetterOK(d)' /\ GoodLeave(d)

(* l becomes m, of the same source. *)
SameLetter(l, m) ==
  /\ m \in LetterRow /\ m.source = l.source
  /\ m.at \in {"dead", "unacked"} /\ m.redelivered => m.again

EntriesStay == \A e \in Entry : row[e] # Absent => row'[e] # Absent

-----------------------------------------------------------------------------
(* Every step of the pipeline is a step of the administration, or none.    *)
LEMMA PipelineStepsAdmin ==
  ASSUME [PipelineNext]_pipelineVars
  PROVE  [Next]_vars
<1>1. CASE UNCHANGED vars
  BY <1>1
<1>2. ASSUME NEW e \in Entry, Quarantine(e)
      PROVE  Next
  BY <1>2 DEF Next
<1>3. CASE AdminNext
  <2>1. ASSUME NEW p \in Request, NEW i \in Action \X (Key \cap cast), NEW e \in Entry,
               NEW v \in 1..row[e].version, Send(p, i, e, v)
        PROVE  Next
    <3>1. i \in Slot
      BY DEF Slot
    <3> QED
      BY <2>1, <3>1 DEF Next
  <2>2. ASSUME NEW p \in Request,
               Step(p) \/ StatementFails(p) \/ Crash(p) \/ Answered(p) \/ ClaimExpires(p)
        PROVE  Next
    BY <2>2 DEF Next
  <2>3. ASSUME NEW i \in Slot, RecordExpires(i)
        PROVE  Next
    BY <2>3 DEF Next
  <2> QED
    BY <1>2, <1>3, <2>1, <2>2, <2>3 DEF AdminNext
<1>4. ASSUME NEW d \in Letter, Ingest(d) \/ QuarantineFails(d)
      PROVE  [Next]_vars
  <2>1. CASE QuarantineOutboxMessage(d)
    BY <1>2, <2>1, AdminAssumption DEF QuarantineOutboxMessage
  <2>2. CASE ~QuarantineOutboxMessage(d)
    BY <1>4, <2>2 DEF Ingest, QuarantineFails, Deliver, QuarantineBegins, Acknowledge,
                      RejectMissing, Retry, GiveUp
  <2> QED
    BY <2>1, <2>2
<1> QED
  BY <1>1, <1>3, <1>4 DEF PipelineNext, pipelineVars, vars

(* An entry never leaves the table. *)
LEMMA EntriesNeverVanish ==
  ASSUME AdminInv, [Next]_vars
  PROVE  EntriesStay
<1>1. CASE row' = row
  BY <1>1 DEF EntriesStay
<1>2. ASSUME NEW e \in Entry, Quarantine(e)
      PROVE  EntriesStay
  BY <1>2, AbsentType DEF Quarantine, EntriesStay, AdminInv, TypeOK
<1>3. ASSUME NEW p \in Request, Commit(p)
      PROVE  EntriesStay
  <2>1. PICK d \in Entry, j \in Slot : d = req[p].entry /\ j = req[p].slot
    BY DEF AdminInv, TypeOK, Req
  <2>2. row'[d].version > 1 /\ \A e \in Entry \ {d} : row'[e] = row[e]
    BY <1>3, <2>1, CommitEffect
  <2>3. row'[d] # Absent
    BY <2>2, AbsentType
  <2> QED
    BY <2>2, <2>3 DEF EntriesStay
<1>4. ASSUME NEW p \in Request, Step(p), ~Commit(p)
      PROVE  row' = row
  BY <1>4 DEF Step, Authorize, ClaimKey, Read, Prepare, RequestEntry, ClaimEntry, Publish,
              Reschedule, NoEffect, CompleteEntry, RecordFailure, DecideEntry, Rollback,
              Committed
<1>5. ASSUME NEW p \in Request,
             StatementFails(p) \/ Crash(p) \/ Answered(p) \/ ClaimExpires(p)
      PROVE  row' = row
  BY <1>5 DEF StatementFails, Crash, Answered, ClaimExpires, Committed
<1>6. ASSUME NEW p \in Request, NEW i \in Slot, NEW e \in Entry, NEW v, Send(p, i, e, v)
      PROVE  row' = row
  BY <1>6 DEF Send, Committed
<1>7. ASSUME NEW i \in Slot, RecordExpires(i)
      PROVE  row' = row
  BY <1>7 DEF RecordExpires
<1>8. CASE UNCHANGED vars
  BY <1>8 DEF vars, EntriesStay
<1> QED
  BY <1>1, <1>2, <1>3, <1>4, <1>5, <1>6, <1>7, <1>8 DEF Next

-----------------------------------------------------------------------------
(* Letters and tasks that only pass on what they know. *)
LEMMA Bystander ==
  ASSUME IngestInv, EntriesStay, NEW d \in Letter,
         letter'[d] = letter[d], task'[d].at = task[d].at
  PROVE  LetterStep(d)
<1>1. LetterOK(d) /\ Message \subseteq Entry
  BY AdminAssumption DEF IngestInv
<1> QED
  BY <1>1 DEF LetterOK, LetterStep, GoodLeave, Leaves, EntriesStay

(* Letters that do not leave, and whose task has no answer. *)
LEMMA Passing ==
  ASSUME IngestInv, NEW d \in Letter, SameLetter(letter[d], letter'[d]),
         task'[d].at \notin {"found", "missing"},
         letter'[d].at \notin {"acknowledged", "rejected"}
  PROVE  LetterStep(d)
BY DEF SameLetter, LetterOK, LetterStep, GoodLeave, Leaves

(* d moves alone, its task at rest or gone. *)
LEMMA MovesAlone ==
  ASSUME IngestInv, EntriesStay, NEW d \in Letter, NEW m \in LetterRow, NEW t \in Task,
         letter' = [letter EXCEPT ![d] = m], task' = [task EXCEPT ![d] = t],
         worker' \in {"down", "listening", "deaf"}, cast' = cast, LetterStep(d)
  PROVE  IngestTypes' /\ \A c \in Letter : LetterStep(c)
<1>1. letter \in [Letter -> LetterRow] /\ task \in [Letter -> Task] /\ cast \in Casts
  BY DEF IngestInv, IngestTypes
<1>2. IngestTypes'
  BY <1>1 DEF IngestTypes
<1>3. ASSUME NEW c \in Letter
      PROVE  LetterStep(c)
  <2>1. CASE c = d
    BY <2>1
  <2>2. CASE c # d
    <3>1. letter'[c] = letter[c] /\ task'[c] = task[c]
      BY <1>1, <2>2
    <3> QED
      BY <3>1, Bystander
  <2> QED
    BY <2>1, <2>2
<1> QED
  BY <1>2, <1>3

LEMMA NoTaskType == NoTask \in Task /\ NoTask.at = "none"
BY RetriesAssumption DEF NoTask, Task

LEMMA WorkerStopsKeeps ==
  ASSUME IngestInv, EntriesStay, WorkerStops, cast' = cast
  PROVE  IngestTypes' /\ \A d \in Letter : LetterStep(d)
<1>1. letter \in [Letter -> LetterRow] /\ cast \in Casts
  BY DEF IngestInv, IngestTypes
<1>2. ASSUME NEW d \in Letter
      PROVE  /\ Returned[d] \in LetterRow /\ SameLetter(letter[d], Returned[d])
             /\ Returned[d].at \in {"acknowledged", "rejected"} => Returned[d] = letter[d]
  <2> DEFINE m == [letter[d] EXCEPT !.at = "dead", !.redelivered = TRUE, !.again = TRUE]
  <2>1. letter[d] \in LetterRow /\ LetterOK(d)
    BY <1>1 DEF IngestInv
  <2>2. m \in LetterRow /\ m.at = "dead" /\ m.again /\ m.source = letter[d].source
    BY <2>1 DEF LetterRow
  <2>3. Returned[d] = IF letter[d].at = "unacked" THEN m ELSE letter[d]
    BY DEF Returned
  <2> HIDE DEF m
  <2> QED
    BY <2>1, <2>2, <2>3 DEF SameLetter, LetterOK
<1>3. /\ letter' = Returned /\ task' = [d \in Letter |-> NoTask] /\ worker' = "down"
      /\ Returned \in [Letter -> LetterRow]
  BY <1>2 DEF WorkerStops, Returned
<1>4. IngestTypes'
  BY <1>1, <1>3, NoTaskType DEF IngestTypes
<1>5. ASSUME NEW d \in Letter
      PROVE  LetterStep(d)
  <2>1. /\ SameLetter(letter[d], letter'[d]) /\ task'[d].at = "none"
        /\ letter'[d].at \in {"acknowledged", "rejected"} => letter'[d] = letter[d]
    BY <1>2, <1>3, NoTaskType
  <2>2. CASE letter'[d].at \in {"acknowledged", "rejected"}
    BY <2>1, <2>2 DEF LetterStep, LetterOK, GoodLeave, Leaves
  <2>3. CASE letter'[d].at \notin {"acknowledged", "rejected"}
    BY <2>1, <2>3, Passing
  <2> QED
    BY <2>2, <2>3
<1> QED
  BY <1>4, <1>5

LEMMA BrokerKeeps ==
  ASSUME IngestInv, EntriesStay, BrokerNext, cast' = cast
  PROVE  IngestTypes' /\ \A d \in Letter : LetterStep(d)
<1>1. /\ letter \in [Letter -> LetterRow] /\ task \in [Letter -> Task] /\ cast \in Casts
      /\ worker \in {"down", "listening", "deaf"}
  BY DEF IngestInv, IngestTypes
<1>2. ASSUME NEW d \in Letter, NEW m \in LetterRow, SameLetter(letter[d], m),
             m.at \in {"queue", "consumer", "consumed", "dead"}, letter[d].at \notin {"dead", "unacked"},
             letter' = [letter EXCEPT ![d] = m], UNCHANGED <<task, worker>>
      PROVE  IngestTypes' /\ \A c \in Letter : LetterStep(c)
  <2>1. IngestTypes'
    BY <1>1, <1>2 DEF IngestTypes
  <2>2. ASSUME NEW c \in Letter
        PROVE  LetterStep(c)
    <3>1. CASE c # d
      <4>1. letter'[c] = letter[c] /\ task'[c] = task[c]
        BY <1>1, <1>2, <3>1
      <4> QED
        BY <4>1, Bystander
    <3>2. CASE c = d
      <4>1. letter'[c] = m /\ task'[c] = task[c] /\ LetterOK(c) /\ Message \subseteq Entry
        BY <1>1, <1>2, <3>2, AdminAssumption DEF IngestInv
      <4> QED
        BY <1>2, <3>2, <4>1 DEF SameLetter, LetterStep, LetterOK, GoodLeave, Leaves, EntriesStay
    <3> QED
      BY <3>1, <3>2
  <2> QED
    BY <2>1, <2>2
<1>3. ASSUME NEW d \in Letter, Publication(d) \/ Receive(d) \/ HandleDelivery(d) \/ ConsumerLost(d)
      PROVE  IngestTypes' /\ \A c \in Letter : LetterStep(c)
  <2> DEFINE toQueue == [letter[d] EXCEPT !.at = "queue"]
             toConsumer == [letter[d] EXCEPT !.at = "consumer"]
             toConsumed == [letter[d] EXCEPT !.at = "consumed"]
             again == [letter[d] EXCEPT !.at = "queue", !.redelivered = TRUE]
             dead == [letter[d] EXCEPT !.at = "dead", !.redelivered = FALSE]
  <2>1. letter[d] \in LetterRow /\ letter[d].at \in {"unsent", "queue", "consumer"}
    BY <1>1, <1>3 DEF Publication, Receive, HandleDelivery, ConsumerLost
  <2>2. ASSUME NEW m \in {toQueue, toConsumer, toConsumed, again, dead}
        PROVE  /\ m \in LetterRow /\ SameLetter(letter[d], m)
               /\ m.at \in {"queue", "consumer", "consumed", "dead"}
    <3>1. CASE m \in {toQueue, toConsumer, toConsumed}
      <4>1. /\ m \in LetterRow /\ m.source = letter[d].source
            /\ m.at \in {"queue", "consumer", "consumed"}
        BY <2>1, <3>1 DEF LetterRow
      <4> QED
        BY <4>1 DEF SameLetter
    <3>2. CASE m = again
      <4>1. m \in LetterRow /\ m.source = letter[d].source /\ m.at = "queue"
        BY <2>1, <3>2 DEF LetterRow
      <4> QED
        BY <4>1 DEF SameLetter
    <3>3. CASE m = dead
      <4>1. /\ m \in LetterRow /\ m.source = letter[d].source
            /\ m.at = "dead" /\ ~m.redelivered
        BY <2>1, <3>3 DEF LetterRow
      <4> QED
        BY <4>1 DEF SameLetter
    <3> QED
      BY <2>2, <3>1, <3>2, <3>3
  <2>3. \E m \in {toQueue, toConsumer, toConsumed, again, dead} :
          letter' = [letter EXCEPT ![d] = m]
    BY <1>1, <1>3 DEF Publication, Receive, HandleDelivery, ConsumerLost, Requeued, DeadLettered
  <2>4. UNCHANGED <<task, worker>>
    BY <1>3 DEF Publication, Receive, HandleDelivery, ConsumerLost
  <2> HIDE DEF toQueue, toConsumer, toConsumed, again, dead
  <2> QED
    BY <1>2, <2>1, <2>2, <2>3, <2>4
<1>4. CASE StartWorker
  BY <1>1, <1>4, Bystander DEF StartWorker, IngestTypes
<1>5. CASE CrashWorker
  BY <1>5, WorkerStopsKeeps DEF CrashWorker
<1>6. CASE LoseConnection
  <2>1. ASSUME NEW d \in Letter
        PROVE  /\ Returned[d] \in LetterRow /\ SameLetter(letter[d], Returned[d])
               /\ \/ Returned[d] = letter[d]
                  \/ letter[d].at = "unacked" /\ Returned[d].at = "dead"
    <3> DEFINE m == [letter[d] EXCEPT !.at = "dead", !.redelivered = TRUE, !.again = TRUE]
    <3>1. letter[d] \in LetterRow /\ LetterOK(d)
      BY <1>1 DEF IngestInv
    <3>2. m \in LetterRow /\ m.at = "dead" /\ m.again /\ m.source = letter[d].source
      BY <3>1 DEF LetterRow
    <3>3. Returned[d] = IF letter[d].at = "unacked" THEN m ELSE letter[d]
      BY DEF Returned
    <3> HIDE DEF m
    <3> QED
      BY <3>1, <3>2, <3>3 DEF SameLetter, LetterOK
  <2>2. ASSUME NEW d \in Letter
        PROVE  [task[d] EXCEPT !.attached = FALSE] \in Task
               /\ [task[d] EXCEPT !.attached = FALSE].at = task[d].at
    BY <1>1 DEF Task
  <2>3. /\ letter' = Returned /\ Returned \in [Letter -> LetterRow] /\ worker' = "deaf"
        /\ task' \in [Letter -> Task] /\ \A d \in Letter : task'[d].at = task[d].at
    BY <1>6, <2>1, <2>2 DEF LoseConnection, Returned
  <2>4. IngestTypes'
    BY <1>1, <2>3 DEF IngestTypes
  <2>5. ASSUME NEW d \in Letter
        PROVE  LetterStep(d)
    <3>1. LetterOK(d) /\ Message \subseteq Entry
      BY AdminAssumption DEF IngestInv
    <3> QED
      BY <2>1, <2>3, <3>1 DEF SameLetter, LetterStep, LetterOK, GoodLeave, Leaves, EntriesStay
  <2> QED
    BY <2>4, <2>5
<1> QED
  BY <1>3, <1>4, <1>5, <1>6 DEF BrokerNext

-----------------------------------------------------------------------------
(* The task of d goes on, its letter stays where it is. *)
LEMMA TaskAdvances ==
  ASSUME IngestInv, EntriesStay, NEW d \in Letter, NEW t \in Task,
         task' = [task EXCEPT ![d] = t], UNCHANGED <<letter, worker, cast>>,
         t.at \in {"found", "missing"} /\ letter[d].source \in Message
           => row'[letter[d].source] # Absent
  PROVE  IngestTypes' /\ \A c \in Letter : LetterStep(c)
<1>1. /\ letter \in [Letter -> LetterRow] /\ task \in [Letter -> Task] /\ cast \in Casts
      /\ worker \in {"down", "listening", "deaf"}
  BY DEF IngestInv, IngestTypes
<1>2. letter' = [letter EXCEPT ![d] = letter[d]] /\ letter[d] \in LetterRow
      /\ worker' \in {"down", "listening", "deaf"} /\ task'[d] = t /\ letter'[d] = letter[d]
  BY <1>1
<1>3. LetterStep(d)
  BY <1>2 DEF IngestInv, LetterStep, LetterOK, GoodLeave, Leaves
<1> QED
  BY <1>2, <1>3, MovesAlone

(* A letter is settled, with its task. *)
LEMMA Settles ==
  ASSUME IngestInv, EntriesStay, NEW d \in Letter, NEW at \in {"acknowledged", "rejected"},
         Settle(d, at), cast' = cast,
         letter[d].source \in Message =>
           \/ row[letter[d].source] # Absent
           \/ at = "rejected" /\ Exhausted(d)
              /\ (letter[d].at \in {"dead", "unacked"} => letter[d].again)
  PROVE  IngestTypes' /\ \A c \in Letter : LetterStep(c)
<1>1. /\ letter \in [Letter -> LetterRow] /\ task \in [Letter -> Task]
      /\ worker \in {"down", "listening", "deaf"}
  BY DEF IngestInv, IngestTypes
<1> DEFINE m == [letter[d] EXCEPT !.at = at]
<1>2. m \in LetterRow /\ m.at = at /\ m.source = letter[d].source
  BY <1>1 DEF LetterRow
<1>3. letter' = [letter EXCEPT ![d] = m] /\ task' = [task EXCEPT ![d] = NoTask]
      /\ worker' = worker
  BY DEF Settle
<1> HIDE DEF m
<1>4. letter'[d] = m /\ task'[d] = NoTask /\ Message \subseteq Entry
  BY <1>1, <1>2, <1>3, AdminAssumption
<1>5. LetterStep(d)
  BY <1>2, <1>4, NoTaskType
     DEF LetterStep, LetterOK, GoodLeave, Leaves, EntriesStay
<1> QED
  BY <1>1, <1>2, <1>3, <1>5, NoTaskType, MovesAlone

LEMMA DeliverKeeps ==
  ASSUME IngestInv, EntriesStay, NEW d \in Letter, Deliver(d), cast' = cast
  PROVE  IngestTypes' /\ \A c \in Letter : LetterStep(c)
<1>1. /\ letter[d] \in LetterRow /\ letter \in [Letter -> LetterRow] /\ task \in [Letter -> Task]
      /\ worker \in {"down", "listening", "deaf"} /\ letter[d].at = "dead" /\ LetterOK(d)
  BY DEF IngestInv, IngestTypes, Deliver
<1>2. CASE ~LookupIdResolves(d)
  <2>1. letter[d].source \notin Message
    BY <1>2, LetterAssumption, AdminAssumption DEF LookupIdResolves
  <2> QED
    BY <1>2, <2>1, Settles DEF Deliver
<1>3. CASE LookupIdResolves(d)
  <2> DEFINE m == [letter[d] EXCEPT !.at = "unacked"]
             t == [at |-> "trying", attempt |-> 1, saw |-> FALSE, attached |-> TRUE]
  <2>1. /\ m \in LetterRow /\ m.at = "unacked" /\ m.source = letter[d].source
        /\ m.redelivered = letter[d].redelivered /\ m.again = letter[d].again
    BY <1>1 DEF LetterRow
  <2>2. t \in Task /\ t.at = "trying"
    BY RetriesAssumption DEF Task
  <2>3. letter' = [letter EXCEPT ![d] = m] /\ task' = [task EXCEPT ![d] = t] /\ worker' = worker
    BY <1>3 DEF Deliver
  <2> HIDE DEF m, t
  <2>4. letter'[d] = m /\ task'[d] = t
    BY <1>1, <2>3
  <2>5. SameLetter(letter[d], letter'[d])
    BY <1>1, <2>1, <2>4 DEF SameLetter, LetterOK
  <2>6. LetterStep(d)
    BY <2>1, <2>2, <2>4, <2>5, Passing
  <2> QED
    BY <1>1, <2>1, <2>2, <2>3, <2>6, MovesAlone
<1> QED
  BY <1>2, <1>3

(* The task of d moves to a place, and nothing else of it. *)
LEMMA TaskGoesType ==
  ASSUME IngestInv, NEW d \in Letter,
         NEW at \in {"none", "trying", "executing", "found", "missing", "failed"},
         TaskGoes(d, at)
  PROVE  \E t \in Task : t.at = at /\ task' = [task EXCEPT ![d] = t]
<1>1. task[d] \in Task
  BY DEF IngestInv, IngestTypes
<1>2. [task[d] EXCEPT !.at = at] \in Task /\ [task[d] EXCEPT !.at = at].at = at
  BY <1>1 DEF Task
<1> QED
  BY <1>2 DEF TaskGoes

LEMMA QuarantineBeginsKeeps ==
  ASSUME IngestInv, EntriesStay, NEW d \in Letter, QuarantineBegins(d), cast' = cast
  PROVE  IngestTypes' /\ \A c \in Letter : LetterStep(c)
<1> DEFINE seen == letter[d].source \in Message /\ row[letter[d].source] # Absent
           t == [task[d] EXCEPT !.at = "executing", !.saw = seen]
<1>1. task[d] \in Task /\ task \in [Letter -> Task] /\ seen \in BOOLEAN
  BY DEF IngestInv, IngestTypes
<1>2. task' = [task EXCEPT ![d] = t] /\ UNCHANGED <<letter, worker>>
  BY <1>1 DEF QuarantineBegins
<1> HIDE DEF seen
<1>3. t \in Task /\ t.at = "executing"
  BY <1>1 DEF Task
<1> HIDE DEF t
<1> QED
  BY <1>2, <1>3, TaskAdvances

LEMMA QuarantineOutboxMessageKeeps ==
  ASSUME IngestInv, EntriesStay, NEW d \in Letter, QuarantineOutboxMessage(d), cast' = cast
  PROVE  IngestTypes' /\ \A c \in Letter : LetterStep(c)
<1>1. row \in [Entry -> Row] /\ Message \subseteq Entry /\ UNCHANGED <<letter, worker>>
  BY AdminAssumption DEF IngestInv, AdminInv, TypeOK, QuarantineOutboxMessage
<1>2. CASE letter[d].source \in Message /\ row[letter[d].source] = Absent
  <2>1. Quarantine(letter[d].source) /\ TaskGoes(d, "found")
    BY <1>2 DEF QuarantineOutboxMessage
  <2>2. row'[letter[d].source] # Absent
    BY <1>1, <1>2, <2>1, AbsentType DEF Quarantine
  <2>3. PICK t \in Task : t.at = "found" /\ task' = [task EXCEPT ![d] = t]
    BY <2>1, TaskGoesType
  <2> QED
    BY <1>1, <2>2, <2>3, TaskAdvances
<1>3. CASE ~(letter[d].source \in Message /\ row[letter[d].source] = Absent)
  <2>1. PICK at \in {"found", "missing"} : TaskGoes(d, at)
    BY <1>3 DEF QuarantineOutboxMessage
  <2>2. PICK t \in Task : t.at = at /\ task' = [task EXCEPT ![d] = t]
    BY <2>1, TaskGoesType
  <2>3. letter[d].source \in Message => row'[letter[d].source] # Absent
    BY <1>1, <1>3 DEF EntriesStay
  <2> QED
    BY <1>1, <2>2, <2>3, TaskAdvances
<1> QED
  BY <1>2, <1>3

LEMMA TaskFails ==
  ASSUME IngestInv, EntriesStay, NEW d \in Letter, TaskGoes(d, "failed"),
         UNCHANGED <<letter, worker, cast>>
  PROVE  IngestTypes' /\ \A c \in Letter : LetterStep(c)
<1>1. PICK t \in Task : t.at = "failed" /\ task' = [task EXCEPT ![d] = t]
  BY TaskGoesType
<1> QED
  BY <1>1, TaskAdvances

LEMMA AnswersKeep ==
  ASSUME IngestInv, EntriesStay, NEW d \in Letter, Acknowledge(d) \/ RejectMissing(d), cast' = cast
  PROVE  IngestTypes' /\ \A c \in Letter : LetterStep(c)
<1>1. LetterOK(d) /\ task[d].at \in {"found", "missing"}
  BY DEF IngestInv, Acknowledge, RejectMissing
<1>2. CASE task[d].attached
  <2>1. PICK at \in {"acknowledged", "rejected"} : Settle(d, at)
    BY <1>2 DEF Acknowledge, RejectMissing
  <2> QED
    BY <1>1, <2>1, Settles DEF LetterOK
<1>3. CASE ~task[d].attached
  BY <1>3, TaskFails DEF Acknowledge, RejectMissing
<1> QED
  BY <1>2, <1>3

LEMMA RetryKeeps ==
  ASSUME IngestInv, EntriesStay, NEW d \in Letter, Retry(d), cast' = cast
  PROVE  IngestTypes' /\ \A c \in Letter : LetterStep(c)
<1>1. task[d] \in Task /\ task \in [Letter -> Task] /\ task[d].attempt < PersistenceRetries
  BY DEF IngestInv, IngestTypes, Retry
<1> DEFINE n == task[d].attempt + 1
           t == [task[d] EXCEPT !.at = "trying", !.attempt = n, !.saw = FALSE]
<1>2. n \in 0..PersistenceRetries
  BY <1>1, RetriesAssumption DEF Task
<1>3. task' = [task EXCEPT ![d] = t] /\ UNCHANGED <<letter, worker>>
  BY <1>1 DEF Retry
<1> HIDE DEF n
<1>4. t \in Task /\ t.at = "trying"
  BY <1>1, <1>2 DEF Task
<1> HIDE DEF t
<1> QED
  BY <1>3, <1>4, TaskAdvances

LEMMA GiveUpKeeps ==
  ASSUME IngestInv, EntriesStay, NEW d \in Letter, GiveUp(d), cast' = cast
  PROVE  IngestTypes' /\ \A c \in Letter : LetterStep(c)
<1>1. /\ letter[d] \in LetterRow /\ letter \in [Letter -> LetterRow] /\ task \in [Letter -> Task]
      /\ worker \in {"down", "listening", "deaf"} /\ LetterOK(d) /\ Exhausted(d)
  BY DEF IngestInv, IngestTypes, GiveUp, Exhausted
<1>2. CASE ~task[d].attached
  BY <1>2, WorkerStopsKeeps DEF GiveUp
<1>3. CASE task[d].attached /\ Requeue(d)
  <2> DEFINE m == [letter[d] EXCEPT !.at = "dead", !.redelivered = TRUE, !.again = TRUE]
  <2>1. m \in LetterRow /\ m.at = "dead" /\ m.again /\ m.source = letter[d].source
    BY <1>1 DEF LetterRow
  <2>2. letter' = [letter EXCEPT ![d] = m] /\ task' = [task EXCEPT ![d] = NoTask]
        /\ worker' = worker
    BY <1>3 DEF GiveUp
  <2> HIDE DEF m
  <2>3. letter'[d] = m /\ task'[d] = NoTask
    BY <1>1, <2>2
  <2>4. LetterStep(d)
    BY <2>1, <2>3, NoTaskType, Passing DEF SameLetter
  <2> QED
    BY <1>1, <2>1, <2>2, <2>4, NoTaskType, MovesAlone
<1>4. CASE task[d].attached /\ ~Requeue(d)
  <2>1. Settle(d, "rejected")
    BY <1>4 DEF GiveUp
  <2>2. letter[d].at \in {"dead", "unacked"} => letter[d].again
    BY <1>1, <1>4 DEF Requeue, LetterOK
  <2> QED
    BY <1>1, <2>1, <2>2, Settles
<1> QED
  BY <1>2, <1>3, <1>4

-----------------------------------------------------------------------------
LEMMA PipelineStepKeeps ==
  ASSUME IngestInv, [PipelineNext]_pipelineVars
  PROVE  IngestInv' /\ \A d \in Letter : LetterStep(d)
<1>1. [Next]_vars /\ AdminInv
  BY PipelineStepsAdmin DEF IngestInv
<1>2. AdminInv' /\ EntriesStay
  BY <1>1, NextKeepsInv, EntriesNeverVanish
<1>3. SUFFICES IngestTypes' /\ \A d \in Letter : LetterStep(d)
  BY <1>2 DEF IngestInv, LetterStep
<1>4. ASSUME UNCHANGED <<letter, task, worker, cast>>
      PROVE  IngestTypes' /\ \A d \in Letter : LetterStep(d)
  BY <1>2, <1>4, Bystander DEF IngestInv, IngestTypes
<1>5. ASSUME NEW d \in Letter, Ingest(d) \/ QuarantineFails(d), cast' = cast
      PROVE  IngestTypes' /\ \A c \in Letter : LetterStep(c)
  BY <1>2, <1>5, DeliverKeeps, QuarantineBeginsKeeps, QuarantineOutboxMessageKeeps,
     AnswersKeep, RetryKeeps, GiveUpKeeps, TaskFails DEF Ingest, QuarantineFails
<1>6. ASSUME BrokerNext, cast' = cast
      PROVE  IngestTypes' /\ \A c \in Letter : LetterStep(c)
  BY <1>2, <1>6, BrokerKeeps
<1> QED
  BY <1>4, <1>5, <1>6 DEF PipelineNext, pipelineVars, ingestionVars

LEMMA PipelineInitEstablishes ==
  ASSUME PipelineInit
  PROVE  IngestInv
<1>1. AdminInv
  BY InitEstablishes DEF PipelineInit
<1>2. PICK s \in [Letter -> Source] :
        letter = [d \in Letter |-> [at |-> "unsent", source |-> s[d],
                                    redelivered |-> FALSE, again |-> FALSE]]
  BY DEF PipelineInit
<1>3. letter \in [Letter -> LetterRow] /\ \A d \in Letter : letter[d].at = "unsent"
  BY <1>2 DEF LetterRow
<1>4. task \in [Letter -> Task] /\ \A d \in Letter : task[d].at = "none"
  BY NoTaskType DEF PipelineInit
<1>5. IngestTypes
  BY <1>3, <1>4 DEF IngestTypes, PipelineInit
<1>6. \A d \in Letter : LetterOK(d)
  BY <1>3, <1>4 DEF LetterOK
<1> QED
  BY <1>1, <1>5, <1>6 DEF IngestInv

THEOREM AlwaysIngestInv == PipelineSpec => []IngestInv
<1>1. PipelineInit => IngestInv
  BY PipelineInitEstablishes
<1>2. IngestInv /\ [PipelineNext]_pipelineVars => IngestInv'
  BY PipelineStepKeeps
<1> QED
  BY <1>1, <1>2, PTL DEF PipelineSpec

-----------------------------------------------------------------------------
(* With the broker, its redeliveries and a consumer that crashes or goes   *)
(* deaf around it, the administration of DlqAdmin still does only what     *)
(* DlqAdmin says: each of its theorems holds of the pipeline.              *)
THEOREM PipelineAdministers == PipelineSpec => Spec
<1>1. PipelineInit => Init
  BY DEF PipelineInit
<1>2. [PipelineNext]_pipelineVars => [Next]_vars
  BY PipelineStepsAdmin
<1> QED
  BY <1>1, <1>2, PTL DEF PipelineSpec, Spec

(* Type correctness of the pipeline. *)
THEOREM PipelineTypes == PipelineSpec => []PipelineTypeOK
<1>1. IngestInv => PipelineTypeOK
  BY DEF IngestInv, IngestTypes, AdminInv, PipelineTypeOK
<1> QED
  BY <1>1, AlwaysIngestInv, PTL

(* No race for the entry, lost reply, requeue, crash or lost connection    *)
(* makes the ingestion drop a dead letter of the outbox: it leaves with    *)
(* its entry stored, or after its retries were spent in a redelivery.      *)
THEOREM DeadLettersAreKept == PipelineSpec => NothingLostQuietly
<1>1. IngestInv /\ [PipelineNext]_pipelineVars => [\A d \in Letter : GoodLeave(d)]_pipelineVars
  BY PipelineStepKeeps DEF LetterStep
<1>2. PipelineSpec => [][\A d \in Letter : GoodLeave(d)]_pipelineVars
  BY <1>1, AlwaysIngestInv, PTL DEF PipelineSpec
<1> QED
  BY <1>2 DEF NothingLostQuietly, GoodLeave
=============================================================================
