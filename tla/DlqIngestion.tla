----------------------------- MODULE DlqIngestion -----------------------------
(***************************************************************************)
(* How messages get into the table that DlqAdmin administers.  A consumer  *)
(* (RabbitMqMessagingAdapter.subscribe) acknowledges, requeues or rejects; *)
(* what it rejects the broker moves to the ingestion queue, where the      *)
(* worker's RabbitMqDlqIngestionConsumer stores one entry per message and  *)
(* acknowledges only what is stored.  A reprocessed message may be dead-   *)
(* lettered again: its copies meet the entry that an administrator is      *)
(* deciding, or has decided.                                               *)
(***************************************************************************)
EXTENDS DlqAdmin

CONSTANTS
  Letter,            \* copies of messages the broker carries
  NoOutbox,          \* the source of a copy whose id has no row in outbox.events
  Poison,            \* the source of a copy whose id cannot be resolved
  PersistenceRetries,
  Casts              \* bound of the model: the requests, entries, keys and copies that take part

ASSUME LetterAssumption == NoOutbox \notin Entry /\ Poison \notin Entry
ASSUME RetriesAssumption == PersistenceRetries \in Nat \ {0}

VARIABLES
  letter,  \* letter[d]: copy d, as the broker has it
  task,    \* task[d]: the handling of d by the ingestion consumer
  worker,  \* the process that runs the ingestion consumer
  cast

ingestionVars == <<letter, task, worker>>
pipelineVars == <<vars, ingestionVars, cast>>

Source == Message \cup {NoOutbox, Poison}

(* again is a history variable: an earlier delivery from the ingestion      *)
(* queue has ended without an answer that settled the copy.                *)
LetterRow == [at : {"unsent", "queue", "consumer", "dead", "unacked",
                    "consumed", "acknowledged", "rejected"},
              source : Source, redelivered : BOOLEAN, again : BOOLEAN]

(* saw: the snapshot of the statement has the entry.  attached: the channel *)
(* the message came from is open.                                          *)
Task == [at : {"none", "trying", "executing", "found", "missing", "failed"},
         attempt : 0..PersistenceRetries, saw : BOOLEAN, attached : BOOLEAN]
NoTask == [at |-> "none", attempt |-> 0, saw |-> FALSE, attached |-> FALSE]

PipelineTypeOK ==
  /\ TypeOK
  /\ letter \in [Letter -> LetterRow]
  /\ task \in [Letter -> Task]
  /\ worker \in {"down", "listening", "deaf"}
  /\ cast \in Casts

PipelineInit ==
  /\ Init
  /\ cast \in Casts
  /\ \E s \in [Letter -> Source] :
       /\ \A d \in Letter \ cast : s[d] = Poison
       /\ letter = [d \in Letter |-> [at |-> "unsent", source |-> s[d],
                                   redelivered |-> FALSE, again |-> FALSE]]
  /\ task = [d \in Letter |-> NoTask]
  /\ worker = "down"

-----------------------------------------------------------------------------
(* The outbox dispatcher or a reprocessor publishes, and a queue is bound. *)
Publication(d) ==
  /\ letter[d].at = "unsent"
  /\ letter' = [letter EXCEPT ![d].at = "queue"]
  /\ UNCHANGED <<task, worker>>

Receive(d) ==
  /\ letter[d].at = "queue"
  /\ letter' = [letter EXCEPT ![d].at = "consumer"]
  /\ UNCHANGED <<task, worker>>

Requeued(d) == [letter EXCEPT ![d].at = "queue", ![d].redelivered = TRUE]

(* The broker publishes what is rejected to the dead-letter exchange.      *)
DeadLettered(d) == [letter EXCEPT ![d].at = "dead", ![d].redelivered = FALSE]

(* The id is in the envelope, or else in the properties of the message. *)
EnvelopeParses(d) == letter[d].source # Poison
LookupIdResolves(d) == letter[d].source # Poison

(* handleDelivery: an envelope that does not parse is rejected; else the   *)
(* handler succeeds, fails in a way that may be retried, or refuses.       *)
HandleDelivery(d) ==
  /\ letter[d].at = "consumer"
  /\ \/ /\ EnvelopeParses(d)
        /\ letter' = [letter EXCEPT ![d].at = "consumed"]
     \/ /\ EnvelopeParses(d) /\ ~letter[d].redelivered
        /\ letter' = Requeued(d)
     \/ letter' = DeadLettered(d)
  /\ UNCHANGED <<task, worker>>

(* The connection or the process of the consumer is lost. *)
ConsumerLost(d) ==
  /\ letter[d].at = "consumer"
  /\ letter' = Requeued(d)
  /\ UNCHANGED <<task, worker>>

-----------------------------------------------------------------------------
StartWorker ==
  /\ worker = "down"
  /\ worker' = "listening"
  /\ UNCHANGED <<letter, task>>

(* A connection that ends gives back what is not acknowledged. *)
Returned ==
  [d \in Letter |->
     IF letter[d].at = "unacked"
     THEN [letter[d] EXCEPT !.at = "dead", !.redelivered = TRUE, !.again = TRUE]
     ELSE letter[d]]

(* The process ends: a signal, a failure of the job loop, an unhandled     *)
(* rejection.  A statement it had sent has been executed, or is not.       *)
WorkerStops ==
  /\ letter' = Returned
  /\ task' = [d \in Letter |-> NoTask]
  /\ worker' = "down"

CrashWorker == worker # "down" /\ WorkerStops

(* Nobody listens for the loss of the connection but the adapter, which    *)
(* forgets it and connects anew for its publisher: the consumer is not     *)
(* subscribed again, and the handlers go on with a closed channel.         *)
LoseConnection ==
  /\ worker = "listening"
  /\ worker' = "deaf"
  /\ letter' = Returned
  /\ task' = [d \in Letter |-> [task[d] EXCEPT !.attached = FALSE]]

-----------------------------------------------------------------------------
TaskGoes(d, at) == task' = [task EXCEPT ![d].at = at]

Settle(d, at) ==
  /\ letter' = [letter EXCEPT ![d].at = at]
  /\ task' = [task EXCEPT ![d] = NoTask]
  /\ UNCHANGED worker

(* handleDelivery of the ingestion consumer: no id, no entry. *)
Deliver(d) ==
  /\ worker = "listening" /\ letter[d].at = "dead"
  /\ IF ~LookupIdResolves(d)
     THEN Settle(d, "rejected")
     ELSE /\ letter' = [letter EXCEPT ![d].at = "unacked"]
          /\ task' = [task EXCEPT ![d] = [at |-> "trying", attempt |-> 1,
                                          saw |-> FALSE, attached |-> TRUE]]
          /\ UNCHANGED worker
  /\ UNCHANGED vars

(* dlq.quarantine_outbox_message begins: the statement takes its snapshot. *)
QuarantineBegins(d) ==
  /\ task[d].at = "trying"
  /\ task' = [task EXCEPT ![d].at = "executing",
                          ![d].saw = letter[d].source \in Message /\ row[letter[d].source] # Absent]
  /\ UNCHANGED <<vars, letter, worker>>

(* INSERT ... ON CONFLICT DO NOTHING, and the entry that was there if the  *)
(* snapshot has it: one inserted meanwhile by another is not returned.     *)
QuarantineOutboxMessage(d) ==
  LET e == letter[d].source IN
  /\ task[d].at = "executing"
  /\ IF e \in Message /\ row[e] = Absent
     THEN Quarantine(e) /\ TaskGoes(d, "found")
     ELSE /\ TaskGoes(d, IF e \in Message /\ task[d].saw THEN "found" ELSE "missing")
          /\ UNCHANGED vars
  /\ UNCHANGED <<letter, worker>>

(* The query is rejected: before it had an effect, or its reply is lost. *)
QuarantineFails(d) ==
  /\ task[d].at \in {"trying", "executing", "found", "missing"}
  /\ TaskGoes(d, "failed")
  /\ UNCHANGED <<vars, letter, worker>>

(* Mutant of Acknowledge: the message is acknowledged before it is stored. *)
AcknowledgeEarly(d) ==
  /\ task[d].at \in {"trying", "executing", "found"}
  /\ IF task[d].attached THEN Settle(d, "acknowledged")
     ELSE TaskGoes(d, "failed") /\ UNCHANGED <<letter, worker>>
  /\ UNCHANGED vars

(* ack, inside the try: on a closed channel it throws, like a failed query. *)
Acknowledge(d) ==
  /\ task[d].at = "found"
  /\ IF task[d].attached THEN Settle(d, "acknowledged")
     ELSE TaskGoes(d, "failed") /\ UNCHANGED <<letter, worker>>
  /\ UNCHANGED vars

(* No entry came back: nack without requeue, inside the try too. *)
RejectMissing(d) ==
  /\ task[d].at = "missing"
  /\ IF task[d].attached THEN Settle(d, "rejected")
     ELSE TaskGoes(d, "failed") /\ UNCHANGED <<letter, worker>>
  /\ UNCHANGED vars

Retry(d) ==
  /\ task[d].at = "failed" /\ task[d].attempt < PersistenceRetries
  /\ task' = [task EXCEPT ![d].at = "trying", ![d].attempt = @ + 1, ![d].saw = FALSE]
  /\ UNCHANGED <<vars, letter, worker>>

(* Mutant of Requeue: as often as it takes. *)
RequeueAlways(d) == TRUE

Requeue(d) == ~letter[d].redelivered

(* The attempts are spent: nack, with requeue once.  On a closed channel it *)
(* throws out of the handler and ends the process.                         *)
GiveUp(d) ==
  /\ task[d].at = "failed" /\ task[d].attempt = PersistenceRetries
  /\ IF ~task[d].attached THEN WorkerStops
     ELSE IF Requeue(d)
     THEN /\ letter' = [letter EXCEPT ![d].at = "dead", ![d].redelivered = TRUE, ![d].again = TRUE]
          /\ task' = [task EXCEPT ![d] = NoTask]
          /\ UNCHANGED worker
     ELSE Settle(d, "rejected")
  /\ UNCHANGED vars

Ingest(d) ==
  \/ Deliver(d) \/ QuarantineBegins(d) \/ QuarantineOutboxMessage(d)
  \/ Acknowledge(d) \/ RejectMissing(d) \/ Retry(d) \/ GiveUp(d)

-----------------------------------------------------------------------------
(* Entries of jobs, and of messages when no copy takes part, are there     *)
(* when the administration begins or come later (DlqReprocess).            *)
AdminNext ==
  \/ \E e \in Entry \cap cast :
       Quarantine(e) /\ (e \in Message => Letter \cap cast = {})
  \/ \E i \in Slot : RecordExpires(i)
  \/ \E p \in Request \cap cast :
       \/ \E i \in Action \X (Key \cap cast), e \in Entry \cap cast : \E v \in 1..row[e].version : Send(p, i, e, v)
       \/ Step(p) \/ StatementFails(p) \/ Crash(p) \/ Answered(p) \/ ClaimExpires(p)

BrokerNext ==
  \/ \E d \in Letter \cap cast : Publication(d) \/ Receive(d) \/ HandleDelivery(d) \/ ConsumerLost(d)
  \/ Letter \cap cast # {} /\ (StartWorker \/ CrashWorker \/ LoseConnection)

PipelineNext ==
  \/ AdminNext /\ UNCHANGED <<ingestionVars, cast>>
  \/ BrokerNext /\ UNCHANGED <<vars, cast>>
  \/ \E d \in Letter \cap cast : (Ingest(d) \/ QuarantineFails(d)) /\ UNCHANGED cast

PipelineSpec == PipelineInit /\ [][PipelineNext]_pipelineVars

(* A delivery goes on: a query is answered or fails, and setTimeout fires. *)
FairPipeline ==
  /\ PipelineSpec
  /\ \A p \in Request : SF_pipelineVars(Step(p) /\ UNCHANGED <<ingestionVars, cast>>)
  /\ \A d \in Letter : WF_pipelineVars(Ingest(d) /\ UNCHANGED cast)

-----------------------------------------------------------------------------
(* A dead-lettered message of the outbox leaves the broker with its entry  *)
(* in the table, or not before an attempt has failed as often as the       *)
(* configuration says in a delivery that is not the first one: neither a   *)
(* race for the entry, nor a lost reply, nor a restart loses it.           *)
Leaves(d) ==
  /\ letter[d].at \in {"dead", "unacked"}
  /\ letter'[d].at \in {"acknowledged", "rejected"}

Exhausted(d) == task[d].at = "failed" /\ task[d].attempt = PersistenceRetries

NothingLostQuietly ==
  [][\A d \in Letter :
       Leaves(d) /\ letter[d].source \in Message =>
         \/ row'[letter[d].source] # Absent
         \/ letter'[d].at = "rejected" /\ letter[d].again /\ Exhausted(d)]_pipelineVars

(* While the consumer stays subscribed every dead letter is settled, also  *)
(* when PostgreSQL never comes back: no poison message, and no outage,     *)
(* makes the broker and the worker pass a message back and forth for ever. *)
DeadLettersSettle ==
  <>[](worker = "listening") =>
    \A d \in Letter : letter[d].at = "dead" ~> letter[d].at \in {"acknowledged", "rejected"}
=============================================================================
