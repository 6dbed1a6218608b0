------------------------------ MODULE Platform ------------------------------
(***************************************************************************)
(* What every EDI service shares: the Postgres tables (messages and        *)
(* transactions), the RabbitMQ exchange and its queues, and the link each  *)
(* service process has to that broker.  The service modules EXTEND this    *)
(* one and act on its variables only through the operators defined here.   *)
(*                                                                         *)
(* A queue is a bag of deliveries, not a sequence: unlimited prefetch,     *)
(* nack-with-requeue and redelivery after a lost connection all reorder,   *)
(* so a handler may take any copy that is waiting.                         *)
(***************************************************************************)
EXTENDS Integers, FiniteSets

CONSTANTS
  Ids,          \* the messages clients POST; each POST gets a fresh uuid
  Outputs,      \* the documents the transformer emits, each with an uuid no table holds
  Invalid,      \* POSTed messages whose content validation.Validate rejects
  BadOutputs,   \* outputs whose target format validation.GetValidator does not know
  Undecodable,  \* POSTed messages that validate but that no codec can decode
  NoMessage,    \* what a handler holds between two deliveries
  Keys,         \* AMQP routing keys; queue "messages.<key>" is named by its key
  Route,        \* which key each service was configured to publish to or consume from
  RetryKey,     \* the literal "send" the gateway's DLQ retry publishes to
  Deployed,     \* the services this deployment runs
  Booted,       \* the services that are up when a behaviour begins
  MaxRetries,   \* cfg.MaxRetries
  BatchLimit,   \* LIMIT of the worker's query
  FaultKinds,   \* the kinds of fault that may strike
  MaxFaults,    \* bound: how many faults strike in one behaviour
  MaxOps        \* bound: operator requests (POST /transform, DLQ retry) in one behaviour

Messages  == Ids \cup Outputs
Services  == {"gateway", "worker", "sender", "receiver", "transformer"}
Consumers == {"sender", "receiver", "transformer"}
Statuses  == {"pending", "sent", "received", "processed", "failed", "transformed"}
Events    == {"message_created", "message_sent", "validation_failed",
              "message_received", "transformation_complete",
              "transformation_failed", "dlq_retry_triggered"}

RouteFields == {"gwSend", "wkSend", "snSend", "snRecv",
                "rvRecv", "rvTf", "tfTf", "tfSend"}

ASSUME IdAssumption ==
  /\ Ids \cap Outputs = {}
  /\ NoMessage \notin Messages
  /\ Invalid \subseteq Ids
  /\ Undecodable \subseteq Ids
  /\ BadOutputs \subseteq Outputs

ASSUME ConfigAssumption ==
  /\ Route \in [RouteFields -> Keys]
  /\ RetryKey \in Keys
  /\ Deployed \subseteq Services
  /\ Booted \subseteq Deployed
  /\ MaxRetries \in Nat
  /\ BatchLimit \in Nat \ {0}
  /\ MaxFaults \in Nat
  /\ MaxOps \in Nat

(* Transform requests travel on a queue of their own, in every deployment  *)
(* the repository ships.                                                   *)
ASSUME TransformQueueAssumption ==
  /\ Route["rvTf"] = Route["tfTf"]
  /\ Route["tfTf"] \notin {Route[f] : f \in RouteFields \ {"rvTf", "tfTf"}} \cup {RetryKey}

(***************************************************************************)
(* A delivery is an AMQP message: the document (or, on the transform       *)
(* queue, the message_id of the request) and its x-retry-count header.     *)
(***************************************************************************)
Delivery   == [id : Messages, retry : 0..MaxRetries]
Fresh(m)   == [id |-> m, retry |-> 0]
NoDelivery == [id |-> NoMessage, retry |-> 0]

VARIABLES
  \* Postgres
  status,      \* messages.status, "none" while there is no row
  published,   \* the rows whose published_at is set
  canonical,   \* the rows whose metadata holds the canonical XML
  trail,       \* history: every status the row has had
  audit,       \* the <<message_id, event>> pairs in the transactions table
  \* RabbitMQ
  queue,       \* main queues: copies of each delivery, ready or prefetched
  dlq,         \* dead letter queues, named by the main queue's key
  bound,       \* the keys whose queue has been declared and bound
  \* service processes
  link,        \* "down": no process; "up": connected; "lost": alive, broker connection gone
  pc,          \* where a consumer's handler is
  hand,        \* the delivery the handler works on
  gwPost,      \* gateway: the handler of POST /messages for each message
  gwTransform, \* gateway: the handler of POST /transform for each message
  gwRetry,     \* gateway: the handler of POST /queue/dlq/{id}/retry
  wkBatch,     \* worker: rows of the current poll still to publish
  wkMark,      \* worker: the row published but not yet marked
  \* bounds and history
  faults,      \* faults so far
  ops,         \* operator requests so far
  requeued     \* nacks with requeue, by consumer and message

database == <<status, published, canonical, trail, audit>>
broker   == <<queue, dlq, bound>>
gateway  == <<gwPost, gwTransform, gwRetry>>
worker   == <<wkBatch, wkMark>>
handlers == <<pc, hand>>
vars == <<database, broker, link, handlers, gateway, worker, faults, ops, requeued>>

-----------------------------------------------------------------------------
(***************************************************************************)
(* Faults.  Each costs one unit of the budget MaxFaults.                   *)
(*   "db"      a statement fails and has no effect                         *)
(*   "late"    a statement takes effect but the caller gets an error       *)
(*   "crash"   a process dies (kill, panic, SIGTERM between two steps)     *)
(*   "conn"    a process loses its broker connection and stays alive       *)
(*   "vanish"  the worker's publish returns nil on a connection that is    *)
(*             already dead: nothing confirms a publish                    *)
(*   "broker"  RabbitMQ restarts; publishes are transient, so its queues   *)
(*             come back empty                                             *)
(***************************************************************************)
Fault(kind) ==
  /\ kind \in FaultKinds
  /\ faults < MaxFaults
  /\ faults' = faults + 1

Outcomes == {"ok", "fail", "late"}

Statement(o) ==
  \/ o = "ok" /\ UNCHANGED faults
  \/ o = "fail" /\ Fault("db")
  \/ o = "late" /\ Fault("late")

TakesEffect(o) == o \in {"ok", "late"}

-----------------------------------------------------------------------------
(***************************************************************************)
(* Postgres.                                                               *)
(***************************************************************************)
Stored(m) == status[m] # "none"

Store(m) ==
  /\ status' = [status EXCEPT ![m] = "pending"]
  /\ trail'  = [trail EXCEPT ![m] = @ \cup {"pending"}]

(* UPDATE ... WHERE id = m touches nothing when there is no such row: the  *)
(* caller sees ErrMessageNotFound.                                         *)
UpdateStatus(m, s, o) ==
  IF Stored(m) /\ TakesEffect(o)
    THEN /\ status' = [status EXCEPT ![m] = s]
         /\ trail'  = [trail EXCEPT ![m] = @ \cup {s}]
    ELSE UNCHANGED <<status, trail>>

UpdateMetadata(m, o) ==
  canonical' = IF Stored(m) /\ TakesEffect(o) THEN canonical \cup {m} ELSE canonical

(* transactions.id is a UUID, details is JSON and message_id a foreign key:*)
(* an insert with any other id or details, or for a message without a row, *)
(* fails.                                                                  *)
Record(m, event, wellFormed, o) ==
  audit' = IF Stored(m) /\ wellFormed /\ TakesEffect(o)
             THEN audit \cup {<<m, event>>} ELSE audit

-----------------------------------------------------------------------------
(***************************************************************************)
(* RabbitMQ.                                                               *)
(***************************************************************************)
Enqueue(q, k, d) == [q EXCEPT ![k][d] = @ + 1]
Dequeue(q, k, d) == [q EXCEPT ![k][d] = @ - 1]

(* mandatory is false: what no binding matches is dropped without a word.  *)
Routed(q, k, d) == IF k \in bound THEN Enqueue(q, k, d) ELSE q

(* On a dead connection publishing returns an error and does nothing.      *)
Publish(s, k, d) ==
  queue' = IF link[s] = "up" THEN Routed(queue, k, d) ELSE queue

PublishSucceeds(s) == link[s] = "up"

InKey(s) == CASE s = "sender" -> Route["snSend"]
              [] s = "receiver" -> Route["rvRecv"]
              [] s = "transformer" -> Route["tfTf"]

(* The keys a service declares and binds before it does anything else.     *)
Declares(s) == CASE s = "gateway" -> {}
                 [] s = "worker" -> {Route["wkSend"]}
                 [] s = "sender" -> {Route["snSend"], Route["snRecv"]}
                 [] s = "receiver" -> {Route["rvRecv"], Route["rvTf"]}
                 [] s = "transformer" -> {Route["tfTf"]}

(* Does consumer s hold a delivery it has not acknowledged, on a channel   *)
(* that is still open?                                                     *)
Owns(s) == link[s] = "up" /\ pc[s] \notin {"idle", "lookup", "trigger"}

(* The broker puts such a delivery back, its header unchanged.             *)
Requeue_AutoAck(q, s) == q

Requeue(q, s) == IF Owns(s) THEN Enqueue(q, InKey(s), hand[s]) ELSE q

(* History: how often a consumer asked for that itself.                    *)
CountRequeue(s) ==
  IF Owns(s) THEN [requeued EXCEPT ![s][hand[s].id] = @ + 1] ELSE requeued

-----------------------------------------------------------------------------
(***************************************************************************)
(* What a consumer's handler does between its external effects.            *)
(***************************************************************************)
Goto(s, label) == pc' = [pc EXCEPT ![s] = label] /\ UNCHANGED hand

(* validation.Validate as a consumer evaluates it again: same verdict as   *)
(* the gateway's for a POSTed message, "unsupported format" for an output. *)
Rejected(m) == m \in Invalid \cup BadOutputs

(* The loop takes the next delivery.  Once the connection is gone the      *)
(* deliveries channel is closed, the loop ends, and the process lives on   *)
(* waiting for a signal: nothing below is enabled again until it restarts. *)
Take(s, ifRejected, otherwise) ==
  /\ link[s] = "up"
  /\ pc[s] = "idle"
  /\ \E d \in Delivery :
       /\ queue[InKey(s)][d] > 0
       /\ queue' = Dequeue(queue, InKey(s), d)
       /\ hand' = [hand EXCEPT ![s] = d]
       /\ pc' = [pc EXCEPT ![s] = IF Rejected(d.id) THEN ifRejected ELSE otherwise]

(* Done with the delivery: acked, dropped, or no longer ours.              *)
Release_KeepsDelivery(s) == pc' = [pc EXCEPT ![s] = "idle"] /\ UNCHANGED hand

Release(s) ==
  /\ pc' = [pc EXCEPT ![s] = "idle"]
  /\ hand' = [hand EXCEPT ![s] = NoDelivery]

(* The handler sets the status of its message.  ErrMessageNotFound and     *)
(* other errors are told apart; after success comes the audit record.      *)
UpdateThen(s, newStatus, ifError, ifNotFound) ==
  /\ pc[s] = "update"
  /\ \E o \in Outcomes :
       /\ Statement(o)
       /\ UpdateStatus(hand[s].id, newStatus, o)
       /\ Goto(s, IF o # "ok" THEN ifError
                  ELSE IF Stored(hand[s].id) THEN "record" ELSE ifNotFound)
  /\ UNCHANGED <<published, canonical, audit, broker, link, gateway, worker, ops,
                 requeued>>

(* Retry by requeue while the header allows it, else dead-letter.          *)
RetryOrDlq(s) == IF hand[s].retry < MaxRetries THEN "requeue" ELSE "dlq"

(* Nack(requeue): the delivery returns with the header it came with.       *)
NackDrop(s) ==
  /\ pc[s] = "requeue"
  /\ Release(s)
  /\ UNCHANGED <<database, broker, link, gateway, worker, faults, ops, requeued>>

NackRequeue(s) ==
  /\ pc[s] = "requeue"
  /\ queue' = Requeue(queue, s)
  /\ requeued' = CountRequeue(s)
  /\ Release(s)
  /\ UNCHANGED <<database, dlq, bound, link, gateway, worker, faults, ops>>

(* SendToDLQ, its error ignored, under a fresh header; then acknowledge.   *)
DeadLetter_Forgotten(s, label) ==
  /\ pc[s] = "dlq"
  /\ Goto(s, label)
  /\ UNCHANGED <<database, broker, link, gateway, worker, faults, ops, requeued>>

DeadLetter(s, label) ==
  /\ pc[s] = "dlq"
  /\ dlq' = IF PublishSucceeds(s)
              THEN Enqueue(dlq, InKey(s), Fresh(hand[s].id)) ELSE dlq
  /\ Goto(s, label)
  /\ UNCHANGED <<database, queue, bound, link, gateway, worker, faults, ops, requeued>>
=============================================================================
