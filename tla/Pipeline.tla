------------------------------ MODULE Pipeline ------------------------------
(***************************************************************************)
(* The message pipeline: the five services over one database and one       *)
(* broker, with the faults that strike processes and connections.          *)
(***************************************************************************)
EXTENDS Gateway, Worker, Sender, Receiver, Transformer

Empty == [k \in Keys |-> [d \in Delivery |-> 0]]

(* An empty database, and a broker that knows the queues of the services   *)
(* already running.                                                        *)
Init ==
  /\ status = [m \in Messages |-> "none"]
  /\ trail = [m \in Messages |-> {}]
  /\ published = {}
  /\ canonical = {}
  /\ audit = {}
  /\ queue = Empty
  /\ dlq = Empty
  /\ bound = UNION {Declares(s) : s \in Booted}
  /\ link = [s \in Services |-> IF s \in Booted THEN "up" ELSE "down"]
  /\ pc = [s \in Consumers |-> "idle"]
  /\ hand = [s \in Consumers |-> NoDelivery]
  /\ gwPost = [i \in Ids |-> "new"]
  /\ gwTransform = [i \in Ids |-> "idle"]
  /\ gwRetry = [i \in Ids |-> "idle"]
  /\ wkBatch = {}
  /\ wkMark = NoMessage
  /\ faults = 0
  /\ ops = 0
  /\ requeued = [s \in Consumers |-> [m \in Messages |-> 0]]

-----------------------------------------------------------------------------
(* main() declares and binds the service's queues, then serves.            *)
Start(s) ==
  /\ s \in Deployed
  /\ link[s] = "down"
  /\ link' = [link EXCEPT ![s] = "up"]
  /\ bound' = bound \cup Declares(s)
  /\ UNCHANGED <<database, queue, dlq, handlers, gateway, worker, faults, ops, requeued>>

(* A process dies with whatever its goroutines were doing; the broker      *)
(* requeues the delivery a consumer had not acknowledged.                  *)
Crash(s) ==
  /\ link[s] # "down"
  /\ Fault("crash")
  /\ link' = [link EXCEPT ![s] = "down"]
  /\ queue' = IF s \in Consumers THEN Requeue(queue, s) ELSE queue
  /\ IF s \in Consumers THEN Release(s) ELSE UNCHANGED handlers
  /\ IF s = "gateway" THEN GatewayStops ELSE UNCHANGED gateway
  /\ IF s = "worker" THEN WorkerStops ELSE UNCHANGED worker
  /\ UNCHANGED <<database, dlq, bound, ops, requeued>>

(* Nothing watches the connection and nothing reconnects: the handler in   *)
(* progress runs on without it, while the broker offers its delivery to    *)
(* others.                                                                 *)
LoseConnection(s) ==
  /\ link[s] = "up"
  /\ Fault("conn")
  /\ link' = [link EXCEPT ![s] = "lost"]
  /\ queue' = IF s \in Consumers THEN Requeue(queue, s) ELSE queue
  /\ UNCHANGED <<database, dlq, bound, handlers, gateway, worker, ops, requeued>>

(* Queues are durable but the messages in them are transient.              *)
BrokerRestart ==
  /\ Fault("broker")
  /\ queue' = Empty
  /\ dlq' = Empty
  /\ link' = [s \in Services |-> IF link[s] = "down" THEN "down" ELSE "lost"]
  /\ UNCHANGED <<database, bound, handlers, gateway, worker, ops, requeued>>

(* A dead letter queue dead-letters expired messages to itself; RabbitMQ   *)
(* drops what would go round such a cycle.                                 *)
DlqExpire ==
  /\ \E k \in Keys, d \in Delivery :
       /\ dlq[k][d] > 0
       /\ dlq' = Dequeue(dlq, k, d)
  /\ UNCHANGED <<database, queue, bound, link, handlers, gateway, worker, faults, ops,
                 requeued>>

Next ==
  \/ GatewayNext
  \/ WorkerNext
  \/ SenderNext
  \/ ReceiverNext
  \/ TransformerNext
  \/ \E s \in Services : Start(s) \/ Crash(s) \/ LoseConnection(s)
  \/ BrokerRestart
  \/ DlqExpire

Spec == Init /\ [][Next]_vars

(* Go schedules every runnable goroutine, the worker's ticker keeps        *)
(* ticking, and docker-compose restarts a service that exits (restart:     *)
(* unless-stopped).  Clients and operators owe nothing.                    *)
Fairness ==
  /\ \A i \in Ids : WF_vars(GatewayHandler(i))
  /\ WF_vars(WorkerNext)
  /\ WF_vars(SenderNext)
  /\ WF_vars(ReceiverNext)
  /\ WF_vars(TransformerNext)
  /\ \A s \in Services : WF_vars(Start(s))

FairSpec == Spec /\ Fairness

-----------------------------------------------------------------------------
(* TypeOK: every variable has its type; a handler holds a delivery exactly *)
(* while it is working on one.                                             *)
Labels(s) ==
  CASE s = "sender"      -> {"idle", "fail", "update", "record", "publish",
                             "requeue", "dlq", "ack"}
    [] s = "receiver"    -> {"idle", "reject", "update", "record", "ack",
                             "lookup", "trigger", "requeue", "dlq", "drop"}
    [] s = "transformer" -> {"idle", "fetch", "failed", "metadata", "update",
                             "record", "publish", "drop"}

DatabaseOK ==
  /\ status \in [Messages -> Statuses \cup {"none"}]
  /\ published \subseteq Ids
  /\ canonical \subseteq Messages
  /\ trail \in [Messages -> SUBSET Statuses]
  /\ audit \subseteq Messages \X Events

BrokerOK ==
  /\ queue \in [Keys -> [Delivery -> Nat]]
  /\ dlq \in [Keys -> [Delivery -> Nat]]
  /\ bound \subseteq Keys
  /\ link \in [Services -> {"down", "up", "lost"}]

HandlersOK ==
  /\ pc \in [Consumers -> UNION {Labels(s) : s \in Consumers}]
  /\ hand \in [Consumers -> Delivery \cup {NoDelivery}]
  /\ \A s \in Consumers :
       /\ pc[s] \in Labels(s)
       /\ hand[s] = NoDelivery <=> pc[s] = "idle"

GatewayOK ==
  /\ gwPost \in [Ids -> {"new", "store", "record", "publish", "done"}]
  /\ gwTransform \in [Ids -> {"idle", "metadata", "status", "record"}]
  /\ gwRetry \in [Ids -> {"idle", "record", "publish"}]

WorkerOK == wkBatch \subseteq Ids /\ wkMark \in Ids \cup {NoMessage}

CountersOK ==
  /\ faults \in Nat
  /\ ops \in Nat
  /\ requeued \in [Consumers -> [Messages -> Nat]]

TypeOK == DatabaseOK /\ BrokerOK /\ HandlersOK /\ GatewayOK /\ WorkerOK /\ CountersOK

-----------------------------------------------------------------------------
(* Where a copy of message m may be. *)
Waiting(k, m) == \E d \in Delivery : d.id = m /\ queue[k][d] > 0

Holding(s, m, at) == Owns(s) /\ hand[s].id = m /\ pc[s] \in at

InFlight(m) ==
  \/ Waiting(Route["snSend"], m)
  \/ Waiting(Route["rvRecv"], m)
  \/ Holding("sender", m, {"update", "record", "publish", "requeue"})
  \/ Holding("receiver", m, {"update", "requeue"})

(* The rows that are past the worker: it has marked them published, or     *)
(* they no longer say pending, and their message has yet to be received.   *)
Awaited(i) ==
  \/ status[i] = "pending" /\ i \in published
  \/ status[i] = "sent"
  \/ status[i] = "transformed" /\ trail[i] \subseteq {"pending", "sent", "transformed"}

(* NoSilentLoss: a message the gateway stored is never stranded half way.  *)
(* While its row says pending, either the worker will still select it or a *)
(* copy is on its way to a consumer; while it says sent, or transformed    *)
(* with nothing later than sent behind it, a copy is on its way.  This is  *)
(* what acknowledging last and marking published only after publishing are *)
(* for (cmd/worker main.go:119-128, cmd/sender main.go:158-216,            *)
(* cmd/receiver main.go:158-201).                                          *)
NoSilentLoss == \A i \in Ids : Awaited(i) => InFlight(i)

(* LossOnlyByKnownFault: with no retries left to spend (MaxRetries = 0) a  *)
(* message that stops being in flight is parked in a dead letter queue     *)
(* first (cmd/sender main.go:174-180 and 204-207, cmd/receiver main.go:    *)
(* 176-183).  What strands it is that queue's expiry, a publish the worker *)
(* cannot know has failed, a restart of the broker, the sender's update of *)
(* a delivery such a restart took from it, or a POST /transform of a row   *)
(* nobody has published yet: in the last two the row no longer says        *)
(* pending, so the worker will not publish it again (cmd/worker main.go:   *)
(* 85, cmd/api-gateway main.go:277).                                       *)
Parked(m) ==
  \/ \E k \in Keys, d \in Delivery : d.id = m /\ dlq[k][d] > 0
  \/ \E s \in Consumers : Holding(s, m, {"dlq"})

Tracked(i) == Awaited(i) \/ (status[i] = "pending" /\ wkMark = i)

Stranded(i) == Tracked(i) /\ ~InFlight(i) /\ ~Parked(i)

LossOnlyByKnownFault ==
  [][\A i \in Ids : ~Stranded(i) /\ Stranded(i)' =>
       \/ DlqExpire
       \/ BrokerRestart
       \/ WorkerPublishVanishes(i)
       \/ SenderUpdate /\ hand["sender"].id = i /\ link["sender"] = "lost"
       \/ TransformStatus(i) /\ status[i] = "pending" /\ i \notin published]_vars

(* LifecycleOrder: a row is never received before it was sent, nor         *)
(* processed before it was received, whatever is duplicated, requeued,     *)
(* lost or redone (the status diagrams of docs/Phase 3 and Phase 5).      *)
LifecycleOrder == \A i \in Ids :
  /\ "received" \in trail[i] => "sent" \in trail[i]
  /\ "processed" \in trail[i] => "received" \in trail[i]

(* NeverFailed: the status "failed" is never reached by a stored message:  *)
(* what the sender validates again was validated before it was stored, and *)
(* what fails there has no row (cmd/sender main.go:140-156); a message     *)
(* that is dead-lettered keeps the status it had (cmd/sender main.go:174-  *)
(* 180, cmd/receiver main.go:176-182).  The status diagrams of docs/Phase  *)
(* 3 and Phase 5 have both end as failed.                                  *)
NeverFailed == \A i \in Ids : "failed" \notin trail[i]

(* OutputsStopAtSender: a document the transformer emits never gets past   *)
(* the sender, whose UpdateStatus finds no row for it                      *)
(* (cmd/transformer main.go:169-188, cmd/sender main.go:158-163).          *)
OutputsStopAtSender == \A out \in Outputs : ~Waiting(Route["rvRecv"], out)

(* EventuallySettled: every stored message is in the end marked received,  *)
(* or processed after that, for good, once faults cease and whoever        *)
(* crashed is restarted: retries and the worker's polling together leave   *)
(* none behind, and no duplicate turns the status back forever.            *)
Settled(i) ==
  /\ "received" \in trail[i]
  /\ status[i] \in {"received", "processed", "transformed"}

EventuallySettled == \A i \in Ids : Stored(i) ~> []Settled(i)

-----------------------------------------------------------------------------
(* How far a row has ever come; POST /transform may add "transformed" to   *)
(* its history at any stage.                                               *)
Stage(i) ==
  CASE "processed" \in trail[i] -> 4
    [] "processed" \notin trail[i] /\ "received" \in trail[i] -> 3
    [] {"processed", "received"} \cap trail[i] = {} /\ "sent" \in trail[i] -> 2
    [] {"processed", "received", "sent"} \cap trail[i] = {} /\ trail[i] # {} -> 1
    [] trail[i] = {} -> 0

R == INSTANCE Relay WITH stage <- [i \in Ids |-> Stage(i)]

(* ImplementsRelay: whatever the status column goes back to, the furthest  *)
(* stage a message has reached grows, one stage at a time and one message  *)
(* at a time (cmd/sender main.go:158-216, cmd/receiver main.go:158-201,    *)
(* cmd/transformer main.go:130-158).                                       *)
ImplementsRelay == R!Spec

(* RelayDelivers: and when the services are scheduled fairly and restarted *)
(* it grows up to the message's arrival, as the abstract relay's does.     *)
RelayDelivers == R!FairSpec
=============================================================================
