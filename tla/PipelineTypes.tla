--------------------------- MODULE PipelineTypes ----------------------------
(***************************************************************************)
(* Spec => []TypeOK, by one lemma per service and one for the faults.  The *)
(* lemmas on deliveries, keys and queues at the top serve the other proofs *)
(* about the pipeline too.                                                 *)
(***************************************************************************)
EXTENDS Pipeline, TLAPS

Queues == [Keys -> [Delivery -> Nat]]

(* A delivery names a message; the idle handler's placeholder does not.    *)
LEMMA DeliveryFacts ==
  /\ NoDelivery \notin Delivery
  /\ \A d \in Delivery : d.id \in Messages
  /\ \A m \in Messages : Fresh(m) \in Delivery
  /\ \A m \in Messages : Fresh(m).id = m /\ Fresh(m).retry = 0
  /\ Ids \subseteq Messages
  /\ Outputs \subseteq Messages
  /\ NoMessage \notin Ids
  BY IdAssumption, ConfigAssumption DEF NoDelivery, Delivery, Fresh, Messages

(* Every configured key is a key.                                          *)
LEMMA KeyFacts ==
  /\ \A f \in RouteFields : Route[f] \in Keys
  /\ \A s \in Consumers : s \in Services /\ InKey(s) \in Keys
  /\ \A s \in Services : Declares(s) \subseteq Keys
  BY ConfigAssumption DEF RouteFields, Consumers, Services, InKey, Declares

(* Adding and removing a copy changes one count by one.                    *)
LEMMA EnqueueFacts ==
  ASSUME NEW q \in Queues, NEW k \in Keys, NEW d \in Delivery
  PROVE  /\ Enqueue(q, k, d) \in Queues
         /\ Enqueue(q, k, d)[k][d] > 0
         /\ \A k2 \in Keys, d2 \in Delivery : Enqueue(q, k, d)[k2][d2] >= q[k2][d2]
         /\ \A k2 \in Keys, d2 \in Delivery :
              k2 # k \/ d2 # d => Enqueue(q, k, d)[k2][d2] = q[k2][d2]
  BY DEF Enqueue, Queues

(* Taking a copy away leaves a queue function well typed.                  *)
LEMMA DequeueFacts ==
  ASSUME NEW q \in Queues, NEW k \in Keys, NEW d \in Delivery, q[k][d] > 0
  PROVE  /\ Dequeue(q, k, d) \in Queues
         /\ \A k2 \in Keys, d2 \in Delivery : Dequeue(q, k, d)[k2][d2] <= q[k2][d2]
         /\ \A k2 \in Keys, d2 \in Delivery :
              k2 # k \/ d2 # d => Dequeue(q, k, d)[k2][d2] = q[k2][d2]
  BY DEF Dequeue, Queues

(* A handler that is not idle works on a delivery.                         *)
LEMMA HandFacts ==
  ASSUME TypeOK, NEW s \in Consumers
  PROVE  /\ pc[s] # "idle" => hand[s] \in Delivery /\ hand[s].id \in Messages
         /\ Owns(s) => hand[s] \in Delivery /\ hand[s].id \in Messages
  BY DeliveryFacts DEF TypeOK, HandlersOK, Owns

(* What the broker holds stays a bag of deliveries on every queue.         *)
LEMMA PublishType ==
  ASSUME TypeOK, NEW s, NEW k \in Keys, NEW d \in Delivery, Publish(s, k, d)
  PROVE  queue' \in Queues
  BY EnqueueFacts DEF TypeOK, BrokerOK, Publish, Routed, Queues

(* The broker's redelivery keeps the queues well typed.                    *)
LEMMA RequeueType ==
  ASSUME TypeOK, NEW s \in Consumers
  PROVE  Requeue(queue, s) \in Queues
  BY EnqueueFacts, HandFacts, KeyFacts DEF TypeOK, BrokerOK, Requeue, Queues

(* A row's status is a status, and so is all its history.                  *)
LEMMA UpdateStatusType ==
  ASSUME TypeOK, NEW m \in Messages, NEW s \in Statuses, NEW o, UpdateStatus(m, s, o)
  PROVE  /\ status' \in [Messages -> Statuses \cup {"none"}]
         /\ trail' \in [Messages -> SUBSET Statuses]
  <1>1. trail[m] \cup {s} \in SUBSET Statuses
    BY DEF TypeOK, DatabaseOK
  <1> QED
    BY <1>1 DEF TypeOK, DatabaseOK, UpdateStatus

(* The gateway's insert keeps the tables well typed.                       *)
LEMMA StoreType ==
  ASSUME TypeOK, NEW m \in Messages, Store(m)
  PROVE  /\ status' \in [Messages -> Statuses \cup {"none"}]
         /\ trail' \in [Messages -> SUBSET Statuses]
  <1>1. trail[m] \cup {"pending"} \in SUBSET Statuses
    BY DEF TypeOK, DatabaseOK, Statuses
  <1> QED
    BY <1>1 DEF TypeOK, DatabaseOK, Store, Statuses

(* Initially every variable has its type.                                  *)
LEMMA InitType == Init => TypeOK
  <1> SUFFICES ASSUME Init PROVE TypeOK
    OBVIOUS
  <1> USE DEF Init
  <1>1. DatabaseOK
    BY DEF DatabaseOK
  <1>2. BrokerOK
    BY ConfigAssumption, KeyFacts DEF BrokerOK, Empty
  <1>3. HandlersOK
    BY DEF HandlersOK, Consumers, Labels
  <1>4. GatewayOK /\ WorkerOK /\ CountersOK
    BY DEF GatewayOK, WorkerOK, CountersOK
  <1> QED
    BY <1>1, <1>2, <1>3, <1>4 DEF TypeOK

(* The steps of the gateway.                                               *)
LEMMA GatewayType ==
  ASSUME TypeOK, GatewayNext
  PROVE  TypeOK'
  <1> USE DEF TypeOK, DatabaseOK, BrokerOK, HandlersOK, GatewayOK, WorkerOK, CountersOK,
              database, broker, handlers, worker
  <1> PICK i \in Ids : \/ PostMessage(i) \/ TransformRequest(i) \/ RetryRequest(i)
                       \/ GatewayHandler(i)
    BY DEF GatewayNext
  <1>a. i \in Messages /\ Fresh(i) \in Delivery
    BY DeliveryFacts
  <1>1. CASE PostMessage(i)
    BY <1>1 DEF PostMessage
  <1>2. CASE PostStore(i)
    BY <1>2, <1>a, StoreType DEF PostStore, Statement, Fault
  <1>3. CASE PostRecord(i)
    BY <1>3, <1>a DEF PostRecord, Record, Statement, Fault, Events
  <1>4. CASE PostPublish(i)
    <2>1. queue' \in Queues
      BY <1>4, <1>a, PublishType, KeyFacts DEF PostPublish, RouteFields
    <2> QED
      BY <1>4, <2>1 DEF PostPublish, Queues
  <1>5. CASE TransformRequest(i)
    BY <1>5 DEF TransformRequest
  <1>6. CASE TransformMetadata(i)
    BY <1>6, <1>a DEF TransformMetadata, UpdateMetadata, Statement, Fault
  <1>7. CASE TransformStatus(i)
    <2>1. "transformed" \in Statuses
      BY DEF Statuses
    <2> QED
      BY <1>7, <1>a, <2>1, UpdateStatusType DEF TransformStatus, Statement, Fault
  <1>8. CASE TransformRecord(i)
    BY <1>8, <1>a DEF TransformRecord, Record, Statement, Fault, Events
  <1>9. CASE RetryRequest(i)
    BY <1>9 DEF RetryRequest
  <1>10. CASE RetryRecord(i)
    BY <1>10, <1>a DEF RetryRecord, Record, Statement, Fault, Events
  <1>11. CASE RetryPublish(i)
    <2>1. queue' \in Queues
      BY <1>11, <1>a, PublishType, ConfigAssumption DEF RetryPublish
    <2> QED
      BY <1>11, <2>1 DEF RetryPublish, Queues
  <1> QED
    BY <1>1, <1>2, <1>3, <1>4, <1>5, <1>6, <1>7, <1>8, <1>9, <1>10, <1>11
    DEF GatewayHandler

(* The steps of the worker.                                                *)
LEMMA WorkerType ==
  ASSUME TypeOK, WorkerNext
  PROVE  TypeOK'
  <1> USE DEF TypeOK, DatabaseOK, BrokerOK, HandlersOK, GatewayOK, WorkerOK, CountersOK,
              database, broker, handlers, gateway
  <1>1. CASE Poll
    BY <1>1 DEF Poll, Unpublished
  <1>2. CASE WorkerMark
    BY <1>2 DEF WorkerMark, Statement, Fault
  <1>3. CASE BatchTimeout
    BY <1>3 DEF BatchTimeout, Fault
  <1>4. ASSUME NEW i \in Ids, WorkerPublish(i) PROVE TypeOK'
    <2>1. queue' \in Queues
      BY <1>4, DeliveryFacts, PublishType, KeyFacts DEF WorkerPublish, RouteFields
    <2> QED
      BY <1>4, <2>1 DEF WorkerPublish, Queues
  <1>5. ASSUME NEW i \in Ids, WorkerPublishVanishes(i) PROVE TypeOK'
    <2>1. link' \in [Services -> {"down", "up", "lost"}]
      BY <1>5 DEF WorkerPublishVanishes
    <2> QED
      BY <1>5, <2>1 DEF WorkerPublishVanishes, Fault
  <1> QED
    BY <1>1, <1>2, <1>3, <1>4, <1>5 DEF WorkerNext

(* A handler that moves on, lets go of its delivery, or takes one.         *)
LEMMA GotoType ==
  ASSUME TypeOK, NEW s \in Consumers, pc[s] # "idle",
         NEW label \in Labels(s) \ {"idle"}, Goto(s, label)
  PROVE  HandlersOK'
  BY DEF TypeOK, HandlersOK, Goto

(* Ending a delivery leaves the handlers well typed.                       *)
LEMMA ReleaseType ==
  ASSUME TypeOK, NEW s \in Consumers, Release(s)
  PROVE  HandlersOK'
  <1>1. "idle" \in Labels(s)
    BY DEF Labels, Consumers
  <1> QED
    BY <1>1 DEF TypeOK, HandlersOK, Release

(* Taking a delivery leaves handlers and queues well typed.                *)
LEMMA TakeType ==
  ASSUME TypeOK, NEW s \in Consumers, NEW l1 \in Labels(s) \ {"idle"},
         NEW l2 \in Labels(s) \ {"idle"}, Take(s, l1, l2)
  PROVE  HandlersOK' /\ queue' \in Queues
  <1>1. PICK d \in Delivery :
          /\ queue[InKey(s)][d] > 0
          /\ queue' = Dequeue(queue, InKey(s), d)
          /\ hand' = [hand EXCEPT ![s] = d]
          /\ pc' = [pc EXCEPT ![s] = IF Rejected(d.id) THEN l1 ELSE l2]
    BY DEF Take
  <1>2. queue' \in Queues
    BY <1>1, KeyFacts, DequeueFacts DEF TypeOK, BrokerOK, Queues
  <1>3. HandlersOK'
    BY <1>1, DeliveryFacts DEF TypeOK, HandlersOK
  <1> QED
    BY <1>2, <1>3

(* The steps sender and receiver share.                                    *)
LEMMA UpdateThenType ==
  ASSUME TypeOK, NEW s \in Consumers, NEW new \in Statuses,
         "record" \in Labels(s), NEW l1 \in Labels(s) \ {"idle"},
         NEW l2 \in Labels(s) \ {"idle"}, UpdateThen(s, new, l1, l2)
  PROVE  TypeOK'
  <1> DEFINE next(o) == IF o # "ok" THEN l1
                        ELSE IF Stored(hand[s].id) THEN "record" ELSE l2
  <1>1. PICK o \in Outcomes : Statement(o) /\ UpdateStatus(hand[s].id, new, o)
                               /\ Goto(s, next(o))
    BY DEF UpdateThen
  <1>2. pc[s] # "idle" /\ hand[s].id \in Messages
    BY HandFacts DEF UpdateThen
  <1>3. next(o) \in Labels(s) \ {"idle"}
    OBVIOUS
  <1>4. HandlersOK'
    <2> HIDE DEF next
    <2> QED
      BY <1>1, <1>2, <1>3, GotoType
  <1>5. DatabaseOK'
    BY <1>1, <1>2, UpdateStatusType DEF UpdateThen, TypeOK, DatabaseOK
  <1>6. CountersOK'
    BY <1>1 DEF UpdateThen, Statement, Fault, TypeOK, CountersOK
  <1> QED
    BY <1>4, <1>5, <1>6 DEF UpdateThen, broker, gateway, worker,
       TypeOK, BrokerOK, GatewayOK, WorkerOK

(* Nack with requeue preserves TypeOK.                                     *)
LEMMA NackRequeueType ==
  ASSUME TypeOK, NEW s \in Consumers, NackRequeue(s)
  PROVE  TypeOK'
  <1>1. HandlersOK'
    BY ReleaseType DEF NackRequeue
  <1>2. queue' \in Queues
    BY RequeueType DEF NackRequeue
  <1>3. requeued' \in [Consumers -> [Messages -> Nat]]
    BY HandFacts DEF NackRequeue, CountRequeue, TypeOK, CountersOK
  <1> QED
    BY <1>1, <1>2, <1>3 DEF NackRequeue, database, gateway, worker, Queues,
       TypeOK, DatabaseOK, BrokerOK, GatewayOK, WorkerOK, CountersOK

(* Dead-lettering preserves TypeOK.                                        *)
LEMMA DeadLetterType ==
  ASSUME TypeOK, NEW s \in Consumers, NEW label \in Labels(s) \ {"idle"},
         DeadLetter(s, label)
  PROVE  TypeOK'
  <1>1. HandlersOK'
    BY GotoType DEF DeadLetter
  <1>2. Fresh(hand[s].id) \in Delivery
    BY HandFacts, DeliveryFacts DEF DeadLetter
  <1>3. dlq' \in Queues
    BY <1>2, EnqueueFacts, KeyFacts DEF DeadLetter, TypeOK, BrokerOK, Queues
  <1> QED
    BY <1>1, <1>3 DEF DeadLetter, database, gateway, worker, Queues,
       TypeOK, DatabaseOK, BrokerOK, GatewayOK, WorkerOK, CountersOK

(* The steps of the sender.                                                *)
LEMMA SenderType ==
  ASSUME TypeOK, SenderNext
  PROVE  TypeOK'
  <1> USE DEF TypeOK, DatabaseOK, BrokerOK, GatewayOK, WorkerOK, CountersOK,
              database, broker, gateway, worker
  <1>a. /\ Sn \in Consumers
        /\ Labels(Sn) = {"idle", "fail", "update", "record", "publish", "requeue",
                         "dlq", "ack"}
        /\ RetryOrDlq(Sn) \in {"requeue", "dlq"}
    BY DEF Sn, Consumers, Labels, RetryOrDlq
  <1>b. pc[Sn] # "idle" => hand[Sn].id \in Messages /\ Fresh(hand[Sn].id) \in Delivery
    BY <1>a, HandFacts, DeliveryFacts
  <1>1. CASE SenderTake
    <2>1. HandlersOK' /\ queue' \in Queues
      BY <1>1, <1>a, TakeType DEF SenderTake
    <2> QED
      BY <1>1, <2>1 DEF SenderTake, Queues
  <1>2. CASE SenderFail
    <2>1. HandlersOK'
      BY <1>2, <1>a, GotoType DEF SenderFail
    <2>2. "failed" \in Statuses
      BY DEF Statuses
    <2>3. /\ status' \in [Messages -> Statuses \cup {"none"}]
          /\ trail' \in [Messages -> SUBSET Statuses]
      BY <1>2, <1>b, <2>2, UpdateStatusType DEF SenderFail
    <2>4. audit' = audit
      BY <1>2 DEF SenderFail, Record
    <2> QED
      BY <1>2, <2>1, <2>3, <2>4 DEF SenderFail, Statement, Fault
  <1>3. CASE SenderUpdate
    <2>1. "sent" \in Statuses
      BY DEF Statuses
    <2> QED
      BY <1>3, <1>a, <2>1, UpdateThenType DEF SenderUpdate
  <1>4. CASE SenderRecord
    <2>1. HandlersOK'
      BY <1>4, <1>a, GotoType DEF SenderRecord
    <2> QED
      BY <1>4, <2>1 DEF SenderRecord, Record
  <1>5. CASE SenderPublish
    <2>1. HandlersOK'
      BY <1>5, <1>a, GotoType DEF SenderPublish
    <2>2. queue' \in Queues
      BY <1>5, <1>b, PublishType, KeyFacts DEF SenderPublish, RouteFields
    <2> QED
      BY <1>5, <2>1, <2>2 DEF SenderPublish, Queues
  <1>6. CASE SenderRequeue
    BY <1>6, <1>a, NackRequeueType DEF SenderRequeue
  <1>7. CASE SenderDlq
    BY <1>7, <1>a, DeadLetterType DEF SenderDlq
  <1>8. CASE SenderAck
    <2>1. HandlersOK'
      BY <1>8, <1>a, ReleaseType DEF SenderAck
    <2> QED
      BY <1>8, <2>1 DEF SenderAck
  <1> QED
    BY <1>1, <1>2, <1>3, <1>4, <1>5, <1>6, <1>7, <1>8 DEF SenderNext, SenderHandler

(* The steps of the receiver.                                              *)
LEMMA ReceiverType ==
  ASSUME TypeOK, ReceiverNext
  PROVE  TypeOK'
  <1> USE DEF TypeOK, DatabaseOK, BrokerOK, GatewayOK, WorkerOK, CountersOK,
              database, broker, gateway, worker
  <1>a. /\ Rv \in Consumers
        /\ Labels(Rv) = {"idle", "reject", "update", "record", "ack", "lookup",
                         "trigger", "requeue", "dlq", "drop"}
        /\ RetryOrDlq(Rv) \in {"requeue", "dlq"}
    BY DEF Rv, Consumers, Labels, RetryOrDlq
  <1>b. pc[Rv] # "idle" => hand[Rv].id \in Messages /\ Fresh(hand[Rv].id) \in Delivery
    BY <1>a, HandFacts, DeliveryFacts
  <1>1. CASE ReceiverTake
    <2>1. HandlersOK' /\ queue' \in Queues
      BY <1>1, <1>a, TakeType DEF ReceiverTake
    <2> QED
      BY <1>1, <2>1 DEF ReceiverTake, Queues
  <1>2. CASE ReceiverReject
    <2>1. HandlersOK'
      BY <1>2, <1>a, GotoType DEF ReceiverReject
    <2> QED
      BY <1>2, <1>b, <2>1 DEF ReceiverReject, Record, Statement, Fault, Events
  <1>3. CASE ReceiverUpdate
    <2>1. "received" \in Statuses
      BY DEF Statuses
    <2> QED
      BY <1>3, <1>a, <2>1, UpdateThenType DEF ReceiverUpdate
  <1>4. CASE ReceiverRecord
    <2>1. HandlersOK'
      BY <1>4, <1>a, GotoType DEF ReceiverRecord
    <2> QED
      BY <1>4, <1>b, <2>1 DEF ReceiverRecord, Record, Statement, Fault, Events
  <1>5. CASE ReceiverAck
    <2>1. HandlersOK'
      BY <1>5, <1>a, GotoType DEF ReceiverAck
    <2> QED
      BY <1>5, <2>1 DEF ReceiverAck
  <1>6. CASE ReceiverLookup
    <2>1. HandlersOK'
      BY <1>6, <1>a, GotoType, ReleaseType DEF ReceiverLookup
    <2> QED
      BY <1>6, <2>1 DEF ReceiverLookup
  <1>7. CASE ReceiverTrigger
    <2>1. HandlersOK'
      BY <1>7, <1>a, ReleaseType DEF ReceiverTrigger
    <2>2. queue' \in Queues
      BY <1>7, <1>b, PublishType, KeyFacts DEF ReceiverTrigger, RouteFields
    <2> QED
      BY <1>7, <2>1, <2>2 DEF ReceiverTrigger, Queues
  <1>8. CASE ReceiverRequeue
    BY <1>8, <1>a, NackRequeueType DEF ReceiverRequeue
  <1>9. CASE ReceiverDlq
    BY <1>9, <1>a, DeadLetterType DEF ReceiverDlq
  <1>10. CASE ReceiverDrop
    <2>1. HandlersOK'
      BY <1>10, <1>a, ReleaseType DEF ReceiverDrop
    <2> QED
      BY <1>10, <2>1 DEF ReceiverDrop
  <1> QED
    BY <1>1, <1>2, <1>3, <1>4, <1>5, <1>6, <1>7, <1>8, <1>9, <1>10
    DEF ReceiverNext, ReceiverHandler

(* The steps of the transformer.                                           *)
LEMMA TransformerType ==
  ASSUME TypeOK, TransformerNext
  PROVE  TypeOK'
  <1> USE DEF TypeOK, DatabaseOK, BrokerOK, GatewayOK, WorkerOK, CountersOK,
              database, broker, gateway, worker
  <1>a. /\ Tf \in Consumers
        /\ Labels(Tf) = {"idle", "fetch", "failed", "metadata", "update", "record",
                         "publish", "drop"}
    BY DEF Tf, Consumers, Labels
  <1>b. pc[Tf] # "idle" => hand[Tf].id \in Messages
    BY <1>a, HandFacts
  <1>1. CASE TransformerTake
    <2>1. HandlersOK' /\ queue' \in Queues
      BY <1>1, <1>a, TakeType DEF TransformerTake
    <2> QED
      BY <1>1, <2>1 DEF TransformerTake, Queues
  <1>2. CASE TransformerFetch
    <2>1. HandlersOK'
      BY <1>2, <1>a, GotoType DEF TransformerFetch
    <2> QED
      BY <1>2, <2>1 DEF TransformerFetch, Statement, Fault
  <1>3. CASE TransformerFailed
    <2>1. HandlersOK'
      BY <1>3, <1>a, GotoType DEF TransformerFailed
    <2> QED
      BY <1>3, <1>b, <2>1 DEF TransformerFailed, Record, Statement, Fault, Events
  <1>4. CASE TransformerMetadata
    <2>1. HandlersOK'
      BY <1>4, <1>a, GotoType DEF TransformerMetadata
    <2> QED
      BY <1>4, <1>b, <2>1 DEF TransformerMetadata, UpdateMetadata, Statement, Fault
  <1>5. CASE TransformerUpdate
    <2>1. HandlersOK'
      BY <1>5, <1>a, GotoType DEF TransformerUpdate
    <2>2. "processed" \in Statuses
      BY DEF Statuses
    <2>3. /\ status' \in [Messages -> Statuses \cup {"none"}]
          /\ trail' \in [Messages -> SUBSET Statuses]
      BY <1>5, <1>b, <2>2, UpdateStatusType DEF TransformerUpdate
    <2> QED
      BY <1>5, <2>1, <2>3 DEF TransformerUpdate, Statement, Fault
  <1>6. CASE TransformerRecord
    <2>1. HandlersOK'
      BY <1>6, <1>a, GotoType DEF TransformerRecord
    <2> QED
      BY <1>6, <1>b, <2>1 DEF TransformerRecord, Record, Statement, Fault, Events
  <1>7. CASE TransformerPublish
    <2>1. HandlersOK'
      BY <1>7, <1>a, GotoType DEF TransformerPublish
    <2>2. queue' \in Queues
      BY <1>7, DeliveryFacts, PublishType, KeyFacts DEF TransformerPublish, RouteFields
    <2> QED
      BY <1>7, <2>1, <2>2 DEF TransformerPublish, Queues
  <1>8. CASE TransformerDrop
    <2>1. HandlersOK'
      BY <1>8, <1>a, ReleaseType DEF TransformerDrop
    <2> QED
      BY <1>8, <2>1 DEF TransformerDrop
  <1> QED
    BY <1>1, <1>2, <1>3, <1>4, <1>5, <1>6, <1>7, <1>8
    DEF TransformerNext, TransformerHandler

(* Processes that start, die or lose the broker, and the broker itself.    *)
Environment ==
  \/ \E s \in Services : Start(s) \/ Crash(s) \/ LoseConnection(s)
  \/ BrokerRestart
  \/ DlqExpire

(* Starts, faults and expiry preserve TypeOK.                              *)
LEMMA EnvironmentType ==
  ASSUME TypeOK, Environment
  PROVE  TypeOK'
  <1> USE DEF database, broker, handlers, gateway, worker
  <1>a. Empty \in Queues
    BY DEF Empty, Queues
  <1>1. ASSUME NEW s \in Services, Start(s) PROVE TypeOK'
    <2>1. BrokerOK'
      BY <1>1, KeyFacts DEF Start, TypeOK, BrokerOK
    <2> QED
      BY <1>1, <2>1 DEF Start, TypeOK, DatabaseOK, HandlersOK, GatewayOK, WorkerOK,
         CountersOK
  <1>2. ASSUME NEW s \in Services, Crash(s) PROVE TypeOK'
    <2>1. HandlersOK'
      BY <1>2, ReleaseType DEF Crash, TypeOK, HandlersOK
    <2>2. queue' \in Queues
      BY <1>2, RequeueType DEF Crash, TypeOK, BrokerOK, Queues
    <2>3. GatewayOK'
      BY <1>2 DEF Crash, GatewayStops, TypeOK, GatewayOK
    <2>4. WorkerOK'
      BY <1>2 DEF Crash, WorkerStops, TypeOK, WorkerOK
    <2> QED
      BY <1>2, <2>1, <2>2, <2>3, <2>4 DEF Crash, Fault, Queues,
         TypeOK, DatabaseOK, BrokerOK, CountersOK
  <1>3. ASSUME NEW s \in Services, LoseConnection(s) PROVE TypeOK'
    <2>1. queue' \in Queues
      BY <1>3, RequeueType DEF LoseConnection, TypeOK, BrokerOK, Queues
    <2> QED
      BY <1>3, <2>1 DEF LoseConnection, Fault, Queues, TypeOK, DatabaseOK, BrokerOK,
         HandlersOK, GatewayOK, WorkerOK, CountersOK
  <1>4. CASE BrokerRestart
    <2>1. BrokerOK'
      BY <1>4, <1>a, SMTT(30) DEF BrokerRestart, TypeOK, BrokerOK, Queues
    <2> QED
      BY <1>4, <2>1 DEF BrokerRestart, Fault, TypeOK, DatabaseOK, HandlersOK, GatewayOK,
         WorkerOK, CountersOK
  <1>5. CASE DlqExpire
    <2>1. dlq' \in Queues
      BY <1>5, DequeueFacts DEF DlqExpire, TypeOK, BrokerOK, Queues
    <2> QED
      BY <1>5, <2>1 DEF DlqExpire, Queues, TypeOK, DatabaseOK, BrokerOK, HandlersOK,
         GatewayOK, WorkerOK, CountersOK
  <1> QED
    BY <1>1, <1>2, <1>3, <1>4, <1>5 DEF Environment

(* A step of the pipeline is one of these; a stutter changes no variable.  *)
LEMMA NextCases ==
  Next => GatewayNext \/ WorkerNext \/ SenderNext \/ ReceiverNext \/ TransformerNext
          \/ Environment
  BY DEF Next, Environment

(* A stuttering step preserves TypeOK.                                     *)
LEMMA StutterType ==
  ASSUME TypeOK, UNCHANGED vars
  PROVE  TypeOK'
  BY DEF vars, database, broker, handlers, gateway, worker, TypeOK, DatabaseOK, BrokerOK,
     HandlersOK, GatewayOK, WorkerOK, CountersOK

(* TypeIsInvariant: in every deployment, whatever the routing, the retry   *)
(* budget and the faults, every variable keeps its type, and a consumer    *)
(* holds a delivery exactly while its handler is at work.                  *)
THEOREM TypeIsInvariant == Spec => []TypeOK
  <1>1. TypeOK /\ [Next]_vars => TypeOK'
    BY GatewayType, WorkerType, SenderType, ReceiverType, TransformerType,
       EnvironmentType, NextCases, StutterType
  <1> QED
    BY InitType, <1>1, PTL DEF Spec

-----------------------------------------------------------------------------
(* What the steps of a service leave alone.                                *)
LEMMA GatewayFrame ==
  ASSUME GatewayNext
  PROVE  UNCHANGED <<published, dlq, bound, link, pc, hand, wkBatch, wkMark>>
  BY DEF GatewayNext, GatewayHandler, PostMessage, PostStore, PostRecord, PostPublish,
     TransformRequest, TransformMetadata, TransformStatus, TransformRecord,
     RetryRequest, RetryRecord, RetryPublish, database, broker, handlers, worker

(* What no step of the worker touches.                                     *)
LEMMA WorkerFrame ==
  ASSUME WorkerNext
  PROVE  UNCHANGED <<status, trail, dlq, bound, pc, hand, gwPost>>
  BY DEF WorkerNext, Poll, WorkerPublish, WorkerPublishVanishes, WorkerMark,
     BatchTimeout, database, broker, handlers, gateway

(* What no step of the sender touches.                                     *)
LEMMA SenderFrame ==
  ASSUME TypeOK, SenderNext
  PROVE  /\ UNCHANGED <<published, bound, link, gwPost, wkBatch, wkMark>>
         /\ \A s \in Consumers \ {Sn} : pc'[s] = pc[s] /\ hand'[s] = hand[s]
  BY DEF TypeOK, HandlersOK, SenderNext, SenderHandler, SenderTake, SenderFail,
     SenderUpdate, SenderRecord, SenderPublish, SenderRequeue, SenderDlq, SenderAck,
     Take, UpdateThen, NackRequeue, DeadLetter, Release, Goto,
     database, broker, gateway, worker

(* What no step of the receiver touches.                                   *)
LEMMA ReceiverFrame ==
  ASSUME TypeOK, ReceiverNext
  PROVE  /\ UNCHANGED <<published, bound, link, gwPost, wkBatch, wkMark>>
         /\ \A s \in Consumers \ {Rv} : pc'[s] = pc[s] /\ hand'[s] = hand[s]
  BY DEF TypeOK, HandlersOK, ReceiverNext, ReceiverHandler, ReceiverTake,
     ReceiverReject, ReceiverUpdate, ReceiverRecord, ReceiverAck, ReceiverLookup,
     ReceiverTrigger, ReceiverRequeue, ReceiverDlq, ReceiverDrop,
     Take, UpdateThen, NackRequeue, DeadLetter, Release, Goto,
     database, broker, gateway, worker

(* What no step of the transformer touches.                                *)
LEMMA TransformerFrame ==
  ASSUME TypeOK, TransformerNext
  PROVE  /\ UNCHANGED <<published, bound, link, gwPost, wkBatch, wkMark>>
         /\ \A s \in Consumers \ {Tf} : pc'[s] = pc[s] /\ hand'[s] = hand[s]
  BY DEF TypeOK, HandlersOK, TransformerNext, TransformerHandler, TransformerTake,
     TransformerFetch, TransformerFailed, TransformerMetadata, TransformerUpdate,
     TransformerRecord, TransformerPublish, TransformerDrop,
     Take, Release, Goto, database, broker, gateway, worker

-----------------------------------------------------------------------------
(* What the three operations on the queues do to the copies waiting there. *)
LEMMA PublishEffect ==
  ASSUME TypeOK, NEW s, NEW k \in Keys, NEW d \in Delivery, Publish(s, k, d)
  PROVE  \A k2 \in Keys, d2 \in Delivery :
           /\ queue[k2][d2] > 0 => queue'[k2][d2] > 0
           /\ queue'[k2][d2] > 0 => queue[k2][d2] > 0 \/ (k2 = k /\ d2 = d)
           /\ link[s] = "up" /\ k \in bound => queue'[k][d] > 0
  <1>1. CASE link[s] = "up" /\ k \in bound
    <2>1. queue' = Enqueue(queue, k, d)
      BY <1>1 DEF Publish, Routed
    <2>2. queue \in Queues
      BY DEF TypeOK, BrokerOK, Queues
    <2>3. \A k2 \in Keys, d2 \in Delivery : queue[k2][d2] \in Nat /\ queue'[k2][d2] \in Nat
      BY <2>1, <2>2, EnqueueFacts DEF Queues
    <2> QED
      BY <1>1, <2>1, <2>2, <2>3, EnqueueFacts
  <1>2. CASE ~(link[s] = "up" /\ k \in bound)
    BY <1>2 DEF Publish, Routed
  <1> QED
    BY <1>1, <1>2

(* What a redelivery does to each counter of the queues.                   *)
LEMMA RequeueEffect ==
  ASSUME TypeOK, NEW s \in Consumers
  PROVE  \A k2 \in Keys, d2 \in Delivery :
           /\ queue[k2][d2] > 0 => Requeue(queue, s)[k2][d2] > 0
           /\ Requeue(queue, s)[k2][d2] > 0 =>
                queue[k2][d2] > 0 \/ (Owns(s) /\ k2 = InKey(s) /\ d2 = hand[s])
           /\ Owns(s) => Requeue(queue, s)[InKey(s)][hand[s]] > 0
  <1>1. CASE Owns(s)
    <2>1. Requeue(queue, s) = Enqueue(queue, InKey(s), hand[s])
      BY <1>1 DEF Requeue
    <2>2. hand[s] \in Delivery /\ InKey(s) \in Keys
      BY <1>1, HandFacts, KeyFacts
    <2> QED
      BY <1>1, <2>1, <2>2, EnqueueFacts DEF TypeOK, BrokerOK, Queues
  <1>2. CASE ~Owns(s)
    BY <1>2 DEF Requeue
  <1> QED
    BY <1>1, <1>2

(* What taking a delivery does to each counter of the queues.              *)
LEMMA TakeEffect ==
  ASSUME TypeOK, NEW s \in Consumers, NEW l1, NEW l2, Take(s, l1, l2)
  PROVE  /\ link[s] = "up" /\ pc[s] = "idle"
         /\ hand'[s] \in Delivery /\ queue[InKey(s)][hand'[s]] > 0
         /\ pc'[s] = IF Rejected(hand'[s].id) THEN l1 ELSE l2
         /\ \A k2 \in Keys, d2 \in Delivery :
              /\ queue'[k2][d2] > 0 => queue[k2][d2] > 0
              /\ queue[k2][d2] > 0 =>
                   queue'[k2][d2] > 0 \/ (k2 = InKey(s) /\ d2 = hand'[s])
  <1>1. PICK d \in Delivery :
          /\ queue[InKey(s)][d] > 0
          /\ queue' = Dequeue(queue, InKey(s), d)
          /\ hand' = [hand EXCEPT ![s] = d]
          /\ pc' = [pc EXCEPT ![s] = IF Rejected(d.id) THEN l1 ELSE l2]
    BY DEF Take
  <1>2. hand'[s] = d /\ pc'[s] = IF Rejected(d.id) THEN l1 ELSE l2
    BY <1>1 DEF TypeOK, HandlersOK
  <1>3. \A k2 \in Keys, d2 \in Delivery :
          /\ queue'[k2][d2] > 0 => queue[k2][d2] > 0
          /\ queue[k2][d2] > 0 => queue'[k2][d2] > 0 \/ (k2 = InKey(s) /\ d2 = d)
    <2>1. queue \in Queues /\ queue' \in Queues
      BY <1>1, DequeueFacts, KeyFacts DEF TypeOK, BrokerOK, Queues
    <2> QED
      BY <1>1, <2>1, DequeueFacts, KeyFacts DEF Queues
  <1> QED
    BY <1>1, <1>2, <1>3 DEF Take
=============================================================================
