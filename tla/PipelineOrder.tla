--------------------------- MODULE PipelineOrder ----------------------------
(***************************************************************************)
(* LifecycleOrder, OutputsStopAtSender and NeverFailed for every set of    *)
(* messages, every retry budget and every kind and number of faults: what  *)
(* a row has been through is never out of order, because each delivery     *)
(* carries the proof of the step before it.                                *)
(***************************************************************************)
EXTENDS PipelineLoss

TransformQueue == Route["tfTf"]

(* Nobody but the sender publishes to the receiver's queue.                *)
SeparateQueues ==
  ReceiveQueue \notin {Route["gwSend"], Route["wkSend"], Route["snSend"],
                       Route["tfSend"], RetryKey}

(* What is on the receive queue or in the receiver's hand has been sent;   *)
(* what the sender is about to forward too.  What is on the transform      *)
(* queue or in the transformer's hand has been received; what the receiver *)
(* goes on with after its update too.                                      *)
SentFirst == \A m \in Messages :
  \/ Waiting(ReceiveQueue, m)
  \/ hand["receiver"].id = m
  \/ hand["sender"].id = m /\ pc["sender"] \in {"record", "publish"}
  => "sent" \in trail[m]

ReceivedFirst == \A m \in Messages :
  \/ Waiting(TransformQueue, m)
  \/ hand["transformer"].id = m
  \/ hand["receiver"].id = m /\ pc["receiver"] \in {"record", "ack", "lookup", "trigger"}
  => "received" \in trail[m]

InOrder == \A m \in Messages :
  /\ "received" \in trail[m] => "sent" \in trail[m]
  /\ "processed" \in trail[m] => "received" \in trail[m]

OutputsUnstored == \A out \in Outputs : status[out] = "none" /\ trail[out] = {}

OrderInv == TypeOK /\ SentFirst /\ ReceivedFirst /\ InOrder /\ OutputsUnstored

-----------------------------------------------------------------------------
(* Under SeparateQueues the three consumed queues are three.               *)
LEMMA OrderQueues ==
  ASSUME SeparateQueues
  PROVE  /\ ReceiveQueue \in Keys /\ TransformQueue \in Keys /\ SendQueue \in Keys
         /\ ReceiveQueue # TransformQueue /\ SendQueue \notin {ReceiveQueue, TransformQueue}
         /\ InKey("transformer") = TransformQueue
         /\ Route["rvTf"] = TransformQueue
         /\ Route["snRecv"] # TransformQueue
         /\ {Route["gwSend"], Route["wkSend"], Route["tfSend"], RetryKey}
              \cap {ReceiveQueue, TransformQueue} = {}
  BY KeyFacts, TransformQueueAssumption
  DEF SeparateQueues, SendQueue, ReceiveQueue, TransformQueue, InKey, RouteFields, Consumers

(* No step takes anything out of a row's history; each adds at most the    *)
(* status it writes, to the row of the delivery in hand.                   *)
LEMMA UpdateTrail ==
  ASSUME TypeOK, NEW x \in Messages, NEW s \in Statuses, NEW o, UpdateStatus(x, s, o)
  PROVE  /\ \A m \in Messages : trail[m] \subseteq trail'[m]
         /\ \A m \in Messages : trail'[m] \subseteq trail[m] \cup {s}
         /\ \A m \in Messages : m # x \/ ~Stored(x) =>
                                  trail'[m] = trail[m] /\ status'[m] = status[m]
         /\ Stored(x) /\ TakesEffect(o) => s \in trail'[x]
  BY DEF UpdateStatus, TypeOK, DatabaseOK

(* The gateway starts histories and adds "transformed" to them.            *)
LEMMA GatewayTrail ==
  ASSUME TypeOK, GatewayNext
  PROVE  /\ \A m \in Messages : trail[m] \subseteq trail'[m]
         /\ \A m \in Messages : trail'[m] \subseteq trail[m] \cup {"pending", "transformed"}
         /\ \A m \in Outputs : trail'[m] = trail[m] /\ status'[m] = status[m]
  <1> PICK i \in Ids : \/ PostMessage(i) \/ TransformRequest(i) \/ RetryRequest(i)
                       \/ GatewayHandler(i)
    BY DEF GatewayNext
  <1>a. i \in Messages /\ i \notin Outputs /\ Outputs \subseteq Messages
          /\ {"pending", "transformed"} \subseteq Statuses
    BY DeliveryFacts, IdAssumption DEF Statuses
  <1>1. CASE PostStore(i)
    BY <1>1, <1>a DEF PostStore, Store, TypeOK, DatabaseOK
  <1>2. CASE TransformStatus(i)
    BY <1>2, <1>a, UpdateTrail DEF TransformStatus
  <1>3. CASE ~PostStore(i) /\ ~TransformStatus(i)
    BY <1>3 DEF GatewayHandler, PostMessage, PostRecord, PostPublish,
       TransformRequest, TransformMetadata, TransformRecord, RetryRequest, RetryRecord,
       RetryPublish, database
  <1> QED
    BY <1>1, <1>2, <1>3

(* A consumer adds the status it writes, to the row of what it holds.      *)
LEMMA SenderTrail ==
  ASSUME TypeOK, SenderNext
  PROVE  /\ \A m \in Messages : trail[m] \subseteq trail'[m]
         /\ \A m \in Messages : trail'[m] \subseteq trail[m] \cup {"sent", "failed"}
         /\ \A m \in Messages : ~Stored(m) => trail'[m] = trail[m] /\ status'[m] = status[m]
         /\ \A m \in Messages : pc["sender"] # "fail" \/ m # hand["sender"].id =>
              trail'[m] \subseteq trail[m] \cup {"sent"}
  <1>a. Sn = "sender" /\ Sn \in Consumers /\ {"sent", "failed"} \subseteq Statuses
    BY DEF Sn, Consumers, Statuses
  <1>1. CASE SenderFail
    <2>1. PICK o \in Outcomes : UpdateStatus(hand["sender"].id, "failed", o)
      BY <1>1, <1>a DEF SenderFail
    <2>2. hand["sender"].id \in Messages /\ pc["sender"] = "fail"
      BY <1>1, <1>a, HandFacts DEF SenderFail
    <2> QED
      BY <2>1, <2>2, <1>a, UpdateTrail
  <1>2. CASE SenderUpdate
    BY <1>2, <1>a, HandFacts, UpdateTrail DEF SenderUpdate, UpdateThen
  <1>3. CASE ~SenderFail /\ ~SenderUpdate
    BY <1>3 DEF SenderNext, SenderHandler, SenderTake, SenderRecord, SenderPublish,
       SenderRequeue, SenderDlq, SenderAck, NackRequeue, DeadLetter, database
  <1> QED
    BY <1>1, <1>2, <1>3

(* Only the receiver's update extends a trail, by received.                *)
LEMMA ReceiverTrail ==
  ASSUME TypeOK, ReceiverNext
  PROVE  /\ \A m \in Messages : trail[m] \subseteq trail'[m]
         /\ \A m \in Messages : trail'[m] \subseteq trail[m] \cup {"received"}
         /\ \A m \in Messages : m # hand["receiver"].id \/ ~Stored(m) =>
              trail'[m] = trail[m] /\ status'[m] = status[m]
  <1>a. Rv = "receiver" /\ Rv \in Consumers /\ "received" \in Statuses
    BY DEF Rv, Consumers, Statuses
  <1>1. CASE ReceiverUpdate
    BY <1>1, <1>a, HandFacts, UpdateTrail DEF ReceiverUpdate, UpdateThen
  <1>2. CASE ~ReceiverUpdate
    BY <1>2 DEF ReceiverNext, ReceiverHandler, ReceiverTake, ReceiverReject,
       ReceiverRecord, ReceiverAck, ReceiverLookup, ReceiverTrigger, ReceiverRequeue,
       ReceiverDlq, ReceiverDrop, NackRequeue, DeadLetter, database
  <1> QED
    BY <1>1, <1>2

(* Only the transformer's update extends a trail, by processed.            *)
LEMMA TransformerTrail ==
  ASSUME TypeOK, TransformerNext
  PROVE  /\ \A m \in Messages : trail[m] \subseteq trail'[m]
         /\ \A m \in Messages : trail'[m] \subseteq trail[m] \cup {"processed"}
         /\ \A m \in Messages : m # hand["transformer"].id \/ ~Stored(m) =>
              trail'[m] = trail[m] /\ status'[m] = status[m]
  <1>a. Tf = "transformer" /\ Tf \in Consumers /\ "processed" \in Statuses
    BY DEF Tf, Consumers, Statuses
  <1>1. CASE TransformerUpdate
    BY <1>1, <1>a, HandFacts, UpdateTrail DEF TransformerUpdate
  <1>2. CASE ~TransformerUpdate
    BY <1>2 DEF TransformerNext, TransformerHandler, TransformerTake, TransformerFetch,
       TransformerFailed, TransformerMetadata, TransformerRecord, TransformerPublish,
       TransformerDrop, database
  <1> QED
    BY <1>1, <1>2

(* A publish elsewhere brings nothing new to a queue.                      *)
LEMMA PublishElsewhere ==
  ASSUME TypeOK, NEW s, NEW k \in Keys, NEW d \in Delivery, Publish(s, k, d),
         NEW k2 \in Keys, NEW m, Waiting(k2, m)', k2 # k \/ d.id # m
  PROVE  Waiting(k2, m)
  <1>1. PICK d2 \in Delivery : d2.id = m /\ queue'[k2][d2] > 0
    BY DEF Waiting
  <1>2. \A k3 \in Keys, d3 \in Delivery :
          /\ queue[k3][d3] > 0 => queue'[k3][d3] > 0
          /\ queue'[k3][d3] > 0 => queue[k3][d3] > 0 \/ (k3 = k /\ d3 = d)
          /\ link[s] = "up" /\ k \in bound => queue'[k][d] > 0
    BY PublishEffect, Zenon
  <1> QED
    BY <1>1, <1>2 DEF Waiting

(* A redelivery leaves other queues alone.                                 *)
LEMMA RequeueElsewhere ==
  ASSUME TypeOK, NEW s \in Consumers, queue' = Requeue(queue, s),
         NEW k2 \in Keys, NEW m, Waiting(k2, m)',
         ~Owns(s) \/ k2 # InKey(s) \/ hand[s].id # m
  PROVE  Waiting(k2, m)
  BY RequeueEffect DEF Waiting

(* Taking a delivery adds none anywhere.                                   *)
LEMMA TakeElsewhere ==
  ASSUME TypeOK, NEW s \in Consumers, NEW l1, NEW l2, Take(s, l1, l2)
  PROVE  /\ Waiting(InKey(s), hand'[s].id)
         /\ \A k \in Keys, m \in Messages : Waiting(k, m)' => Waiting(k, m)
  BY TakeEffect DEF Waiting

-----------------------------------------------------------------------------
(* The inductive invariant holds initially.                                *)
LEMMA OrderInit == Init => OrderInv
  BY InitType, DeliveryFacts, IdAssumption, KeyFacts
  DEF Init, OrderInv, SentFirst, ReceivedFirst, InOrder, OutputsUnstored, Waiting, Empty,
      NoDelivery, Consumers, ReceiveQueue, TransformQueue, RouteFields

(* The gateway and the worker publish to neither queue, and write no       *)
(* status that matters to the order.                                       *)
LEMMA GatewayOrder ==
  ASSUME SeparateQueues, OrderInv, GatewayNext
  PROVE  SentFirst' /\ ReceivedFirst' /\ InOrder' /\ OutputsUnstored'
  <1> USE DEF OrderInv
  <1>a. pc' = pc /\ hand' = hand
    BY GatewayFrame
  <1> PICK i \in Ids : \/ PostMessage(i) \/ TransformRequest(i) \/ RetryRequest(i)
                       \/ GatewayHandler(i)
    BY DEF GatewayNext
  <1>b. i \in Messages /\ i \notin Outputs /\ Fresh(i) \in Delivery
          /\ {"pending", "transformed"} \subseteq Statuses
    BY DeliveryFacts, IdAssumption DEF Statuses
  <1>1. /\ \A m \in Messages : trail[m] \subseteq trail'[m]
        /\ \A m \in Messages : trail'[m] \subseteq trail[m] \cup {"pending", "transformed"}
        /\ \A m \in Outputs : trail'[m] = trail[m] /\ status'[m] = status[m]
    BY GatewayTrail
  <1>2. \A k \in {ReceiveQueue, TransformQueue}, m \in Messages :
          Waiting(k, m)' => Waiting(k, m)
    <2>1. CASE PostPublish(i) \/ RetryPublish(i)
      <3>1. PICK key \in Keys \ {ReceiveQueue, TransformQueue} :
              Publish("gateway", key, Fresh(i))
        BY <2>1, OrderQueues, KeyFacts, ConfigAssumption
        DEF PostPublish, RetryPublish, RouteFields
      <3> QED
        BY <3>1, <1>b, PublishElsewhere, OrderQueues
    <2>2. CASE ~PostPublish(i) /\ ~RetryPublish(i)
      BY <2>2 DEF GatewayHandler, PostMessage, PostStore, PostRecord, TransformRequest,
         TransformMetadata, TransformStatus, TransformRecord, RetryRequest, RetryRecord,
         broker, Waiting
    <2> QED
      BY <2>1, <2>2
  <1>3. SentFirst' /\ ReceivedFirst'
    BY <1>a, <1>1, <1>2 DEF SentFirst, ReceivedFirst, TransformQueue, ReceiveQueue
  <1>4. InOrder'
    BY <1>1 DEF InOrder
  <1>5. OutputsUnstored'
    BY <1>1 DEF OutputsUnstored
  <1> QED
    BY <1>3, <1>4, <1>5

(* The worker publishes neither to the receiver nor to the transformer.    *)
LEMMA WorkerOrder ==
  ASSUME SeparateQueues, OrderInv, WorkerNext
  PROVE  SentFirst' /\ ReceivedFirst' /\ InOrder' /\ OutputsUnstored'
  <1> USE DEF OrderInv
  <1>a. UNCHANGED <<status, trail, pc, hand>>
    BY WorkerFrame
  <1>1. ASSUME NEW k \in {ReceiveQueue, TransformQueue}, NEW m \in Messages, Waiting(k, m)'
        PROVE  Waiting(k, m)
    <2>1. ASSUME NEW i \in Ids, WorkerPublish(i) PROVE Waiting(k, m)
      <3>1. PICK key \in Keys \ {ReceiveQueue, TransformQueue} :
              Publish("worker", key, Fresh(i))
        BY <2>1, OrderQueues, KeyFacts DEF WorkerPublish, RouteFields
      <3> QED
        BY <1>1, <3>1, DeliveryFacts, PublishElsewhere, OrderQueues
    <2>2. CASE \A i \in Ids : ~WorkerPublish(i)
      BY <2>2, <1>1 DEF WorkerNext, Poll, WorkerMark, BatchTimeout, WorkerPublishVanishes,
         broker, Waiting
    <2> QED
      BY <2>1, <2>2
  <1> QED
    BY <1>a, <1>1 DEF SentFirst, ReceivedFirst, InOrder, OutputsUnstored, TransformQueue,
         ReceiveQueue

(* The sender forwards what it has just marked sent, and has only just     *)
(* marked what has a row.                                                  *)
LEMMA SenderOrder ==
  ASSUME SeparateQueues, OrderInv, SenderNext
  PROVE  SentFirst' /\ ReceivedFirst' /\ InOrder' /\ OutputsUnstored'
  <1> USE DEF OrderInv
  <1>a. /\ Sn = "sender" /\ "sender" \in Consumers /\ InKey("sender") = SendQueue
        /\ {"sent", "failed"} \subseteq Statuses
    BY QueueFacts DEF Sn, Consumers, Statuses
  <1>b. \A s \in {"receiver", "transformer"} : pc'[s] = pc[s] /\ hand'[s] = hand[s]
    BY SenderFrame DEF Sn, Consumers
  <1>1. /\ \A m \in Messages : trail[m] \subseteq trail'[m]
        /\ \A m \in Messages : trail'[m] \subseteq trail[m] \cup {"sent", "failed"}
        /\ \A m \in Messages : ~Stored(m) => trail'[m] = trail[m] /\ status'[m] = status[m]
    BY SenderTrail
  <1>2. ASSUME NEW k \in {ReceiveQueue, TransformQueue}, NEW m \in Messages, Waiting(k, m)'
        PROVE  \/ Waiting(k, m)
               \/ /\ k = ReceiveQueue /\ hand["sender"].id = m
                  /\ pc["sender"] = "publish"
    <2>1. CASE SenderTake
      BY <2>1, <1>2, <1>a, TakeElsewhere, OrderQueues DEF SenderTake
    <2>2. CASE SenderPublish
      <3>1. /\ Publish("sender", Route["snRecv"], Fresh(hand["sender"].id))
            /\ pc["sender"] = "publish"
        BY <2>2, <1>a DEF SenderPublish
      <3>2. Fresh(hand["sender"].id) \in Delivery
              /\ Fresh(hand["sender"].id).id = hand["sender"].id
        BY <3>1, <1>a, HandFacts, DeliveryFacts
      <3> QED
        BY <1>2, <3>1, <3>2, PublishElsewhere, OrderQueues, KeyFacts DEF RouteFields
    <2>3. CASE SenderRequeue
      BY <2>3, <1>2, <1>a, RequeueElsewhere, OrderQueues DEF SenderRequeue, NackRequeue
    <2>4. CASE ~SenderTake /\ ~SenderPublish /\ ~SenderRequeue
      BY <2>4, <1>2 DEF SenderNext, SenderHandler, SenderFail, SenderUpdate, UpdateThen,
         SenderRecord, SenderDlq, DeadLetter, SenderAck, broker, Waiting
    <2> QED
      BY <2>1, <2>2, <2>3, <2>4
  <1>3. ASSUME NEW m \in Messages, hand'["sender"].id = m, pc'["sender"] \in {"record", "publish"}
        PROVE  "sent" \in trail'[m]
    <2>1. CASE SenderUpdate
      <3>1. PICK o \in Outcomes :
              /\ UpdateStatus(hand["sender"].id, "sent", o)
              /\ Goto("sender", IF o # "ok" THEN RetryOrDlq("sender")
                                ELSE IF Stored(hand["sender"].id) THEN "record" ELSE "ack")
        BY <2>1, <1>a DEF SenderUpdate, UpdateThen
      <3>2. hand["sender"].id = m /\ o = "ok" /\ Stored(m)
        BY <3>1, <1>3, <1>a DEF Goto, RetryOrDlq, TypeOK, HandlersOK
      <3> QED
        BY <3>1, <3>2, <1>a, UpdateTrail DEF TakesEffect
    <2>2. CASE SenderRecord
      BY <2>2, <1>1, <1>3, <1>a DEF SenderRecord, Goto, SentFirst
    <2>3. CASE SenderTake
      BY <2>3, <1>3, <1>a, TakeEffect DEF SenderTake
    <2>4. CASE ~SenderUpdate /\ ~SenderRecord /\ ~SenderTake
      BY <2>4, <1>3, <1>a DEF SenderNext, SenderHandler, SenderFail, SenderPublish,
         SenderRequeue, SenderDlq, SenderAck, NackRequeue, DeadLetter, Goto, Release,
         RetryOrDlq, TypeOK, HandlersOK
    <2> QED
      BY <2>1, <2>2, <2>3, <2>4
  <1>4. SentFirst'
    BY <1>1, <1>2, <1>3, <1>b, OrderQueues DEF SentFirst, ReceiveQueue
  <1>5. ReceivedFirst'
    BY <1>1, <1>2, <1>b, OrderQueues DEF ReceivedFirst, TransformQueue
  <1>6. InOrder'
    BY <1>1 DEF InOrder
  <1>7. OutputsUnstored'
    BY <1>1, DeliveryFacts DEF OutputsUnstored, Stored
  <1> QED
    BY <1>4, <1>5, <1>6, <1>7

(* The receiver asks for the transformation of what it has marked          *)
(* received.                                                               *)
LEMMA ReceiverOrder ==
  ASSUME SeparateQueues, OrderInv, ReceiverNext
  PROVE  SentFirst' /\ ReceivedFirst' /\ InOrder' /\ OutputsUnstored'
  <1> USE DEF OrderInv
  <1>a. /\ Rv = "receiver" /\ "receiver" \in Consumers
        /\ InKey("receiver") = ReceiveQueue /\ "received" \in Statuses
    BY QueueFacts DEF Rv, Consumers, Statuses
  <1>b. \A s \in {"sender", "transformer"} : pc'[s] = pc[s] /\ hand'[s] = hand[s]
    BY ReceiverFrame DEF Rv, Consumers
  <1>1. /\ \A m \in Messages : trail[m] \subseteq trail'[m]
        /\ \A m \in Messages : trail'[m] \subseteq trail[m] \cup {"received"}
        /\ \A m \in Messages : m # hand["receiver"].id \/ ~Stored(m) =>
             trail'[m] = trail[m] /\ status'[m] = status[m]
    BY ReceiverTrail
  <1>2. ASSUME NEW k \in {ReceiveQueue, TransformQueue}, NEW m \in Messages, Waiting(k, m)'
        PROVE  \/ Waiting(k, m)
               \/ k = ReceiveQueue /\ hand["receiver"].id = m
               \/ /\ k = TransformQueue /\ hand["receiver"].id = m
                  /\ pc["receiver"] = "trigger"
    <2>1. CASE ReceiverTake
      BY <2>1, <1>2, <1>a, TakeElsewhere, OrderQueues DEF ReceiverTake
    <2>2. CASE ReceiverTrigger
      <3>1. /\ Publish("receiver", TransformQueue, Fresh(hand["receiver"].id))
            /\ pc["receiver"] = "trigger"
        BY <2>2, <1>a, OrderQueues DEF ReceiverTrigger
      <3>2. Fresh(hand["receiver"].id) \in Delivery
              /\ Fresh(hand["receiver"].id).id = hand["receiver"].id
        BY <3>1, <1>a, HandFacts, DeliveryFacts
      <3> QED
        BY <1>2, <3>1, <3>2, PublishElsewhere, OrderQueues
    <2>3. CASE ReceiverRequeue
      BY <2>3, <1>2, <1>a, RequeueElsewhere, OrderQueues DEF ReceiverRequeue, NackRequeue
    <2>4. CASE ~ReceiverTake /\ ~ReceiverTrigger /\ ~ReceiverRequeue
      BY <2>4, <1>2 DEF ReceiverNext, ReceiverHandler, ReceiverReject, ReceiverUpdate,
         UpdateThen, ReceiverRecord, ReceiverAck, ReceiverLookup, ReceiverDlq, DeadLetter,
         ReceiverDrop, broker, Waiting
    <2> QED
      BY <2>1, <2>2, <2>3, <2>4
  <1>3. ASSUME NEW m \in Messages, hand'["receiver"].id = m PROVE "sent" \in trail'[m]
    <2>1. CASE ReceiverTake
      BY <2>1, <1>1, <1>3, <1>a, TakeElsewhere DEF ReceiverTake, SentFirst
    <2>2. CASE ~ReceiverTake
      <3>1. hand'["receiver"] \in {hand["receiver"], NoDelivery}
        BY <2>2, <1>a DEF ReceiverNext, ReceiverHandler, ReceiverReject, ReceiverUpdate,
           UpdateThen, ReceiverRecord, ReceiverAck, ReceiverLookup, ReceiverTrigger,
           ReceiverRequeue, ReceiverDlq, ReceiverDrop, NackRequeue, DeadLetter,
           Goto, Release, TypeOK, HandlersOK
      <3>2. NoDelivery.id \notin Messages
        BY IdAssumption DEF NoDelivery
      <3> QED
        BY <1>1, <1>3, <3>1, <3>2 DEF SentFirst
    <2> QED
      BY <2>1, <2>2
  <1>4. ASSUME NEW m \in Messages, hand'["receiver"].id = m,
               pc'["receiver"] \in {"record", "ack", "lookup", "trigger"}
        PROVE  "received" \in trail'[m]
    <2>1. CASE ReceiverUpdate
      <3>1. PICK o \in Outcomes :
              /\ UpdateStatus(hand["receiver"].id, "received", o)
              /\ Goto("receiver", IF o # "ok" THEN RetryOrDlq("receiver")
                                  ELSE IF Stored(hand["receiver"].id) THEN "record" ELSE "drop")
        BY <2>1, <1>a DEF ReceiverUpdate, UpdateThen
      <3>2. hand["receiver"].id = m /\ o = "ok" /\ Stored(m)
        BY <3>1, <1>4, <1>a DEF Goto, RetryOrDlq, TypeOK, HandlersOK
      <3> QED
        BY <3>1, <3>2, <1>a, UpdateTrail DEF TakesEffect
    <2>2. CASE ReceiverRecord \/ ReceiverAck \/ ReceiverLookup
      <3>1. hand'["receiver"] = hand["receiver"] /\ pc["receiver"] \in {"record", "ack", "lookup"}
        BY <2>2, <1>4, <1>a DEF ReceiverRecord, ReceiverAck, ReceiverLookup, Goto, Release,
           TypeOK, HandlersOK
      <3> QED
        BY <1>1, <1>4, <3>1 DEF ReceivedFirst
    <2>3. CASE ReceiverTake
      BY <2>3, <1>4, <1>a, TakeEffect DEF ReceiverTake
    <2>4. CASE ~ReceiverUpdate /\ ~ReceiverRecord /\ ~ReceiverAck /\ ~ReceiverLookup
               /\ ~ReceiverTake
      BY <2>4, <1>4, <1>a DEF ReceiverNext, ReceiverHandler, ReceiverReject,
         ReceiverTrigger, ReceiverRequeue, ReceiverDlq, ReceiverDrop, NackRequeue,
         DeadLetter, Goto, Release, RetryOrDlq, TypeOK, HandlersOK
    <2> QED
      BY <2>1, <2>2, <2>3, <2>4
  <1>5. SentFirst'
    BY <1>1, <1>2, <1>3, <1>b, OrderQueues DEF SentFirst, ReceiveQueue
  <1>6. ReceivedFirst'
    BY <1>1, <1>2, <1>4, <1>b, OrderQueues DEF ReceivedFirst, TransformQueue
  <1>7. InOrder'
    <2>1. \A m \in Messages : "received" \in trail'[m] /\ "received" \notin trail[m] =>
                                "sent" \in trail[m]
      BY <1>1 DEF SentFirst
    <2> QED
      BY <1>1, <2>1 DEF InOrder
  <1>8. OutputsUnstored'
    BY <1>1, DeliveryFacts DEF OutputsUnstored, Stored
  <1> QED
    BY <1>5, <1>6, <1>7, <1>8

(* The transformer works on what has been received.                        *)
LEMMA TransformerOrder ==
  ASSUME SeparateQueues, OrderInv, TransformerNext
  PROVE  SentFirst' /\ ReceivedFirst' /\ InOrder' /\ OutputsUnstored'
  <1> USE DEF OrderInv
  <1>a. /\ Tf = "transformer" /\ "transformer" \in Consumers
        /\ InKey("transformer") = TransformQueue /\ "processed" \in Statuses
    BY OrderQueues DEF Tf, Consumers, Statuses
  <1>b. \A s \in {"sender", "receiver"} : pc'[s] = pc[s] /\ hand'[s] = hand[s]
    BY TransformerFrame DEF Tf, Consumers
  <1>1. /\ \A m \in Messages : trail[m] \subseteq trail'[m]
        /\ \A m \in Messages : trail'[m] \subseteq trail[m] \cup {"processed"}
        /\ \A m \in Messages : m # hand["transformer"].id \/ ~Stored(m) =>
             trail'[m] = trail[m] /\ status'[m] = status[m]
    BY TransformerTrail
  <1>2. ASSUME NEW k \in {ReceiveQueue, TransformQueue}, NEW m \in Messages, Waiting(k, m)'
        PROVE  Waiting(k, m)
    <2>1. CASE TransformerTake
      BY <2>1, <1>2, <1>a, TakeElsewhere, OrderQueues DEF TransformerTake
    <2>2. CASE TransformerPublish
      <3>1. PICK out \in Outputs : Publish(Tf, Route["tfSend"], Fresh(out))
        BY <2>2 DEF TransformerPublish
      <3>2. Route["tfSend"] \in Keys \ {ReceiveQueue, TransformQueue}
        BY OrderQueues, KeyFacts DEF RouteFields
      <3> QED
        BY <1>2, <3>1, <3>2, DeliveryFacts, PublishElsewhere, OrderQueues
    <2>3. CASE ~TransformerTake /\ ~TransformerPublish
      BY <2>3, <1>2 DEF TransformerNext, TransformerHandler, TransformerFetch,
         TransformerFailed, TransformerMetadata, TransformerUpdate, TransformerRecord,
         TransformerDrop, broker, Waiting
    <2> QED
      BY <2>1, <2>2, <2>3
  <1>3. ASSUME NEW m \in Messages, hand'["transformer"].id = m PROVE "received" \in trail'[m]
    <2>1. CASE TransformerTake
      BY <2>1, <1>1, <1>3, <1>a, TakeElsewhere DEF TransformerTake, ReceivedFirst
    <2>2. CASE ~TransformerTake
      <3>1. hand'["transformer"] \in {hand["transformer"], NoDelivery}
        BY <2>2, <1>a DEF TransformerNext, TransformerHandler, TransformerFetch,
           TransformerFailed, TransformerMetadata, TransformerUpdate, TransformerRecord,
           TransformerPublish, TransformerDrop, Goto, Release, TypeOK, HandlersOK
      <3>2. NoDelivery.id \notin Messages
        BY IdAssumption DEF NoDelivery
      <3> QED
        BY <1>1, <1>3, <3>1, <3>2 DEF ReceivedFirst
    <2> QED
      BY <2>1, <2>2
  <1>4. SentFirst'
    BY <1>1, <1>2, <1>b DEF SentFirst, ReceiveQueue
  <1>5. ReceivedFirst'
    BY <1>1, <1>2, <1>3, <1>b DEF ReceivedFirst, TransformQueue
  <1>6. InOrder'
    <2>1. \A m \in Messages : "processed" \in trail'[m] /\ "processed" \notin trail[m] =>
                                "received" \in trail[m]
      BY <1>1 DEF ReceivedFirst
    <2> QED
      BY <1>1, <2>1 DEF InOrder
  <1>7. OutputsUnstored'
    BY <1>1, DeliveryFacts DEF OutputsUnstored, Stored
  <1> QED
    BY <1>4, <1>5, <1>6, <1>7

(* What a crash or a lost connection puts back was in hand.                *)
LEMMA EnvironmentOrder ==
  ASSUME SeparateQueues, OrderInv, Environment
  PROVE  SentFirst' /\ ReceivedFirst' /\ InOrder' /\ OutputsUnstored'
  <1> USE DEF OrderInv
  <1>a. status' = status /\ trail' = trail
    BY DEF Environment, Start, Crash, LoseConnection, BrokerRestart, DlqExpire, database
  <1>b. {"sender", "receiver", "transformer"} \subseteq Consumers
    BY DEF Consumers
  <1>1. ASSUME NEW k \in {ReceiveQueue, TransformQueue}, NEW m \in Messages, Waiting(k, m)'
        PROVE  \/ Waiting(k, m)
               \/ k = ReceiveQueue /\ hand["receiver"].id = m
               \/ k = TransformQueue /\ hand["transformer"].id = m
    <2>1. ASSUME NEW s \in Consumers, queue' = Requeue(queue, s)
          PROVE  \/ Waiting(k, m)
                 \/ k = ReceiveQueue /\ hand["receiver"].id = m
                 \/ k = TransformQueue /\ hand["transformer"].id = m
      BY <2>1, <1>1, RequeueElsewhere, OrderQueues, QueueFacts DEF Consumers
    <2>2. CASE queue' = queue
      BY <2>2, <1>1 DEF Waiting
    <2>3. CASE queue' = Empty
      BY <2>3, <1>1, OrderQueues DEF Waiting, Empty
    <2> QED
      BY <2>1, <2>2, <2>3 DEF Environment, Start, Crash, LoseConnection, BrokerRestart,
         DlqExpire
  <1>2. \A s \in Consumers : \/ pc'[s] = pc[s] /\ hand'[s] = hand[s]
                             \/ pc'[s] = "idle" /\ hand'[s] = NoDelivery
    BY DEF Environment, Start, Crash, Release, LoseConnection, BrokerRestart, DlqExpire,
       handlers, TypeOK, HandlersOK
  <1>3. NoDelivery.id \notin Messages
    BY IdAssumption DEF NoDelivery
  <1>4. SentFirst'
    BY <1>a, <1>b, <1>1, <1>2, <1>3, OrderQueues DEF SentFirst, ReceiveQueue
  <1>5. ReceivedFirst'
    BY <1>a, <1>b, <1>1, <1>2, <1>3, OrderQueues DEF ReceivedFirst, TransformQueue
  <1> QED
    BY <1>a, <1>4, <1>5 DEF InOrder, OutputsUnstored

(* The inductive invariant is preserved by every step.                     *)
LEMMA OrderStep ==
  ASSUME SeparateQueues, OrderInv, [Next]_vars
  PROVE  OrderInv'
  <1>1. TypeOK'
    BY GatewayType, WorkerType, SenderType, ReceiverType, TransformerType,
       EnvironmentType, NextCases, StutterType DEF OrderInv
  <1>2. SentFirst' /\ ReceivedFirst' /\ InOrder' /\ OutputsUnstored'
    <2>1. CASE UNCHANGED vars
      BY <2>1 DEF OrderInv, vars, database, broker, handlers, SentFirst, ReceivedFirst,
         InOrder, OutputsUnstored, Waiting
    <2> QED
      BY <2>1, NextCases, GatewayOrder, WorkerOrder, SenderOrder, ReceiverOrder,
         TransformerOrder, EnvironmentOrder
  <1> QED
    BY <1>1, <1>2 DEF OrderInv

(* The inductive invariant implies both properties.                        *)
LEMMA OrderInvImplies ==
  ASSUME OrderInv
  PROVE  LifecycleOrder /\ OutputsStopAtSender
  BY DeliveryFacts
  DEF OrderInv, InOrder, LifecycleOrder, SentFirst, OutputsUnstored, OutputsStopAtSender,
      ReceiveQueue

(* LifecycleIsOrdered: where the receive queue is the receiver's own, no   *)
(* row is ever received before it was sent or processed before it was      *)
(* received, whatever kinds of fault strike and however often.             *)
THEOREM LifecycleIsOrdered ==
  ASSUME SeparateQueues
  PROVE  Spec => []LifecycleOrder
  <1>1. Init => OrderInv
    BY OrderInit
  <1>2. OrderInv /\ [Next]_vars => OrderInv'
    BY OrderStep
  <1>3. OrderInv => LifecycleOrder
    BY OrderInvImplies
  <1> QED
    BY <1>1, <1>2, <1>3, PTL DEF Spec

(* OutputsAreStopped: nor does a document of the transformer's ever reach  *)
(* the receive queue.                                                      *)
THEOREM OutputsAreStopped ==
  ASSUME SeparateQueues
  PROVE  Spec => []OutputsStopAtSender
  <1>1. Init => OrderInv
    BY OrderInit
  <1>2. OrderInv /\ [Next]_vars => OrderInv'
    BY OrderStep
  <1>3. OrderInv => OutputsStopAtSender
    BY OrderInvImplies
  <1> QED
    BY <1>1, <1>2, <1>3, PTL DEF Spec

-----------------------------------------------------------------------------
(* What the sender finds invalid has no row: the gateway stores nothing    *)
(* invalid, and nobody stores the transformer's outputs.                   *)
RejectedFails == pc["sender"] = "fail" => Rejected(hand["sender"].id)

ValidInv == TypeOK /\ Bookkeeping /\ OutputsUnstored /\ RejectedFails /\ NeverFailed

(* What validation rejects has no row.                                     *)
LEMMA RejectedUnstored ==
  ASSUME Bookkeeping, OutputsUnstored, NEW m, Rejected(m)
  PROVE  ~Stored(m)
  BY IdAssumption DEF Bookkeeping, Rows, OutputsUnstored, Rejected, Stored

(* The invariant of NeverFailed holds initially.                           *)
LEMMA ValidInit == Init => ValidInv
  BY InitType, BookkeepingInit, DeliveryFacts
  DEF Init, ValidInv, OutputsUnstored, RejectedFails, NeverFailed, Consumers

(* The sender fails only what has no row.                                  *)
LEMMA SenderValid ==
  ASSUME ValidInv, SenderNext
  PROVE  OutputsUnstored' /\ RejectedFails' /\ NeverFailed'
  <1> USE DEF ValidInv
  <1>a. Sn = "sender" /\ "sender" \in Consumers
    BY DEF Sn, Consumers
  <1>1. OutputsUnstored'
    BY SenderTrail, DeliveryFacts DEF OutputsUnstored, Stored
  <1>2. RejectedFails'
    <2>1. CASE SenderTake
      BY <2>1, <1>a, TakeEffect DEF SenderTake, RejectedFails
    <2>2. CASE ~SenderTake
      <3>1. pc'["sender"] # "fail"
        BY <2>2, <1>a DEF SenderNext, SenderHandler, SenderFail, SenderUpdate, UpdateThen,
           SenderRecord, SenderPublish, SenderRequeue, SenderDlq, SenderAck, NackRequeue,
           DeadLetter, Goto, Release, RetryOrDlq, TypeOK, HandlersOK
      <3> QED
        BY <3>1 DEF RejectedFails
    <2> QED
      BY <2>1, <2>2
  <1>3. NeverFailed'
    <2> SUFFICES ASSUME NEW i \in Ids PROVE "failed" \notin trail'[i]
      BY DEF NeverFailed
    <2>1. i \in Messages /\ "failed" \notin trail[i]
      BY DeliveryFacts DEF NeverFailed
    <2>2. CASE pc["sender"] = "fail" /\ hand["sender"].id = i
      BY <2>1, <2>2, RejectedUnstored, SenderTrail DEF RejectedFails
    <2>3. CASE ~(pc["sender"] = "fail" /\ hand["sender"].id = i)
      BY <2>1, <2>3, SenderTrail
    <2> QED
      BY <2>2, <2>3
  <1> QED
    BY <1>1, <1>2, <1>3

(* Nobody else writes the status failed.                                   *)
LEMMA OthersValid ==
  ASSUME ValidInv,
         GatewayNext \/ WorkerNext \/ ReceiverNext \/ TransformerNext \/ Environment
  PROVE  OutputsUnstored' /\ RejectedFails' /\ NeverFailed'
  <1> USE DEF ValidInv
  <1>1. OutputsUnstored' /\ NeverFailed'
    <2>1. CASE GatewayNext
      BY <2>1, GatewayTrail, DeliveryFacts DEF OutputsUnstored, NeverFailed
    <2>2. CASE WorkerNext
      BY <2>2, WorkerFrame DEF OutputsUnstored, NeverFailed
    <2>3. CASE ReceiverNext
      BY <2>3, ReceiverTrail, DeliveryFacts DEF OutputsUnstored, NeverFailed, Stored
    <2>4. CASE TransformerNext
      BY <2>4, TransformerTrail, DeliveryFacts DEF OutputsUnstored, NeverFailed, Stored
    <2>5. CASE Environment
      <3>1. status' = status /\ trail' = trail
        BY <2>5 DEF Environment, Start, Crash, LoseConnection, BrokerRestart, DlqExpire,
           database
      <3> QED
        BY <3>1 DEF OutputsUnstored, NeverFailed
    <2> QED
      BY <2>1, <2>2, <2>3, <2>4, <2>5
  <1>2. RejectedFails'
    <2>1. \/ pc'["sender"] = pc["sender"] /\ hand'["sender"] = hand["sender"]
          \/ pc'["sender"] = "idle"
      <3>1. "sender" \in Consumers \ {Rv, Tf}
        BY DEF Consumers, Rv, Tf
      <3>2. CASE Environment
        BY <3>1, <3>2 DEF Environment, Start, Crash, Release, LoseConnection,
           BrokerRestart, DlqExpire, handlers, TypeOK, HandlersOK
      <3> QED
        BY <3>1, <3>2, GatewayFrame, WorkerFrame, ReceiverFrame, TransformerFrame
    <2> QED
      BY <2>1 DEF RejectedFails, Rejected
  <1> QED
    BY <1>1, <1>2

(* NothingStoredFails: in every deployment, whatever strikes, no stored    *)
(* message ever gets the status failed.                                    *)
THEOREM NothingStoredFails == Spec => []NeverFailed
  <1>1. Init => ValidInv
    BY ValidInit
  <1>2. ValidInv /\ [Next]_vars => ValidInv'
    <2> SUFFICES ASSUME ValidInv, [Next]_vars PROVE ValidInv'
      OBVIOUS
    <2>1. TypeOK' /\ Bookkeeping'
      BY GatewayType, WorkerType, SenderType, ReceiverType, TransformerType,
         EnvironmentType, NextCases, StutterType, BookkeepingStep DEF ValidInv
    <2>2. OutputsUnstored' /\ RejectedFails' /\ NeverFailed'
      <3>1. CASE UNCHANGED vars
        BY <3>1 DEF ValidInv, vars, database, handlers, OutputsUnstored, RejectedFails,
           Rejected, NeverFailed
      <3> QED
        BY <3>1, NextCases, SenderValid, OthersValid
    <2> QED
      BY <2>1, <2>2 DEF ValidInv
  <1>3. ValidInv => NeverFailed
    BY DEF ValidInv
  <1> QED
    BY <1>1, <1>2, <1>3, PTL DEF Spec

-----------------------------------------------------------------------------
(***************************************************************************)
(* The pipeline implements the abstract relay: every step of it leaves     *)
(* the furthest stage of all messages as it is, or takes one message to    *)
(* the next.                                                               *)
(***************************************************************************)
RelayInv == OrderInv /\ Stamped

(* A step adds at most status s to the trail of at most message x.         *)
Adds(x, s) ==
  /\ \A m \in Messages \ {x} : trail'[m] = trail[m]
  /\ trail'[x] = trail[x] \/ trail'[x] = trail[x] \cup {s}

(* What must have happened to message m before it may get status s.        *)
Ready(m, s) ==
  /\ s = "sent" => trail[m] # {}
  /\ s = "received" => "sent" \in trail[m]
  /\ s = "processed" => "received" \in trail[m]

-----------------------------------------------------------------------------
(* An update writes one status to one row, if it is there.                 *)
LEMMA UpdateAdds ==
  ASSUME TypeOK, NEW x \in Messages, NEW s \in Statuses, NEW o, UpdateStatus(x, s, o)
  PROVE  /\ Adds(x, s)
         /\ ~Stored(x) => UNCHANGED trail
  BY DEF UpdateStatus, Adds, Stored, Statuses, TypeOK, DatabaseOK

(* A step that leaves all trails alone adds nothing.                       *)
LEMMA AddsNothing ==
  ASSUME UNCHANGED trail, NEW x, NEW s
  PROVE  Adds(x, s)
  BY DEF Adds

(* Every step of the pipeline adds at most one status to one trail, of a   *)
(* message that is ready for it.                                           *)
LEMMA GatewayAdds ==
  ASSUME RelayInv, GatewayNext
  PROVE  UNCHANGED trail \/ \E x \in Ids, s \in Statuses : Adds(x, s) /\ Ready(x, s)
  <1> PICK i \in Ids : \/ PostMessage(i) \/ TransformRequest(i) \/ RetryRequest(i)
                       \/ GatewayHandler(i)
    BY DEF GatewayNext
  <1>a. i \in Messages /\ TypeOK /\ {"pending", "transformed"} \subseteq Statuses
    BY DeliveryFacts DEF RelayInv, OrderInv, Statuses
  <1>1. CASE PostStore(i)
    <2>1. UNCHANGED trail \/ Store(i)
      BY <1>1 DEF PostStore
    <2>2. Store(i) => Adds(i, "pending")
      BY <1>a DEF Store, Adds, TypeOK, DatabaseOK
    <2>3. Ready(i, "pending")
      BY DEF Ready
    <2> QED
      BY <1>a, <2>1, <2>2, <2>3
  <1>2. CASE TransformStatus(i)
    <2>1. Adds(i, "transformed")
      BY <1>2, <1>a, UpdateAdds DEF TransformStatus
    <2>2. Ready(i, "transformed")
      BY DEF Ready
    <2> QED
      BY <1>a, <2>1, <2>2
  <1>3. CASE ~PostStore(i) /\ ~TransformStatus(i)
    BY <1>3 DEF GatewayHandler, PostMessage, PostRecord, PostPublish,
       TransformRequest, TransformMetadata, TransformRecord, RetryRequest, RetryRecord,
       RetryPublish, database
  <1> QED
    BY <1>1, <1>2, <1>3

(* The sender adds sent, to a row with a history, or failed.               *)
LEMMA SenderAdds ==
  ASSUME RelayInv, SenderNext
  PROVE  UNCHANGED trail \/ \E x \in Messages, s \in Statuses : Adds(x, s) /\ Ready(x, s)
  <1>a. Sn = "sender" /\ Sn \in Consumers /\ {"sent", "failed"} \subseteq Statuses /\ TypeOK
    BY DEF Sn, Consumers, Statuses, RelayInv, OrderInv
  <1> DEFINE x == hand["sender"].id
  <1>1. CASE SenderFail
    <2>1. PICK o \in Outcomes : UpdateStatus(x, "failed", o)
      BY <1>1, <1>a DEF SenderFail
    <2>2. x \in Messages
      BY <1>1, <1>a, HandFacts DEF SenderFail
    <2>3. Adds(x, "failed") /\ Ready(x, "failed")
      BY <2>1, <2>2, <1>a, UpdateAdds DEF Ready
    <2> QED
      BY <2>2, <2>3, <1>a
  <1>2. CASE SenderUpdate
    <2>1. PICK o \in Outcomes : UpdateStatus(x, "sent", o)
      BY <1>2, <1>a DEF SenderUpdate, UpdateThen
    <2>2. x \in Messages
      BY <1>2, <1>a, HandFacts DEF SenderUpdate, UpdateThen
    <2>3. Adds(x, "sent") /\ (~Stored(x) => UNCHANGED trail)
      BY <2>1, <2>2, <1>a, UpdateAdds
    <2>4. Stored(x) => Ready(x, "sent")
      BY <2>2 DEF Ready, RelayInv, Stamped
    <2> QED
      BY <2>2, <2>3, <2>4, <1>a
  <1>3. CASE ~SenderFail /\ ~SenderUpdate
    BY <1>3 DEF SenderNext, SenderHandler, SenderTake, SenderRecord, SenderPublish,
       SenderRequeue, SenderDlq, SenderAck, NackRequeue, DeadLetter, database
  <1> QED
    BY <1>1, <1>2, <1>3

(* The receiver adds received, to a row that was sent.                     *)
LEMMA ReceiverAdds ==
  ASSUME RelayInv, ReceiverNext
  PROVE  UNCHANGED trail \/ \E x \in Messages, s \in Statuses : Adds(x, s) /\ Ready(x, s)
  <1>a. Rv = "receiver" /\ Rv \in Consumers /\ "received" \in Statuses /\ TypeOK
    BY DEF Rv, Consumers, Statuses, RelayInv, OrderInv
  <1> DEFINE x == hand["receiver"].id
  <1>1. CASE ReceiverUpdate
    <2>1. PICK o \in Outcomes : UpdateStatus(x, "received", o)
      BY <1>1, <1>a DEF ReceiverUpdate, UpdateThen
    <2>2. x \in Messages
      BY <1>1, <1>a, HandFacts DEF ReceiverUpdate, UpdateThen
    <2>3. Adds(x, "received")
      BY <2>1, <2>2, <1>a, UpdateAdds
    <2>4. Ready(x, "received")
      BY <2>2 DEF Ready, RelayInv, OrderInv, SentFirst
    <2> QED
      BY <2>2, <2>3, <2>4, <1>a
  <1>2. CASE ~ReceiverUpdate
    BY <1>2 DEF ReceiverNext, ReceiverHandler, ReceiverTake, ReceiverReject,
       ReceiverRecord, ReceiverAck, ReceiverLookup, ReceiverTrigger, ReceiverRequeue,
       ReceiverDlq, ReceiverDrop, NackRequeue, DeadLetter, database
  <1> QED
    BY <1>1, <1>2

(* The transformer adds processed, to a row that was received.             *)
LEMMA TransformerAdds ==
  ASSUME RelayInv, TransformerNext
  PROVE  UNCHANGED trail \/ \E x \in Messages, s \in Statuses : Adds(x, s) /\ Ready(x, s)
  <1>a. Tf = "transformer" /\ Tf \in Consumers /\ "processed" \in Statuses /\ TypeOK
    BY DEF Tf, Consumers, Statuses, RelayInv, OrderInv
  <1> DEFINE x == hand["transformer"].id
  <1>1. CASE TransformerUpdate
    <2>1. PICK o \in Outcomes : UpdateStatus(x, "processed", o)
      BY <1>1, <1>a DEF TransformerUpdate
    <2>2. x \in Messages
      BY <1>1, <1>a, HandFacts DEF TransformerUpdate
    <2>3. Adds(x, "processed")
      BY <2>1, <2>2, <1>a, UpdateAdds
    <2>4. Ready(x, "processed")
      BY <2>2 DEF Ready, RelayInv, OrderInv, ReceivedFirst
    <2> QED
      BY <2>2, <2>3, <2>4, <1>a
  <1>2. CASE ~TransformerUpdate
    BY <1>2 DEF TransformerNext, TransformerHandler, TransformerTake, TransformerFetch,
       TransformerFailed, TransformerMetadata, TransformerRecord, TransformerPublish,
       TransformerDrop, database
  <1> QED
    BY <1>1, <1>2

(* So every step adds at most one status, whose time has come, to one      *)
(* history.                                                                *)
LEMMA StepAdds ==
  ASSUME RelayInv, [Next]_vars
  PROVE  UNCHANGED trail \/ \E x \in Messages, s \in Statuses : Adds(x, s) /\ Ready(x, s)
  BY NextCases, GatewayAdds, SenderAdds, ReceiverAdds, TransformerAdds, OthersAdd,
     DeliveryFacts

-----------------------------------------------------------------------------
(* One more status takes a message that is ready for it to the next stage  *)
(* or leaves it where it is.                                               *)
LEMMA StageGrows ==
  ASSUME TypeOK, NEW i \in Ids, NEW s \in Statuses, Ready(i, s),
         trail'[i] = trail[i] \cup {s}
  PROVE  Stage(i)' = Stage(i) \/ (Stage(i) \in 0..3 /\ Stage(i)' = Stage(i) + 1)
  <1>1. trail[i] \subseteq Statuses
    BY DeliveryFacts DEF TypeOK, DatabaseOK
  <1>2. CASE s = "processed"
    BY <1>2 DEF Stage, Ready
  <1>3. CASE s = "received"
    BY <1>3 DEF Stage, Ready
  <1>4. CASE s = "sent"
    BY <1>4 DEF Stage, Ready
  <1>5. CASE s \in {"pending", "failed", "transformed"}
    BY <1>5 DEF Stage
  <1> QED
    BY <1>2, <1>3, <1>4, <1>5 DEF Statuses

-----------------------------------------------------------------------------
(* A step of the pipeline is a step of the relay or leaves it alone.       *)
LEMMA RelayStep ==
  ASSUME RelayInv, [Next]_vars
  PROVE  [R!Next]_[i \in Ids |-> Stage(i)]
  <1> DEFINE stages == [i \in Ids |-> Stage(i)]
  <1>a. TypeOK /\ Ids \subseteq Messages
    BY DeliveryFacts DEF RelayInv, OrderInv
  <1>1. ASSUME NEW i \in Ids, trail'[i] = trail[i] PROVE Stage(i)' = Stage(i)
    BY <1>1 DEF Stage
  <1>2. CASE \A i \in Ids : Stage(i)' = Stage(i)
    BY <1>2
  <1>3. ASSUME NEW x \in Messages, NEW s \in Statuses, Adds(x, s), Ready(x, s),
               NEW j \in Ids, Stage(j)' # Stage(j)
        PROVE  R!Next
    <2>1. j = x
      BY <1>1, <1>3, <1>a DEF Adds
    <2>2. trail'[j] = trail[j] \cup {s}
      BY <1>1, <1>3, <2>1 DEF Adds
    <2>3. Stage(j) \in 0..3 /\ Stage(j)' = Stage(j) + 1
      BY <1>3, <1>a, <2>1, <2>2, StageGrows
    <2>4. \A i \in Ids \ {j} : Stage(i)' = Stage(i)
      BY <1>1, <1>3, <1>a, <2>1 DEF Adds
    <2>5. stages' = [stages EXCEPT ![j] = Stage(j)']
      BY <2>4
    <2>6. stages[j] = Stage(j)' - 1 /\ Stage(j)' \in 1..4
      BY <2>3
    <2>7. R!Reach(j, Stage(j)')
      BY <2>5, <2>6 DEF R!Reach
    <2>8. R!Reach(j, 1) \/ R!Reach(j, 2) \/ R!Reach(j, 3) \/ R!Reach(j, 4)
      BY <2>6, <2>7
    <2> QED
      BY <2>8 DEF R!Next, R!Accept, R!Forward, R!Arrive, R!Process
  <1>4. UNCHANGED trail => \A i \in Ids : Stage(i)' = Stage(i)
    BY <1>1
  <1> QED
    BY <1>2, <1>3, <1>4, StepAdds

(* PipelineIsRelay: where the receive queue is the receiver's own, the     *)
(* pipeline implements the relay, whatever the routing, the retry budget   *)
(* and the faults.                                                         *)
THEOREM PipelineIsRelay ==
  ASSUME SeparateQueues
  PROVE  Spec => ImplementsRelay
  <1>1. Init => RelayInv
    BY OrderInit DEF RelayInv, Stamped, Init, Stored
  <1>2. RelayInv /\ [Next]_vars => RelayInv'
    BY OrderStep, StampedStep DEF RelayInv, OrderInv
  <1>3. Init => R!Init
    BY DeliveryFacts DEF Init, R!Init, Stage
  <1>4. RelayInv /\ [Next]_vars => [R!Next]_[i \in Ids |-> Stage(i)]
    BY RelayStep
  <1> QED
    BY <1>1, <1>2, <1>3, <1>4, PTL DEF Spec, ImplementsRelay, R!Spec
=============================================================================
