---------------------------- MODULE PipelineLoss ----------------------------
(***************************************************************************)
(* NoSilentLoss for every set of messages, every retry budget above zero   *)
(* and every number of faults, under the conditions LossFree names.        *)
(*                                                                         *)
(* By itself NoSilentLoss is not inductive.  That a copy is on its way is  *)
(* kept by publishing only to queues that exist (QueuesBound), by retrying *)
(* for ever instead of dead-lettering (Headers), by never finding a stored *)
(* message invalid (Rows), by marking a row published only after its copy  *)
(* was enqueued (Covered, which says of the row being marked what          *)
(* NoSilentLoss says of marked rows), by no row changing hands through     *)
(* POST /transform (NoTransforms), and, when a sender works on without its *)
(* connection, by its delivery staying on the send queue, which has no     *)
(* other consumer (Zombie).                                                *)
(*                                                                         *)
(* And LossOnlyByKnownFault where Chained is all that is asked: whatever   *)
(* is stranded without those conditions, a fault it names has stranded.    *)
(***************************************************************************)
EXTENDS PipelineTypes

SendQueue    == Route["snSend"]
ReceiveQueue == Route["rvRecv"]

(* Worker and sender agree on the send queue, sender and receiver on the   *)
(* receive queue; something is left of the retry budget; no publish        *)
(* vanishes and the broker does not restart.  A lost connection is allowed *)
(* where send and receive queue are two.  And POST /transform changes no   *)
(* row, because operators leave it alone or what is stored cannot be       *)
(* transformed: a row it marks before the worker has seen it would never   *)
(* be published.                                                           *)
LossFree ==
  /\ Route["wkSend"] = SendQueue
  /\ Route["snRecv"] = ReceiveQueue
  /\ MaxRetries > 0
  /\ "vanish" \notin FaultKinds
  /\ "broker" \notin FaultKinds
  /\ "conn" \notin FaultKinds \/ SendQueue # ReceiveQueue
  /\ MaxOps = 0 \/ Ids \subseteq Undecodable

Headers ==
  /\ \A k \in Keys, d \in Delivery : queue[k][d] > 0 => d.retry = 0
  /\ \A s \in Consumers : hand[s].retry = 0

QueuesBound == \A s \in Services : link[s] # "down" => Declares(s) \subseteq bound

Rows == \A i \in Ids :
  /\ gwPost[i] \in {"new", "store"} => ~Stored(i)
  /\ i \in Invalid => gwPost[i] \in {"new", "done"} /\ ~Stored(i)
  /\ i \in published \/ i \in wkBatch \/ i = wkMark => Stored(i)

Zombie ==
  \/ \A s \in Services : link[s] # "lost"
  \/ /\ "conn" \in FaultKinds
     /\ link["sender"] = "lost" /\ pc["sender"] # "idle" =>
          Waiting(SendQueue, hand["sender"].id)

NoTransforms == \A i \in Ids : gwTransform[i] = "idle"

Alive == \A s \in Consumers : link[s] = "down" => pc[s] = "idle"

Covered == \A i \in Ids : Tracked(i) => InFlight(i)

LossInv ==
  TypeOK /\ Headers /\ QueuesBound /\ Rows /\ Zombie /\ Alive /\ NoTransforms /\ Covered

-----------------------------------------------------------------------------
(* Rows, QueuesBound and Alive hold in every deployment.                   *)
Bookkeeping == Rows /\ QueuesBound /\ Alive

(* The status of a row is part of its history.                             *)
Stamped == \A m \in Messages : Stored(m) => status[m] \in trail[m]

(* The bookkeeping holds before anything was posted.                       *)
LEMMA BookkeepingInit == Init => Bookkeeping
  BY DeliveryFacts, ConfigAssumption, KeyFacts
  DEF Init, Bookkeeping, Rows, QueuesBound, Alive, Stored, Services

(* A row, once there, stays; and only PostStore makes one.                 *)
LEMMA StoredByUpdate ==
  ASSUME TypeOK, NEW m \in Messages, NEW s \in Statuses, NEW o, UpdateStatus(m, s, o)
  PROVE  \A x \in Messages : status'[x] # "none" <=> status[x] # "none"
  BY DEF UpdateStatus, Stored, Statuses, TypeOK, DatabaseOK

(* The sender neither inserts nor deletes a row.                           *)
LEMMA SenderStored ==
  ASSUME TypeOK, SenderNext
  PROVE  \A x \in Messages : status'[x] # "none" <=> status[x] # "none"
  <1>a. Sn \in Consumers /\ "sent" \in Statuses /\ "failed" \in Statuses
    BY DEF Sn, Consumers, Statuses
  <1>1. CASE SenderFail
    BY <1>1, <1>a, HandFacts, StoredByUpdate DEF SenderFail
  <1>2. CASE SenderUpdate
    BY <1>2, <1>a, HandFacts, StoredByUpdate DEF SenderUpdate, UpdateThen
  <1>3. CASE ~SenderFail /\ ~SenderUpdate
    BY <1>3 DEF SenderNext, SenderHandler, SenderTake, SenderRecord, SenderPublish,
       SenderRequeue, SenderDlq, SenderAck, NackRequeue, DeadLetter, database
  <1> QED
    BY <1>1, <1>2, <1>3

(* The receiver neither inserts nor deletes a row.                         *)
LEMMA ReceiverStored ==
  ASSUME TypeOK, ReceiverNext
  PROVE  \A x \in Messages : status'[x] # "none" <=> status[x] # "none"
  <1>a. Rv \in Consumers /\ "received" \in Statuses
    BY DEF Rv, Consumers, Statuses
  <1>1. CASE ReceiverUpdate
    BY <1>1, <1>a, HandFacts, StoredByUpdate DEF ReceiverUpdate, UpdateThen
  <1>2. CASE ~ReceiverUpdate
    BY <1>2 DEF ReceiverNext, ReceiverHandler, ReceiverTake, ReceiverReject,
       ReceiverRecord, ReceiverAck, ReceiverLookup, ReceiverTrigger, ReceiverRequeue,
       ReceiverDlq, ReceiverDrop, NackRequeue, DeadLetter, database
  <1> QED
    BY <1>1, <1>2

(* The transformer neither inserts nor deletes a row.                      *)
LEMMA TransformerStored ==
  ASSUME TypeOK, TransformerNext
  PROVE  \A x \in Messages : status'[x] # "none" <=> status[x] # "none"
  <1>a. Tf \in Consumers /\ "processed" \in Statuses
    BY DEF Tf, Consumers, Statuses
  <1>1. CASE TransformerUpdate
    BY <1>1, <1>a, HandFacts, StoredByUpdate DEF TransformerUpdate
  <1>2. CASE ~TransformerUpdate
    BY <1>2 DEF TransformerNext, TransformerHandler, TransformerTake, TransformerFetch,
       TransformerFailed, TransformerMetadata, TransformerRecord, TransformerPublish,
       TransformerDrop, database
  <1> QED
    BY <1>1, <1>2

(* Consumers do not disturb the bookkeeping.                               *)
LEMMA ConsumerBookkeeping ==
  ASSUME TypeOK, Bookkeeping, SenderNext \/ ReceiverNext \/ TransformerNext
  PROVE  Bookkeeping'
  <1> USE DEF Bookkeeping
  <1>1. \A x \in Messages : status'[x] # "none" <=> status[x] # "none"
    BY SenderStored, ReceiverStored, TransformerStored
  <1>2. UNCHANGED <<published, bound, link, gwPost, wkBatch, wkMark>>
    BY SenderFrame, ReceiverFrame, TransformerFrame
  <1>3. \A s \in Consumers : link[s] = "down" => pc'[s] = pc[s]
    <2>1. \A s \in Consumers : link[s] = "down" => pc[s] = "idle"
      BY DEF Alive
    <2> QED
    BY <2>1, SenderFrame, ReceiverFrame, TransformerFrame, TakeEffect
    DEF SenderNext, SenderHandler, SenderTake, SenderFail, SenderUpdate, SenderRecord,
       SenderPublish, SenderRequeue, SenderDlq, SenderAck,
       ReceiverNext, ReceiverHandler, ReceiverTake, ReceiverReject, ReceiverUpdate,
       ReceiverRecord, ReceiverAck, ReceiverLookup, ReceiverTrigger, ReceiverRequeue,
       ReceiverDlq, ReceiverDrop,
       TransformerNext, TransformerHandler, TransformerTake, TransformerFetch,
       TransformerFailed, TransformerMetadata, TransformerUpdate, TransformerRecord,
       TransformerPublish, TransformerDrop,
       Take, UpdateThen, NackRequeue, DeadLetter, Sn, Rv, Tf
  <1>4. Rows'
    BY <1>1, <1>2, DeliveryFacts DEF Rows, Stored
  <1>5. QueuesBound'
    BY <1>2 DEF QueuesBound
  <1>6. Alive'
    BY <1>2, <1>3 DEF Alive
  <1> QED
    BY <1>4, <1>5, <1>6

(* The gateway keeps the bookkeeping: only a valid message is stored.      *)
LEMMA GatewayBookkeeping ==
  ASSUME TypeOK, Bookkeeping, GatewayNext
  PROVE  Bookkeeping'
  <1> USE DEF Bookkeeping
  <1>a. UNCHANGED <<published, bound, link, pc, wkBatch, wkMark>>
    BY GatewayFrame
  <1>b. QueuesBound' /\ Alive'
    BY <1>a DEF QueuesBound, Alive
  <1> PICK i \in Ids : \/ PostMessage(i) \/ TransformRequest(i) \/ RetryRequest(i)
                       \/ GatewayHandler(i)
    BY DEF GatewayNext
  <1>c. i \in Messages /\ Ids \subseteq Messages
    BY DeliveryFacts
  <1>1. CASE PostMessage(i)
    BY <1>1, <1>a, <1>b DEF PostMessage, database, Rows, Stored, TypeOK, GatewayOK
  <1>2. CASE PostStore(i)
    BY <1>2, <1>a, <1>b, <1>c DEF PostStore, Store, Rows, Stored, TypeOK, GatewayOK,
       DatabaseOK
  <1>3. CASE PostRecord(i) \/ PostPublish(i)
    BY <1>3, <1>a, <1>b DEF PostRecord, PostPublish, database, Rows, Stored, TypeOK,
       GatewayOK
  <1>4. CASE TransformStatus(i)
    <2>1. "transformed" \in Statuses
      BY DEF Statuses
    <2>2. \A x \in Messages : status'[x] # "none" <=> status[x] # "none"
      BY <1>4, <1>c, <2>1, StoredByUpdate DEF TransformStatus
    <2> QED
      BY <1>4, <1>a, <1>b, <1>c, <2>2 DEF TransformStatus, Rows, Stored
  <1>5. CASE \/ TransformRequest(i) \/ TransformMetadata(i) \/ TransformRecord(i)
             \/ RetryRequest(i) \/ RetryRecord(i) \/ RetryPublish(i)
    <2>1. UNCHANGED <<status, gwPost>>
      BY <1>5 DEF TransformRequest, TransformMetadata, TransformRecord, RetryRequest,
         RetryRecord, RetryPublish, database
    <2> QED
      BY <2>1, <1>a, <1>b DEF Rows, Stored
  <1> QED
    BY <1>1, <1>2, <1>3, <1>4, <1>5 DEF GatewayHandler

(* The worker selects and marks stored rows only.                          *)
LEMMA WorkerBookkeeping ==
  ASSUME TypeOK, Bookkeeping, WorkerNext
  PROVE  Bookkeeping'
  <1> USE DEF Bookkeeping
  <1>a. UNCHANGED <<status, bound, pc, gwPost>>
    BY WorkerFrame
  <1>1. Rows'
    BY <1>a, DeliveryFacts DEF WorkerNext, Poll, Unpublished, WorkerMark, BatchTimeout,
       WorkerPublish, WorkerPublishVanishes, database, Rows, Stored
  <1>2. \A s \in Services : link'[s] = "down" <=> link[s] = "down"
    BY DEF WorkerNext, Poll, WorkerMark, BatchTimeout, WorkerPublish,
       WorkerPublishVanishes, TypeOK, BrokerOK
  <1> QED
    BY <1>1, <1>2, <1>a, KeyFacts DEF QueuesBound, Alive

(* Starts declare what they use; a crash keeps no half-done request.       *)
LEMMA EnvironmentBookkeeping ==
  ASSUME TypeOK, Bookkeeping, Environment
  PROVE  Bookkeeping'
  <1> USE DEF Bookkeeping
  <1>1. Rows'
    <2>1. UNCHANGED <<status, published>>
      BY DEF Environment, Start, Crash, LoseConnection, BrokerRestart, DlqExpire, database
    <2>2. \A i \in Ids : \/ gwPost'[i] = gwPost[i]
                         \/ gwPost[i] # "new" /\ gwPost'[i] = "done"
      BY DEF Environment, Start, Crash, GatewayStops, LoseConnection, BrokerRestart,
         DlqExpire, gateway
    <2>3. wkBatch' \subseteq wkBatch /\ wkMark' \in {wkMark, NoMessage}
      BY DEF Environment, Start, Crash, WorkerStops, LoseConnection, BrokerRestart,
         DlqExpire, worker
    <2> QED
      BY <2>1, <2>2, <2>3, DeliveryFacts DEF Rows, Stored
  <1>2. QueuesBound'
    BY DEF Environment, Start, Crash, LoseConnection, BrokerRestart, DlqExpire,
       QueuesBound, TypeOK, BrokerOK
  <1>3. Alive'
    BY KeyFacts
    DEF Environment, Start, Crash, Release, LoseConnection, BrokerRestart, DlqExpire,
       handlers, Alive, TypeOK, BrokerOK, HandlersOK
  <1> QED
    BY <1>1, <1>2, <1>3

(* Every step keeps the bookkeeping.                                       *)
LEMMA BookkeepingStep ==
  ASSUME TypeOK, Bookkeeping, [Next]_vars
  PROVE  Bookkeeping'
  <1>1. CASE UNCHANGED vars
    BY <1>1 DEF vars, database, broker, handlers, gateway, worker, Bookkeeping, Rows,
       QueuesBound, Alive, Stored
  <1> QED
    BY <1>1, NextCases, ConsumerBookkeeping, GatewayBookkeeping, WorkerBookkeeping,
       EnvironmentBookkeeping

(* Neither the worker nor the environment writes a status.                 *)
LEMMA OthersAdd ==
  ASSUME WorkerNext \/ Environment \/ UNCHANGED vars
  PROVE  UNCHANGED <<status, trail>>
  BY DEF WorkerNext, Poll, WorkerMark, BatchTimeout, WorkerPublish, WorkerPublishVanishes,
     Environment, Start, Crash, LoseConnection, BrokerRestart, DlqExpire, database, vars

(* Every status a row gets is written into its history.                    *)
LEMMA StampedStep ==
  ASSUME TypeOK, Stamped, [Next]_vars
  PROVE  Stamped'
  <1>1. \A m \in Messages, s \in Statuses : \A o : UpdateStatus(m, s, o) => Stamped'
    BY DEF UpdateStatus, Stamped, Stored, Statuses, TypeOK, DatabaseOK
  <1>2. UNCHANGED <<status, trail>> => Stamped'
    BY DEF Stamped, Stored
  <1>3. CASE GatewayNext
    <2> PICK i \in Ids : \/ PostMessage(i) \/ TransformRequest(i) \/ RetryRequest(i)
                         \/ GatewayHandler(i)
      BY <1>3 DEF GatewayNext
    <2>a. i \in Messages /\ "transformed" \in Statuses
      BY DeliveryFacts DEF Statuses
    <2>1. CASE PostStore(i)
      <3>1. UNCHANGED <<status, trail>> \/ Store(i)
        BY <2>1 DEF PostStore
      <3>2. Store(i) => Stamped'
        BY <2>a DEF Store, Stamped, Stored, TypeOK, DatabaseOK
      <3> QED
        BY <3>1, <3>2, <1>2
    <2>2. CASE TransformStatus(i)
      BY <2>2, <2>a, <1>1 DEF TransformStatus
    <2>3. CASE ~PostStore(i) /\ ~TransformStatus(i)
      BY <2>3, <1>2 DEF GatewayHandler, PostMessage, PostRecord, PostPublish,
         TransformRequest, TransformMetadata, TransformRecord, RetryRequest, RetryRecord,
         RetryPublish, database
    <2> QED
      BY <2>1, <2>2, <2>3
  <1>4. CASE SenderNext
    <2>a. Sn \in Consumers /\ {"sent", "failed"} \subseteq Statuses
      BY DEF Sn, Consumers, Statuses
    <2>1. CASE SenderFail \/ SenderUpdate
      BY <2>1, <2>a, <1>1, HandFacts DEF SenderFail, SenderUpdate, UpdateThen
    <2>2. CASE ~SenderFail /\ ~SenderUpdate
      BY <1>4, <2>2, <1>2 DEF SenderNext, SenderHandler, SenderTake, SenderRecord,
         SenderPublish, SenderRequeue, SenderDlq, SenderAck, NackRequeue, DeadLetter,
         database
    <2> QED
      BY <2>1, <2>2
  <1>5. CASE ReceiverNext
    <2>a. Rv \in Consumers /\ "received" \in Statuses
      BY DEF Rv, Consumers, Statuses
    <2>1. CASE ReceiverUpdate
      BY <2>1, <2>a, <1>1, HandFacts DEF ReceiverUpdate, UpdateThen
    <2>2. CASE ~ReceiverUpdate
      BY <1>5, <2>2, <1>2 DEF ReceiverNext, ReceiverHandler, ReceiverTake, ReceiverReject,
         ReceiverRecord, ReceiverAck, ReceiverLookup, ReceiverTrigger, ReceiverRequeue,
         ReceiverDlq, ReceiverDrop, NackRequeue, DeadLetter, database
    <2> QED
      BY <2>1, <2>2
  <1>6. CASE TransformerNext
    <2>a. Tf \in Consumers /\ "processed" \in Statuses
      BY DEF Tf, Consumers, Statuses
    <2>1. CASE TransformerUpdate
      BY <2>1, <2>a, <1>1, HandFacts DEF TransformerUpdate
    <2>2. CASE ~TransformerUpdate
      BY <1>6, <2>2, <1>2 DEF TransformerNext, TransformerHandler, TransformerTake,
         TransformerFetch, TransformerFailed, TransformerMetadata, TransformerRecord,
         TransformerPublish, TransformerDrop, database
    <2> QED
      BY <2>1, <2>2
  <1> QED
    BY <1>2, <1>3, <1>4, <1>5, <1>6, NextCases, OthersAdd

-----------------------------------------------------------------------------
(* The queues of LossFree, and a retry budget that is never spent.         *)
LEMMA QueueFacts ==
  /\ SendQueue \in Keys /\ ReceiveQueue \in Keys
  /\ InKey("sender") = SendQueue /\ InKey("receiver") = ReceiveQueue
  /\ InKey("transformer") \in Keys
  /\ InKey("transformer") \notin {SendQueue, ReceiveQueue}
  BY KeyFacts, TransformQueueAssumption
  DEF SendQueue, ReceiveQueue, InKey, RouteFields, Consumers

(* Headers never grow, so a consumer never dead-letters.                   *)
LEMMA AlwaysRequeue ==
  ASSUME LossFree, Headers, NEW s \in Consumers
  PROVE  RetryOrDlq(s) = "requeue"
  BY ConfigAssumption DEF LossFree, Headers, RetryOrDlq

(* A message that must not be lost is never found invalid on the way.      *)
LEMMA TrackedIsValid ==
  ASSUME Rows, NEW m \in Ids, Tracked(m)
  PROVE  ~Rejected(m) /\ Stored(m)
  BY IdAssumption DEF Rows, Tracked, Awaited, Stored, Rejected

Grows == \A k \in Keys, d \in Delivery : queue[k][d] > 0 => queue'[k][d] > 0

OnlyFresh == \A k \in Keys, d \in Delivery :
  queue'[k][d] > 0 => queue[k][d] > 0 \/ d.retry = 0

(* A copy that waits goes on waiting where queues only grow.               *)
LEMMA WaitingGrows ==
  ASSUME Grows, NEW k \in Keys, NEW m, Waiting(k, m)
  PROVE  Waiting(k, m)'
  BY DEF Grows, Waiting

(* A publish only adds, and adds where the queue is bound.                 *)
LEMMA PublishGrows ==
  ASSUME TypeOK, NEW s, NEW k \in Keys, NEW m \in Messages, Publish(s, k, Fresh(m))
  PROVE  /\ Grows /\ OnlyFresh
         /\ link[s] = "up" /\ k \in bound => Waiting(k, m)'
  <1>1. Fresh(m) \in Delivery /\ Fresh(m).retry = 0 /\ Fresh(m).id = m
    BY DeliveryFacts
  <1> QED
    BY <1>1, PublishEffect DEF Grows, OnlyFresh, Waiting

(* A redelivery only adds, and returns what the consumer owned.            *)
LEMMA RequeueGrows ==
  ASSUME TypeOK, Headers, NEW s \in Consumers, queue' = Requeue(queue, s)
  PROVE  /\ Grows /\ OnlyFresh
         /\ \A m : Owns(s) /\ m = hand[s].id => Waiting(InKey(s), m)'
  BY RequeueEffect, HandFacts, KeyFacts DEF Grows, OnlyFresh, Waiting, Headers

(* In flight stays in flight where handlers stand still.                   *)
LEMMA InFlightGrows ==
  ASSUME Grows, UNCHANGED <<pc, hand, link>>, NEW m, InFlight(m)
  PROVE  InFlight(m)'
  BY WaitingGrows, QueueFacts DEF InFlight, Holding, Owns, SendQueue, ReceiveQueue

(* The disconnected sender's delivery stays on its queue.                  *)
LEMMA ZombieGrows ==
  ASSUME Grows, Zombie, link' = link,
         \/ pc'["sender"] = "idle"
         \/ hand'["sender"] = hand["sender"] /\ (pc["sender"] = "idle" => pc'["sender"] = "idle")
  PROVE  Zombie'
  BY WaitingGrows, QueueFacts DEF Zombie, SendQueue

-----------------------------------------------------------------------------
(* The gateway only adds copies, and what it stores it has not marked.     *)
LEMMA GatewayLoss ==
  ASSUME LossFree, LossInv, GatewayNext
  PROVE  Headers' /\ Zombie' /\ Covered'
  <1> USE DEF LossInv
  <1>a. UNCHANGED <<published, link, pc, hand, wkMark>>
    BY GatewayFrame
  <1> PICK i \in Ids : \/ PostMessage(i) \/ TransformRequest(i) \/ RetryRequest(i)
                       \/ GatewayHandler(i)
    BY DEF GatewayNext
  <1>b. i \in Messages
    BY DeliveryFacts
  <1>1. Grows /\ OnlyFresh
    <2>1. CASE PostPublish(i) \/ RetryPublish(i)
      BY <2>1, <1>b, PublishGrows, KeyFacts, ConfigAssumption
      DEF PostPublish, RetryPublish, RouteFields
    <2>2. CASE ~PostPublish(i) /\ ~RetryPublish(i)
      BY <2>2 DEF GatewayHandler, PostMessage, PostStore, PostRecord, TransformRequest,
         TransformMetadata, TransformStatus, TransformRecord, RetryRequest, RetryRecord,
         broker, Grows, OnlyFresh
    <2> QED
      BY <2>1, <2>2
  <1>2. \A m \in Ids : Tracked(m)' => Tracked(m)
    <2>1. CASE PostStore(i)
      BY <2>1, <1>a, <1>b, DeliveryFacts
      DEF PostStore, Store, Tracked, Awaited, Rows, Stored, TypeOK, DatabaseOK
    <2>2. CASE TransformStatus(i)
      BY <2>2 DEF TransformStatus, NoTransforms
    <2>3. CASE ~PostStore(i) /\ ~TransformStatus(i)
      BY <2>3, <1>a DEF GatewayHandler, PostMessage, PostRecord, PostPublish,
         TransformRequest, TransformMetadata, TransformRecord, RetryRequest, RetryRecord,
         RetryPublish, database, Tracked, Awaited
    <2> QED
      BY <2>1, <2>2, <2>3
  <1>3. Headers'
    BY <1>1, <1>a DEF Headers, OnlyFresh
  <1>4. Zombie'
    BY <1>1, <1>a, ZombieGrows
  <1>5. Covered'
    BY <1>1, <1>2, <1>a, InFlightGrows DEF Covered
  <1> QED
    BY <1>3, <1>4, <1>5

(* The worker marks what it has just put on the send queue.                *)
LEMMA WorkerLoss ==
  ASSUME LossFree, LossInv, WorkerNext
  PROVE  Headers' /\ Zombie' /\ Covered'
  <1> USE DEF LossInv
  <1>a. UNCHANGED <<status, trail, pc, hand>>
    BY WorkerFrame
  <1>1. ASSUME NEW i \in Ids, WorkerPublish(i) PROVE Headers' /\ Zombie' /\ Covered'
    <2>a. i \in Messages /\ link' = link /\ published' = published
      BY <1>1, DeliveryFacts DEF WorkerPublish, database
    <2>b. Route["wkSend"] = SendQueue /\ SendQueue \in Keys
      BY QueueFacts DEF LossFree
    <2>1. Grows /\ OnlyFresh
      BY <1>1, <2>a, <2>b, PublishGrows DEF WorkerPublish
    <2>2. link["worker"] = "up" => Waiting(SendQueue, i)'
      <3>1. link["worker"] = "up" => SendQueue \in bound
        BY <2>b DEF QueuesBound, Declares, Services
      <3> QED
        BY <1>1, <2>a, <2>b, <3>1, PublishGrows DEF WorkerPublish
    <2>3. \A m \in Ids : Tracked(m)' => InFlight(m)'
      <3> SUFFICES ASSUME NEW m \in Ids, Tracked(m)' PROVE InFlight(m)'
        OBVIOUS
      <3>1. CASE Tracked(m)
        BY <3>1, <2>1, <2>a, <1>a, InFlightGrows DEF Covered
      <3>2. CASE ~Tracked(m)
        <4>1. m = i /\ link["worker"] = "up"
          BY <3>2, <1>1, <2>a, <1>a, IdAssumption
          DEF Tracked, Awaited, WorkerPublish, PublishSucceeds, Messages
        <4> QED
          BY <4>1, <2>2 DEF InFlight, SendQueue
      <3> QED
        BY <3>1, <3>2
    <2> QED
      BY <2>1, <2>3, <2>a, <1>a, ZombieGrows DEF Headers, OnlyFresh, Covered
  <1>2. CASE Poll \/ WorkerMark \/ BatchTimeout
    <2>1. UNCHANGED <<queue, link>>
      BY <1>2 DEF Poll, WorkerMark, BatchTimeout, broker
    <2>2. \A m \in Ids : Tracked(m)' => Tracked(m)
      BY <1>2, <1>a, IdAssumption
      DEF Poll, WorkerMark, BatchTimeout, database, Tracked, Awaited, Messages
    <2>3. Grows
      BY <2>1 DEF Grows
    <2> QED
      BY <2>1, <2>2, <2>3, <1>a, InFlightGrows, ZombieGrows DEF Headers, Covered
  <1>3. ASSUME NEW i \in Ids, WorkerPublishVanishes(i) PROVE FALSE
    BY <1>3 DEF WorkerPublishVanishes, Fault, LossFree
  <1> QED
    BY <1>1, <1>2, <1>3 DEF WorkerNext

(* A consumer that takes a delivery of a tracked message goes on to update *)
(* its row.                                                                *)
LEMMA TakeKeeps ==
  ASSUME TypeOK, Rows, NEW s \in {"sender", "receiver"}, NEW l, Take(s, l, "update"),
         link' = link, NEW m \in Ids, Tracked(m), NEW k \in Keys, Waiting(k, m)
  PROVE  Waiting(k, m)' \/ (hand'[s].id = m /\ pc'[s] = "update" /\ link'[s] = "up")
  <1>1. PICK d \in Delivery : d.id = m /\ queue[k][d] > 0
    BY DEF Waiting
  <1>2. CASE d = hand'[s]
    BY <1>1, <1>2, TakeEffect, TrackedIsValid DEF Consumers
  <1>3. CASE d # hand'[s]
    BY <1>1, <1>3, TakeEffect DEF Consumers, Waiting
  <1> QED
    BY <1>2, <1>3

(* What a consumer takes carries the header 0.                             *)
LEMMA TakeHeaders ==
  ASSUME TypeOK, Headers, NEW s \in Consumers, NEW l1, NEW l2, Take(s, l1, l2),
         \A c \in Consumers \ {s} : hand'[c] = hand[c]
  PROVE  Headers'
  <1>1. hand'[s].retry = 0
    BY TakeEffect, KeyFacts DEF Headers
  <1> QED
    BY <1>1, TakeEffect DEF Headers

SenderHolds   == {"update", "record", "publish", "requeue"}
ReceiverHolds == {"update", "requeue"}

(* A step of the sender can only end the sender's own hold on a message,   *)
(* and one of the receiver only the receiver's.                            *)
LEMMA SenderKeeps ==
  ASSUME TypeOK, SenderNext, Grows, NEW m, InFlight(m),
         Holding("sender", m, SenderHolds) => InFlight(m)'
  PROVE  InFlight(m)'
  <1>1. link' = link /\ pc'["receiver"] = pc["receiver"]
          /\ hand'["receiver"] = hand["receiver"]
    BY SenderFrame DEF Consumers, Sn
  <1> QED
    BY <1>1, WaitingGrows, QueueFacts
    DEF InFlight, Holding, Owns, SenderHolds, SendQueue, ReceiveQueue

(* The receiver strands nothing it does not hold.                          *)
LEMMA ReceiverKeeps ==
  ASSUME TypeOK, ReceiverNext, Grows, NEW m, InFlight(m),
         Holding("receiver", m, ReceiverHolds) => InFlight(m)'
  PROVE  InFlight(m)'
  <1>1. link' = link /\ pc'["sender"] = pc["sender"] /\ hand'["sender"] = hand["sender"]
    BY ReceiverFrame DEF Consumers, Rv
  <1> QED
    BY <1>1, WaitingGrows, QueueFacts
    DEF InFlight, Holding, Owns, ReceiverHolds, SendQueue, ReceiveQueue

(* The sender acknowledges last, after the copy it forwards is enqueued.   *)
LEMMA SenderLoss ==
  ASSUME LossFree, LossInv, SenderNext
  PROVE  Headers' /\ Zombie' /\ Covered'
  <1> USE DEF LossInv
  <1>a. UNCHANGED <<published, bound, link, wkMark>>
    BY SenderFrame
  <1>b. \A s \in Consumers \ {"sender"} : pc'[s] = pc[s] /\ hand'[s] = hand[s]
    BY SenderFrame DEF Sn
  <1>c. Sn = "sender" /\ "sender" \in Consumers
    BY DEF Sn, Consumers
  <1>d. RetryOrDlq(Sn) = "requeue"
    BY <1>c, AlwaysRequeue
  <1>e. pc["sender"] # "idle" => link["sender"] # "down"
    BY <1>c DEF Alive
  <1>1. CASE SenderTake
    <2>1. Headers'
      BY <1>1, <1>b, <1>c, TakeHeaders DEF SenderTake
    <2>2. Zombie'
      BY <1>1, <1>a, <1>c DEF SenderTake, Take, Zombie
    <2>3. ASSUME NEW m \in Ids, Tracked(m)' PROVE InFlight(m)'
      <3>1. Tracked(m)
        BY <1>1, <1>a, <2>3 DEF SenderTake, database, Tracked, Awaited
      <3>2. \A k \in Keys : Waiting(k, m) =>
              Waiting(k, m)' \/ Holding("sender", m, SenderHolds)'
        BY <1>1, <1>a, <1>c, <3>1, TakeKeeps
        DEF SenderTake, Holding, Owns, SenderHolds
      <3>3. ~Holding("sender", m, SenderHolds)
        BY <1>1, <1>c DEF SenderTake, Take, Holding, SenderHolds
      <3>4. Holding("receiver", m, ReceiverHolds) => Holding("receiver", m, ReceiverHolds)'
        BY <1>a, <1>b DEF Holding, Owns, Consumers
      <3> QED
        BY <3>1, <3>2, <3>3, <3>4, QueueFacts
        DEF Covered, InFlight, SenderHolds, ReceiverHolds, SendQueue, ReceiveQueue
    <2> QED
      BY <2>1, <2>2, <2>3 DEF Covered
  <1>2. CASE SenderFail \/ SenderDlq \/ SenderAck
    <2>1. queue' = queue /\ pc["sender"] \in {"fail", "dlq", "ack"}
      BY <1>2, <1>c DEF SenderFail, SenderDlq, DeadLetter, SenderAck, broker
    <2>2. hand'["sender"] = hand["sender"] \/ (pc'["sender"] = "idle"
                                               /\ hand'["sender"] = NoDelivery)
      BY <1>2, <1>c DEF SenderFail, SenderDlq, DeadLetter, SenderAck, Goto, Release,
         TypeOK, HandlersOK
    <2>3. Headers'
      BY <2>1, <2>2, <1>b DEF Headers, NoDelivery
    <2>4. Grows
      BY <2>1 DEF Grows
    <2>5. Zombie'
      BY <2>1, <2>2, <2>4, <1>a, ZombieGrows
    <2>6. \A m \in Ids : Tracked(m)' => Tracked(m)
      BY <1>2, <1>a, DeliveryFacts
      DEF SenderFail, UpdateStatus, SenderDlq, DeadLetter, SenderAck,
         database, Tracked, Awaited, TypeOK, DatabaseOK
    <2>7. \A m : ~Holding("sender", m, SenderHolds)
      BY <2>1 DEF Holding, SenderHolds
    <2> QED
      BY <2>3, <2>4, <2>5, <2>6, <2>7, SenderKeeps DEF Covered
  <1>3. CASE SenderUpdate
    <2>1. PICK o \in Outcomes :
            /\ UpdateStatus(hand["sender"].id, "sent", o)
            /\ Goto("sender", IF o # "ok" THEN "requeue"
                              ELSE IF Stored(hand["sender"].id) THEN "record" ELSE "ack")
      BY <1>3, <1>c, <1>d DEF SenderUpdate, UpdateThen
    <2>2. /\ pc["sender"] = "update" /\ queue' = queue /\ hand' = hand
          /\ pc'["sender"] = IF o # "ok" THEN "requeue"
                             ELSE IF Stored(hand["sender"].id) THEN "record" ELSE "ack"
      BY <1>3, <1>c, <2>1 DEF SenderUpdate, UpdateThen, broker, Goto, TypeOK, HandlersOK
    <2>3. Headers' /\ Grows
      BY <2>2 DEF Headers, Grows
    <2>4. Zombie'
      BY <2>2, <2>3, <1>a, ZombieGrows
    <2>5. ASSUME NEW m \in Ids, Tracked(m)' PROVE InFlight(m)'
      <3>1. CASE m = hand["sender"].id
        <4>1. Stored(m)
          BY <2>1, <2>5, DeliveryFacts
          DEF UpdateStatus, Tracked, Awaited, Stored, TypeOK, DatabaseOK
        <4>2. pc'["sender"] \in {"requeue", "record"}
          BY <2>2, <3>1, <4>1
        <4>3. CASE link["sender"] = "up"
          <5>1. Holding("sender", m, SenderHolds)'
            BY <2>2, <3>1, <4>2, <4>3, <1>a DEF Holding, Owns, SenderHolds
          <5> QED
            BY <5>1 DEF InFlight, SenderHolds
        <4>4. CASE link["sender"] # "up"
          <5>1. link["sender"] = "lost"
            BY <4>4, <1>e, <2>2, <1>c, KeyFacts DEF TypeOK, BrokerOK
          <5>2. Waiting(SendQueue, m)
            BY <5>1, <2>2, <3>1, <1>c, KeyFacts DEF Zombie
          <5> QED
            BY <5>2, <2>3, WaitingGrows, QueueFacts DEF InFlight, SendQueue
        <4> QED
          BY <4>3, <4>4
      <3>2. CASE m # hand["sender"].id
        <4>1. Tracked(m)
          BY <2>1, <2>5, <3>2, <1>a, DeliveryFacts
          DEF UpdateStatus, Tracked, Awaited, TypeOK, DatabaseOK
        <4>2. ~Holding("sender", m, SenderHolds)
          BY <3>2 DEF Holding
        <4> QED
          BY <4>1, <4>2, <2>3, SenderKeeps DEF Covered
      <3> QED
        BY <3>1, <3>2
    <2> QED
      BY <2>3, <2>4, <2>5 DEF Covered
  <1>4. CASE SenderRecord
    <2>1. /\ queue' = queue /\ hand' = hand /\ UNCHANGED <<status, trail>>
          /\ pc["sender"] = "record" /\ pc'["sender"] = "publish"
      BY <1>4, <1>c DEF SenderRecord, broker, Goto, TypeOK, HandlersOK
    <2>2. Headers' /\ Grows
      BY <2>1 DEF Headers, Grows
    <2>3. Zombie'
      BY <2>1, <2>2, <1>a, ZombieGrows
    <2>4. \A m \in Ids : /\ Tracked(m)' => Tracked(m)
                         /\ Holding("sender", m, SenderHolds) => InFlight(m)'
      BY <2>1, <1>a DEF Tracked, Awaited, Holding, Owns, InFlight, SenderHolds
    <2> QED
      BY <2>2, <2>3, <2>4, SenderKeeps DEF Covered
  <1>5. CASE SenderPublish
    <2>1. /\ hand' = hand /\ UNCHANGED <<status, trail>> /\ pc["sender"] = "publish"
          /\ Publish("sender", ReceiveQueue, Fresh(hand["sender"].id))
      BY <1>5, <1>c DEF SenderPublish, database, Goto, LossFree
    <2>2. hand["sender"].id \in Messages
      BY <2>1, <1>c, HandFacts
    <2>3. /\ Grows /\ OnlyFresh
          /\ link["sender"] = "up" /\ ReceiveQueue \in bound =>
               \A m : m = hand["sender"].id => Waiting(ReceiveQueue, m)'
      BY <2>1, <2>2, PublishGrows, QueueFacts
    <2>4. link["sender"] = "up" => ReceiveQueue \in bound
      BY <1>c, KeyFacts DEF QueuesBound, Declares, LossFree
    <2>5. Headers'
      BY <2>1, <2>3 DEF Headers, OnlyFresh
    <2>6. Zombie'
      BY <2>1, <2>3, <1>a, ZombieGrows
    <2>7. \A m \in Ids : /\ Tracked(m)' => Tracked(m)
                         /\ Holding("sender", m, SenderHolds) => InFlight(m)'
      BY <2>1, <2>3, <2>4, <1>a DEF Tracked, Awaited, Holding, Owns, InFlight, ReceiveQueue
    <2> QED
      BY <2>3, <2>5, <2>6, <2>7, SenderKeeps DEF Covered
  <1>6. CASE SenderRequeue
    <2>1. /\ queue' = Requeue(queue, "sender") /\ UNCHANGED <<status, trail>>
          /\ pc'["sender"] = "idle" /\ hand'["sender"] = NoDelivery
      BY <1>6, <1>c DEF SenderRequeue, NackRequeue, Release, database, TypeOK, HandlersOK
    <2>2. /\ Grows /\ OnlyFresh
          /\ \A m : Owns("sender") /\ m = hand["sender"].id => Waiting(SendQueue, m)'
      BY <2>1, <1>c, RequeueGrows, QueueFacts
    <2>3. Headers'
      BY <2>1, <2>2, <1>b DEF Headers, OnlyFresh, NoDelivery
    <2>4. Zombie'
      BY <2>1, <2>2, <1>a, ZombieGrows
    <2>5. \A m \in Ids : /\ Tracked(m)' => Tracked(m)
                         /\ Holding("sender", m, SenderHolds) => InFlight(m)'
      BY <2>1, <2>2, <1>a DEF Tracked, Awaited, Holding, InFlight, SendQueue
    <2> QED
      BY <2>2, <2>3, <2>4, <2>5, SenderKeeps DEF Covered
  <1> QED
    BY <1>1, <1>2, <1>3, <1>4, <1>5, <1>6 DEF SenderNext, SenderHandler

(* The receiver lets go of a message only after its row says received, or  *)
(* by putting the delivery back.                                           *)
LEMMA ReceiverLoss ==
  ASSUME LossFree, LossInv, ReceiverNext
  PROVE  Headers' /\ Zombie' /\ Covered'
  <1> USE DEF LossInv
  <1>a. UNCHANGED <<published, bound, link, wkMark>>
    BY ReceiverFrame
  <1>b. \A s \in Consumers \ {"receiver"} : pc'[s] = pc[s] /\ hand'[s] = hand[s]
    BY ReceiverFrame DEF Rv
  <1>c. Rv = "receiver" /\ "receiver" \in Consumers /\ "sender" \in Consumers \ {"receiver"}
    BY DEF Rv, Consumers
  <1>d. RetryOrDlq(Rv) = "requeue"
    BY <1>c, AlwaysRequeue
  <1>1. CASE ReceiverTake
    <2>1. Headers'
      BY <1>1, <1>b, <1>c, TakeHeaders DEF ReceiverTake
    <2>2. Zombie'
      <3>1. ASSUME "conn" \in FaultKinds, NEW m, Waiting(SendQueue, m)
            PROVE  Waiting(SendQueue, m)'
        BY <1>1, <1>c, <3>1, TakeEffect, QueueFacts DEF ReceiverTake, Waiting, LossFree
      <3> QED
        BY <3>1, <1>a, <1>b, <1>c DEF Zombie
    <2>3. ASSUME NEW m \in Ids, Tracked(m)' PROVE InFlight(m)'
      <3>1. Tracked(m)
        BY <1>1, <1>a, <2>3 DEF ReceiverTake, database, Tracked, Awaited
      <3>2. \A k \in Keys : Waiting(k, m) =>
              Waiting(k, m)' \/ Holding("receiver", m, ReceiverHolds)'
        BY <1>1, <1>a, <1>c, <3>1, TakeKeeps
        DEF ReceiverTake, Holding, Owns, ReceiverHolds
      <3>3. ~Holding("receiver", m, ReceiverHolds)
        BY <1>1, <1>c DEF ReceiverTake, Take, Holding, ReceiverHolds
      <3>4. Holding("sender", m, SenderHolds) => Holding("sender", m, SenderHolds)'
        BY <1>a, <1>b, <1>c DEF Holding, Owns
      <3> QED
        BY <3>1, <3>2, <3>3, <3>4, QueueFacts
        DEF Covered, InFlight, SenderHolds, ReceiverHolds, SendQueue, ReceiveQueue
    <2> QED
      BY <2>1, <2>2, <2>3 DEF Covered
  <1>2. CASE ReceiverUpdate
    <2>1. PICK o \in Outcomes :
            /\ UpdateStatus(hand["receiver"].id, "received", o)
            /\ Goto("receiver", IF o # "ok" THEN "requeue"
                                ELSE IF Stored(hand["receiver"].id) THEN "record" ELSE "drop")
      BY <1>2, <1>c, <1>d DEF ReceiverUpdate, UpdateThen
    <2>2. /\ pc["receiver"] = "update" /\ queue' = queue /\ hand' = hand
          /\ pc'["receiver"] = IF o # "ok" THEN "requeue"
                               ELSE IF Stored(hand["receiver"].id) THEN "record" ELSE "drop"
      BY <1>2, <1>c, <2>1 DEF ReceiverUpdate, UpdateThen, broker, Goto, TypeOK, HandlersOK
    <2>3. Headers' /\ Grows
      BY <2>2 DEF Headers, Grows
    <2>4. Zombie'
      BY <2>2, <2>3, <1>a, <1>b, <1>c, ZombieGrows
    <2>5. ASSUME NEW m \in Ids, Tracked(m)' PROVE InFlight(m)'
      <3>1. Tracked(m)
        BY <2>1, <2>5, <1>a, DeliveryFacts
        DEF UpdateStatus, Tracked, Awaited, TypeOK, DatabaseOK
      <3>2. ASSUME Holding("receiver", m, ReceiverHolds) PROVE InFlight(m)'
        <4>1. m = hand["receiver"].id /\ link["receiver"] = "up" /\ Stored(m)
          BY <3>1, <3>2 DEF Holding, Owns, Tracked, Awaited, Stored
        <4>2. o # "ok"
          BY <2>1, <2>5, <4>1, DeliveryFacts
          DEF UpdateStatus, TakesEffect, Tracked, Awaited, TypeOK, DatabaseOK
        <4>3. Holding("receiver", m, ReceiverHolds)'
          BY <2>2, <4>1, <4>2, <1>a DEF Holding, Owns, ReceiverHolds
        <4> QED
          BY <4>3 DEF InFlight, ReceiverHolds
      <3> QED
        BY <3>1, <3>2, <2>3, ReceiverKeeps DEF Covered
    <2> QED
      BY <2>3, <2>4, <2>5 DEF Covered
  <1>3. CASE ReceiverRequeue
    <2>1. /\ queue' = Requeue(queue, "receiver") /\ UNCHANGED <<status, trail>>
          /\ pc'["receiver"] = "idle" /\ hand'["receiver"] = NoDelivery
      BY <1>3, <1>c DEF ReceiverRequeue, NackRequeue, Release, database, TypeOK, HandlersOK
    <2>2. /\ Grows /\ OnlyFresh
          /\ \A m : Owns("receiver") /\ m = hand["receiver"].id => Waiting(ReceiveQueue, m)'
      BY <2>1, <1>c, RequeueGrows, QueueFacts
    <2>3. Headers'
      BY <2>1, <2>2, <1>b DEF Headers, OnlyFresh, NoDelivery
    <2>4. Zombie'
      BY <2>1, <2>2, <1>a, <1>b, <1>c, ZombieGrows
    <2>5. \A m \in Ids : /\ Tracked(m)' => Tracked(m)
                         /\ Holding("receiver", m, ReceiverHolds) => InFlight(m)'
      BY <2>1, <2>2, <1>a DEF Tracked, Awaited, Holding, InFlight, ReceiveQueue
    <2> QED
      BY <2>2, <2>3, <2>4, <2>5, ReceiverKeeps DEF Covered
  <1>4. CASE \/ ReceiverReject \/ ReceiverRecord \/ ReceiverAck \/ ReceiverLookup
             \/ ReceiverTrigger \/ ReceiverDlq \/ ReceiverDrop
    <2>1. /\ UNCHANGED <<status, trail>>
          /\ pc["receiver"] \in {"reject", "record", "ack", "lookup", "trigger", "dlq", "drop"}
      BY <1>4, <1>c DEF ReceiverReject, ReceiverRecord, ReceiverAck, ReceiverLookup,
         ReceiverTrigger, ReceiverDlq, DeadLetter, ReceiverDrop, database
    <2>2. hand'["receiver"] \in {hand["receiver"], NoDelivery}
      BY <1>4, <1>c DEF ReceiverReject, ReceiverRecord, ReceiverAck, ReceiverLookup,
         ReceiverTrigger, ReceiverDlq, DeadLetter, ReceiverDrop, Goto, Release, TypeOK,
         HandlersOK
    <2>3. Grows /\ OnlyFresh
      <3>1. CASE ReceiverTrigger
        BY <3>1, <2>1, <1>c, HandFacts, PublishGrows, KeyFacts
        DEF ReceiverTrigger, RouteFields
      <3>2. CASE ~ReceiverTrigger
        BY <3>2, <1>4 DEF ReceiverReject, ReceiverRecord, ReceiverAck, ReceiverLookup,
           ReceiverDlq, DeadLetter, ReceiverDrop, broker, Grows, OnlyFresh
      <3> QED
        BY <3>1, <3>2
    <2>4. Headers'
      BY <2>2, <2>3, <1>b DEF Headers, OnlyFresh, NoDelivery
    <2>5. Zombie'
      BY <2>3, <1>a, <1>b, <1>c, ZombieGrows
    <2>6. \A m \in Ids : /\ Tracked(m)' => Tracked(m)
                         /\ ~Holding("receiver", m, ReceiverHolds)
      BY <2>1, <1>a DEF Tracked, Awaited, Holding, ReceiverHolds
    <2> QED
      BY <2>3, <2>4, <2>5, <2>6, ReceiverKeeps DEF Covered
  <1> QED
    BY <1>1, <1>2, <1>3, <1>4 DEF ReceiverNext, ReceiverHandler

(* The transformer takes nothing from the queues that matter, and the      *)
(* status it writes ends the need for a copy.                              *)
LEMMA TransformerLoss ==
  ASSUME LossFree, LossInv, TransformerNext
  PROVE  Headers' /\ Zombie' /\ Covered'
  <1> USE DEF LossInv
  <1>a. UNCHANGED <<published, bound, link, wkMark>>
    BY TransformerFrame
  <1>b. \A s \in Consumers \ {"transformer"} : pc'[s] = pc[s] /\ hand'[s] = hand[s]
    BY TransformerFrame DEF Tf
  <1>c. Tf = "transformer" /\ "transformer" \in Consumers
          /\ {"sender", "receiver"} \subseteq Consumers \ {"transformer"}
    BY DEF Tf, Consumers
  <1>1. Headers' /\ \A k \in {SendQueue, ReceiveQueue} : \A m :
                      Waiting(k, m) => Waiting(k, m)'
    <2>1. CASE TransformerTake
      <3>1. Headers'
        BY <2>1, <1>b, <1>c, TakeHeaders DEF TransformerTake
      <3> QED
        BY <2>1, <3>1, <1>c, TakeEffect, QueueFacts DEF TransformerTake, Waiting
    <2>2. CASE ~TransformerTake
      <3>1. hand'["transformer"] \in {hand["transformer"], NoDelivery}
        BY <2>2, <1>c DEF TransformerNext, TransformerHandler, TransformerFetch,
           TransformerFailed, TransformerMetadata, TransformerUpdate, TransformerRecord,
           TransformerPublish, TransformerDrop, Goto, Release, TypeOK, HandlersOK
      <3>2. Grows /\ OnlyFresh
        <4>1. CASE TransformerPublish
          BY <4>1, DeliveryFacts, PublishGrows, KeyFacts
          DEF TransformerPublish, RouteFields
        <4>2. CASE ~TransformerPublish
          BY <2>2, <4>2 DEF TransformerNext, TransformerHandler, TransformerFetch,
             TransformerFailed, TransformerMetadata, TransformerUpdate,
             TransformerRecord, TransformerDrop, broker, Grows, OnlyFresh
        <4> QED
          BY <4>1, <4>2
      <3>3. Headers'
        BY <3>1, <3>2, <1>b DEF Headers, OnlyFresh, NoDelivery
      <3> QED
        BY <3>2, <3>3, WaitingGrows, QueueFacts
    <2> QED
      BY <2>1, <2>2
  <1>2. Zombie'
    BY <1>1, <1>a, <1>b, <1>c DEF Zombie
  <1>3. \A m \in Ids : Tracked(m)' => Tracked(m)
    <2>1. CASE TransformerUpdate
      BY <2>1, <1>a, DeliveryFacts
      DEF TransformerUpdate, UpdateStatus, Tracked, Awaited, TypeOK, DatabaseOK
    <2>2. CASE ~TransformerUpdate
      BY <2>2, <1>a DEF TransformerNext, TransformerHandler, TransformerTake,
         TransformerFetch, TransformerFailed, TransformerMetadata, TransformerRecord,
         TransformerPublish, TransformerDrop, database, Tracked, Awaited
    <2> QED
      BY <2>1, <2>2
  <1>4. \A m : InFlight(m) => InFlight(m)'
    BY <1>1, <1>a, <1>b, <1>c DEF InFlight, Holding, Owns, SendQueue, ReceiveQueue
  <1> QED
    BY <1>1, <1>2, <1>3, <1>4 DEF Covered

(* A process that dies or loses the broker gives its delivery back; a      *)
(* sender without its connection leaves it where no one else takes it.     *)
LEMMA EnvironmentLoss ==
  ASSUME LossFree, LossInv, Environment
  PROVE  Headers' /\ Zombie' /\ Covered'
  <1> USE DEF LossInv
  <1>a. UNCHANGED <<status, trail, published>> /\ wkMark' \in {wkMark, NoMessage}
    BY DEF Environment, Start, Crash, WorkerStops, LoseConnection, BrokerRestart,
       DlqExpire, database, worker
  <1>b. \A m \in Ids : Tracked(m)' => Tracked(m)
    BY <1>a, DeliveryFacts DEF Tracked, Awaited
  <1>c. "sender" \in Consumers /\ "receiver" \in Consumers
    BY DEF Consumers
  <1>1. ASSUME NEW s \in Services, Start(s) PROVE Headers' /\ Zombie' /\ Covered'
    <2>1. /\ UNCHANGED <<queue, pc, hand>>
          /\ link[s] = "down" /\ link' = [link EXCEPT ![s] = "up"]
      BY <1>1 DEF Start, handlers
    <2>2. Headers' /\ Zombie'
      BY <2>1 DEF Headers, Zombie, Waiting, TypeOK, BrokerOK
    <2>3. \A m : InFlight(m) => InFlight(m)'
      BY <2>1 DEF InFlight, Waiting, Holding, Owns, TypeOK, BrokerOK
    <2> QED
      BY <2>2, <2>3, <1>b DEF Covered
  <1>2. ASSUME NEW s \in Services, Crash(s) PROVE Headers' /\ Zombie' /\ Covered'
    <2>1. /\ link' = [link EXCEPT ![s] = "down"]
          /\ \A c \in Consumers : c # s => pc'[c] = pc[c] /\ hand'[c] = hand[c]
          /\ s \in Consumers => pc'[s] = "idle" /\ hand'[s] = NoDelivery
      BY <1>2 DEF Crash, Release, handlers, TypeOK, HandlersOK
    <2>2. /\ Grows /\ OnlyFresh
          /\ s \in Consumers =>
               \A m : Owns(s) /\ m = hand[s].id => Waiting(InKey(s), m)'
      <3>1. CASE s \in Consumers
        BY <1>2, <3>1, RequeueGrows DEF Crash
      <3>2. CASE s \notin Consumers
        BY <1>2, <3>2 DEF Crash, Grows, OnlyFresh
      <3> QED
        BY <3>1, <3>2
    <2>3. Headers'
      BY <2>1, <2>2 DEF Headers, OnlyFresh, NoDelivery
    <2>4. Zombie'
      BY <2>1, <2>2, <1>c, WaitingGrows, QueueFacts DEF Zombie, TypeOK, BrokerOK
    <2>5. \A m : InFlight(m) => InFlight(m)'
      BY <2>1, <2>2, <1>c, WaitingGrows, QueueFacts
      DEF InFlight, Holding, Owns, SendQueue, ReceiveQueue, TypeOK, BrokerOK
    <2> QED
      BY <2>3, <2>4, <2>5, <1>b DEF Covered
  <1>3. ASSUME NEW s \in Services, LoseConnection(s) PROVE Headers' /\ Zombie' /\ Covered'
    <2>1. /\ link[s] = "up" /\ link' = [link EXCEPT ![s] = "lost"]
          /\ UNCHANGED <<pc, hand>> /\ "conn" \in FaultKinds
      BY <1>3 DEF LoseConnection, handlers, Fault
    <2>2. /\ Grows /\ OnlyFresh
          /\ s \in Consumers =>
               \A m : Owns(s) /\ m = hand[s].id => Waiting(InKey(s), m)'
      <3>1. CASE s \in Consumers
        BY <1>3, <3>1, RequeueGrows DEF LoseConnection
      <3>2. CASE s \notin Consumers
        BY <1>3, <3>2 DEF LoseConnection, Grows, OnlyFresh
      <3> QED
        BY <3>1, <3>2
    <2>3. Headers'
      BY <2>1, <2>2 DEF Headers, OnlyFresh
    <2>4. Zombie'
      <3>1. CASE s = "sender"
        <4>1. pc["sender"] # "idle" => Owns("sender")
          BY <3>1, <2>1, <1>c DEF Owns, TypeOK, HandlersOK, Labels
        <4> QED
          BY <3>1, <4>1, <2>1, <2>2, <1>c, QueueFacts DEF Zombie
      <3>2. CASE s # "sender"
        BY <3>2, <2>1, <2>2, <1>c, KeyFacts, WaitingGrows, QueueFacts
        DEF Zombie, TypeOK, BrokerOK
      <3> QED
        BY <3>1, <3>2
    <2>5. \A m : InFlight(m) => InFlight(m)'
      BY <2>1, <2>2, <1>c, WaitingGrows, QueueFacts
      DEF InFlight, Holding, Owns, SendQueue, ReceiveQueue, TypeOK, BrokerOK
    <2> QED
      BY <2>3, <2>4, <2>5, <1>b DEF Covered
  <1>4. ~BrokerRestart
    BY DEF BrokerRestart, Fault, LossFree
  <1>5. CASE DlqExpire
    <2>1. UNCHANGED <<queue, pc, hand, link>>
      BY <1>5 DEF DlqExpire, handlers
    <2> QED
      BY <2>1, <1>b DEF Headers, Zombie, Covered, InFlight, Waiting, Holding, Owns
  <1> QED
    BY <1>1, <1>2, <1>3, <1>4, <1>5 DEF Environment

-----------------------------------------------------------------------------
(* The inductive invariant holds initially.                                *)
LEMMA LossInit == Init => LossInv
  <1> SUFFICES ASSUME Init PROVE LossInv
    OBVIOUS
  <1>1. TypeOK /\ Bookkeeping
    BY InitType, BookkeepingInit
  <1>2. Headers
    BY DEF Init, Headers, Empty, NoDelivery
  <1>3. Zombie
    BY DEF Init, Zombie
  <1>4. NoTransforms
    BY DEF Init, NoTransforms
  <1>5. Covered
    BY DeliveryFacts DEF Init, Covered, Tracked, Awaited
  <1> QED
    BY <1>1, <1>2, <1>3, <1>4, <1>5 DEF LossInv, Bookkeeping

(* The handlers of POST /transform are the gateway's own.                  *)
LEMMA TransformFrame ==
  ASSUME WorkerNext \/ SenderNext \/ ReceiverNext \/ TransformerNext
  PROVE  gwTransform' = gwTransform
  <1>1. CASE WorkerNext
    BY <1>1 DEF WorkerNext, Poll, WorkerPublish, WorkerPublishVanishes, WorkerMark,
       BatchTimeout, gateway
  <1>2. CASE SenderNext
    BY <1>2 DEF SenderNext, SenderHandler, SenderTake, SenderFail, SenderUpdate,
       SenderRecord, SenderPublish, SenderRequeue, SenderDlq, SenderAck, UpdateThen,
       NackRequeue, DeadLetter, gateway
  <1>3. CASE ReceiverNext
    BY <1>3 DEF ReceiverNext, ReceiverHandler, ReceiverTake, ReceiverReject,
       ReceiverUpdate, ReceiverRecord, ReceiverAck, ReceiverLookup, ReceiverTrigger,
       ReceiverRequeue, ReceiverDlq, ReceiverDrop, UpdateThen, NackRequeue, DeadLetter,
       gateway
  <1>4. CASE TransformerNext
    BY <1>4 DEF TransformerNext, TransformerHandler, TransformerTake, TransformerFetch,
       TransformerFailed, TransformerMetadata, TransformerUpdate, TransformerRecord,
       TransformerPublish, TransformerDrop, gateway
  <1> QED
    BY <1>1, <1>2, <1>3, <1>4

(* Nobody gets as far as transforming.                                     *)
LEMMA TransformsStayOut ==
  ASSUME LossFree, TypeOK, NoTransforms, [Next]_vars
  PROVE  NoTransforms'
  <1>1. CASE GatewayNext
    <2> PICK i \in Ids : \/ PostMessage(i) \/ TransformRequest(i) \/ RetryRequest(i)
                         \/ GatewayHandler(i)
      BY <1>1 DEF GatewayNext
    <2>1. ~TransformRequest(i)
      BY DEF TransformRequest, LossFree, TypeOK, CountersOK
    <2>2. ~TransformMetadata(i) /\ ~TransformStatus(i) /\ ~TransformRecord(i)
      BY DEF TransformMetadata, TransformStatus, TransformRecord, NoTransforms
    <2> QED
      BY <2>1, <2>2 DEF GatewayHandler, PostMessage, PostStore, PostRecord, PostPublish,
         RetryRequest, RetryRecord, RetryPublish, gateway, NoTransforms
  <1>2. CASE WorkerNext \/ SenderNext \/ ReceiverNext \/ TransformerNext
    <2>1. gwTransform' = gwTransform
      BY <1>2, TransformFrame
    <2> QED
      BY <2>1 DEF NoTransforms
  <1>3. CASE Environment
    BY <1>3 DEF Environment, Start, Crash, GatewayStops, LoseConnection, BrokerRestart,
       DlqExpire, gateway, NoTransforms
  <1>4. CASE UNCHANGED vars
    BY <1>4 DEF vars, gateway, NoTransforms
  <1> QED
    BY <1>1, <1>2, <1>3, <1>4, NextCases

(* The inductive invariant is preserved by every step.                     *)
LEMMA LossStep ==
  ASSUME LossFree, LossInv, [Next]_vars
  PROVE  LossInv'
  <1>1. TypeOK'
    BY GatewayType, WorkerType, SenderType, ReceiverType, TransformerType,
       EnvironmentType, NextCases, StutterType DEF LossInv
  <1>2. Bookkeeping'
    BY BookkeepingStep DEF LossInv, Bookkeeping
  <1>3. NoTransforms'
    BY TransformsStayOut DEF LossInv
  <1>4. Headers' /\ Zombie' /\ Covered'
    <2>1. CASE UNCHANGED vars
      BY <2>1 DEF LossInv, vars, database, broker, handlers, gateway, worker, Headers,
         Zombie, Covered, Tracked, Awaited, InFlight, Waiting, Holding, Owns
    <2> QED
      BY <2>1, NextCases, GatewayLoss, WorkerLoss, SenderLoss, ReceiverLoss,
         TransformerLoss, EnvironmentLoss
  <1> QED
    BY <1>1, <1>2, <1>3, <1>4 DEF LossInv, Bookkeeping

(* The inductive invariant implies NoSilentLoss.                           *)
LEMMA LossInvImplies ==
  ASSUME LossInv
  PROVE  NoSilentLoss
  BY DEF LossInv, Covered, Tracked, Awaited, NoSilentLoss

(* NoLoss: in a loss-free deployment, whatever statements fail, processes  *)
(* die and are restarted and connections are lost, a stored message that   *)
(* the worker will not select again has a copy on its way.                 *)
THEOREM NoLoss ==
  ASSUME LossFree
  PROVE  Spec => []NoSilentLoss
  <1>1. Init => LossInv
    BY LossInit
  <1>2. LossInv /\ [Next]_vars => LossInv'
    BY LossStep
  <1>3. LossInv => NoSilentLoss
    BY LossInvImplies
  <1> QED
    BY <1>1, <1>2, <1>3, PTL DEF Spec

-----------------------------------------------------------------------------
(* LossOnlyByKnownFault needs no inductive invariant beyond the types, the *)
(* bookkeeping and Stamped: each step is followed from a row that is on    *)
(* its way or parked, or whose message the worker or the sender has just   *)
(* taken up, to where the message is afterwards.  No fault is excluded,    *)
(* and no retry budget.                                                    *)
Chained ==
  /\ Route["wkSend"] = SendQueue
  /\ Route["snRecv"] = ReceiveQueue

DeadLettered(m) == \E k \in Keys, d \in Delivery : d.id = m /\ dlq[k][d] > 0

Kept(m) == InFlight(m) \/ Parked(m)

KnownFault(i) ==
  \/ DlqExpire
  \/ BrokerRestart
  \/ WorkerPublishVanishes(i)
  \/ SenderUpdate /\ hand["sender"].id = i /\ link["sender"] = "lost"
  \/ TransformStatus(i) /\ status[i] = "pending" /\ i \notin published

Holds(s) == CASE s = "sender"      -> SenderHolds \cup {"dlq"}
              [] s = "receiver"    -> ReceiverHolds \cup {"dlq"}
              [] s = "transformer" -> {}

(* A copy that waits, wherever it waits, goes on waiting.                  *)
Waits(m) ==
  /\ \A k \in {SendQueue, ReceiveQueue} : Waiting(k, m) => Waiting(k, m)'
  /\ DeadLettered(m) => DeadLettered(m)'

(* Then only the consumer that takes the step can let go of the message.   *)
LEMMA KeptUnlessHeld ==
  ASSUME TypeOK, NEW m, Kept(m), Waits(m), link' = link, NEW s \in Consumers,
         \A c \in Consumers \ {s} : pc'[c] = pc[c] /\ hand'[c] = hand[c],
         Holding(s, m, Holds(s)) => Kept(m)'
  PROVE  Kept(m)'
  <1>1. \A c \in Consumers : c = "sender" \/ c = "receiver" \/ c = "transformer"
    BY DEF Consumers
  <1>2. pc["transformer"] # "dlq"
    BY DEF TypeOK, HandlersOK, Labels, Consumers
  <1>3. CASE Waiting(SendQueue, m) \/ Waiting(ReceiveQueue, m) \/ DeadLettered(m)
    BY <1>3 DEF Waits, Kept, InFlight, Parked, DeadLettered, SendQueue, ReceiveQueue
  <1>4. CASE Holding("sender", m, Holds("sender"))
    BY <1>4 DEF Holding, Owns, Holds, SenderHolds, Consumers, Kept, InFlight, Parked
  <1>5. CASE Holding("receiver", m, Holds("receiver"))
    BY <1>5 DEF Holding, Owns, Holds, ReceiverHolds, Consumers, Kept, InFlight, Parked
  <1> QED
    BY <1>1, <1>2, <1>3, <1>4, <1>5
    DEF Kept, InFlight, Parked, DeadLettered, Holding, Holds, SenderHolds, ReceiverHolds,
        SendQueue, ReceiveQueue

(* Where queues only grow and dead letter queues stay, copies wait.        *)
LEMMA GrowsWaits ==
  ASSUME Grows, dlq' = dlq, NEW m
  PROVE  Waits(m)
  BY WaitingGrows, QueueFacts DEF Waits, DeadLettered

(* What a handler puts back, or dead-letters, waits.                       *)
LEMMA RequeueWaits ==
  ASSUME TypeOK, NEW s \in Consumers, queue' = Requeue(queue, s)
  PROVE  /\ Grows
         /\ \A m : Owns(s) /\ m = hand[s].id => Waiting(InKey(s), m)'
  BY RequeueEffect, HandFacts, KeyFacts DEF Grows, Waiting

(* A dead letter is parked for good, as far as its consumer can tell.      *)
LEMMA DeadLetterWaits ==
  ASSUME TypeOK, NEW s \in Consumers, NEW label, DeadLetter(s, label)
  PROVE  /\ \A m : DeadLettered(m) => DeadLettered(m)'
         /\ \A m : Owns(s) /\ m = hand[s].id => DeadLettered(m)'
  <1>1. CASE link[s] = "up"
    <2>1. Fresh(hand[s].id) \in Delivery /\ Fresh(hand[s].id).id = hand[s].id
            /\ InKey(s) \in Keys
      BY HandFacts, DeliveryFacts, KeyFacts DEF DeadLetter
    <2>2. dlq' = Enqueue(dlq, InKey(s), Fresh(hand[s].id)) /\ dlq \in Queues
      BY <1>1 DEF DeadLetter, PublishSucceeds, TypeOK, BrokerOK, Queues
    <2>3. \A k \in Keys, d \in Delivery : dlq'[k][d] >= dlq[k][d]
      BY <2>1, <2>2, EnqueueFacts
    <2>4. dlq'[InKey(s)][Fresh(hand[s].id)] > 0
      BY <2>1, <2>2, EnqueueFacts
    <2>5. \A k \in Keys, d \in Delivery : dlq[k][d] \in Nat /\ dlq'[k][d] \in Nat
      BY <2>1, <2>2, EnqueueFacts DEF Queues
    <2>6. \A k \in Keys, d \in Delivery : dlq[k][d] > 0 => dlq'[k][d] > 0
      BY <2>3, <2>5
    <2> QED
      BY <2>1, <2>4, <2>6 DEF DeadLettered
  <1>2. CASE link[s] # "up"
    BY <1>2 DEF DeadLetter, PublishSucceeds, DeadLettered, Owns
  <1> QED
    BY <1>1, <1>2

(* The gateway only adds copies, and what it stores nobody has taken up.   *)
LEMMA GatewayAccounts ==
  ASSUME TypeOK, Bookkeeping, Stamped, GatewayNext, NEW m \in Ids, ~Stranded(m),
         Tracked(m)', ~KnownFault(m)
  PROVE  Kept(m)'
  <1> USE DEF Bookkeeping
  <1>a. UNCHANGED <<published, dlq, link, pc, hand, wkMark>>
    BY GatewayFrame
  <1> PICK i \in Ids : \/ PostMessage(i) \/ TransformRequest(i) \/ RetryRequest(i)
                       \/ GatewayHandler(i)
    BY DEF GatewayNext
  <1>b. i \in Messages /\ m \in Messages
    BY DeliveryFacts
  <1>1. Grows
    <2>1. CASE PostPublish(i) \/ RetryPublish(i)
      BY <2>1, <1>b, PublishGrows, KeyFacts, ConfigAssumption
      DEF PostPublish, RetryPublish, RouteFields
    <2>2. CASE ~PostPublish(i) /\ ~RetryPublish(i)
      BY <2>2 DEF GatewayHandler, PostMessage, PostStore, PostRecord, TransformRequest,
         TransformMetadata, TransformStatus, TransformRecord, RetryRequest, RetryRecord,
         broker, Grows
    <2> QED
      BY <2>1, <2>2
  <1>2. Tracked(m)
    <2>1. CASE PostStore(i)
      BY <2>1, <1>a, <1>b, DeliveryFacts
      DEF PostStore, Store, Tracked, Awaited, Rows, Stored, TypeOK, DatabaseOK
    <2>2. CASE TransformStatus(i)
      <3>1. PICK o \in Outcomes : UpdateStatus(i, "transformed", o)
        BY <2>2 DEF TransformStatus
      <3>2. CASE status'[m] = status[m] /\ trail'[m] = trail[m]
        BY <3>2, <1>a DEF Tracked, Awaited
      <3>3. CASE ~(status'[m] = status[m] /\ trail'[m] = trail[m])
        <4>1. /\ m = i /\ Stored(m)
              /\ status'[m] = "transformed" /\ trail'[m] = trail[m] \cup {"transformed"}
          BY <3>1, <3>3, <1>b DEF UpdateStatus, TypeOK, DatabaseOK
        <4>2. trail[m] \subseteq {"pending", "sent", "transformed"}
          BY <4>1 DEF Tracked, Awaited
        <4>3. status[m] \in {"pending", "sent", "transformed"}
          BY <4>1, <4>2, <1>b DEF Stamped
        <4>4. status[m] = "pending" => m \in published
          BY <2>2, <4>1 DEF KnownFault
        <4> QED
          BY <4>2, <4>3, <4>4 DEF Tracked, Awaited
      <3> QED
        BY <3>2, <3>3
    <2>3. CASE ~PostStore(i) /\ ~TransformStatus(i)
      BY <2>3, <1>a DEF GatewayHandler, PostMessage, PostRecord, PostPublish,
         TransformRequest, TransformMetadata, TransformRecord, RetryRequest, RetryRecord,
         RetryPublish, database, Tracked, Awaited
    <2> QED
      BY <2>1, <2>2, <2>3
  <1>3. Kept(m) /\ Waits(m)
    BY <1>1, <1>2, <1>a, GrowsWaits DEF Stranded, Kept
  <1>4. \A s \in Consumers : Holding(s, m, Holds(s)) => Holding(s, m, Holds(s))'
    BY <1>a DEF Holding, Owns, Holds
  <1> QED
    BY <1>1, <1>3, <1>a, InFlightGrows
    DEF Kept, Parked, Waits, DeadLettered, Holding, Owns

(* The worker takes up what it has just put on the send queue, unless the  *)
(* publish vanished.                                                       *)
LEMMA WorkerAccounts ==
  ASSUME Chained, TypeOK, Bookkeeping, WorkerNext, NEW m \in Ids, ~Stranded(m), Tracked(m)',
         ~KnownFault(m)
  PROVE  Kept(m)'
  <1> USE DEF Bookkeeping
  <1>a. UNCHANGED <<status, trail, dlq, pc, hand>>
    BY WorkerFrame
  <1>1. ASSUME NEW i \in Ids, WorkerPublish(i) PROVE Kept(m)'
    <2>a. i \in Messages /\ link' = link /\ published' = published
      BY <1>1, DeliveryFacts DEF WorkerPublish, database
    <2>b. Route["wkSend"] = SendQueue /\ SendQueue \in Keys
      BY QueueFacts DEF Chained
    <2>1. Grows
      BY <1>1, <2>a, <2>b, PublishGrows DEF WorkerPublish
    <2>2. link["worker"] = "up" => Waiting(SendQueue, i)'
      <3>1. link["worker"] = "up" => SendQueue \in bound
        BY <2>b DEF QueuesBound, Declares, Services
      <3> QED
        BY <1>1, <2>a, <2>b, <3>1, PublishGrows DEF WorkerPublish
    <2>3. CASE Tracked(m)
      BY <2>1, <2>3, <2>a, <1>a, InFlightGrows
      DEF Stranded, Kept, Parked, Holding, Owns
    <2>4. CASE ~Tracked(m)
      <3>1. m = i /\ link["worker"] = "up"
        BY <2>4, <1>1, <2>a, <1>a, IdAssumption
        DEF Tracked, Awaited, WorkerPublish, PublishSucceeds, Messages
      <3> QED
        BY <3>1, <2>2 DEF Kept, InFlight, SendQueue
    <2> QED
      BY <2>3, <2>4
  <1>2. ASSUME NEW i \in Ids, WorkerPublishVanishes(i) PROVE Kept(m)'
    <2>1. m # i
      BY <1>2 DEF KnownFault
    <2>2. UNCHANGED <<queue, published>> /\ wkMark' = i
            /\ \A c \in Consumers : link'[c] = link[c]
      BY <1>2
      DEF WorkerPublishVanishes, broker, database, TypeOK, BrokerOK, Consumers, Services
    <2>3. Tracked(m)
      BY <2>1, <2>2, <1>a DEF Tracked, Awaited
    <2> QED
      BY <2>2, <2>3, <1>a
      DEF Stranded, Kept, InFlight, Parked, Waiting, Holding, Owns, Consumers
  <1>3. CASE Poll \/ WorkerMark \/ BatchTimeout
    <2>1. UNCHANGED <<queue, link>>
      BY <1>3 DEF Poll, WorkerMark, BatchTimeout, broker
    <2>2. Tracked(m)
      BY <1>3, <1>a, IdAssumption
      DEF Poll, WorkerMark, BatchTimeout, database, Tracked, Awaited, Messages
    <2> QED
      BY <2>1, <2>2, <1>a DEF Stranded, Kept, InFlight, Parked, Waiting, Holding, Owns
  <1> QED
    BY <1>1, <1>2, <1>3 DEF WorkerNext

(* What a taken delivery of a tracked message leaves behind.               *)
LEMMA TakeAccounts ==
  ASSUME TypeOK, Rows, NEW s \in {"sender", "receiver"}, NEW l, Take(s, l, "update"),
         UNCHANGED <<link, dlq>>, \A c \in Consumers \ {s} : pc'[c] = pc[c] /\ hand'[c] = hand[c],
         NEW m \in Ids, Tracked(m), Kept(m)
  PROVE  Kept(m)'
  <1>1. \A k \in Keys : Waiting(k, m) => Waiting(k, m)' \/ Holding(s, m, {"update"})'
    BY TakeKeeps DEF Holding, Owns
  <1>2. Holding(s, m, {"update"})' => Kept(m)'
    BY DEF Holding, Kept, InFlight
  <1>3. CASE \E k \in {SendQueue, ReceiveQueue} : Waiting(k, m)
    BY <1>1, <1>2, <1>3, QueueFacts DEF Kept, InFlight, SendQueue, ReceiveQueue
  <1>4. CASE \A k \in {SendQueue, ReceiveQueue} : ~Waiting(k, m)
    <2>1. s \in Consumers /\ pc[s] = "idle"
      BY TakeEffect DEF Consumers
    <2>2. ~Holding(s, m, Holds(s))
      BY <2>1 DEF Holding, Holds, SenderHolds, ReceiverHolds
    <2>3. Waits(m)
      BY <1>4 DEF Waits, DeadLettered
    <2> QED
      BY <2>1, <2>2, <2>3, KeptUnlessHeld
  <1> QED
    BY <1>3, <1>4

(* The sender lets go of a message only where the next queue, its own or   *)
(* the dead letter queue has it, as long as it has its connection.         *)
LEMMA SenderAccounts ==
  ASSUME Chained, TypeOK, Bookkeeping, SenderNext, NEW m \in Ids, ~Stranded(m), Tracked(m)',
         ~KnownFault(m)
  PROVE  Kept(m)'
  <1> USE DEF Bookkeeping
  <1>a. UNCHANGED <<published, bound, link, wkMark>>
    BY SenderFrame
  <1>b. \A s \in Consumers \ {"sender"} : pc'[s] = pc[s] /\ hand'[s] = hand[s]
    BY SenderFrame DEF Sn
  <1>c. Sn = "sender" /\ "sender" \in Consumers
    BY DEF Sn, Consumers
  <1>d. ASSUME Tracked(m), Waits(m), Holding("sender", m, Holds("sender")) => Kept(m)'
        PROVE  Kept(m)'
    BY <1>a, <1>b, <1>c, <1>d, KeptUnlessHeld DEF Stranded, Kept
  <1>1. CASE SenderTake
    <2>1. Tracked(m) /\ dlq' = dlq
      BY <1>1, <1>a DEF SenderTake, database, Tracked, Awaited
    <2> QED
      BY <1>1, <1>a, <1>b, <1>c, <2>1, TakeAccounts DEF SenderTake, Stranded, Kept
  <1>2. CASE SenderFail \/ SenderAck
    <2>1. UNCHANGED <<queue, dlq>> /\ pc["sender"] \in {"fail", "ack"}
      BY <1>2, <1>c DEF SenderFail, SenderAck, broker
    <2>2. Tracked(m)
      BY <1>2, <1>a, DeliveryFacts
      DEF SenderFail, UpdateStatus, SenderAck, database, Tracked, Awaited,
         TypeOK, DatabaseOK
    <2>3. Waits(m)
      BY <2>1, GrowsWaits DEF Grows
    <2>4. ~Holding("sender", m, Holds("sender"))
      BY <2>1 DEF Holding, Holds, SenderHolds
    <2> QED
      BY <2>2, <2>3, <2>4, <1>d
  <1>3. CASE SenderUpdate
    <2>1. PICK o \in Outcomes :
            /\ UpdateStatus(hand["sender"].id, "sent", o)
            /\ Goto("sender", IF o # "ok" THEN RetryOrDlq("sender")
                              ELSE IF Stored(hand["sender"].id) THEN "record" ELSE "ack")
      BY <1>3, <1>c DEF SenderUpdate, UpdateThen
    <2>2. /\ pc["sender"] = "update" /\ UNCHANGED <<queue, dlq, hand>>
          /\ pc'["sender"] = IF o # "ok" THEN RetryOrDlq("sender")
                             ELSE IF Stored(hand["sender"].id) THEN "record" ELSE "ack"
      BY <1>3, <1>c, <2>1 DEF SenderUpdate, UpdateThen, broker, Goto, TypeOK, HandlersOK
    <2>3. CASE m = hand["sender"].id
      <3>1. Stored(m)
        BY <2>1, <2>3, DeliveryFacts
        DEF UpdateStatus, Tracked, Awaited, Stored, TypeOK, DatabaseOK
      <3>2. pc'["sender"] \in {"requeue", "dlq", "record"}
        BY <2>2, <2>3, <3>1 DEF RetryOrDlq
      <3>3. link["sender"] = "up"
        BY <1>3, <2>2, <2>3, <1>c, KeyFacts DEF KnownFault, Alive, TypeOK, BrokerOK
      <3> QED
        BY <2>2, <2>3, <3>2, <3>3, <1>a, <1>c
        DEF Kept, InFlight, Parked, Holding, Owns
    <2>4. CASE m # hand["sender"].id
      <3>1. Tracked(m)
        BY <2>1, <2>4, <1>a, DeliveryFacts
        DEF UpdateStatus, Tracked, Awaited, TypeOK, DatabaseOK
      <3>2. Waits(m)
        BY <2>2, GrowsWaits DEF Grows
      <3> QED
        BY <2>4, <3>1, <3>2, <1>d DEF Holding
    <2> QED
      BY <2>3, <2>4
  <1>4. CASE SenderRecord
    <2>1. /\ UNCHANGED <<queue, dlq, hand, status, trail>>
          /\ pc["sender"] = "record" /\ pc'["sender"] = "publish"
      BY <1>4, <1>c DEF SenderRecord, broker, Goto, TypeOK, HandlersOK
    <2>2. Tracked(m) /\ Waits(m)
      BY <2>1, <1>a, GrowsWaits DEF Tracked, Awaited, Grows
    <2>3. Holding("sender", m, Holds("sender")) => Kept(m)'
      BY <2>1, <1>a DEF Holding, Owns, Kept, InFlight
    <2> QED
      BY <2>2, <2>3, <1>d
  <1>5. CASE SenderPublish
    <2>1. /\ UNCHANGED <<dlq, hand, status, trail>> /\ pc["sender"] = "publish"
          /\ Publish("sender", ReceiveQueue, Fresh(hand["sender"].id))
      BY <1>5, <1>c DEF SenderPublish, database, Goto, Chained
    <2>2. hand["sender"].id \in Messages
      BY <2>1, <1>c, HandFacts
    <2>3. /\ Grows
          /\ link["sender"] = "up" /\ ReceiveQueue \in bound =>
               \A n : n = hand["sender"].id => Waiting(ReceiveQueue, n)'
      BY <2>1, <2>2, PublishGrows, QueueFacts
    <2>4. link["sender"] = "up" => ReceiveQueue \in bound
      BY <1>c, KeyFacts DEF QueuesBound, Declares, Chained
    <2>5. Tracked(m) /\ Waits(m)
      BY <2>1, <2>3, <1>a, GrowsWaits DEF Tracked, Awaited
    <2>6. Holding("sender", m, Holds("sender")) => Kept(m)'
      BY <2>3, <2>4 DEF Holding, Owns, Kept, InFlight, ReceiveQueue
    <2> QED
      BY <2>5, <2>6, <1>d
  <1>6. CASE SenderRequeue
    <2>1. queue' = Requeue(queue, "sender") /\ UNCHANGED <<dlq, status, trail>>
      BY <1>6, <1>c DEF SenderRequeue, NackRequeue, database
    <2>2. /\ Grows
          /\ \A n : Owns("sender") /\ n = hand["sender"].id => Waiting(SendQueue, n)'
      BY <2>1, <1>c, RequeueWaits, QueueFacts
    <2>3. Tracked(m) /\ Waits(m)
      BY <2>1, <2>2, <1>a, GrowsWaits DEF Tracked, Awaited
    <2>4. Holding("sender", m, Holds("sender")) => Kept(m)'
      BY <2>2 DEF Holding, Kept, InFlight, SendQueue
    <2> QED
      BY <2>3, <2>4, <1>d
  <1>7. CASE SenderDlq
    <2>1. DeadLetter("sender", "ack") /\ UNCHANGED <<queue, status, trail>>
      BY <1>7, <1>c DEF SenderDlq, DeadLetter, database
    <2>2. /\ DeadLettered(m) => DeadLettered(m)'
          /\ Owns("sender") /\ m = hand["sender"].id => DeadLettered(m)'
      BY <2>1, <1>c, DeadLetterWaits
    <2>3. Tracked(m) /\ Waits(m)
      BY <2>1, <2>2, <1>a DEF Tracked, Awaited, Waits, Waiting
    <2>4. Holding("sender", m, Holds("sender")) => Kept(m)'
      BY <2>2 DEF Holding, Kept, Parked, DeadLettered
    <2> QED
      BY <2>3, <2>4, <1>d
  <1> QED
    BY <1>1, <1>2, <1>3, <1>4, <1>5, <1>6, <1>7 DEF SenderNext, SenderHandler

(* The receiver lets go of a message only where its row says received, or  *)
(* where its own queue or the dead letter queue has it.                    *)
LEMMA ReceiverAccounts ==
  ASSUME TypeOK, Bookkeeping, ReceiverNext, NEW m \in Ids, ~Stranded(m), Tracked(m)'
  PROVE  Kept(m)'
  <1> USE DEF Bookkeeping
  <1>a. UNCHANGED <<published, bound, link, wkMark>>
    BY ReceiverFrame
  <1>b. \A s \in Consumers \ {"receiver"} : pc'[s] = pc[s] /\ hand'[s] = hand[s]
    BY ReceiverFrame DEF Rv
  <1>c. Rv = "receiver" /\ "receiver" \in Consumers
    BY DEF Rv, Consumers
  <1>d. ASSUME Tracked(m), Waits(m), Holding("receiver", m, Holds("receiver")) => Kept(m)'
        PROVE  Kept(m)'
    BY <1>a, <1>b, <1>c, <1>d, KeptUnlessHeld DEF Stranded, Kept
  <1>1. CASE ReceiverTake
    <2>1. Tracked(m) /\ dlq' = dlq
      BY <1>1, <1>a DEF ReceiverTake, database, Tracked, Awaited
    <2> QED
      BY <1>1, <1>a, <1>b, <1>c, <2>1, TakeAccounts DEF ReceiverTake, Stranded, Kept
  <1>2. CASE ReceiverUpdate
    <2>1. PICK o \in Outcomes :
            /\ UpdateStatus(hand["receiver"].id, "received", o)
            /\ Goto("receiver", IF o # "ok" THEN RetryOrDlq("receiver")
                                ELSE IF Stored(hand["receiver"].id) THEN "record" ELSE "drop")
      BY <1>2, <1>c DEF ReceiverUpdate, UpdateThen
    <2>2. /\ pc["receiver"] = "update" /\ UNCHANGED <<queue, dlq, hand>>
          /\ pc'["receiver"] = IF o # "ok" THEN RetryOrDlq("receiver")
                               ELSE IF Stored(hand["receiver"].id) THEN "record" ELSE "drop"
      BY <1>2, <1>c, <2>1 DEF ReceiverUpdate, UpdateThen, broker, Goto, TypeOK, HandlersOK
    <2>3. Tracked(m) /\ Waits(m)
      BY <2>1, <2>2, <1>a, DeliveryFacts, GrowsWaits
      DEF UpdateStatus, Tracked, Awaited, TypeOK, DatabaseOK, Grows
    <2>4. ASSUME Holding("receiver", m, Holds("receiver")) PROVE Kept(m)'
      <3>1. m = hand["receiver"].id /\ link["receiver"] = "up" /\ Stored(m)
        BY <2>3, <2>4 DEF Holding, Owns, Tracked, Awaited, Stored
      <3>2. o # "ok"
        BY <2>1, <3>1, DeliveryFacts
        DEF UpdateStatus, TakesEffect, Tracked, Awaited, TypeOK, DatabaseOK
      <3> QED
        BY <2>2, <3>1, <3>2, <1>a, <1>c
        DEF RetryOrDlq, Kept, InFlight, Parked, Holding, Owns
    <2> QED
      BY <2>3, <2>4, <1>d
  <1>3. CASE \/ ReceiverReject \/ ReceiverRecord \/ ReceiverAck \/ ReceiverLookup
             \/ ReceiverTrigger \/ ReceiverDrop
    <2>1. /\ UNCHANGED <<dlq, status, trail>>
          /\ pc["receiver"] \in {"reject", "record", "ack", "lookup", "trigger", "drop"}
      BY <1>3, <1>c DEF ReceiverReject, ReceiverRecord, ReceiverAck, ReceiverLookup,
         ReceiverTrigger, ReceiverDrop, database, broker
    <2>2. Grows
      <3>1. CASE ReceiverTrigger
        BY <3>1, <1>c, <2>1, HandFacts, PublishGrows, KeyFacts
        DEF ReceiverTrigger, RouteFields
      <3>2. CASE ~ReceiverTrigger
        BY <1>3, <3>2 DEF ReceiverReject, ReceiverRecord, ReceiverAck, ReceiverLookup,
           ReceiverDrop, broker, Grows
      <3> QED
        BY <3>1, <3>2
    <2>3. Tracked(m) /\ Waits(m)
      BY <2>1, <2>2, <1>a, GrowsWaits DEF Tracked, Awaited
    <2>4. ~Holding("receiver", m, Holds("receiver"))
      BY <2>1 DEF Holding, Holds, ReceiverHolds
    <2> QED
      BY <2>3, <2>4, <1>d
  <1>4. CASE ReceiverRequeue
    <2>1. queue' = Requeue(queue, "receiver") /\ UNCHANGED <<dlq, status, trail>>
      BY <1>4, <1>c DEF ReceiverRequeue, NackRequeue, database
    <2>2. /\ Grows
          /\ \A n : Owns("receiver") /\ n = hand["receiver"].id => Waiting(ReceiveQueue, n)'
      BY <2>1, <1>c, RequeueWaits, QueueFacts
    <2>3. Tracked(m) /\ Waits(m)
      BY <2>1, <2>2, <1>a, GrowsWaits DEF Tracked, Awaited
    <2>4. Holding("receiver", m, Holds("receiver")) => Kept(m)'
      BY <2>2 DEF Holding, Kept, InFlight, ReceiveQueue
    <2> QED
      BY <2>3, <2>4, <1>d
  <1>5. CASE ReceiverDlq
    <2>1. DeadLetter("receiver", "drop") /\ UNCHANGED <<queue, status, trail>>
      BY <1>5, <1>c DEF ReceiverDlq, DeadLetter, database
    <2>2. /\ DeadLettered(m) => DeadLettered(m)'
          /\ Owns("receiver") /\ m = hand["receiver"].id => DeadLettered(m)'
      BY <2>1, <1>c, DeadLetterWaits
    <2>3. Tracked(m) /\ Waits(m)
      BY <2>1, <2>2, <1>a DEF Tracked, Awaited, Waits, Waiting
    <2>4. Holding("receiver", m, Holds("receiver")) => Kept(m)'
      BY <2>2 DEF Holding, Kept, Parked, DeadLettered
    <2> QED
      BY <2>3, <2>4, <1>d
  <1> QED
    BY <1>1, <1>2, <1>3, <1>4, <1>5 DEF ReceiverNext, ReceiverHandler

(* The transformer takes only from its own queue.                          *)
LEMMA TransformerAccounts ==
  ASSUME TypeOK, TransformerNext, NEW m \in Ids, ~Stranded(m), Tracked(m)'
  PROVE  Kept(m)'
  <1>a. UNCHANGED <<published, bound, link, wkMark>>
    BY TransformerFrame
  <1>b. \A s \in Consumers \ {"transformer"} : pc'[s] = pc[s] /\ hand'[s] = hand[s]
    BY TransformerFrame DEF Tf
  <1>c. Tf = "transformer" /\ "transformer" \in Consumers
    BY DEF Tf, Consumers
  <1>1. dlq' = dlq
    BY DEF TransformerNext, TransformerHandler, TransformerTake, TransformerFetch,
       TransformerFailed, TransformerMetadata, TransformerUpdate, TransformerRecord,
       TransformerPublish, TransformerDrop, broker
  <1>2. Waits(m)
    <2>1. CASE TransformerTake
      BY <2>1, <1>1, <1>c, TakeEffect, QueueFacts
      DEF TransformerTake, Waiting, Waits, DeadLettered
    <2>2. CASE TransformerPublish
      BY <2>2, <1>1, DeliveryFacts, PublishGrows, KeyFacts, GrowsWaits
      DEF TransformerPublish, RouteFields
    <2>3. CASE ~TransformerTake /\ ~TransformerPublish
      BY <2>3, <1>1, GrowsWaits DEF TransformerNext, TransformerHandler, TransformerFetch,
         TransformerFailed, TransformerMetadata, TransformerUpdate, TransformerRecord,
         TransformerDrop, broker, Grows
    <2> QED
      BY <2>1, <2>2, <2>3
  <1>3. Tracked(m)
    <2>1. CASE TransformerUpdate
      BY <2>1, <1>a, DeliveryFacts
      DEF TransformerUpdate, UpdateStatus, Tracked, Awaited, TypeOK, DatabaseOK
    <2>2. CASE ~TransformerUpdate
      BY <2>2, <1>a DEF TransformerNext, TransformerHandler, TransformerTake,
         TransformerFetch, TransformerFailed, TransformerMetadata, TransformerRecord,
         TransformerPublish, TransformerDrop, database, Tracked, Awaited
    <2> QED
      BY <2>1, <2>2
  <1> QED
    BY <1>2, <1>3, <1>a, <1>b, <1>c, KeptUnlessHeld DEF Stranded, Kept, Holds, Holding

(* Starts, crashes and lost connections only return copies to their queues. *)
LEMMA EnvironmentAccounts ==
  ASSUME TypeOK, Environment, NEW m \in Ids, ~Stranded(m), Tracked(m)', ~KnownFault(m)
  PROVE  Kept(m)'
  <1>a. UNCHANGED <<status, trail, published>> /\ wkMark' \in {wkMark, NoMessage}
    BY DEF Environment, Start, Crash, WorkerStops, LoseConnection, BrokerRestart,
       DlqExpire, database, worker
  <1>b. Kept(m)
    BY <1>a, DeliveryFacts DEF Tracked, Awaited, Stranded, Kept
  <1>c. "sender" \in Consumers /\ "receiver" \in Consumers
    BY DEF Consumers
  <1>d. ~BrokerRestart /\ ~DlqExpire
    BY DEF KnownFault
  <1>1. ASSUME NEW s \in Services, Start(s) PROVE Kept(m)'
    <2>1. /\ UNCHANGED <<queue, dlq, pc, hand>>
          /\ link[s] = "down" /\ link' = [link EXCEPT ![s] = "up"]
      BY <1>1 DEF Start, handlers
    <2> QED
      BY <2>1, <1>b
      DEF Kept, InFlight, Parked, Waiting, Holding, Owns, TypeOK, BrokerOK
  <1>2. ASSUME NEW s \in Services, UNCHANGED dlq, s \notin Consumers => UNCHANGED queue,
               s \in Consumers => queue' = Requeue(queue, s),
               \A c \in Consumers \ {s} : /\ pc'[c] = pc[c] /\ hand'[c] = hand[c]
                                          /\ link'[c] = link[c]
        PROVE  Kept(m)'
    <2>1. /\ Grows
          /\ s \in Consumers =>
               \A n : Owns(s) /\ n = hand[s].id => Waiting(InKey(s), n)'
      <3>1. CASE s \in Consumers
        BY <1>2, <3>1, RequeueWaits
      <3>2. CASE s \notin Consumers
        BY <1>2, <3>2 DEF Grows
      <3> QED
        BY <3>1, <3>2
    <2>2. CASE Waiting(SendQueue, m) \/ Waiting(ReceiveQueue, m)
      BY <2>1, <2>2, WaitingGrows, QueueFacts DEF Kept, InFlight, SendQueue, ReceiveQueue
    <2>3. CASE DeadLettered(m)
      BY <1>2, <2>3 DEF DeadLettered, Kept, Parked
    <2>4. ASSUME NEW c \in Consumers, Holding(c, m, Holds(c)) PROVE Kept(m)'
      <3>1. CASE c = s
        <4>1. c = "sender" \/ c = "receiver"
          BY <2>4 DEF Consumers, Holds, Holding
        <4> QED
          BY <2>1, <2>4, <3>1, <4>1, QueueFacts
          DEF Holding, Kept, InFlight, SendQueue, ReceiveQueue
      <3>2. CASE c # s
        <4>1. c = "sender" \/ c = "receiver"
          BY <2>4 DEF Consumers, Holds, Holding
        <4>2. Holding(c, m, Holds(c))'
          BY <1>2, <2>4, <3>2 DEF Holding, Owns, Holds
        <4> QED
          BY <4>1, <4>2, <1>c
          DEF Holding, Owns, Holds, SenderHolds, ReceiverHolds, Kept, InFlight, Parked
      <3> QED
        BY <3>1, <3>2
    <2>5. pc["transformer"] # "dlq"
      BY DEF TypeOK, HandlersOK, Labels, Consumers
    <2> QED
      BY <1>b, <1>c, <2>2, <2>3, <2>4, <2>5
      DEF Kept, InFlight, Parked, DeadLettered, Holding, Holds, SenderHolds, ReceiverHolds,
          Consumers, SendQueue, ReceiveQueue
  <1>3. ASSUME NEW s \in Services, Crash(s) PROVE Kept(m)'
    BY <1>2, <1>3, KeyFacts DEF Crash, Release, handlers, TypeOK, HandlersOK, BrokerOK
  <1>4. ASSUME NEW s \in Services, LoseConnection(s) PROVE Kept(m)'
    BY <1>2, <1>4, KeyFacts DEF LoseConnection, handlers, TypeOK, BrokerOK
  <1> QED
    BY <1>1, <1>3, <1>4, <1>d DEF Environment

(* Every step accounts for what it strands.                                *)
LEMMA LossStepAccounts ==
  ASSUME Chained, TypeOK, Bookkeeping, Stamped, Next, NEW m \in Ids, ~Stranded(m),
         Stranded(m)'
  PROVE  KnownFault(m)
  <1> SUFFICES ASSUME ~KnownFault(m) PROVE Kept(m)'
    BY DEF Stranded, Kept
  <1>1. Tracked(m)'
    BY DEF Stranded
  <1> QED
    BY <1>1, NextCases, GatewayAccounts, WorkerAccounts, SenderAccounts, ReceiverAccounts,
       TransformerAccounts, EnvironmentAccounts

(* LossesAreKnown: where each service consumes what the one before it      *)
(* publishes, a message is stranded outside the dead letter queues only by *)
(* the faults LossOnlyByKnownFault names, for every set of messages and    *)
(* outputs, every retry budget, every kind and number of faults.           *)
THEOREM LossesAreKnown ==
  ASSUME Chained
  PROVE  Spec => LossOnlyByKnownFault
  <1>1. Init => TypeOK /\ Bookkeeping /\ Stamped
    BY InitType, BookkeepingInit DEF Init, Stamped, Stored
  <1>2. TypeOK /\ Bookkeeping /\ Stamped /\ [Next]_vars => (TypeOK /\ Bookkeeping /\ Stamped)'
    BY BookkeepingStep, StampedStep, GatewayType, WorkerType, SenderType, ReceiverType,
       TransformerType,
       EnvironmentType, NextCases, StutterType
  <1>3. TypeOK /\ Bookkeeping /\ Stamped /\ [Next]_vars =>
          [\A i \in Ids : ~Stranded(i) /\ Stranded(i)' =>
             \/ DlqExpire
             \/ BrokerRestart
             \/ WorkerPublishVanishes(i)
             \/ SenderUpdate /\ hand["sender"].id = i /\ link["sender"] = "lost"
             \/ TransformStatus(i) /\ status[i] = "pending" /\ i \notin published]_vars
    BY LossStepAccounts DEF KnownFault
  <1> QED
    BY <1>1, <1>2, <1>3, PTL DEF Spec, LossOnlyByKnownFault
=============================================================================
