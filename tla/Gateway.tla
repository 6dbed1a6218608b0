------------------------------ MODULE Gateway -------------------------------
(***************************************************************************)
(* cmd/api-gateway: the HTTP handlers that change message state.  Every    *)
(* request runs in a goroutine of its own, so handlers for different       *)
(* messages, and different kinds of handler for one message, interleave    *)
(* at each database statement and each publish.                            *)
(***************************************************************************)
EXTENDS Platform

GatewayRuns == link["gateway"] # "down"

(***************************************************************************)
(* POST /api/v1/messages: validate, store, audit, publish.  Only a failed  *)
(* validation or a failed insert is reported; the message is accepted all  *)
(* the same when the audit record or the publish fails.                    *)
(***************************************************************************)
PostMessage_Unvalidated(i) ==
  /\ GatewayRuns
  /\ gwPost[i] = "new"
  /\ gwPost' = [gwPost EXCEPT ![i] = "store"]
  /\ UNCHANGED <<database, broker, link, handlers, gwTransform, gwRetry, worker,
                 faults, ops, requeued>>

PostMessage(i) ==
  /\ GatewayRuns
  /\ gwPost[i] = "new"
  /\ gwPost' = [gwPost EXCEPT ![i] = IF i \in Invalid THEN "done" ELSE "store"]
  /\ UNCHANGED <<database, broker, link, handlers, gwTransform, gwRetry, worker,
                 faults, ops, requeued>>

PostStore(i) ==
  /\ gwPost[i] = "store"
  /\ \E o \in Outcomes :
       /\ Statement(o)
       /\ IF TakesEffect(o) THEN Store(i) ELSE UNCHANGED <<status, trail>>
       /\ gwPost' = [gwPost EXCEPT ![i] = IF o = "ok" THEN "record" ELSE "done"]
  /\ UNCHANGED <<published, canonical, audit, broker, link, handlers, gwTransform,
                 gwRetry, worker, ops, requeued>>

PostRecord(i) ==
  /\ gwPost[i] = "record"
  /\ \E o \in Outcomes : Statement(o) /\ Record(i, "message_created", TRUE, o)
  /\ gwPost' = [gwPost EXCEPT ![i] = "publish"]
  /\ UNCHANGED <<status, published, canonical, trail, broker, link, handlers,
                 gwTransform, gwRetry, worker, ops, requeued>>

PostPublish(i) ==
  /\ gwPost[i] = "publish"
  /\ Publish("gateway", Route["gwSend"], Fresh(i))
  /\ gwPost' = [gwPost EXCEPT ![i] = "done"]
  /\ UNCHANGED <<database, dlq, bound, link, handlers, gwTransform, gwRetry, worker,
                 faults, ops, requeued>>

(***************************************************************************)
(* POST /api/v1/transform: read the message, transform its content in      *)
(* memory, then write metadata, status and audit, each best effort.  The   *)
(* formats come from the request, so a decodable message may also be asked *)
(* for in a format no codec knows: that request, and one for a message     *)
(* that cannot be read, ends with an error and changes nothing.            *)
(***************************************************************************)
TransformRequest(i) ==
  /\ GatewayRuns
  /\ ops < MaxOps
  /\ gwTransform[i] = "idle"
  /\ Stored(i)
  /\ i \notin Undecodable
  /\ ops' = ops + 1
  /\ gwTransform' = [gwTransform EXCEPT ![i] = "metadata"]
  /\ UNCHANGED <<database, broker, link, handlers, gwPost, gwRetry, worker, faults,
                 requeued>>

TransformMetadata(i) ==
  /\ gwTransform[i] = "metadata"
  /\ \E o \in Outcomes : Statement(o) /\ UpdateMetadata(i, o)
  /\ gwTransform' = [gwTransform EXCEPT ![i] = "status"]
  /\ UNCHANGED <<status, published, trail, audit, broker, link, handlers, gwPost,
                 gwRetry, worker, ops, requeued>>

TransformStatus(i) ==
  /\ gwTransform[i] = "status"
  /\ \E o \in Outcomes : Statement(o) /\ UpdateStatus(i, "transformed", o)
  /\ gwTransform' = [gwTransform EXCEPT ![i] = "record"]
  /\ UNCHANGED <<published, canonical, audit, broker, link, handlers, gwPost, gwRetry,
                 worker, ops, requeued>>

TransformRecord(i) ==
  /\ gwTransform[i] = "record"
  /\ \E o \in Outcomes : Statement(o) /\ Record(i, "transformation_complete", TRUE, o)
  /\ gwTransform' = [gwTransform EXCEPT ![i] = "idle"]
  /\ UNCHANGED <<status, published, canonical, trail, broker, link, handlers, gwPost,
                 gwRetry, worker, ops, requeued>>

(***************************************************************************)
(* POST /api/v1/queue/dlq/{id}/retry: read the message, audit the retry,   *)
(* publish to the routing key spelled out in the handler.  It touches no   *)
(* dead letter queue.                                                      *)
(***************************************************************************)
RetryRequest(i) ==
  /\ GatewayRuns
  /\ ops < MaxOps
  /\ gwRetry[i] = "idle"
  /\ Stored(i)
  /\ ops' = ops + 1
  /\ gwRetry' = [gwRetry EXCEPT ![i] = "record"]
  /\ UNCHANGED <<database, broker, link, handlers, gwPost, gwTransform, worker, faults,
                 requeued>>

RetryRecord(i) ==
  /\ gwRetry[i] = "record"
  /\ \E o \in Outcomes : Statement(o) /\ Record(i, "dlq_retry_triggered", TRUE, o)
  /\ gwRetry' = [gwRetry EXCEPT ![i] = "publish"]
  /\ UNCHANGED <<status, published, canonical, trail, broker, link, handlers, gwPost,
                 gwTransform, worker, ops, requeued>>

RetryPublish(i) ==
  /\ gwRetry[i] = "publish"
  /\ Publish("gateway", RetryKey, Fresh(i))
  /\ gwRetry' = [gwRetry EXCEPT ![i] = "idle"]
  /\ UNCHANGED <<database, dlq, bound, link, handlers, gwPost, gwTransform, worker,
                 faults, ops, requeued>>

(* The handlers a request runs through once it has been taken up.          *)
GatewayHandler(i) ==
  \/ PostStore(i) \/ PostRecord(i) \/ PostPublish(i)
  \/ TransformMetadata(i) \/ TransformStatus(i) \/ TransformRecord(i)
  \/ RetryRecord(i) \/ RetryPublish(i)

GatewayNext == \E i \in Ids :
  PostMessage(i) \/ TransformRequest(i) \/ RetryRequest(i) \/ GatewayHandler(i)

(* A dead gateway forgets the requests it was serving.                     *)
GatewayStops ==
  /\ gwPost' = [i \in Ids |-> IF gwPost[i] = "new" THEN "new" ELSE "done"]
  /\ gwTransform' = [i \in Ids |-> "idle"]
  /\ gwRetry' = [i \in Ids |-> "idle"]
=============================================================================
