------------------------------- MODULE Worker -------------------------------
(***************************************************************************)
(* cmd/worker: on every tick, select the pending rows that are not marked  *)
(* published, and publish then mark each of them.  The rows are read once  *)
(* per tick; what other services do to them meanwhile is not seen.         *)
(***************************************************************************)
EXTENDS Platform

WorkerRuns == link["worker"] # "down"

Unpublished == {i \in Ids : status[i] = "pending" /\ i \notin published}

(* The oldest BatchLimit rows.  Ages are not modelled: any BatchLimit rows *)
(* may be the oldest ones.                                                 *)
Poll ==
  /\ WorkerRuns
  /\ wkBatch = {}
  /\ wkMark = NoMessage
  /\ wkBatch' \in SUBSET Unpublished
  /\ Cardinality(wkBatch') <= BatchLimit
  /\ wkBatch' = Unpublished \/ Cardinality(wkBatch') = BatchLimit
  /\ UNCHANGED <<database, broker, link, handlers, gateway, wkMark, faults, ops,
                 requeued>>

(* On an error the loop goes on to the next row; this one stays unmarked   *)
(* and is selected again on a later tick.                                  *)
WorkerPublish_MarksAnyway(i) ==
  /\ wkMark = NoMessage
  /\ i \in wkBatch
  /\ wkBatch' = wkBatch \ {i}
  /\ Publish("worker", Route["wkSend"], Fresh(i))
  /\ wkMark' = i
  /\ UNCHANGED <<database, dlq, bound, link, handlers, gateway, faults, ops, requeued>>

WorkerPublish(i) ==
  /\ wkMark = NoMessage
  /\ i \in wkBatch
  /\ wkBatch' = wkBatch \ {i}
  /\ Publish("worker", Route["wkSend"], Fresh(i))
  /\ wkMark' = IF PublishSucceeds("worker") THEN i ELSE NoMessage
  /\ UNCHANGED <<database, dlq, bound, link, handlers, gateway, faults, ops, requeued>>

(* The publish is written to a socket whose other end is gone: it returns  *)
(* nil, and the connection is found broken only afterwards.                *)
WorkerPublishVanishes(i) ==
  /\ link["worker"] = "up"
  /\ wkMark = NoMessage
  /\ i \in wkBatch
  /\ Fault("vanish")
  /\ wkBatch' = wkBatch \ {i}
  /\ wkMark' = i
  /\ link' = [link EXCEPT !["worker"] = "lost"]
  /\ UNCHANGED <<database, broker, handlers, gateway, ops, requeued>>

WorkerMark ==
  /\ wkMark # NoMessage
  /\ \E o \in Outcomes :
       /\ Statement(o)
       /\ published' = IF TakesEffect(o) THEN published \cup {wkMark} ELSE published
  /\ wkMark' = NoMessage
  /\ UNCHANGED <<status, canonical, trail, audit, broker, link, handlers, gateway,
                 wkBatch, ops, requeued>>

(* Ten seconds into a tick its context expires and the cursor ends.        *)
BatchTimeout ==
  /\ wkBatch # {}
  /\ wkMark = NoMessage
  /\ Fault("db")
  /\ wkBatch' = {}
  /\ UNCHANGED <<database, broker, link, handlers, gateway, wkMark, ops, requeued>>

WorkerNext ==
  \/ Poll \/ WorkerMark \/ BatchTimeout
  \/ \E i \in Ids : WorkerPublish(i) \/ WorkerPublishVanishes(i)

WorkerStops == wkBatch' = {} /\ wkMark' = NoMessage
=============================================================================
