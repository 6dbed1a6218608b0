---------------------------- MODULE Transformer -----------------------------
(***************************************************************************)
(* cmd/transformer: consume transform requests, transform the stored       *)
(* content in memory, update the row and publish the result as a new       *)
(* document on its send key.                                               *)
(***************************************************************************)
EXTENDS Platform

Tf == "transformer"

TransformerTake ==
  /\ Take(Tf, "fetch", "fetch")
  /\ UNCHANGED <<database, dlq, bound, link, gateway, worker, faults, ops, requeued>>

(* GetByID, then engine.Transform.  A read that fails for any reason drops *)
(* the request; a failed transformation is audited first.  The target      *)
(* format is the mapping's, so any request may name one no codec has.      *)
TransformerFetch ==
  /\ pc[Tf] = "fetch"
  /\ \E o \in {"ok", "fail"} :
       /\ Statement(o)
       /\ IF o = "fail" \/ ~Stored(hand[Tf].id)
            THEN Goto(Tf, "drop")
            ELSE \/ Goto(Tf, "failed")
                 \/ hand[Tf].id \notin Undecodable /\ Goto(Tf, "metadata")
  /\ UNCHANGED <<database, broker, link, gateway, worker, ops, requeued>>

(* The error's text is spliced into the details unescaped: when it holds a *)
(* quote, as the one about an unknown format does, they are no JSON.       *)
TransformerFailed ==
  /\ pc[Tf] = "failed"
  /\ \E o \in Outcomes, unquoted \in BOOLEAN :
       Statement(o) /\ Record(hand[Tf].id, "transformation_failed", unquoted, o)
  /\ Goto(Tf, "drop")
  /\ UNCHANGED <<status, published, canonical, trail, broker, link, gateway, worker,
                 ops, requeued>>

TransformerMetadata ==
  /\ pc[Tf] = "metadata"
  /\ \E o \in Outcomes : Statement(o) /\ UpdateMetadata(hand[Tf].id, o)
  /\ Goto(Tf, "update")
  /\ UNCHANGED <<status, published, trail, audit, broker, link, gateway, worker, ops,
                 requeued>>

TransformerUpdate ==
  /\ pc[Tf] = "update"
  /\ \E o \in Outcomes :
       Statement(o) /\ UpdateStatus(hand[Tf].id, "processed", o)
  /\ Goto(Tf, "record")
  /\ UNCHANGED <<published, canonical, audit, broker, link, gateway, worker, ops,
                 requeued>>

TransformerRecord ==
  /\ pc[Tf] = "record"
  /\ \E o \in Outcomes :
       Statement(o) /\ Record(hand[Tf].id, "transformation_complete", TRUE, o)
  /\ Goto(Tf, "publish")
  /\ UNCHANGED <<status, published, canonical, trail, broker, link, gateway, worker,
                 ops, requeued>>

(* The output is a message with a new uuid and status pending, but it is   *)
(* only published: no row is inserted for it.                              *)
TransformerPublish ==
  /\ pc[Tf] = "publish"
  /\ \E out \in Outputs : Publish(Tf, Route["tfSend"], Fresh(out))
  /\ Goto(Tf, "drop")
  /\ UNCHANGED <<database, dlq, bound, link, gateway, worker, faults, ops, requeued>>

(* Ack after a transformation, Nack without requeue after a failure: the   *)
(* transform queue has no dead letter queue, so both end the delivery.     *)
TransformerDrop ==
  /\ pc[Tf] = "drop"
  /\ Release(Tf)
  /\ UNCHANGED <<database, broker, link, gateway, worker, faults, ops, requeued>>

TransformerHandler ==
  \/ TransformerFetch \/ TransformerFailed \/ TransformerMetadata
  \/ TransformerUpdate \/ TransformerRecord \/ TransformerPublish \/ TransformerDrop

TransformerNext == TransformerTake \/ TransformerHandler
=============================================================================
