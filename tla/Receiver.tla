------------------------------ MODULE Receiver ------------------------------
(***************************************************************************)
(* cmd/receiver: consume the receive queue, mark the row received, audit   *)
(* it, acknowledge, and only then look for a mapping and ask for the       *)
(* transformation.                                                         *)
(***************************************************************************)
EXTENDS Platform

Rv == "receiver"

ReceiverTake ==
  /\ Take(Rv, "reject", "update")
  /\ UNCHANGED <<database, dlq, bound, link, gateway, worker, faults, ops, requeued>>

(* Unlike the sender, it leaves the status alone.                          *)
ReceiverReject ==
  /\ pc[Rv] = "reject"
  /\ \E o \in Outcomes :
       Statement(o) /\ Record(hand[Rv].id, "validation_failed", TRUE, o)
  /\ Goto(Rv, "drop")
  /\ UNCHANGED <<status, published, canonical, trail, broker, link, gateway, worker,
                 ops, requeued>>

ReceiverUpdate_IgnoresError == UpdateThen(Rv, "received", "record", "drop")
ReceiverUpdate_DropsOnError == UpdateThen(Rv, "received", "drop", "drop")

ReceiverUpdate == UpdateThen(Rv, "received", RetryOrDlq(Rv), "drop")

ReceiverRecord ==
  /\ pc[Rv] = "record"
  /\ \E o \in Outcomes :
       Statement(o) /\ Record(hand[Rv].id, "message_received", TRUE, o)
  /\ Goto(Rv, "ack")
  /\ UNCHANGED <<status, published, canonical, trail, broker, link, gateway, worker,
                 ops, requeued>>

(* Acknowledged: from here on a crash loses the transformation.            *)
ReceiverAck ==
  /\ pc[Rv] = "ack"
  /\ Goto(Rv, "lookup")
  /\ UNCHANGED <<database, broker, link, gateway, worker, faults, ops, requeued>>

(* The first active mapping for the format, none, or an error: which, is   *)
(* up to the mappings table.                                               *)
ReceiverLookup ==
  /\ pc[Rv] = "lookup"
  /\ Goto(Rv, "trigger") \/ Release(Rv)
  /\ UNCHANGED <<database, broker, link, gateway, worker, faults, ops, requeued>>

ReceiverTrigger ==
  /\ pc[Rv] = "trigger"
  /\ Publish(Rv, Route["rvTf"], Fresh(hand[Rv].id))
  /\ Release(Rv)
  /\ UNCHANGED <<database, dlq, bound, link, gateway, worker, faults, ops, requeued>>

ReceiverRequeue == NackRequeue(Rv)

ReceiverDlq == DeadLetter(Rv, "drop")

(* Acknowledge and go straight on to the next delivery.                    *)
ReceiverDrop ==
  /\ pc[Rv] = "drop"
  /\ Release(Rv)
  /\ UNCHANGED <<database, broker, link, gateway, worker, faults, ops, requeued>>

ReceiverHandler ==
  \/ ReceiverReject \/ ReceiverUpdate \/ ReceiverRecord \/ ReceiverAck
  \/ ReceiverLookup \/ ReceiverTrigger
  \/ ReceiverRequeue \/ ReceiverDlq \/ ReceiverDrop

ReceiverNext == ReceiverTake \/ ReceiverHandler
=============================================================================
