------------------------------- MODULE Sender -------------------------------
(***************************************************************************)
(* cmd/sender: consume the send queue, mark the row sent, forward the      *)
(* document to the receive queue, acknowledge.  The handler is one         *)
(* goroutine; a step below ends at each effect other processes can see.    *)
(***************************************************************************)
EXTENDS Platform

Sn == "sender"

SenderTake ==
  /\ Take(Sn, "fail", "update")
  /\ UNCHANGED <<database, dlq, bound, link, gateway, worker, faults, ops, requeued>>

(* The audit record is given the id "<message id>-validation-failed",      *)
(* which is no UUID; both errors are ignored.                              *)
SenderFail ==
  /\ pc[Sn] = "fail"
  /\ \E o \in Outcomes :
       /\ Statement(o)
       /\ Record(hand[Sn].id, "validation_failed", FALSE, "ok")
       /\ UpdateStatus(hand[Sn].id, "failed", o)
  /\ Goto(Sn, "ack")
  /\ UNCHANGED <<published, canonical, broker, link, gateway, worker, ops, requeued>>

(* No row: acknowledge, which drops the document.  Any other error: retry  *)
(* or dead-letter.                                                         *)
SenderUpdate_IgnoresError == UpdateThen(Sn, "sent", "record", "ack")
SenderUpdate_IgnoresNotFound == UpdateThen(Sn, "sent", RetryOrDlq(Sn), "record")

SenderUpdate == UpdateThen(Sn, "sent", RetryOrDlq(Sn), "ack")

(* Again an id that is no UUID ("<message id>-sent"), the error ignored.   *)
SenderRecord ==
  /\ pc[Sn] = "record"
  /\ Record(hand[Sn].id, "message_sent", FALSE, "ok")
  /\ Goto(Sn, "publish")
  /\ UNCHANGED <<status, published, canonical, trail, broker, link, gateway, worker,
                 faults, ops, requeued>>

(* What is forwarded starts with a fresh retry header.                     *)
SenderPublish ==
  /\ pc[Sn] = "publish"
  /\ Publish(Sn, Route["snRecv"], Fresh(hand[Sn].id))
  /\ Goto(Sn, IF PublishSucceeds(Sn) THEN "ack" ELSE RetryOrDlq(Sn))
  /\ UNCHANGED <<database, dlq, bound, link, gateway, worker, faults, ops, requeued>>

SenderRequeue == NackRequeue(Sn)

SenderDlq == DeadLetter(Sn, "ack")

SenderAck ==
  /\ pc[Sn] = "ack"
  /\ Release(Sn)
  /\ UNCHANGED <<database, broker, link, gateway, worker, faults, ops, requeued>>

SenderHandler ==
  \/ SenderFail \/ SenderUpdate \/ SenderRecord \/ SenderPublish
  \/ SenderRequeue \/ SenderDlq \/ SenderAck

SenderNext == SenderTake \/ SenderHandler
=============================================================================
