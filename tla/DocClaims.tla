----------------------------- MODULE DocClaims ------------------------------
(***************************************************************************)
(* What the repository's documents say of the pipeline and its code does   *)
(* not do.  Each is refuted by a run of its own.                           *)
(***************************************************************************)
EXTENDS Pipeline

(* RetryBudget: "Max retry attempts before DLQ" (docs/Phase 3 line 89):    *)
(* a message a consumer keeps failing on is requeued MaxRetries times at   *)
(* most.  Requeueing leaves x-retry-count at 0, so it is requeued for ever *)
(* (cmd/sender main.go:166-173).                                           *)
RetryBudget ==
  \A s \in {"sender", "receiver"}, m \in Messages : requeued[s][m] <= MaxRetries

(* ReceivedIsFinal: in the state diagrams of docs/Phase 3 (line 45) and    *)
(* docs/Phase 5 (lines 329-331) nothing leads from received back to sent.  *)
(* The gateway and the worker both publish a new message, and the sender   *)
(* does not look at the status it overwrites (cmd/sender main.go:158).     *)
ReceivedIsFinal ==
  [][\A i \in Ids : status[i] = "received" =>
       status'[i] \in {"received", "processed", "transformed"}]_vars

(* DlqRetryRequeues: "Re-queue a DLQ message" (docs/Phase 3 line 116): a   *)
(* retry whose publish returns no error leaves a copy on the queue the     *)
(* sender consumes (cmd/api-gateway main.go:541).                          *)
DlqRetryRequeues ==
  [][\A i \in Ids : RetryPublish(i) /\ PublishSucceeds("gateway")
       => Waiting(Route["snSend"], i)']_vars
=============================================================================
