----------------------------- MODULE MCPipeline -----------------------------
(***************************************************************************)
(* Values for the constants of Pipeline: the deployments the repository    *)
(* describes, by the routing keys each configures.                         *)
(***************************************************************************)
EXTENDS DocClaims

AllServices == Services

(* A single feeder: what reaches the sender has exactly one copy.          *)
NoWorker == Services \ {"worker"}

(* internal/config/config.go lines 71-73: the defaults every service has.  *)
DefaultRoute ==
  [gwSend |-> "sender", wkSend |-> "sender", snSend |-> "sender",
   snRecv |-> "receiver", rvRecv |-> "receiver", rvTf |-> "transform",
   tfTf |-> "transform", tfSend |-> "sender"]

(* docker-compose.yml puts worker, sender and receiver on one queue,       *)
(* "messages", while the gateway keeps the default key, to which no queue  *)
(* is bound: what it publishes vanishes.  The file gives the transformer   *)
(* that key too (line 172), and its outputs would vanish likewise.  Here   *)
(* it has the queue that the diagrams of docs/Phase 5 draw for it (lines   *)
(* 111, 140 and 438), so that sender and receiver compete for its outputs  *)
(* as well and the receiver has something to reject.                       *)
ComposeRoute ==
  [gwSend |-> "sender", wkSend |-> "messages", snSend |-> "messages",
   snRecv |-> "messages", rvRecv |-> "messages", rvTf |-> "transform",
   tfTf |-> "transform", tfSend |-> "messages"]

DefaultKeys == {"sender", "receiver", "transform", "send"}
ComposeKeys == {"messages", "sender", "transform", "send"}
=============================================================================
