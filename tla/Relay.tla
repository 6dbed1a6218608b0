------------------------------- MODULE Relay --------------------------------
(***************************************************************************)
(* What the pipeline promises about a document, with no queue, retry or    *)
(* fault in sight: it is accepted, forwarded, arrives and is processed,    *)
(* one stage at a time, never twice and never backwards; and what was      *)
(* accepted arrives.                                                       *)
(***************************************************************************)
EXTENDS Integers

CONSTANT Ids

VARIABLE stage   \* 0: unknown; 1: accepted; 2: forwarded; 3: arrived; 4: processed

Init == stage = [i \in Ids |-> 0]

Reach(i, n) ==
  /\ stage[i] = n - 1
  /\ stage' = [stage EXCEPT ![i] = n]

Accept(i)  == Reach(i, 1)
Forward(i) == Reach(i, 2)
Arrive(i)  == Reach(i, 3)
Process(i) == Reach(i, 4)

Next == \E i \in Ids : Accept(i) \/ Forward(i) \/ Arrive(i) \/ Process(i)

Spec == Init /\ [][Next]_stage

(* Nobody has to send a document, nor to have a transformation for it.     *)
FairSpec == Spec /\ \A i \in Ids : WF_stage(Forward(i)) /\ WF_stage(Arrive(i))
=============================================================================
