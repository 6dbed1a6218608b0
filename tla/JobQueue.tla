------------------------------ MODULE JobQueue ------------------------------
(***************************************************************************)
(* What the table llm_jobs promises its clients: claims take the submitted *)
(* jobs by age, each at most once, and what is over stays over.  A claim   *)
(* passes over a job older than the one it takes only if another claim had *)
(* that one in hand, or took it, since the first began.                    *)
(***************************************************************************)
EXTENDS Naturals

CONSTANTS Jobs, Claims, NoJob

VARIABLES
  stamp,    \* when a job was dated, which may be long before it is submitted
  waiting,  \* the submitted jobs nobody has taken
  sight,    \* for each claim, the jobs it found waiting and may still take
  hand,     \* the job it has in hand: nobody else can take that one
  taken,    \* the jobs being worked on
  over      \* the jobs with an outcome

jobQueueVars == <<stamp, waiting, sight, hand, taken, over>>

Known == waiting \cup taken \cup over

Init ==
  /\ stamp \in [Jobs -> Nat]
  /\ waiting = {} /\ taken = {} /\ over = {}
  /\ sight = [c \in Claims |-> {}]
  /\ hand = [c \in Claims |-> NoJob]

(* No job is dated before one that was dated earlier.                      *)
Date(j) ==
  /\ j \notin Known
  /\ stamp' \in [Jobs -> Nat]
  /\ \A k \in Jobs : stamp[k] <= stamp'[j] /\ (k # j => stamp'[k] = stamp[k])
  /\ UNCHANGED <<waiting, sight, hand, taken, over>>

Submit(j) ==
  /\ j \notin Known
  /\ waiting' = waiting \cup {j}
  /\ UNCHANGED <<stamp, sight, hand, taken, over>>

Look(c) ==
  /\ hand[c] = NoJob
  /\ sight' = [sight EXCEPT ![c] = waiting]
  /\ UNCHANGED <<stamp, waiting, hand, taken, over>>

Available(j) == j \in waiting /\ \A c \in Claims : hand[c] # j

Pass(c, j) ==
  /\ j \in sight[c]
  /\ ~Available(j)
  /\ sight' = [sight EXCEPT ![c] = @ \ {j}]
  /\ UNCHANGED <<stamp, waiting, hand, taken, over>>

Hold(c, j) ==
  /\ j \in sight[c]
  /\ Available(j)
  /\ \A k \in sight[c] : stamp[j] <= stamp[k]
  /\ sight' = [sight EXCEPT ![c] = {}]
  /\ hand' = [hand EXCEPT ![c] = j]
  /\ UNCHANGED <<stamp, waiting, taken, over>>

GiveUp(c) ==
  /\ sight' = [sight EXCEPT ![c] = {}]
  /\ hand' = [hand EXCEPT ![c] = NoJob]
  /\ UNCHANGED <<stamp, waiting, taken, over>>

Take(c) ==
  /\ hand[c] # NoJob
  /\ waiting' = waiting \ {hand[c]}
  /\ taken' = taken \cup {hand[c]}
  /\ hand' = [hand EXCEPT ![c] = NoJob]
  /\ UNCHANGED <<stamp, sight, over>>

End(j) ==
  /\ j \in taken
  /\ taken' = taken \ {j}
  /\ over' = over \cup {j}
  /\ UNCHANGED <<stamp, waiting, sight, hand>>

Next ==
  \/ \E j \in Jobs : Date(j) \/ Submit(j) \/ End(j)
  \/ \E c \in Claims :
       \/ Look(c) \/ GiveUp(c) \/ Take(c)
       \/ \E j \in Jobs : Pass(c, j) \/ Hold(c, j)

Spec == Init /\ [][Next]_jobQueueVars
=============================================================================
