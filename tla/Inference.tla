----------------------------- MODULE Inference ------------------------------
(***************************************************************************)
(* How a worker of the llm-service runs the job it has claimed: a loop of  *)
(* chats with the model, which may ask for tools in between, under a       *)
(* deadline of 120 seconds.  It refines the step LLMJobs calls Infer.      *)
(*                                                                         *)
(* The deadline travels with the chats only.  Tools are not told of it:    *)
(* Prometheus has a timeout of its own, but a query to the database lasts  *)
(* as long as the database lets it.  So does the update that closes a job. *)
(***************************************************************************)
EXTENDS LLMJobs

CONSTANTS
  MaxToolIterations,  \* chats in which the model may ask for tools (3 in the code)
  MaxCalls            \* bound: the tools it asks for in one reply

ASSUME LoopAssumption ==
  /\ MaxToolIterations \in Nat
  /\ MaxCalls \in Nat

VARIABLE loop   \* RunWithTools in each process

Loop == [at : {"idle", "asking", "tool", "hung", "failed"},
         round : 0..MaxToolIterations,   \* replies whose tools were run
         calls : 0..MaxCalls,            \* tools of the last reply still to run
         expired : BOOLEAN]              \* jobCtx is past its deadline, to be
                                         \* asked about by the loop or after it

Idle == [at |-> "idle", round |-> 0, calls |-> 0, expired |-> FALSE]

inferenceVars == <<jobVars, loop>>

SetLoop(p, l) == loop' = [loop EXCEPT ![p] = l]

InferenceInit == Init /\ loop = [p \in Processes |-> Idle]

(* The worker claims a job and begins to run it.                           *)
ClaimAndRun(p) ==
  /\ Claim(p)
  /\ IF claimed'[p] = NoJob THEN UNCHANGED loop
     ELSE SetLoop(p, [Idle EXCEPT !.at = "asking"])

(* RunWithTools returns, and the job has its outcome.                      *)
Conclude_Returns(p, v) ==
  /\ claimed' = [claimed EXCEPT ![p] = NoJob]
  /\ SetLoop(p, Idle)
  /\ UNCHANGED <<table, clients, claims, verdict, faults>>

Conclude(p, v) ==
  /\ verdict' = [verdict EXCEPT ![p] = v]
  /\ SetLoop(p, Idle)
  /\ UNCHANGED <<table, clients, claims, claimed, faults>>

(* The model answers in time.  It asks for n tools, or gives its text; in  *)
(* the last round no tool is offered and what it says is the text.  Every  *)
(* text makes a result: one that is no JSON is wrapped in some.            *)
Asking(p) == loop[p].at = "asking"

ChatReplies(p) ==
  /\ Asking(p)
  /\ ~loop[p].expired
  /\ \E n \in 0..MaxCalls :
       IF n = 0 \/ loop[p].round = MaxToolIterations
         THEN Conclude(p, "done")
         ELSE /\ SetLoop(p, [loop[p] EXCEPT !.at = "tool", !.round = @ + 1, !.calls = n])
              /\ UNCHANGED jobVars

(* Ollama cannot be reached, or answers with an error or with no JSON.     *)
ChatFails(p) ==
  /\ Asking(p)
  /\ SetLoop(p, [Idle EXCEPT !.at = "failed", !.expired = loop[p].expired])
  /\ UNCHANGED jobVars

(* PostChat's request carries the context: past the deadline it fails, be  *)
(* it new or under way.                                                    *)
ChatExpires_NoContext(p) == FALSE

ChatExpires(p) == loop[p].expired /\ ChatFails(p)

(* A result or an error, in both cases one more message to the model.      *)
ToolReturns(p) ==
  /\ loop[p].at = "tool"
  /\ SetLoop(p, IF loop[p].calls = 1
                  THEN [loop[p] EXCEPT !.at = "asking", !.calls = 0]
                  ELSE [loop[p] EXCEPT !.calls = @ - 1])
  /\ UNCHANGED jobVars

(* A query that the database never answers: QueryRow without a context.    *)
ToolHangs(p) ==
  /\ loop[p].at = "tool"
  /\ SetLoop(p, [Idle EXCEPT !.at = "hung"])
  /\ UNCHANGED jobVars

Deadline(p) ==
  /\ loop[p].at \notin {"idle", "hung"}
  /\ ~loop[p].expired
  /\ SetLoop(p, [loop[p] EXCEPT !.expired = TRUE])
  /\ UNCHANGED jobVars

(* processNextJob asks the context, not the error, what went wrong.        *)
JobFails(p) ==
  /\ loop[p].at = "failed"
  /\ Conclude(p, IF loop[p].expired THEN "timeout" ELSE "error")

(* The closing update that the database never answers: it runs on the      *)
(* worker's own context, which has no deadline.                            *)
UpdateHangs(p) ==
  /\ verdict[p] # "none"
  /\ SetLoop(p, [Idle EXCEPT !.at = "hung"])
  /\ UNCHANGED jobVars

Close(p) == Finish(p) /\ loop[p].at = "idle" /\ UNCHANGED loop

(* One goroutine runs the job and then looks for the next.                 *)
Work(p) == ClaimAndRun(p) \/ ToolReturns(p) \/ ChatExpires(p) \/ JobFails(p)
           \/ Close(p)

InferenceNext ==
  \/ \E r \in Requests : (Deduplicate(r) \/ StartInsert(r) \/ EndInsert(r)) /\ UNCHANGED loop
  \/ \E p \in Processes :
       \/ Work(p)
       \/ ChatReplies(p) \/ ChatFails(p) \/ ToolHangs(p) \/ UpdateHangs(p) \/ Deadline(p)
       \/ Crash(p) /\ SetLoop(p, Idle)

InferenceSpec == InferenceInit /\ [][InferenceNext]_inferenceVars

(* Go schedules the worker and fires its timers.  Neither the model nor    *)
(* the database owes an answer: a chat, a tool and the closing update may  *)
(* each last for ever, the first two steps to say so being ToolHangs and   *)
(* UpdateHangs.                                                            *)
InferenceFairSpec ==
  /\ InferenceSpec
  /\ \A p \in Processes : WF_inferenceVars(Work(p)) /\ WF_inferenceVars(Deadline(p))

-----------------------------------------------------------------------------
(* Every variable has its type, and the loop runs exactly while a claimed  *)
(* job has no verdict yet; what hangs is a tool or the closing update.     *)
InferenceTypeOK ==
  /\ TypeOK
  /\ loop \in [Processes -> Loop]
  /\ \A p \in Processes :
       /\ claimed[p] # NoJob /\ verdict[p] = "none" => loop[p].at # "idle"
       /\ loop[p].at # "idle" => claimed[p] # NoJob
       /\ loop[p].at \notin {"idle", "hung"} => verdict[p] = "none"
       /\ loop[p].at = "tool" => loop[p].calls > 0

(* ImplementsJobs: to the table and its clients the loop is one step that  *)
(* comes to a verdict (ollama.go:102-138, cmd/llm-service main.go:207-229).*)
ImplementsJobs == Spec

(* WorkersReturn: a worker is done with its job in the end, although the   *)
(* model may never answer: the deadline ends every chat and the rounds are *)
(* limited.  Only the database can keep it, and with it every job in the   *)
(* queue, for good: the deadline reaches neither the tools nor the closing *)
(* update (main.go:177, 207-226, tools.go:143-280).                        *)
WorkersReturn == \A p \in Processes :
  claimed[p] # NoJob ~> claimed[p] = NoJob \/ loop[p].at = "hung"
=============================================================================
