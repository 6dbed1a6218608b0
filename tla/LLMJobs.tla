------------------------------ MODULE LLMJobs -------------------------------
(***************************************************************************)
(* cmd/llm-service: POST /jobs inserts a job after looking for one it      *)
(* could answer with instead; a background worker in each process claims   *)
(* the oldest pending job no other claim has locked, runs the model and    *)
(* writes the outcome.                                                     *)
(***************************************************************************)
EXTENDS Naturals, FiniteSets

CONSTANTS
  Jobs,        \* job ids: each insert takes a fresh uuid
  Subjects,    \* the (type, input_ref) pairs clients ask about
  Undeduped,   \* those of type health_insight, or without an input_ref
  Requests,    \* bound: the POST /jobs requests of one behaviour
  Processes,   \* running instances of the service
  NoJob,
  Ticks,       \* how far the clock may move from one insert to the next; if 0
               \* is among them two rows may have one created_at
  FaultKinds,  \* "db": a statement fails; "late": it commits but errs; "crash"
  MaxFaults    \* bound: how many faults strike in one behaviour

ASSUME JobAssumption ==
  /\ NoJob \notin Jobs
  /\ Ticks \subseteq Nat
  /\ Cardinality(Jobs) >= Cardinality(Requests)
  /\ Subjects # {} /\ Undeduped \subseteq Subjects
  /\ MaxFaults \in Nat

JobStatuses == {"pending", "running", "done", "error", "timeout"}
Terminal == {"done", "error", "timeout"}

VARIABLES
  jobStatus,   \* llm_jobs.status, "none" while there is no row
  subject,     \* llm_jobs.(type, input_ref); any value while there is no row
  created_at,  \* llm_jobs.created_at, of a row yet to be committed too
  clock,       \* now() in Postgres
  request,     \* handler of POST /jobs: "new", "insert", "done"
  about,       \* the subject a request is about
  inserting,   \* the row of the INSERT it has under way
  answer,      \* the job id it was answered with
  looked,      \* history: the rows it saw when it looked for one to reuse
  seen,        \* the pending rows a claim under way has yet to try, as they
               \* were when its statement began
  held,        \* the row it has locked
  claimed,     \* the job a process's worker is running
  verdict,     \* the status it is about to write, "none" while inferring
  faults

table == <<jobStatus, subject, created_at, clock>>
clients == <<request, about, inserting, answer, looked>>
claims == <<seen, held>>
workers == <<claims, claimed, verdict>>
jobVars == <<table, clients, workers, faults>>

Fault(kind) ==
  /\ kind \in FaultKinds
  /\ faults < MaxFaults
  /\ faults' = faults + 1

Outcomes == {"ok", "fail", "late"}

Statement(o) ==
  \/ o = "ok" /\ UNCHANGED faults
  \/ o = "fail" /\ Fault("db")
  \/ o = "late" /\ Fault("late")

Init ==
  /\ jobStatus = [j \in Jobs |-> "none"]
  /\ subject = [j \in Jobs |-> CHOOSE s \in Subjects : TRUE]
  /\ created_at = [j \in Jobs |-> 0]
  /\ clock = 0
  /\ request = [r \in Requests |-> "new"]
  /\ about \in [Requests -> Subjects]
  /\ inserting = [r \in Requests |-> NoJob]
  /\ answer = [r \in Requests |-> NoJob]
  /\ looked = [r \in Requests |-> {}]
  /\ seen = [p \in Processes |-> {}]
  /\ held = [p \in Processes |-> NoJob]
  /\ claimed = [p \in Processes |-> NoJob]
  /\ verdict = [p \in Processes |-> "none"]
  /\ faults = 0

-----------------------------------------------------------------------------
Row(j) == jobStatus[j] # "none"

Reusable_OfAnyInput(s) == {j \in Jobs : jobStatus[j] \in {"pending", "running", "done"}}

Reusable_NotRunning(s) ==
  {j \in Jobs : subject[j] = s /\ jobStatus[j] \in {"pending", "done"}}

Reusable(s) ==
  {j \in Jobs : subject[j] = s /\ jobStatus[j] \in {"pending", "running", "done"}}

(* ORDER BY created_at DESC LIMIT 1; ORDER BY created_at LIMIT 1           *)
Newest(j, S) == j \in S /\ \A k \in S : created_at[k] <= created_at[j]

Oldest(j, S) == j \in S /\ \A k \in S : created_at[j] <= created_at[k]

(* The dedup query.  When it fails for whatever reason the handler goes on *)
(* to insert, as it does when there is no such job.                        *)
Deduplicate(r) ==
  /\ request[r] = "new"
  /\ \E o \in {"ok", "fail"} :
       /\ Statement(o)
       /\ IF o = "ok" /\ about[r] \notin Undeduped /\ Reusable(about[r]) # {}
            THEN /\ \E j \in Jobs : /\ Newest(j, Reusable(about[r]))
                                     /\ answer' = [answer EXCEPT ![r] = j]
                 /\ request' = [request EXCEPT ![r] = "done"]
                 /\ UNCHANGED looked
            ELSE /\ request' = [request EXCEPT ![r] = "insert"]
                 /\ looked' = [looked EXCEPT ![r] =
                      IF o = "ok" THEN {j \in Jobs : Row(j)} ELSE {}]
                 /\ UNCHANGED answer
  /\ UNCHANGED <<table, about, inserting, workers>>

(* uuid.New(): which unused id it is makes no difference.                  *)
Unused == {j \in Jobs : ~Row(j) /\ \A r \in Requests : inserting[r] # j}

(* created_at is now() as the statement begins; nobody sees the row before *)
(* it is committed, and rows need not be committed in the order they were  *)
(* dated.                                                                  *)
StartInsert(r) ==
  /\ request[r] = "insert"
  /\ inserting[r] = NoJob
  /\ Unused # {}
  /\ LET j == CHOOSE j \in Unused : TRUE
     IN \E now \in {clock + t : t \in Ticks} :
          /\ inserting' = [inserting EXCEPT ![r] = j]
          /\ created_at' = [created_at EXCEPT ![j] = now]
          /\ clock' = now
  /\ UNCHANGED <<jobStatus, subject, request, about, answer, looked, workers, faults>>

(* It runs on the request's context: a client that goes away, or a process *)
(* that dies, cancels it, before or after it takes effect.                 *)
EndInsert(r) ==
  /\ inserting[r] # NoJob
  /\ LET j == inserting[r]
     IN \E o \in Outcomes :
          IF o = "fail"
            THEN UNCHANGED <<jobStatus, subject, answer>>
            ELSE /\ jobStatus' = [jobStatus EXCEPT ![j] = "pending"]
                 /\ subject' = [subject EXCEPT ![j] = about[r]]
                 /\ answer' = IF o = "ok" THEN [answer EXCEPT ![r] = j] ELSE answer
  /\ inserting' = [inserting EXCEPT ![r] = NoJob]
  /\ request' = [request EXCEPT ![r] = "done"]
  /\ looked' = [looked EXCEPT ![r] = {}]
  /\ UNCHANGED <<created_at, clock, about, workers, faults>>

-----------------------------------------------------------------------------
Pending == {j \in Jobs : jobStatus[j] = "pending"}

Free_OfStatus(j) == j \in Pending

(* No other claim has the row locked, and it still is as it was seen.      *)
Free(j) == j \in Pending /\ \A p \in Processes : held[p] # j

(* A claim is one statement that selects a job, marks it and returns it.   *)
(* It tries the rows that were pending when it began, the oldest first.    *)
StartClaim(p) ==
  /\ claimed[p] = NoJob /\ held[p] = NoJob /\ seen[p] = {}
  /\ seen' = [seen EXCEPT ![p] = Pending]
  /\ UNCHANGED <<table, clients, held, claimed, verdict, faults>>

(* FOR UPDATE SKIP LOCKED *)
SkipLocked(p) ==
  /\ \E j \in Jobs :
       /\ Oldest(j, seen[p])
       /\ ~Free(j)
       /\ seen' = [seen EXCEPT ![p] = @ \ {j}]
  /\ UNCHANGED <<table, clients, held, claimed, verdict, faults>>

LockOldest(p) ==
  /\ \E j \in Jobs :
       /\ Oldest(j, seen[p])
       /\ Free(j)
       /\ held' = [held EXCEPT ![p] = j]
  /\ seen' = [seen EXCEPT ![p] = {}]
  /\ UNCHANGED <<table, clients, claimed, verdict, faults>>

(* Should only the answer be lost, the job is running and nobody runs it.  *)
EndClaim(p) ==
  /\ held[p] # NoJob
  /\ \E o \in Outcomes :
       /\ Statement(o)
       /\ jobStatus' = IF o = "fail" THEN jobStatus
                       ELSE [jobStatus EXCEPT ![held[p]] = "running"]
       /\ claimed' = IF o = "ok" THEN [claimed EXCEPT ![p] = held[p]] ELSE claimed
  /\ held' = [held EXCEPT ![p] = NoJob]
  /\ UNCHANGED <<subject, created_at, clock, clients, seen, verdict>>

ClaimFails(p) ==
  /\ seen[p] # {}
  /\ Statement("fail")
  /\ seen' = [seen EXCEPT ![p] = {}]
  /\ UNCHANGED <<table, clients, held, claimed, verdict>>

Claim(p) == StartClaim(p) \/ SkipLocked(p) \/ LockOldest(p) \/ EndClaim(p) \/ ClaimFails(p)

(* The tool loop with the model: an answer, an error, or the deadline of   *)
(* 120 seconds.                                                            *)
Infer(p) ==
  /\ claimed[p] # NoJob
  /\ verdict[p] = "none"
  /\ \E v \in Terminal : verdict' = [verdict EXCEPT ![p] = v]
  /\ UNCHANGED <<table, clients, claims, claimed, faults>>

(* The error of the closing update is ignored.                             *)
Finish_KeepsVerdict(p) ==
  /\ verdict[p] # "none"
  /\ \E o \in Outcomes :
       /\ Statement(o)
       /\ jobStatus' = IF o = "fail" THEN jobStatus
                       ELSE [jobStatus EXCEPT ![claimed[p]] = verdict[p]]
  /\ claimed' = [claimed EXCEPT ![p] = NoJob]
  /\ UNCHANGED <<subject, created_at, clock, clients, claims, verdict>>

Finish(p) ==
  /\ verdict[p] # "none"
  /\ \E o \in Outcomes :
       /\ Statement(o)
       /\ jobStatus' = IF o = "fail" THEN jobStatus
                       ELSE [jobStatus EXCEPT ![claimed[p]] = verdict[p]]
  /\ claimed' = [claimed EXCEPT ![p] = NoJob]
  /\ verdict' = [verdict EXCEPT ![p] = "none"]
  /\ UNCHANGED <<subject, created_at, clock, clients, claims>>

(* The process dies and is restarted.  A claim it had under way takes      *)
(* effect or is rolled back; what it had claimed stays marked running: no  *)
(* start-up code looks for such rows.                                      *)
Crash(p) ==
  /\ Fault("crash")
  /\ \/ UNCHANGED jobStatus
     \/ /\ held[p] # NoJob
        /\ jobStatus' = [jobStatus EXCEPT ![held[p]] = "running"]
  /\ seen' = [seen EXCEPT ![p] = {}]
  /\ held' = [held EXCEPT ![p] = NoJob]
  /\ claimed' = [claimed EXCEPT ![p] = NoJob]
  /\ verdict' = [verdict EXCEPT ![p] = "none"]
  /\ UNCHANGED <<subject, created_at, clock, clients>>

Next ==
  \/ \E r \in Requests : Deduplicate(r) \/ StartInsert(r) \/ EndInsert(r)
  \/ \E p \in Processes : Claim(p) \/ Infer(p) \/ Finish(p) \/ Crash(p)

Spec == Init /\ [][Next]_jobVars

(* The ticker of each worker, and more than the code guarantees: every     *)
(* statement and every inference comes to an end.                          *)
Fairness == \A p \in Processes : WF_jobVars(Claim(p) \/ Infer(p) \/ Finish(p))

FairSpec == Spec /\ Fairness

-----------------------------------------------------------------------------
(* Every variable has its type, an insert under way has a row of its own,  *)
(* and a worker does one thing at a time: it claims or runs a job, and its *)
(* verdict is about that job.                                              *)
TypeOK ==
  /\ jobStatus \in [Jobs -> JobStatuses \cup {"none"}]
  /\ subject \in [Jobs -> Subjects]
  /\ clock \in Nat
  /\ created_at \in [Jobs -> 0..clock]
  /\ request \in [Requests -> {"new", "insert", "done"}]
  /\ about \in [Requests -> Subjects]
  /\ inserting \in [Requests -> Jobs \cup {NoJob}]
  /\ \A r, s \in Requests : inserting[r] # NoJob =>
       ~Row(inserting[r]) /\ (inserting[r] = inserting[s] => r = s)
  /\ answer \in [Requests -> Jobs \cup {NoJob}]
  /\ looked \in [Requests -> SUBSET Jobs]
  /\ seen \in [Processes -> SUBSET Jobs]
  /\ held \in [Processes -> Jobs \cup {NoJob}]
  /\ claimed \in [Processes -> Jobs \cup {NoJob}]
  /\ verdict \in [Processes -> Terminal \cup {"none"}]
  /\ \A p \in Processes :
       /\ held[p] # NoJob => seen[p] = {}
       /\ claimed[p] # NoJob => held[p] = NoJob /\ seen[p] = {}
       /\ verdict[p] # "none" => claimed[p] # NoJob
  /\ faults \in 0..MaxFaults

(* OneRunner: no two workers run one job, and one being run is marked      *)
(* running; no two claims have one job locked, and one locked is pending:  *)
(* FOR UPDATE SKIP LOCKED, and a job's status looked at once more under    *)
(* the lock (main.go:180-199).                                             *)
OneRunner == \A p, q \in Processes :
  /\ claimed[p] # NoJob =>
       /\ jobStatus[claimed[p]] = "running"
       /\ claimed[p] = claimed[q] => p = q
  /\ held[p] # NoJob =>
       /\ jobStatus[held[p]] = "pending"
       /\ held[p] = held[q] => p = q

(* AnswersExist: a client is told the id of a job that is in the table and *)
(* is about what it asked (main.go:55-86).                                 *)
AnswersExist == \A r \in Requests :
  answer[r] # NoJob => Row(answer[r]) /\ subject[answer[r]] = about[r]

(* DuplicatesOnlyByOverlap: a job is started beside another that is still  *)
(* pending or running for the same question only when that one was         *)
(* committed after the new request had looked, or the look itself failed:   *)
(* check and insert are two statements (main.go:55-86; docs/Phase 7 line   *)
(* 216 has it "avoiding duplicate inference runs").                        *)
DuplicatesOnlyByOverlap ==
  [][\A r \in Requests : EndInsert(r) /\ about[r] \notin Undeduped =>
       \A j \in looked[r] : subject[j] = about[r] =>
         jobStatus[j] \notin {"pending", "running"}]_jobVars

(* The table implements the abstract job queue.                            *)
InState(S) == {j \in Jobs : jobStatus[j] \in S}

JQ == INSTANCE JobQueue WITH
        Claims <- Processes,
        stamp <- created_at,
        waiting <- Pending,
        sight <- seen,
        hand <- held,
        taken <- InState({"running"}),
        over <- InState(Terminal)

(* ImplementsJobQueue: whatever crashes or fails between the statements, a *)
(* claim takes the oldest job by created_at of those it found waiting, but *)
(* for those another claim had in hand or took meanwhile; each is taken at *)
(* most once, and an outcome is final (main.go:180-227).                   *)
ImplementsJobQueue == JQ!Spec

-----------------------------------------------------------------------------
(* EveryJobEnds: "Timeout: 120s per job" (docs/Phase 7 line 146): a job    *)
(* that was started ends as done, error or timeout.  One whose process     *)
(* died, or whose closing update failed, is running for ever.              *)
EveryJobEnds == \A j \in Jobs : jobStatus[j] = "running" ~> jobStatus[j] \in Terminal
=============================================================================
