----------------------------- MODULE LLMProofs ------------------------------
(***************************************************************************)
(* The job table of the llm-service for any number of jobs, requests,      *)
(* processes and faults: types, one runner per job, answers that exist,    *)
(* duplicates only by overlap, claims by age; and the tool loop as a       *)
(* refinement of the step that comes to a verdict.                         *)
(***************************************************************************)
EXTENDS Inference, TLAPS

(* A statement, like any fault, leaves the count within its bound.         *)
LEMMA FaultsCounted ==
  ASSUME TypeOK
  PROVE  /\ \A o : Statement(o) => faults' \in 0..MaxFaults
         /\ \A kind : Fault(kind) => faults' \in 0..MaxFaults
BY JobAssumption DEF TypeOK, Statement, Fault

-----------------------------------------------------------------------------
(* Every step keeps every type.                                            *)
LEMMA TypeInitially == Init => TypeOK
<1> SUFFICES ASSUME Init PROVE TypeOK
  OBVIOUS
<1>1. (CHOOSE s \in Subjects : TRUE) \in Subjects
  BY JobAssumption
<1>2. subject \in [Jobs -> Subjects]
  BY <1>1 DEF Init
<1>3. clock \in Nat /\ created_at \in [Jobs -> 0..clock]
  BY DEF Init
<1>4. \A p \in Processes : verdict[p] = "none" /\ held[p] = NoJob /\ claimed[p] = NoJob
  BY DEF Init
<1>5. \A r \in Requests : inserting[r] = NoJob
  BY DEF Init
<1> QED
  BY <1>2, <1>3, <1>4, <1>5, JobAssumption DEF Init, TypeOK, Terminal

LEMMA DeduplicateType ==
  ASSUME TypeOK, NEW r \in Requests, Deduplicate(r)
  PROVE  TypeOK'
<1>1. PICK o \in {"ok", "fail"} :
        /\ Statement(o)
        /\ IF o = "ok" /\ about[r] \notin Undeduped /\ Reusable(about[r]) # {}
             THEN /\ \E j \in Jobs : /\ Newest(j, Reusable(about[r]))
                                      /\ answer' = [answer EXCEPT ![r] = j]
                  /\ request' = [request EXCEPT ![r] = "done"]
                  /\ UNCHANGED looked
             ELSE /\ request' = [request EXCEPT ![r] = "insert"]
                  /\ looked' = [looked EXCEPT ![r] =
                       IF o = "ok" THEN {j \in Jobs : Row(j)} ELSE {}]
                  /\ UNCHANGED answer
  BY DEF Deduplicate
<1>2. faults' \in 0..MaxFaults
  BY <1>1, FaultsCounted
<1>3. /\ request' \in [Requests -> {"new", "insert", "done"}]
      /\ answer' \in [Requests -> Jobs \cup {NoJob}]
  BY <1>1 DEF TypeOK
<1>4. looked' \in [Requests -> SUBSET Jobs]
  BY <1>1 DEF TypeOK
<1> QED
  BY <1>2, <1>3, <1>4 DEF TypeOK, Deduplicate, Row, table, workers, claims

(* The rows of the inserts under way stay apart from one another and from  *)
(* those of the table.                                                     *)
LEMMA StartInsertType ==
  ASSUME TypeOK, NEW r \in Requests, StartInsert(r)
  PROVE  TypeOK'
<1> DEFINE i == CHOOSE j \in Unused : TRUE
<1>1. /\ Unused # {}
      /\ inserting' = [inserting EXCEPT ![r] = i]
      /\ \E now \in {clock + t : t \in Ticks} :
           created_at' = [created_at EXCEPT ![i] = now] /\ clock' = now
  BY DEF StartInsert
<1>2. i \in Unused
  BY <1>1
<1>3. i \in Jobs /\ ~Row(i) /\ \A s \in Requests : inserting[s] # i
  BY <1>2 DEF Unused
<1> HIDE DEF i
<1>4. clock' \in Nat /\ clock <= clock'
  <2>1. PICK t \in Ticks : clock' = clock + t
    BY <1>1
  <2>2. t \in Nat /\ clock \in Nat
    BY JobAssumption DEF TypeOK
  <2> QED
    BY <2>1, <2>2
<1>5. created_at' \in [Jobs -> 0..clock']
  BY <1>1, <1>3, <1>4 DEF TypeOK
<1>6. inserting' \in [Requests -> Jobs \cup {NoJob}]
  BY <1>1, <1>3 DEF TypeOK
<1>7. \A q, s \in Requests : inserting'[q] # NoJob =>
        ~Row(inserting'[q]) /\ (inserting'[q] = inserting'[s] => q = s)
  BY <1>1, <1>3 DEF TypeOK
<1> QED
  BY <1>4, <1>5, <1>6, <1>7 DEF TypeOK, StartInsert, Row, workers, claims

LEMMA EndInsertType ==
  ASSUME TypeOK, NEW r \in Requests, EndInsert(r)
  PROVE  TypeOK'
<1> DEFINE i == inserting[r]
<1>1. PICK o \in Outcomes :
        IF o = "fail"
          THEN UNCHANGED <<jobStatus, subject, answer>>
          ELSE /\ jobStatus' = [jobStatus EXCEPT ![i] = "pending"]
               /\ subject' = [subject EXCEPT ![i] = about[r]]
               /\ answer' = IF o = "ok" THEN [answer EXCEPT ![r] = i] ELSE answer
  BY DEF EndInsert
<1>2. i \in Jobs
  BY DEF TypeOK, EndInsert
<1>3. jobStatus' \in [Jobs -> JobStatuses \cup {"none"}]
  BY <1>1, <1>2 DEF TypeOK, JobStatuses
<1>4. subject' \in [Jobs -> Subjects]
  BY <1>1, <1>2 DEF TypeOK
<1>5. answer' \in [Requests -> Jobs \cup {NoJob}]
  BY <1>1, <1>2 DEF TypeOK
<1>6. /\ request' \in [Requests -> {"new", "insert", "done"}]
      /\ looked' \in [Requests -> SUBSET Jobs]
      /\ inserting' \in [Requests -> Jobs \cup {NoJob}]
  BY DEF TypeOK, EndInsert
<1>7. \A q, s \in Requests : inserting'[q] # NoJob =>
        jobStatus'[inserting'[q]] = "none" /\ (inserting'[q] = inserting'[s] => q = s)
  <2>1. inserting' = [inserting EXCEPT ![r] = NoJob]
    BY DEF EndInsert
  <2>2. \A q \in Requests : inserting'[q] # NoJob => q # r /\ inserting'[q] = inserting[q]
    BY <2>1 DEF TypeOK
  <2>3. \A q \in Requests : inserting'[q] # NoJob => jobStatus'[inserting'[q]] = "none"
    BY <1>1, <2>2 DEF TypeOK, Row
  <2> QED
    BY <2>2, <2>3 DEF TypeOK, Row
<1> QED
  BY <1>3, <1>4, <1>5, <1>6, <1>7 DEF TypeOK, EndInsert, workers, claims, Row

(* A step that changes no request keeps the rows of the inserts apart if   *)
(* it makes no row.                                                        *)
LEMMA InsertsApart ==
  ASSUME TypeOK, UNCHANGED inserting, \A j \in Jobs : ~Row(j) => jobStatus'[j] = "none"
  PROVE  \A r, s \in Requests : inserting'[r] # NoJob =>
           jobStatus'[inserting'[r]] = "none" /\ (inserting'[r] = inserting'[s] => r = s)
BY DEF TypeOK

(* The three steps of a claim that only change what it sees and holds.     *)
LEMMA ScanType ==
  ASSUME TypeOK, NEW p \in Processes,
         StartClaim(p) \/ SkipLocked(p) \/ LockOldest(p) \/ ClaimFails(p)
  PROVE  TypeOK'
<1>1. /\ UNCHANGED <<table, clients, claimed, verdict>>
      /\ claimed[p] = NoJob
  BY DEF StartClaim, SkipLocked, LockOldest, ClaimFails, Oldest, TypeOK
<1>2. faults' \in 0..MaxFaults
  BY FaultsCounted DEF StartClaim, SkipLocked, LockOldest, ClaimFails, TypeOK
<1>3. seen' \in [Processes -> SUBSET Jobs] /\ held' \in [Processes -> Jobs \cup {NoJob}]
  BY DEF StartClaim, SkipLocked, LockOldest, ClaimFails, TypeOK, Pending
<1>4. \A q \in Processes : held'[q] # NoJob => seen'[q] = {}
  BY DEF StartClaim, SkipLocked, LockOldest, ClaimFails, TypeOK, Oldest
<1>5. \A q \in Processes : claimed[q] # NoJob => held'[q] = NoJob /\ seen'[q] = {}
  BY <1>1 DEF StartClaim, SkipLocked, LockOldest, ClaimFails, TypeOK
<1> QED
  BY <1>1, <1>2, <1>3, <1>4, <1>5 DEF TypeOK, table, clients, Row

LEMMA EndClaimType ==
  ASSUME TypeOK, OneRunner, NEW p \in Processes, EndClaim(p)
  PROVE  TypeOK'
<1> DEFINE i == held[p]
<1>1. PICK o \in Outcomes :
        /\ Statement(o)
        /\ jobStatus' = IF o = "fail" THEN jobStatus
                        ELSE [jobStatus EXCEPT ![i] = "running"]
        /\ claimed' = IF o = "ok" THEN [claimed EXCEPT ![p] = i] ELSE claimed
  BY DEF EndClaim
<1>2. i \in Jobs /\ i # NoJob /\ jobStatus[i] = "pending" /\ seen[p] = {} /\ verdict[p] = "none"
  BY DEF EndClaim, TypeOK, OneRunner
<1>3. faults' \in 0..MaxFaults
  BY <1>1, FaultsCounted
<1>4. /\ jobStatus' \in [Jobs -> JobStatuses \cup {"none"}]
      /\ claimed' \in [Processes -> Jobs \cup {NoJob}]
      /\ held' \in [Processes -> Jobs \cup {NoJob}]
  BY <1>1, <1>2 DEF TypeOK, EndClaim, JobStatuses
<1>5. \A j \in Jobs : ~Row(j) => jobStatus'[j] = "none"
  BY <1>1, <1>2 DEF TypeOK, Row
<1>6. \A q \in Processes :
        /\ held'[q] # NoJob => seen'[q] = {}
        /\ claimed'[q] # NoJob => held'[q] = NoJob /\ seen'[q] = {}
        /\ verdict'[q] # "none" => claimed'[q] # NoJob
  BY <1>1, <1>2 DEF TypeOK, EndClaim
<1>7. UNCHANGED inserting
  BY DEF EndClaim, clients
<1>8. \A r, s \in Requests : inserting'[r] # NoJob =>
        jobStatus'[inserting'[r]] = "none" /\ (inserting'[r] = inserting'[s] => r = s)
  BY <1>5, <1>7, InsertsApart
<1> QED
  BY <1>3, <1>4, <1>6, <1>8 DEF TypeOK, EndClaim, clients, Row

LEMMA InferType ==
  ASSUME TypeOK, NEW p \in Processes, Infer(p)
  PROVE  TypeOK'
<1>1. verdict' \in [Processes -> Terminal \cup {"none"}]
  BY DEF TypeOK, Infer
<1>2. \A q \in Processes : verdict'[q] # "none" => claimed'[q] # NoJob
  BY DEF TypeOK, Infer
<1> QED
  BY <1>1, <1>2 DEF TypeOK, Infer, table, clients, claims, Row

LEMMA FinishType ==
  ASSUME TypeOK, OneRunner, NEW p \in Processes, Finish(p)
  PROVE  TypeOK'
<1>1. PICK o \in Outcomes :
        /\ Statement(o)
        /\ jobStatus' = IF o = "fail" THEN jobStatus
                        ELSE [jobStatus EXCEPT ![claimed[p]] = verdict[p]]
  BY DEF Finish
<1>2. faults' \in 0..MaxFaults
  BY <1>1, FaultsCounted
<1>3. /\ verdict[p] \in JobStatuses
      /\ claimed[p] \in Jobs /\ jobStatus[claimed[p]] = "running"
  BY DEF TypeOK, Finish, Terminal, JobStatuses, OneRunner
<1>4. jobStatus' \in [Jobs -> JobStatuses \cup {"none"}]
  BY <1>1, <1>3 DEF TypeOK
<1>5. /\ claimed' \in [Processes -> Jobs \cup {NoJob}]
      /\ verdict' \in [Processes -> Terminal \cup {"none"}]
      /\ \A q \in Processes : /\ claimed'[q] # NoJob => held[q] = NoJob /\ seen[q] = {}
                              /\ verdict'[q] # "none" => claimed'[q] # NoJob
  BY DEF TypeOK, Finish
<1>6. \A j \in Jobs : ~Row(j) => jobStatus'[j] = "none"
  BY <1>1, <1>3 DEF TypeOK, Row
<1>7. UNCHANGED inserting
  BY DEF Finish, clients
<1>8. \A r, s \in Requests : inserting'[r] # NoJob =>
        jobStatus'[inserting'[r]] = "none" /\ (inserting'[r] = inserting'[s] => r = s)
  BY <1>6, <1>7, InsertsApart
<1> QED
  BY <1>2, <1>4, <1>5, <1>8 DEF TypeOK, Finish, clients, claims, Row

LEMMA CrashType ==
  ASSUME TypeOK, OneRunner, NEW p \in Processes, Crash(p)
  PROVE  TypeOK'
<1>1. faults' \in 0..MaxFaults
  BY FaultsCounted DEF Crash
<1>2. /\ seen' \in [Processes -> SUBSET Jobs]
      /\ held' \in [Processes -> Jobs \cup {NoJob}]
      /\ claimed' \in [Processes -> Jobs \cup {NoJob}]
      /\ verdict' \in [Processes -> Terminal \cup {"none"}]
      /\ \A q \in Processes : /\ held'[q] # NoJob => seen'[q] = {}
                              /\ claimed'[q] # NoJob => held'[q] = NoJob /\ seen'[q] = {}
                              /\ verdict'[q] # "none" => claimed'[q] # NoJob
  BY DEF TypeOK, Crash
<1>3. \/ jobStatus' = jobStatus
      \/ /\ held[p] \in Jobs /\ jobStatus[held[p]] = "pending"
         /\ jobStatus' = [jobStatus EXCEPT ![held[p]] = "running"]
  BY DEF TypeOK, Crash, OneRunner
<1>4. jobStatus' \in [Jobs -> JobStatuses \cup {"none"}]
  BY <1>3 DEF TypeOK, JobStatuses
<1>5. \A j \in Jobs : ~Row(j) => jobStatus'[j] = "none"
  BY <1>3 DEF TypeOK, Row
<1>6. UNCHANGED inserting
  BY DEF Crash, clients
<1>7. \A r, s \in Requests : inserting'[r] # NoJob =>
        jobStatus'[inserting'[r]] = "none" /\ (inserting'[r] = inserting'[s] => r = s)
  BY <1>5, <1>6, InsertsApart
<1> QED
  BY <1>1, <1>2, <1>4, <1>7 DEF TypeOK, Crash, clients, Row

LEMMA TypeKept == TypeOK /\ OneRunner /\ [Next]_jobVars => TypeOK'
<1> SUFFICES ASSUME TypeOK, OneRunner, [Next]_jobVars PROVE TypeOK'
  OBVIOUS
<1>1. CASE UNCHANGED jobVars
  BY <1>1 DEF TypeOK, jobVars, table, clients, workers, claims, Row
<1>2. CASE \E r \in Requests : Deduplicate(r) \/ StartInsert(r) \/ EndInsert(r)
  BY <1>2, DeduplicateType, StartInsertType, EndInsertType
<1>3. CASE \E p \in Processes : Claim(p) \/ Infer(p) \/ Finish(p) \/ Crash(p)
  BY <1>3, ScanType, EndClaimType, InferType, FinishType, CrashType DEF Claim
<1> QED
  BY <1>1, <1>2, <1>3 DEF Next

-----------------------------------------------------------------------------
(* What a step does to the rows: nothing, or it commits an insert, marks a *)
(* locked job running, or writes an outcome.                               *)
Becomes(j, s) == jobStatus' = [jobStatus EXCEPT ![j] = s]

LEMMA RowSteps ==
  ASSUME TypeOK, [Next]_jobVars
  PROVE  \/ UNCHANGED <<jobStatus, subject>>
         \/ \E r \in Requests :
              /\ inserting[r] # NoJob
              /\ Becomes(inserting[r], "pending")
              /\ subject' = [subject EXCEPT ![inserting[r]] = about[r]]
              /\ UNCHANGED <<held, claimed>>
         \/ \E p \in Processes :
              /\ held[p] # NoJob
              /\ Becomes(held[p], "running")
              /\ UNCHANGED subject
         \/ \E p \in Processes, v \in Terminal :
              /\ claimed[p] # NoJob
              /\ Becomes(claimed[p], v)
              /\ UNCHANGED subject
<1>1. ASSUME NEW p \in Processes, Finish(p)
      PROVE  /\ verdict[p] \in Terminal /\ claimed[p] # NoJob
             /\ UNCHANGED subject
             /\ jobStatus' = jobStatus \/ Becomes(claimed[p], verdict[p])
  BY <1>1 DEF Finish, TypeOK, Becomes
<1>2. ASSUME NEW p \in Processes, Claim(p)
      PROVE  /\ UNCHANGED subject
             /\ jobStatus' = jobStatus \/ (held[p] # NoJob /\ Becomes(held[p], "running"))
  BY <1>2 DEF Claim, StartClaim, SkipLocked, LockOldest, EndClaim, ClaimFails, table, Becomes
<1>3. ASSUME NEW p \in Processes, Crash(p)
      PROVE  /\ UNCHANGED subject
             /\ jobStatus' = jobStatus \/ (held[p] # NoJob /\ Becomes(held[p], "running"))
  BY <1>3 DEF Crash, Becomes
<1>4. ASSUME NEW r \in Requests, EndInsert(r)
      PROVE  \/ UNCHANGED <<jobStatus, subject>>
             \/ /\ inserting[r] # NoJob
                /\ Becomes(inserting[r], "pending")
                /\ subject' = [subject EXCEPT ![inserting[r]] = about[r]]
                /\ UNCHANGED <<held, claimed>>
  BY <1>4 DEF EndInsert, Becomes, workers, claims
<1>5. CASE \E r \in Requests : Deduplicate(r) \/ StartInsert(r)
  BY <1>5 DEF Deduplicate, StartInsert, table
<1>6. CASE \E p \in Processes : Infer(p)
  BY <1>6 DEF Infer, table
<1>7. CASE UNCHANGED jobVars
  BY <1>7 DEF jobVars, table
<1> QED
  BY <1>1, <1>2, <1>3, <1>4, <1>5, <1>6, <1>7 DEF Next

(* No two workers run one job: a claim locks a pending job nobody else has *)
(* locked, and what is claimed is marked running until its verdict is      *)
(* written.                                                                *)
LEMMA RunnerKept == TypeOK /\ OneRunner /\ [Next]_jobVars => OneRunner'
<1> SUFFICES ASSUME TypeOK, OneRunner, [Next]_jobVars PROVE OneRunner'
  OBVIOUS
<1>1. CASE UNCHANGED <<jobStatus, held, claimed>>
  BY <1>1 DEF OneRunner
<1>2. ASSUME NEW r \in Requests, EndInsert(r) PROVE OneRunner'
  <2>1. UNCHANGED <<held, claimed>>
    BY <1>2 DEF EndInsert, workers, claims
  <2>2. \A p \in Processes : held[p] # inserting[r] /\ claimed[p] # inserting[r]
    BY <1>2 DEF OneRunner, TypeOK, EndInsert, Row
  <2>3. \A j \in Jobs : j # inserting[r] => jobStatus'[j] = jobStatus[j]
    BY <1>2 DEF EndInsert, TypeOK
  <2> QED
    BY <2>1, <2>2, <2>3 DEF OneRunner, TypeOK
<1>3. ASSUME NEW p \in Processes, LockOldest(p) PROVE OneRunner'
  <2>1. PICK j \in Jobs : Free(j) /\ held' = [held EXCEPT ![p] = j]
    BY <1>3 DEF LockOldest
  <2>2. UNCHANGED <<jobStatus, claimed>>
    BY <1>3 DEF LockOldest, table
  <2>3. jobStatus[j] = "pending" /\ \A q \in Processes : held[q] # j
    BY <2>1 DEF Free, Pending
  <2>4. \A q \in Processes : held'[q] = IF q = p THEN j ELSE held[q]
    BY <2>1 DEF TypeOK
  <2> QED
    BY <2>2, <2>3, <2>4 DEF OneRunner
<1>4. ASSUME NEW p \in Processes, EndClaim(p) PROVE OneRunner'
  <2> DEFINE i == held[p]
  <2>1. /\ i \in Jobs /\ i # NoJob /\ jobStatus[i] = "pending"
        /\ \A q \in Processes : claimed[q] # i /\ (q # p => held[q] # i)
    BY <1>4 DEF EndClaim, OneRunner, TypeOK
  <2>2. held' = [held EXCEPT ![p] = NoJob]
    BY <1>4 DEF EndClaim
  <2>3. \/ UNCHANGED <<jobStatus, claimed>>
        \/ /\ jobStatus' = [jobStatus EXCEPT ![i] = "running"]
           /\ claimed' = claimed \/ claimed' = [claimed EXCEPT ![p] = i]
    BY <1>4 DEF EndClaim
  <2>4. \A q \in Processes : held'[q] # NoJob => q # p /\ held'[q] = held[q]
    BY <2>2 DEF TypeOK
  <2>5. \A q \in Processes : claimed'[q] = claimed[q] \/ (q = p /\ claimed'[q] = i)
    BY <2>3 DEF TypeOK
  <2>6. \A j \in Jobs : j # i => jobStatus'[j] = jobStatus[j]
    BY <2>3 DEF TypeOK
  <2>7. \A q \in Processes : claimed'[q] = i => jobStatus'[i] = "running"
    BY <2>1, <2>3 DEF TypeOK
  <2> QED
    BY <2>1, <2>4, <2>5, <2>6, <2>7 DEF OneRunner, TypeOK
<1>5. ASSUME NEW p \in Processes, Finish(p) PROVE OneRunner'
  <2>1. claimed[p] \in Jobs /\ jobStatus[claimed[p]] = "running"
    BY <1>5 DEF Finish, TypeOK, OneRunner
  <2>2. jobStatus' = jobStatus \/ jobStatus' = [jobStatus EXCEPT ![claimed[p]] = verdict[p]]
    BY <1>5 DEF Finish
  <2>3. claimed' = [claimed EXCEPT ![p] = NoJob] /\ held' = held
    BY <1>5 DEF Finish, claims
  <2>4. \A j \in Jobs : j # claimed[p] => jobStatus'[j] = jobStatus[j]
    BY <2>2 DEF TypeOK
  <2>5. \A q \in Processes : claimed'[q] # NoJob => q # p /\ claimed'[q] = claimed[q]
    BY <2>3 DEF TypeOK
  <2>6. \A q \in Processes : held[q] # NoJob => held[q] # claimed[p]
    BY <2>1 DEF OneRunner
  <2>7. \A q \in Processes : q # p /\ claimed[q] # NoJob => claimed[q] # claimed[p]
    BY DEF OneRunner
  <2> QED
    BY <2>3, <2>4, <2>5, <2>6, <2>7 DEF OneRunner, TypeOK
<1>6. ASSUME NEW p \in Processes, Crash(p) PROVE OneRunner'
  <2>1. /\ claimed' = [claimed EXCEPT ![p] = NoJob]
        /\ held' = [held EXCEPT ![p] = NoJob]
        /\ jobStatus' = jobStatus \/ (held[p] # NoJob /\ Becomes(held[p], "running"))
    BY <1>6 DEF Crash, Becomes
  <2>2. \A q \in Processes : claimed'[q] # NoJob => q # p /\ claimed'[q] = claimed[q]
    BY <2>1 DEF TypeOK
  <2>3. \A q \in Processes : held'[q] # NoJob => q # p /\ held'[q] = held[q]
    BY <2>1 DEF TypeOK
  <2>4. \A j \in Jobs : jobStatus'[j] = jobStatus[j] \/ (j = held[p] /\ held[p] # NoJob)
    BY <2>1 DEF TypeOK, Becomes
  <2>5. held[p] # NoJob =>
          \A q \in Processes : (q # p => held[q] # held[p]) /\ claimed[q] # held[p]
    BY JobAssumption DEF OneRunner, TypeOK
  <2> QED
    BY <2>2, <2>3, <2>4, <2>5 DEF OneRunner, TypeOK
<1>7. ASSUME NEW p \in Processes, StartClaim(p) \/ SkipLocked(p) \/ ClaimFails(p) \/ Infer(p)
      PROVE  UNCHANGED <<jobStatus, held, claimed>>
  BY <1>7 DEF StartClaim, SkipLocked, ClaimFails, Infer, table, claims
<1>8. ASSUME NEW r \in Requests, Deduplicate(r) \/ StartInsert(r)
      PROVE  UNCHANGED <<jobStatus, held, claimed>>
  BY <1>8 DEF Deduplicate, StartInsert, table, workers, claims
<1>9. CASE UNCHANGED jobVars
  BY <1>1, <1>9 DEF jobVars, table, workers, claims
<1> QED
  BY <1>1, <1>2, <1>3, <1>4, <1>5, <1>6, <1>7, <1>8, <1>9 DEF Next, Claim

(* Types and runners hold together: what is a row follows from who runs it.*)
LEMMA JobsHold == Spec => [](TypeOK /\ OneRunner)
<1>1. Init => OneRunner
  BY DEF Init, OneRunner
<1> QED
  BY <1>1, TypeInitially, TypeKept, RunnerKept, PTL DEF Spec

(* JobTypesHold: TypeOK for any number of jobs, processes and faults.      *)
THEOREM JobTypesHold == Spec => []TypeOK
<1> QED
  BY JobsHold, PTL

(* OneRunnerHolds: OneRunner for any number of processes and faults.       *)
THEOREM OneRunnerHolds == Spec => []OneRunner
<1> QED
  BY JobsHold, PTL

-----------------------------------------------------------------------------
(* A row stays a row about what it was about.                              *)
LEMMA RowsStay ==
  ASSUME TypeOK, OneRunner, [Next]_jobVars
  PROVE  \A j \in Jobs : Row(j) => jobStatus'[j] # "none" /\ subject'[j] = subject[j]
<1> SUFFICES ASSUME NEW j \in Jobs, Row(j)
             PROVE  jobStatus'[j] # "none" /\ subject'[j] = subject[j]
  OBVIOUS
<1>1. ASSUME NEW i, NEW s, Becomes(i, s), s # "none" PROVE jobStatus'[j] # "none"
  BY <1>1 DEF Becomes, TypeOK, Row
<1>2. ASSUME NEW r \in Requests, inserting[r] # NoJob,
             subject' = [subject EXCEPT ![inserting[r]] = about[r]]
      PROVE  subject'[j] = subject[j]
  BY <1>2 DEF TypeOK
<1> QED
  BY <1>1, <1>2, RowSteps DEF Row, Terminal

LEMMA AnswersKept == TypeOK /\ OneRunner /\ AnswersExist /\ [Next]_jobVars => AnswersExist'
<1> SUFFICES ASSUME TypeOK, OneRunner, AnswersExist, [Next]_jobVars PROVE AnswersExist'
  OBVIOUS
<1>1. about' = about
  BY DEF Next, jobVars, clients, Deduplicate, StartInsert, EndInsert, Claim, StartClaim, SkipLocked,
         LockOldest, EndClaim, ClaimFails, Infer, Finish, Crash
<1>2. ASSUME NEW r \in Requests, answer[r] # NoJob
      PROVE  jobStatus'[answer[r]] # "none" /\ subject'[answer[r]] = about'[r]
  <2>1. answer[r] \in Jobs /\ Row(answer[r]) /\ subject[answer[r]] = about[r]
    BY <1>2 DEF AnswersExist, TypeOK
  <2> QED
    BY <1>1, <2>1, RowsStay
<1>3. CASE answer' = answer
  BY <1>2, <1>3 DEF AnswersExist, Row
<1>4. ASSUME NEW r \in Requests, NEW j \in Jobs,
             answer' = [answer EXCEPT ![r] = j],
             jobStatus'[j] # "none", subject'[j] = about[r]
      PROVE  AnswersExist'
  <2>1. \A q \in Requests : answer'[q] = IF q = r THEN j ELSE answer[q]
    BY <1>4 DEF TypeOK
  <2> QED
    BY <1>1, <1>2, <1>4, <2>1 DEF AnswersExist, Row
<1>5. ASSUME NEW r \in Requests, Deduplicate(r) PROVE AnswersExist'
  <2>1. CASE answer' = answer
    BY <1>3, <2>1
  <2>2. ASSUME NEW j \in Jobs, Newest(j, Reusable(about[r])),
               answer' = [answer EXCEPT ![r] = j]
        PROVE  AnswersExist'
    <3>1. jobStatus'[j] # "none" /\ subject'[j] = about[r]
      BY <1>5, <2>2 DEF Deduplicate, Newest, Reusable, Row, table
    <3> QED
      BY <1>4, <2>2, <3>1
  <2> QED
    BY <1>5, <2>1, <2>2 DEF Deduplicate
<1>6. ASSUME NEW r \in Requests, EndInsert(r) PROVE AnswersExist'
  <2>1. CASE answer' = answer
    BY <1>3, <2>1
  <2>2. CASE /\ jobStatus' = [jobStatus EXCEPT ![inserting[r]] = "pending"]
             /\ subject' = [subject EXCEPT ![inserting[r]] = about[r]]
             /\ answer' = [answer EXCEPT ![r] = inserting[r]]
    <3>1. inserting[r] \in Jobs
      BY <1>6 DEF EndInsert, TypeOK
    <3> QED
      BY <1>4, <2>2, <3>1 DEF TypeOK
  <2> QED
    BY <1>6, <2>1, <2>2 DEF EndInsert
<1>7. CASE UNCHANGED answer
  BY <1>3, <1>7
<1> QED
  BY <1>5, <1>6, <1>7 DEF Next, jobVars, clients, StartInsert, Claim, StartClaim, SkipLocked,
         LockOldest, EndClaim, ClaimFails, Infer, Finish, Crash

(* AnswersHold: AnswersExist for any number of requests and faults.        *)
THEOREM AnswersHold == Spec => []AnswersExist
<1>1. Init => AnswersExist
  BY DEF Init, AnswersExist
<1> QED
  BY <1>1, AnswersKept, JobTypesHold, OneRunnerHolds, PTL DEF Spec

-----------------------------------------------------------------------------
(* What a request saw when it looked and could not answer with has failed  *)
(* for good: it was a row, and a row with an outcome keeps it.             *)
LookedOver ==
  \A r \in Requests : \A j \in looked[r] :
    /\ Row(j)
    /\ about[r] \notin Undeduped /\ subject[j] = about[r]
         => jobStatus[j] \in {"error", "timeout"}

LEMMA OutcomesStay ==
  ASSUME TypeOK, OneRunner, [Next]_jobVars
  PROVE  \A j \in Jobs : jobStatus[j] \in {"error", "timeout"} => jobStatus'[j] = jobStatus[j]
<1> SUFFICES ASSUME NEW j \in Jobs, jobStatus[j] \in {"error", "timeout"}
             PROVE  jobStatus'[j] = jobStatus[j]
  OBVIOUS
<1>1. ASSUME NEW i, NEW s, Becomes(i, s), i # j PROVE jobStatus'[j] = jobStatus[j]
  BY <1>1 DEF Becomes, TypeOK
<1>2. \A r \in Requests : inserting[r] # NoJob => inserting[r] # j
  BY DEF TypeOK, Row
<1>3. \A p \in Processes : /\ held[p] # NoJob => held[p] # j
                           /\ claimed[p] # NoJob => claimed[p] # j
  BY DEF OneRunner
<1> QED
  BY <1>1, <1>2, <1>3, RowSteps

LEMMA LookedKept == TypeOK /\ OneRunner /\ LookedOver /\ [Next]_jobVars => LookedOver'
<1> SUFFICES ASSUME TypeOK, OneRunner, LookedOver, [Next]_jobVars PROVE LookedOver'
  OBVIOUS
<1>1. about' = about
  BY DEF Next, jobVars, clients, Deduplicate, StartInsert, EndInsert, Claim, StartClaim, SkipLocked,
         LockOldest, EndClaim, ClaimFails, Infer, Finish, Crash
<1>2. ASSUME NEW r \in Requests, NEW j \in looked[r]
      PROVE  /\ jobStatus'[j] # "none"
             /\ about'[r] \notin Undeduped /\ subject'[j] = about'[r]
                  => jobStatus'[j] \in {"error", "timeout"}
  <2>1. j \in Jobs /\ Row(j)
    BY DEF LookedOver, TypeOK
  <2> QED
    BY <1>1, <2>1, RowsStay, OutcomesStay DEF LookedOver
<1>3. CASE \A r \in Requests : looked'[r] \subseteq looked[r]
  BY <1>2, <1>3 DEF LookedOver, Row
<1>4. ASSUME NEW r \in Requests, Deduplicate(r) PROVE LookedOver'
  <2>1. CASE looked' = looked
    BY <1>3, <2>1
  <2>2. CASE looked' = [looked EXCEPT ![r] = {}]
    BY <1>3, <2>2 DEF TypeOK
  <2>3. CASE /\ looked' = [looked EXCEPT ![r] = {j \in Jobs : Row(j)}]
             /\ about[r] \in Undeduped \/ Reusable(about[r]) = {}
    <3>1. jobStatus' = jobStatus /\ subject' = subject
      BY <1>4 DEF Deduplicate, table
    <3>2. \A q \in Requests : looked'[q] = IF q = r THEN {j \in Jobs : Row(j)} ELSE looked[q]
      BY <2>3 DEF TypeOK
    <3>3. ASSUME NEW j \in Jobs, Row(j), about[r] \notin Undeduped, subject[j] = about[r]
          PROVE  jobStatus[j] \in {"error", "timeout"}
      BY <2>3, <3>3 DEF Reusable, Row, TypeOK, JobStatuses
    <3>4. ASSUME NEW q \in Requests, NEW j \in looked'[q]
          PROVE  /\ jobStatus'[j] # "none"
                 /\ about'[q] \notin Undeduped /\ subject'[j] = about'[q]
                      => jobStatus'[j] \in {"error", "timeout"}
      <4>1. CASE q # r
        BY <1>2, <3>2, <4>1
      <4>2. CASE q = r
        BY <1>1, <3>1, <3>2, <3>3, <4>2 DEF Row
      <4> QED
        BY <4>1, <4>2
    <3> QED
      BY <3>4 DEF LookedOver, Row
  <2> QED
    BY <1>4, <2>1, <2>2, <2>3 DEF Deduplicate
<1>5. ASSUME NEW r \in Requests, EndInsert(r) PROVE LookedOver'
  BY <1>3, <1>5 DEF EndInsert, TypeOK
<1>6. CASE looked' = looked
  BY <1>3, <1>6
<1> QED
  BY <1>4, <1>5, <1>6 DEF Next, jobVars, clients, StartInsert, Claim, StartClaim, SkipLocked,
         LockOldest, EndClaim, ClaimFails, Infer, Finish, Crash

(* DuplicatesHold: DuplicatesOnlyByOverlap for any number of requests.     *)
THEOREM DuplicatesHold == Spec => DuplicatesOnlyByOverlap
<1>1. Init => LookedOver
  BY DEF Init, LookedOver
<1>2. LookedOver =>
        [\A r \in Requests : EndInsert(r) /\ about[r] \notin Undeduped =>
           \A j \in looked[r] : subject[j] = about[r] =>
             jobStatus[j] \notin {"pending", "running"}]_jobVars
  BY DEF LookedOver
<1> QED
  BY <1>1, <1>2, LookedKept, JobTypesHold, OneRunnerHolds, PTL
  DEF Spec, DuplicatesOnlyByOverlap

-----------------------------------------------------------------------------
(* The steps of the table are steps of the abstract queue.                 *)
LEMMA InsertDates ==
  ASSUME TypeOK, NEW r \in Requests, StartInsert(r)
  PROVE  \E j \in Jobs : JQ!Date(j)
<1> DEFINE i == CHOOSE j \in Unused : TRUE
<1>1. PICK now \in {clock + t : t \in Ticks} : created_at' = [created_at EXCEPT ![i] = now]
  BY DEF StartInsert
<1>2. i \in Unused
  BY DEF StartInsert
<1>3. i \in Jobs /\ ~Row(i)
  BY <1>2 DEF Unused
<1> HIDE DEF i
<1>4. now \in Nat /\ clock <= now
  BY <1>1, JobAssumption DEF TypeOK
<1>5. i \notin JQ!Known
  BY <1>3 DEF JQ!Known, Pending, InState, Terminal, Row
<1>6. created_at' \in [Jobs -> Nat]
  BY <1>1, <1>3, <1>4 DEF TypeOK
<1>7. \A k \in Jobs : created_at[k] <= created_at'[i] /\ (k # i => created_at'[k] = created_at[k])
  BY <1>1, <1>3, <1>4 DEF TypeOK
<1>8. UNCHANGED <<jobStatus, seen, held>>
  BY DEF StartInsert, workers, claims
<1>9. UNCHANGED <<Pending, InState({"running"}), InState(Terminal)>>
  BY <1>8 DEF Pending, InState
<1> QED
  BY <1>3, <1>5, <1>6, <1>7, <1>8, <1>9 DEF JQ!Date

LEMMA InsertSubmits ==
  ASSUME TypeOK, NEW r \in Requests, EndInsert(r)
  PROVE  [JQ!Next]_JQ!jobQueueVars
<1> DEFINE i == inserting[r]
<1>1. i \in Jobs /\ jobStatus[i] = "none"
  BY DEF EndInsert, TypeOK, Row
<1>2. UNCHANGED <<created_at, seen, held>>
  BY DEF EndInsert, workers, claims
<1>3. CASE jobStatus' = jobStatus
  BY <1>2, <1>3 DEF JQ!jobQueueVars, Pending, InState
<1>4. CASE jobStatus' = [jobStatus EXCEPT ![i] = "pending"]
  <2>1. \A j \in Jobs : jobStatus'[j] = IF j = i THEN "pending" ELSE jobStatus[j]
    BY <1>4 DEF TypeOK
  <2>2. Pending' = Pending \cup {i}
    BY <1>1, <2>1 DEF Pending
  <2>3. InState({"running"})' = InState({"running"})
    BY <1>1, <2>1 DEF InState
  <2>4. InState(Terminal)' = InState(Terminal)
    BY <1>1, <2>1 DEF InState, Terminal
  <2>5. i \notin JQ!Known
    BY <1>1 DEF JQ!Known, Pending, InState, Terminal
  <2>6. JQ!Submit(i)
    BY <1>2, <2>2, <2>3, <2>4, <2>5 DEF JQ!Submit
  <2> QED
    BY <1>1, <2>6 DEF JQ!Next
<1> QED
  BY <1>3, <1>4 DEF EndInsert

(* The scan of a claim goes through what it saw, the oldest first.         *)
LEMMA ScanLooks ==
  ASSUME TypeOK, NEW p \in Processes,
         StartClaim(p) \/ SkipLocked(p) \/ LockOldest(p) \/ ClaimFails(p)
  PROVE  [JQ!Next]_JQ!jobQueueVars
<1>1. UNCHANGED <<created_at, Pending, InState({"running"}), InState(Terminal)>>
  BY DEF StartClaim, SkipLocked, LockOldest, ClaimFails, table, Pending, InState
<1>2. \A j \in Jobs : Free(j) <=> JQ!Available(j)
  BY DEF Free, JQ!Available
<1>3. CASE StartClaim(p)
  <2>1. JQ!Look(p)
    BY <1>1, <1>3 DEF StartClaim, JQ!Look
  <2> QED
    BY <2>1 DEF JQ!Next
<1>4. CASE SkipLocked(p)
  <2>1. PICK j \in Jobs : /\ j \in seen[p] /\ ~Free(j)
                          /\ seen' = [seen EXCEPT ![p] = @ \ {j}]
    BY <1>4 DEF SkipLocked, Oldest
  <2>2. JQ!Pass(p, j)
    BY <1>1, <1>2, <1>4, <2>1 DEF SkipLocked, JQ!Pass
  <2> QED
    BY <2>2 DEF JQ!Next
<1>5. CASE LockOldest(p)
  <2>1. PICK j \in Jobs : Oldest(j, seen[p]) /\ Free(j) /\ held' = [held EXCEPT ![p] = j]
    BY <1>5 DEF LockOldest
  <2>2. JQ!Hold(p, j)
    BY <1>1, <1>2, <1>5, <2>1 DEF LockOldest, Oldest, JQ!Hold
  <2> QED
    BY <2>2 DEF JQ!Next
<1>6. CASE ClaimFails(p)
  <2>1. held[p] = NoJob
    BY <1>6 DEF ClaimFails, TypeOK
  <2>2. held' = [held EXCEPT ![p] = NoJob]
    BY <1>6, <2>1 DEF ClaimFails, TypeOK
  <2>3. JQ!GiveUp(p)
    BY <1>1, <1>6, <2>2 DEF ClaimFails, JQ!GiveUp
  <2> QED
    BY <2>3 DEF JQ!Next
<1> QED
  BY <1>3, <1>4, <1>5, <1>6

(* A claim that had a job in hand takes it or gives it up, whether its     *)
(* statement ends or its process does.                                     *)
LEMMA ClaimTakes ==
  ASSUME TypeOK, OneRunner, NEW p \in Processes, UNCHANGED created_at,
         held' = [held EXCEPT ![p] = NoJob],
         seen' = [seen EXCEPT ![p] = {}],
         jobStatus' = jobStatus \/ (held[p] # NoJob /\ Becomes(held[p], "running"))
  PROVE  [JQ!Next]_JQ!jobQueueVars
<1>1. CASE jobStatus' = jobStatus
  <2>1. UNCHANGED <<created_at, Pending, InState({"running"}), InState(Terminal)>>
    BY <1>1 DEF Pending, InState
  <2>2. JQ!GiveUp(p)
    BY <2>1 DEF JQ!GiveUp
  <2> QED
    BY <2>2 DEF JQ!Next
<1>2. CASE held[p] # NoJob /\ Becomes(held[p], "running")
  <2> DEFINE i == held[p]
  <2>1. i \in Jobs /\ jobStatus[i] = "pending" /\ seen[p] = {}
    BY <1>2 DEF TypeOK, OneRunner
  <2>2. \A j \in Jobs : jobStatus'[j] = IF j = i THEN "running" ELSE jobStatus[j]
    BY <1>2 DEF TypeOK, Becomes
  <2>3. Pending' = Pending \ {i}
    BY <2>1, <2>2 DEF Pending
  <2>4. InState({"running"})' = InState({"running"}) \cup {i}
    BY <2>1, <2>2 DEF InState
  <2>5. InState(Terminal)' = InState(Terminal)
    BY <2>1, <2>2 DEF InState, Terminal
  <2>6. seen' = seen
    BY <2>1 DEF TypeOK
  <2>7. JQ!Take(p)
    BY <1>2, <2>3, <2>4, <2>5, <2>6 DEF JQ!Take
  <2> QED
    BY <2>7 DEF JQ!Next
<1> QED
  BY <1>1, <1>2

(* What ends a job ends one that a worker has claimed.                     *)
LEMMA FinishEnds ==
  ASSUME TypeOK, OneRunner, NEW p \in Processes, Finish(p)
  PROVE  [JQ!Next]_JQ!jobQueueVars
<1> DEFINE i == claimed[p]
<1>1. i \in Jobs /\ jobStatus[i] = "running" /\ verdict[p] \in Terminal
  BY DEF Finish, TypeOK, OneRunner
<1>2. UNCHANGED <<created_at, seen, held>>
  BY DEF Finish, claims
<1>3. CASE jobStatus' = jobStatus
  BY <1>2, <1>3 DEF JQ!jobQueueVars, Pending, InState
<1>4. CASE jobStatus' = [jobStatus EXCEPT ![i] = verdict[p]]
  <2>1. \A j \in Jobs : jobStatus'[j] = IF j = i THEN verdict[p] ELSE jobStatus[j]
    BY <1>4 DEF TypeOK
  <2>2. Pending' = Pending
    BY <1>1, <2>1 DEF Pending, Terminal
  <2>3. InState({"running"})' = InState({"running"}) \ {i}
    BY <1>1, <2>1 DEF InState, Terminal
  <2>4. InState(Terminal)' = InState(Terminal) \cup {i}
    BY <1>1, <2>1 DEF InState
  <2>5. i \in InState({"running"})
    BY <1>1 DEF InState
  <2>6. JQ!End(i)
    BY <1>2, <2>2, <2>3, <2>4, <2>5 DEF JQ!End
  <2> QED
    BY <1>1, <2>6 DEF JQ!Next
<1> QED
  BY <1>3, <1>4 DEF Finish

(* A step of the service is a step of the queue, or leaves it alone.       *)
LEMMA QueueStep ==
  ASSUME TypeOK, OneRunner, [Next]_jobVars
  PROVE  [JQ!Next]_JQ!jobQueueVars
<1>1. CASE UNCHANGED <<table, claims>>
  BY <1>1 DEF table, claims, JQ!jobQueueVars, Pending, InState
<1>2. ASSUME NEW r \in Requests, StartInsert(r) PROVE [JQ!Next]_JQ!jobQueueVars
  BY <1>2, InsertDates DEF JQ!Next
<1>3. ASSUME NEW r \in Requests, EndInsert(r) PROVE [JQ!Next]_JQ!jobQueueVars
  BY <1>3, InsertSubmits
<1>4. ASSUME NEW p \in Processes, EndClaim(p) PROVE [JQ!Next]_JQ!jobQueueVars
  <2>1. seen[p] = {}
    BY <1>4 DEF EndClaim, TypeOK
  <2>2. seen' = [seen EXCEPT ![p] = {}]
    BY <1>4, <2>1 DEF EndClaim, TypeOK
  <2>3. jobStatus' = jobStatus \/ (held[p] # NoJob /\ Becomes(held[p], "running"))
    BY <1>4 DEF EndClaim, Becomes
  <2>4. UNCHANGED created_at /\ held' = [held EXCEPT ![p] = NoJob]
    BY <1>4 DEF EndClaim
  <2> QED
    BY <2>2, <2>3, <2>4, ClaimTakes
<1>5. ASSUME NEW p \in Processes, Crash(p) PROVE [JQ!Next]_JQ!jobQueueVars
  BY <1>5, ClaimTakes DEF Crash, Becomes
<1>6. ASSUME NEW p \in Processes, Finish(p) PROVE [JQ!Next]_JQ!jobQueueVars
  BY <1>6, FinishEnds
<1>7. ASSUME NEW p \in Processes, Claim(p) PROVE [JQ!Next]_JQ!jobQueueVars
  BY <1>4, <1>7, ScanLooks DEF Claim
<1> QED
  BY <1>1, <1>2, <1>3, <1>5, <1>6, <1>7 DEF Next, jobVars, workers, Deduplicate, Infer

(* TableIsQueue: for any number of jobs, processes and faults, and however *)
(* the clock moves, the table implements the abstract queue:               *)
(* ImplementsJobQueue.                                                     *)
THEOREM TableIsQueue == Spec => ImplementsJobQueue
<1>1. Init => JQ!Init
  BY DEF Init, JQ!Init, InState, Terminal, Pending
<1> QED
  BY <1>1, QueueStep, JobTypesHold, OneRunnerHolds, PTL
  DEF Spec, ImplementsJobQueue, JQ!Spec

-----------------------------------------------------------------------------
(* The loop keeps its types, and takes Infer's step when it concludes.     *)
LEMMA LoopStep ==
  ASSUME InferenceTypeOK, [InferenceNext]_inferenceVars
  PROVE  [Next]_jobVars
<1>1. ASSUME NEW p \in Processes, NEW v \in Terminal,
             loop[p].at \notin {"idle", "hung"}, Conclude(p, v)
      PROVE  Infer(p)
  BY <1>1 DEF InferenceTypeOK, Conclude, Infer
<1>2. ASSUME NEW p \in Processes, ChatReplies(p) PROVE Infer(p) \/ UNCHANGED jobVars
  <2>1. loop[p].at = "asking" /\ "done" \in Terminal
    BY <1>2 DEF ChatReplies, Asking, Terminal
  <2> QED
    BY <1>1, <1>2, <2>1 DEF ChatReplies
<1>3. ASSUME NEW p \in Processes, JobFails(p) PROVE Infer(p)
  BY <1>1, <1>3 DEF JobFails, Terminal
<1>4. ASSUME NEW p \in Processes, Work(p) PROVE [Next]_jobVars
  BY <1>3, <1>4 DEF Work, ClaimAndRun, ToolReturns, ChatExpires, ChatFails, Close, Next
<1> QED
  BY <1>2, <1>4 DEF InferenceNext, inferenceVars, ChatFails, ToolHangs, UpdateHangs, Deadline,
        Next

LEMMA IdleInLoop == Idle \in Loop /\ Idle.at = "idle"
BY LoopAssumption DEF Idle, Loop

LEMMA LoopInitially == InferenceInit => InferenceTypeOK
<1> SUFFICES ASSUME InferenceInit PROVE InferenceTypeOK
  OBVIOUS
<1>1. Idle \in Loop
  BY IdleInLoop
<1>2. loop \in [Processes -> Loop]
  BY <1>1 DEF InferenceInit
<1>3. \A p \in Processes : loop[p].at = "idle" /\ claimed[p] = NoJob
  BY DEF InferenceInit, Init, Idle
<1> QED
  BY <1>2, <1>3, TypeInitially DEF InferenceInit, InferenceTypeOK

(* A step that changes one loop, and no claim nor verdict, keeps the types *)
(* if the loop goes on as it must.                                         *)
LEMMA LoopGoesOn ==
  ASSUME InferenceTypeOK, TypeOK', NEW p \in Processes, NEW l \in Loop, SetLoop(p, l),
         \A q \in Processes \ {p} : claimed'[q] = claimed[q] /\ verdict'[q] = verdict[q],
         claimed'[p] # NoJob /\ verdict'[p] = "none" => l.at # "idle",
         l.at # "idle" => claimed'[p] # NoJob,
         l.at \notin {"idle", "hung"} => verdict'[p] = "none",
         l.at = "tool" => l.calls > 0
  PROVE  InferenceTypeOK'
BY DEF InferenceTypeOK, SetLoop

LEMMA ClaimAndRunLoop ==
  ASSUME InferenceTypeOK, TypeOK', NEW p \in Processes, ClaimAndRun(p)
  PROVE  InferenceTypeOK'
<1>1. claimed[p] = NoJob /\ verdict' = verdict /\ verdict[p] = "none"
  BY DEF ClaimAndRun, Claim, StartClaim, SkipLocked, LockOldest, EndClaim, ClaimFails, Oldest,
         InferenceTypeOK, TypeOK
<1>2. claimed' = claimed \/ (held[p] # NoJob /\ claimed' = [claimed EXCEPT ![p] = held[p]])
  BY DEF ClaimAndRun, Claim, StartClaim, SkipLocked, LockOldest, EndClaim, ClaimFails
<1>3. CASE claimed' = claimed
  BY <1>1, <1>3 DEF ClaimAndRun, InferenceTypeOK
<1>4. CASE held[p] # NoJob /\ claimed' = [claimed EXCEPT ![p] = held[p]]
  <2>1. claimed'[p] # NoJob
    BY <1>4 DEF InferenceTypeOK, TypeOK
  <2>2. [Idle EXCEPT !.at = "asking"] \in Loop
    BY IdleInLoop DEF Loop
  <2>3. \A q \in Processes \ {p} : claimed'[q] = claimed[q] /\ verdict'[q] = verdict[q]
    BY <1>1, <1>4 DEF InferenceTypeOK, TypeOK
  <2>4. [Idle EXCEPT !.at = "asking"].at = "asking"
    BY DEF Idle
  <2>5. SetLoop(p, [Idle EXCEPT !.at = "asking"])
    BY <2>1 DEF ClaimAndRun
  <2>6. verdict'[p] = "none"
    BY <1>1
  <2> QED
    BY <2>1, <2>2, <2>3, <2>4, <2>5, <2>6, LoopGoesOn
<1> QED
  BY <1>2, <1>3, <1>4

LEMMA ConcludeLoop ==
  ASSUME InferenceTypeOK, TypeOK', NEW p \in Processes, NEW v \in Terminal, Conclude(p, v)
  PROVE  InferenceTypeOK'
<1>1. verdict'[p] = v /\ v # "none"
  BY DEF Conclude, InferenceTypeOK, TypeOK, Terminal
<1>2. Idle \in Loop /\ Idle.at = "idle"
  BY IdleInLoop
<1>3. \A q \in Processes \ {p} : claimed'[q] = claimed[q] /\ verdict'[q] = verdict[q]
  BY DEF Conclude, InferenceTypeOK, TypeOK
<1> QED
  BY <1>1, <1>2, <1>3, LoopGoesOn DEF Conclude

(* The steps inside the loop, which leave the table and the workers alone. *)
LEMMA RoundLoop ==
  ASSUME InferenceTypeOK, TypeOK', NEW p \in Processes, UNCHANGED jobVars,
         NEW l \in Loop, claimed[p] # NoJob, l.at # "idle",
         l.at # "hung" => verdict[p] = "none",
         l.at = "tool" => l.calls > 0,
         SetLoop(p, l)
  PROVE  InferenceTypeOK'
<1>1. claimed' = claimed /\ verdict' = verdict
  BY DEF jobVars, workers
<1> QED
  BY <1>1, LoopGoesOn

(* A loop in progress is one of a claimed job without a verdict.           *)
LEMMA InProgress ==
  ASSUME InferenceTypeOK, NEW p \in Processes, loop[p].at \notin {"idle", "hung"}
  PROVE  claimed[p] # NoJob /\ verdict[p] = "none"
BY DEF InferenceTypeOK

LEMMA ChatLoop ==
  ASSUME InferenceTypeOK, TypeOK', NEW p \in Processes
  PROVE  /\ ChatReplies(p) => InferenceTypeOK'
         /\ ChatFails(p) => InferenceTypeOK'
<1> loop[p] \in Loop
  BY DEF InferenceTypeOK
<1>1. ASSUME ChatFails(p) PROVE InferenceTypeOK'
  <2> DEFINE l == [Idle EXCEPT !.at = "failed", !.expired = loop[p].expired]
  <2>1. l \in Loop /\ l.at = "failed"
    BY IdleInLoop DEF Loop
  <2> QED
    BY <1>1, <2>1, InProgress, RoundLoop DEF ChatFails, Asking
<1>2. ASSUME ChatReplies(p) PROVE InferenceTypeOK'
  <2>1. PICK n \in 0..MaxCalls :
          IF n = 0 \/ loop[p].round = MaxToolIterations
            THEN Conclude(p, "done")
            ELSE /\ SetLoop(p, [loop[p] EXCEPT !.at = "tool", !.round = @ + 1, !.calls = n])
                 /\ UNCHANGED jobVars
    BY <1>2 DEF ChatReplies
  <2>2. CASE Conclude(p, "done")
    BY <2>2, ConcludeLoop DEF Terminal
  <2>3. CASE /\ n # 0 /\ loop[p].round # MaxToolIterations
             /\ SetLoop(p, [loop[p] EXCEPT !.at = "tool", !.round = @ + 1, !.calls = n])
             /\ UNCHANGED jobVars
    <3> DEFINE l == [loop[p] EXCEPT !.at = "tool", !.round = @ + 1, !.calls = n]
    <3>1. l \in Loop /\ l.at = "tool" /\ l.calls = n
      <4>1. loop[p].round + 1 \in 0..MaxToolIterations
        BY <2>3, LoopAssumption DEF Loop
      <4> QED
        BY <4>1 DEF Loop
    <3>2. n > 0
      BY <2>3, LoopAssumption
    <3> QED
      BY <1>2, <2>3, <3>1, <3>2, InProgress, RoundLoop DEF ChatReplies, Asking
  <2> QED
    BY <2>1, <2>2, <2>3
<1> QED
  BY <1>1, <1>2

LEMMA ToolLoop ==
  ASSUME InferenceTypeOK, TypeOK', NEW p \in Processes
  PROVE  /\ ToolReturns(p) => InferenceTypeOK'
         /\ ToolHangs(p) => InferenceTypeOK'
         /\ UpdateHangs(p) => InferenceTypeOK'
         /\ Deadline(p) => InferenceTypeOK'
<1> /\ loop[p] \in Loop
    /\ loop[p].at = "tool" => loop[p].calls > 0
  BY DEF InferenceTypeOK
<1>1. ASSUME ToolReturns(p) PROVE InferenceTypeOK'
  <2> DEFINE l == IF loop[p].calls = 1
                    THEN [loop[p] EXCEPT !.at = "asking", !.calls = 0]
                    ELSE [loop[p] EXCEPT !.calls = @ - 1]
  <2>1. l \in Loop /\ l.at # "idle" /\ (l.at = "tool" => l.calls > 0)
    <3>1. loop[p].at = "tool" /\ loop[p].calls \in 0..MaxCalls /\ loop[p].calls > 0
      BY <1>1 DEF ToolReturns, Loop
    <3>2. CASE loop[p].calls = 1
      <4>1. l = [loop[p] EXCEPT !.at = "asking", !.calls = 0] /\ 0 \in 0..MaxCalls
        BY <3>2, LoopAssumption
      <4> QED
        BY <4>1 DEF Loop
    <3>3. CASE loop[p].calls # 1
      <4>1. loop[p].calls - 1 \in 0..MaxCalls /\ loop[p].calls - 1 > 0
        BY <3>1, <3>3, LoopAssumption
      <4>2. l = [loop[p] EXCEPT !.calls = loop[p].calls - 1]
        BY <3>3
      <4> QED
        BY <3>1, <4>1, <4>2 DEF Loop
    <3> QED
      BY <3>2, <3>3
  <2>2. SetLoop(p, l) /\ UNCHANGED jobVars /\ loop[p].at = "tool"
    BY <1>1 DEF ToolReturns
  <2> QED
    BY <2>1, <2>2, InProgress, RoundLoop
<1>2. ASSUME ToolHangs(p) \/ UpdateHangs(p) PROVE InferenceTypeOK'
  <2> DEFINE l == [Idle EXCEPT !.at = "hung"]
  <2>1. l \in Loop /\ l.at = "hung"
    BY IdleInLoop DEF Loop
  <2>2. claimed[p] # NoJob
    BY <1>2, InProgress DEF ToolHangs, UpdateHangs, InferenceTypeOK, TypeOK
  <2> QED
    BY <1>2, <2>1, <2>2, RoundLoop DEF ToolHangs, UpdateHangs
<1>3. ASSUME Deadline(p) PROVE InferenceTypeOK'
  <2> DEFINE l == [loop[p] EXCEPT !.expired = TRUE]
  <2>1. l \in Loop /\ l.at = loop[p].at /\ l.calls = loop[p].calls
    BY DEF Loop
  <2> QED
    BY <1>3, <2>1, InProgress, RoundLoop DEF Deadline
<1> QED
  BY <1>1, <1>2, <1>3

(* A worker that is done with its job, or whose process dies, is idle.     *)
LEMMA IdleLoop ==
  ASSUME InferenceTypeOK, TypeOK', NEW p \in Processes
  PROVE  /\ Close(p) => InferenceTypeOK'
         /\ Crash(p) /\ SetLoop(p, Idle) => InferenceTypeOK'
<1> Idle \in Loop /\ Idle.at = "idle"
  BY IdleInLoop
<1> DEFINE Released == /\ claimed' = [claimed EXCEPT ![p] = NoJob]
                       /\ verdict' = [verdict EXCEPT ![p] = "none"]
<1>1. ASSUME Released
      PROVE  /\ claimed'[p] = NoJob
             /\ \A q \in Processes \ {p} : claimed'[q] = claimed[q] /\ verdict'[q] = verdict[q]
  BY <1>1 DEF InferenceTypeOK, TypeOK
<1>2. ASSUME Close(p) PROVE InferenceTypeOK'
  <2>1. Released /\ loop[p].at = "idle" /\ loop' = loop
    BY <1>2 DEF Close, Finish
  <2> QED
    BY <1>1, <2>1 DEF InferenceTypeOK
<1>3. ASSUME Crash(p), SetLoop(p, Idle) PROVE InferenceTypeOK'
  <2>1. Released
    BY <1>3 DEF Crash
  <2> QED
    BY <1>1, <1>3, <2>1, LoopGoesOn
<1> QED
  BY <1>2, <1>3

LEMMA LoopKept ==
  InferenceTypeOK /\ TypeOK' /\ [InferenceNext]_inferenceVars => InferenceTypeOK'
<1> SUFFICES ASSUME InferenceTypeOK, TypeOK', [InferenceNext]_inferenceVars PROVE InferenceTypeOK'
  OBVIOUS
<1>1. CASE UNCHANGED inferenceVars
  BY <1>1 DEF inferenceVars, jobVars, workers, InferenceTypeOK
<1>2. CASE \E r \in Requests :
             (Deduplicate(r) \/ StartInsert(r) \/ EndInsert(r)) /\ UNCHANGED loop
  BY <1>2 DEF Deduplicate, StartInsert, EndInsert, workers, InferenceTypeOK
<1>3. ASSUME NEW p \in Processes, Work(p) PROVE InferenceTypeOK'
  <2>1. JobFails(p) => InferenceTypeOK'
    BY ConcludeLoop DEF JobFails, Terminal
  <2> QED
    BY <1>3, <2>1, ClaimAndRunLoop, ToolLoop, ChatLoop, IdleLoop DEF Work, ChatExpires
<1> QED
  BY <1>1, <1>2, <1>3, ChatLoop, ToolLoop, IdleLoop DEF InferenceNext

(* The loop takes the steps of LLMJobs, and its types hold with the types  *)
(* of the jobs.                                                            *)
LEMMA LoopInductive ==
  ASSUME InferenceTypeOK, OneRunner, [InferenceNext]_inferenceVars
  PROVE  InferenceTypeOK' /\ OneRunner'
<1>1. TypeOK /\ [Next]_jobVars
  BY LoopStep DEF InferenceTypeOK
<1>2. TypeOK' /\ OneRunner'
  BY <1>1, TypeKept, RunnerKept
<1> QED
  BY <1>2, LoopKept

(* LoopTypesHold: InferenceTypeOK for any bounds on rounds and tools.      *)
THEOREM LoopTypesHold == InferenceSpec => []InferenceTypeOK
<1>1. InferenceInit => InferenceTypeOK /\ OneRunner
  BY LoopInitially DEF InferenceInit, Init, OneRunner
<1> QED
  BY <1>1, LoopInductive, PTL DEF InferenceSpec

(* LoopIsInference: the loop with the model implements the atomic step of  *)
(* LLMJobs, so what is proved of the jobs holds of the workers that run    *)
(* them, however often the model asks for tools and whatever hangs.        *)
THEOREM LoopIsInference == InferenceSpec => ImplementsJobs
<1>1. InferenceInit => Init
  BY DEF InferenceInit
<1> QED
  BY <1>1, LoopStep, LoopTypesHold, PTL DEF InferenceSpec, ImplementsJobs, Spec
=============================================================================
