------------------------------ MODULE Mappings ------------------------------
(***************************************************************************)
(* The registry of transformations: the table transformation_mappings, the *)
(* gateway's handlers that edit it, and the receiver that picks from it    *)
(* the target of each received message.                                    *)
(*                                                                         *)
(* Every request has a goroutine of its own.  A PUT is two statements, a   *)
(* read and a write of the whole editable part, with no transaction around *)
(* them and no version in the WHERE clause: other requests may come in     *)
(* between.                                                                *)
(***************************************************************************)
EXTENDS Integers, FiniteSets

CONSTANTS
  Mappings,    \* ids: those of the seed, and a fresh uuid for each POST
  Seed,        \* the rows schema/init.sql inserts, by id
  Names,       \* names, by their place in the collation; descriptions go with them
  Formats,     \* what clients may write for a format: "x12" is not "X12"
  Requests,    \* bound: the POST, PUT and DELETE requests of one behaviour
  NoRow,       \* an id without a row; what a handler holds before it has read
  Unsaid,      \* a field the body of a PUT leaves out
  FaultKinds,  \* "db": a statement fails; "late": it commits but errs
  MaxFaults    \* bound: how many faults strike in one behaviour

Row == [name : Names, source : Formats, target : Formats, active : BOOLEAN]

ASSUME MappingAssumption ==
  /\ Names \subseteq Nat
  /\ NoRow \notin Row
  /\ Unsaid \notin Names
  /\ Unsaid \notin BOOLEAN
  /\ DOMAIN Seed \subseteq Mappings
  /\ \A i \in DOMAIN Seed : Seed[i] \in Row
  /\ MaxFaults \in Nat

Creation == [kind : {"POST"}, name : Names, source : Formats, target : Formats]
Change   == [kind : {"PUT"}, id : Mappings, name : Names \cup {Unsaid},
             active : BOOLEAN \cup {Unsaid}]
Deletion == [kind : {"DELETE"}, id : Mappings]

VARIABLES
  row,       \* the table, by id
  body,      \* what each request asks for, NoRow before it arrives
  phase,     \* its handler: "new", "write", "done"
  seen,      \* the row a PUT has read and merged its fields into
  chosen,    \* receiver: the mapping it is about to request, NoRow when none
  asked,     \* history: the transform requests published, as format pairs
  missed,    \* history: what others changed in the row since the PUT read it
  faults

requests == <<body, phase, seen, missed>>
receiver == <<chosen, asked>>
mappingVars == <<row, requests, receiver, faults>>

Fault(kind) ==
  /\ kind \in FaultKinds
  /\ faults < MaxFaults
  /\ faults' = faults + 1

Outcomes == {"ok", "fail", "late"}

Statement(o) ==
  \/ o = "ok" /\ UNCHANGED faults
  \/ o = "fail" /\ Fault("db")
  \/ o = "late" /\ Fault("late")

Init ==
  /\ row = [i \in Mappings |-> IF i \in DOMAIN Seed THEN Seed[i] ELSE NoRow]
  /\ body = [r \in Requests |-> NoRow]
  /\ phase = [r \in Requests |-> "new"]
  /\ seen = [r \in Requests |-> NoRow]
  /\ missed = [r \in Requests |-> {}]
  /\ chosen = NoRow
  /\ asked = {}
  /\ faults = 0

-----------------------------------------------------------------------------
Arrive(r, b, next) ==
  /\ phase[r] = "new"
  /\ body' = [body EXCEPT ![r] = b]
  /\ phase' = [phase EXCEPT ![r] = next]

Answer(r) == phase' = [phase EXCEPT ![r] = "done"] /\ UNCHANGED body

Fields == {"name", "active"}

(* A step gives row i the value v; the PUTs that hold an older copy of it  *)
(* have missed the fields that changed.                                    *)
SetRow(i, v) ==
  /\ row' = [row EXCEPT ![i] = v]
  /\ missed' = [r \in Requests |->
       IF phase[r] = "write" /\ body[r].id = i
         THEN missed[r] \cup {f \in Fields : row[i][f] # v[f]}
         ELSE missed[r]]

(* Create: INSERT, active from the start.                                  *)
NewRow(b) == [name |-> b.name, source |-> b.source, target |-> b.target, active |-> TRUE]

(* GetByID sees inactive rows too.                                         *)
Present(i) == row[i] # NoRow

(* Update and Delete: both an UPDATE, of all that can be edited and of one *)
(* column.                                                                 *)
Update(i, m) == SetRow(i, [row[i] EXCEPT !.name = m.name, !.active = m.active])

Deactivate(i) == SetRow(i, [row[i] EXCEPT !.active = FALSE])

(* POST.  Nothing keeps a second mapping for a pair of formats out of the  *)
(* table.                                                                  *)
PostMapping(r) ==
  /\ \E b \in Creation : Arrive(r, b, "done") /\
       \E i \in Mappings, o \in Outcomes :
         /\ row[i] = NoRow
         /\ Statement(o)
         /\ row' = IF o = "fail" THEN row ELSE [row EXCEPT ![i] = NewRow(b)]
  /\ UNCHANGED <<seen, missed, receiver>>

Given(field, default) == IF field = Unsaid THEN default ELSE field

(* PUT, its first half: the row is read, and the fields of the body go     *)
(* into the copy.  An empty name counts as left out.                       *)
Merge_Plain(old, b) ==
  [old EXCEPT !.name = Given(b.name, @), !.active = Given(b.active, FALSE)]

Merge(old, b) ==
  [old EXCEPT !.name = Given(b.name, @), !.active = Given(b.active, @)]

ReadForPut_Unchecked(r) ==
  /\ \E b \in Change, o \in {"ok", "fail"} :
       /\ Statement(o)
       /\ Arrive(r, b, "write")
       /\ seen' = [seen EXCEPT ![r] = IF o = "fail" \/ ~Present(b.id) THEN NoRow
                                      ELSE Merge(row[b.id], b)]
  /\ UNCHANGED <<row, missed, receiver>>

ReadForPut(r) ==
  /\ \E b \in Change, o \in {"ok", "fail"} :
       /\ Statement(o)
       /\ IF o = "fail" \/ ~Present(b.id)
            THEN Arrive(r, b, "done") /\ UNCHANGED seen
            ELSE /\ Arrive(r, b, "write")
                 /\ seen' = [seen EXCEPT ![r] = Merge(row[b.id], b)]
  /\ UNCHANGED <<row, missed, receiver>>

(* Its second half: the copy is written back.                              *)
WriteForPut(r) ==
  /\ phase[r] = "write"
  /\ \E o \in Outcomes :
       /\ Statement(o)
       /\ IF o = "fail" THEN UNCHANGED <<row, missed>> ELSE Update(body[r].id, seen[r])
  /\ Answer(r)
  /\ UNCHANGED <<seen, receiver>>

(* DELETE: one UPDATE that keeps the row.                                  *)
DeleteMapping_Row(r) ==
  /\ \E b \in Deletion : Arrive(r, b, "done") /\
       \E o \in Outcomes :
         /\ Statement(o)
         /\ row' = IF o = "fail" THEN row ELSE [row EXCEPT ![b.id] = NoRow]
  /\ UNCHANGED <<seen, missed, receiver>>

DeleteMapping(r) ==
  /\ \E b \in Deletion : Arrive(r, b, "done") /\
       \E o \in Outcomes :
         /\ Statement(o)
         /\ IF o = "fail" \/ ~Present(b.id) THEN UNCHANGED <<row, missed>>
            ELSE Deactivate(b.id)
  /\ UNCHANGED <<seen, receiver>>

-----------------------------------------------------------------------------
(* ListActive: ORDER BY name, which leaves the order of equal names open.  *)
Active == {i \in Mappings : row[i] # NoRow /\ row[i].active}

(* The receiver, done with a message of some format, takes the first       *)
(* active mapping whose source format is that string.                      *)
Applicable(f) == {i \in Active : row[i].source = f}

FirstFor(f) == {i \in Applicable(f) : \A j \in Applicable(f) : row[i].name <= row[j].name}

Choose(f) ==
  /\ chosen = NoRow
  /\ \E o \in {"ok", "fail"} :
       /\ Statement(o)
       /\ IF o = "ok" /\ Applicable(f) # {}
            THEN \E i \in FirstFor(f) : chosen' = row[i]
            ELSE UNCHANGED chosen
  /\ UNCHANGED <<row, requests, asked>>

(* The publish of the transform request, whose error is only logged.       *)
Request ==
  /\ chosen # NoRow
  /\ asked' \in {asked, asked \cup {[source |-> chosen.source, target |-> chosen.target]}}
  /\ chosen' = NoRow
  /\ UNCHANGED <<row, requests, faults>>

Next ==
  \/ \E r \in Requests : \/ PostMapping(r) \/ ReadForPut(r) \/ WriteForPut(r)
                         \/ DeleteMapping(r)
  \/ \E f \in Formats : Choose(f)
  \/ Request

Spec == Init /\ [][Next]_mappingVars

-----------------------------------------------------------------------------
(* Every variable has its type, and only a PUT holds a copy between two    *)
(* statements, of a row that exists.                                       *)
TypeOK ==
  /\ row \in [Mappings -> Row \cup {NoRow}]
  /\ body \in [Requests -> Creation \cup Change \cup Deletion \cup {NoRow}]
  /\ phase \in [Requests -> {"new", "write", "done"}]
  /\ seen \in [Requests -> Row \cup {NoRow}]
  /\ missed \in [Requests -> SUBSET Fields]
  /\ chosen \in Row \cup {NoRow}
  /\ asked \subseteq [source : Formats, target : Formats]
  /\ faults \in 0..MaxFaults
  /\ \A r \in Requests : phase[r] = "write" =>
       /\ body[r] \in Change
       /\ seen[r] # NoRow
       /\ row[body[r].id] # NoRow

(* LostEditsOverlap: an edit is never undone by a request that came after  *)
(* it.  When a PUT changes a field its body leaves out, another request    *)
(* changed that very field between the PUT's read and its write: there is  *)
(* no other way for a mapping to change its name or come back to life      *)
(* (cmd/api-gateway main.go:386-414, mapping_repository.go:237-254).       *)
LostEditsOverlap ==
  [][\A r \in Requests : WriteForPut(r) =>
       LET b == body[r] IN \A f \in Fields :
         row'[b.id][f] # row[b.id][f] => b[f] # Unsaid \/ f \in missed[r]]_mappingVars

(* RequestsStayKnown: what the receiver asked for, or is about to, is a    *)
(* pair of formats some mapping in the table has, whatever was renamed,    *)
(* deactivated or deleted since (cmd/receiver main.go:203-234, DELETE as   *)
(* an UPDATE in mapping_repository.go:257-268).                            *)
Known(source, target) ==
  \E i \in Mappings : row[i] # NoRow /\ row[i].source = source /\ row[i].target = target

RequestsStayKnown ==
  /\ \A q \in asked : Known(q.source, q.target)
  /\ chosen # NoRow => Known(chosen.source, chosen.target)
=============================================================================
