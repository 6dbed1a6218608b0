--------------------------- MODULE MappingProofs ----------------------------
(***************************************************************************)
(* Theorems about the registry of transformations, for any number of       *)
(* mappings, requests and faults.                                          *)
(***************************************************************************)
EXTENDS Mappings, TLAPS

(* What it takes for LostEditsOverlap to hold: the copy a PUT holds        *)
(* differs from the row only where its body or another request says so.    *)
CopiesAreCurrent == \A r \in Requests : phase[r] = "write" =>
  \A f \in Fields \ missed[r] :
    seen[r][f] = IF body[r][f] = Unsaid THEN row[body[r].id][f] ELSE body[r][f]

(* A request body of one kind is of no other kind, and none is NoRow's.    *)
LEMMA BodyFacts ==
  /\ \A b \in Change : b.id \in Mappings /\ b.name \in Names \cup {Unsaid}
                       /\ b.active \in BOOLEAN \cup {Unsaid}
  /\ \A b \in Deletion : b.id \in Mappings
  /\ \A b \in Creation : b.name \in Names /\ b.source \in Formats /\ b.target \in Formats
  BY DEF Change, Deletion, Creation

(* Merging a body into a row gives a row, its formats unchanged.           *)
LEMMA MergeFacts ==
  ASSUME NEW old \in Row, NEW b \in Change
  PROVE  /\ Merge(old, b) \in Row
         /\ Merge(old, b) # NoRow
         /\ Merge(old, b).source = old.source
         /\ Merge(old, b).target = old.target
         /\ \A f \in Fields : Merge(old, b)[f] = IF b[f] = Unsaid THEN old[f] ELSE b[f]
  BY BodyFacts, MappingAssumption DEF Merge, Given, Row, Fields

(* Setting a row to a row with its formats keeps the table well typed, all *)
(* rows present and every pair of formats known.                           *)
LEMMA SetRowFacts ==
  ASSUME TypeOK, NEW i \in Mappings, row[i] # NoRow, NEW v \in Row,
         v.source = row[i].source, v.target = row[i].target, SetRow(i, v)
  PROVE  /\ row' \in [Mappings -> Row \cup {NoRow}]
         /\ missed' \in [Requests -> SUBSET Fields]
         /\ \A j \in Mappings : row[j] # NoRow => row'[j] # NoRow
         /\ \A s, t : Known(s, t) => Known(s, t)'
  <1>1. v # NoRow
    BY MappingAssumption
  <1>2. row' \in [Mappings -> Row \cup {NoRow}]
    BY DEF SetRow, TypeOK
  <1>3. missed' \in [Requests -> SUBSET Fields]
    BY DEF SetRow, TypeOK
  <1>4. \A j \in Mappings : row'[j] = IF j = i THEN v ELSE row[j]
    BY DEF SetRow, TypeOK
  <1>5. \A s, t : Known(s, t) => Known(s, t)'
    BY <1>1, <1>4 DEF Known
  <1> QED
    BY <1>1, <1>2, <1>3, <1>4, <1>5

(* Changing the fields of a row keeps it a row with its formats.           *)
LEMMA EditFacts ==
  ASSUME NEW old \in Row, NEW n \in Names, NEW a \in BOOLEAN
  PROVE  LET v == [old EXCEPT !.name = n, !.active = a] IN
         /\ v \in Row /\ v.source = old.source /\ v.target = old.target
         /\ v.name = n /\ v.active = a
  BY DEF Row

(* The rows and bodies of the registry always have their types.            *)
LEMMA TypeInit == Init => TypeOK
  BY MappingAssumption DEF Init, TypeOK

LEMMA TypeStep == TypeOK /\ [Next]_mappingVars => TypeOK'
  <1> SUFFICES ASSUME TypeOK, [Next]_mappingVars PROVE TypeOK'
    OBVIOUS
  <1>0. \A o \in Outcomes : Statement(o) => faults' \in 0..MaxFaults
    BY MappingAssumption DEF Statement, Fault, Outcomes, TypeOK
  <1>1. ASSUME NEW r \in Requests, PostMapping(r) PROVE TypeOK'
    <2>1. PICK b \in Creation, i \in Mappings, o \in Outcomes :
            /\ Arrive(r, b, "done") /\ row[i] = NoRow /\ Statement(o)
            /\ row' = IF o = "fail" THEN row ELSE
                        [row EXCEPT ![i] = [name |-> b.name, source |-> b.source,
                                            target |-> b.target, active |-> TRUE]]
      BY <1>1 DEF PostMapping, NewRow
    <2>2. [name |-> b.name, source |-> b.source, target |-> b.target, active |-> TRUE] \in Row
      BY BodyFacts DEF Row
    <2>3. row' \in [Mappings -> Row \cup {NoRow}]
      BY <2>1, <2>2 DEF TypeOK
    <2>4. \A j \in Mappings : row[j] # NoRow => row'[j] = row[j]
      BY <2>1 DEF TypeOK
    <2>5. /\ body' \in [Requests -> Creation \cup Change \cup Deletion \cup {NoRow}]
          /\ phase' \in [Requests -> {"new", "write", "done"}]
      BY <2>1 DEF Arrive, TypeOK
    <2>6. \A q \in Requests : phase'[q] = "write" => phase[q] = "write" /\ body'[q] = body[q]
      BY <2>1 DEF Arrive, TypeOK
    <2>7. \A q \in Requests : phase'[q] = "write" =>
            body'[q] \in Change /\ seen[q] # NoRow /\ row'[body'[q].id] # NoRow
      BY <2>4, <2>6, BodyFacts DEF TypeOK
    <2> QED
      BY <1>0, <1>1, <2>1, <2>3, <2>5, <2>7 DEF PostMapping, NewRow, TypeOK, receiver
  <1>2. ASSUME NEW r \in Requests, ReadForPut(r) PROVE TypeOK'
    <2>1. PICK b \in Change, o \in {"ok", "fail"} :
            /\ Statement(o)
            /\ IF o = "fail" \/ row[b.id] = NoRow
                 THEN Arrive(r, b, "done") /\ UNCHANGED seen
                 ELSE /\ Arrive(r, b, "write")
                      /\ seen' = [seen EXCEPT ![r] = Merge(row[b.id], b)]
      BY <1>2 DEF ReadForPut, Present
    <2>2. b.id \in Mappings
      BY BodyFacts
    <2>3. row[b.id] # NoRow => Merge(row[b.id], b) \in Row /\ Merge(row[b.id], b) # NoRow
      BY <2>2, MergeFacts DEF TypeOK
    <2>4. faults' \in 0..MaxFaults
      BY <2>1, <1>0 DEF Outcomes
    <2>5. CASE o = "fail" \/ row[b.id] = NoRow
      BY <1>2, <2>1, <2>4, <2>5 DEF ReadForPut, Present, Arrive, TypeOK, receiver
    <2>6. CASE ~(o = "fail" \/ row[b.id] = NoRow)
      <3>1. /\ body' = [body EXCEPT ![r] = b]
            /\ phase' = [phase EXCEPT ![r] = "write"]
            /\ seen' = [seen EXCEPT ![r] = Merge(row[b.id], b)]
        BY <2>1, <2>6 DEF Arrive
      <3>2. /\ body' \in [Requests -> Creation \cup Change \cup Deletion \cup {NoRow}]
            /\ phase' \in [Requests -> {"new", "write", "done"}]
            /\ seen' \in [Requests -> Row \cup {NoRow}]
        BY <2>3, <2>6, <3>1 DEF TypeOK
      <3>3. \A q \in Requests : phase'[q] = "write" =>
              body'[q] \in Change /\ seen'[q] # NoRow /\ row[body'[q].id] # NoRow
        BY <2>3, <2>6, <3>1 DEF TypeOK
      <3> QED
        BY <1>2, <2>4, <3>2, <3>3 DEF ReadForPut, Present, TypeOK, receiver
    <2> QED
      BY <2>5, <2>6
  <1>3. ASSUME NEW r \in Requests, WriteForPut(r) PROVE TypeOK'
    <2> DEFINE i == body[r].id
               v == [row[i] EXCEPT !.name = seen[r].name, !.active = seen[r].active]
    <2>1. /\ i \in Mappings /\ row[i] \in Row /\ row[i] # NoRow /\ seen[r] \in Row
      BY <1>3, BodyFacts DEF WriteForPut, Update, TypeOK
    <2>2. v \in Row /\ v.source = row[i].source /\ v.target = row[i].target
      BY <2>1, EditFacts DEF Row
    <2>3. PICK o \in Outcomes :
            /\ Statement(o)
            /\ IF o = "fail" THEN UNCHANGED <<row, missed>> ELSE SetRow(i, v)
      BY <1>3 DEF WriteForPut, Update
    <2>4. /\ row' \in [Mappings -> Row \cup {NoRow}]
          /\ missed' \in [Requests -> SUBSET Fields]
          /\ \A j \in Mappings : row[j] # NoRow => row'[j] # NoRow
      BY <2>1, <2>2, <2>3, SetRowFacts DEF TypeOK
    <2>5. phase' = [phase EXCEPT ![r] = "done"] /\ UNCHANGED <<body, seen, receiver>>
      BY <1>3 DEF WriteForPut, Update, Answer
    <2>6. \A q \in Requests : phase'[q] = "write" =>
            body[q] \in Change /\ seen[q] # NoRow /\ row'[body[q].id] # NoRow
      BY <2>4, <2>5, BodyFacts DEF TypeOK
    <2> QED
      BY <1>0, <2>3, <2>4, <2>5, <2>6 DEF TypeOK, receiver
  <1>4. ASSUME NEW r \in Requests, DeleteMapping(r) PROVE TypeOK'
    <2>1. PICK b \in Deletion, o \in Outcomes :
            /\ Arrive(r, b, "done")
            /\ Statement(o)
            /\ IF o = "fail" \/ row[b.id] = NoRow THEN UNCHANGED <<row, missed>>
               ELSE SetRow(b.id, [row[b.id] EXCEPT !.active = FALSE])
      BY <1>4 DEF DeleteMapping, Deactivate, Present
    <2>2. b.id \in Mappings
      BY BodyFacts
    <2>3. /\ row' \in [Mappings -> Row \cup {NoRow}]
          /\ missed' \in [Requests -> SUBSET Fields]
          /\ \A j \in Mappings : row[j] # NoRow => row'[j] # NoRow
      <3>1. CASE o = "fail" \/ row[b.id] = NoRow
        BY <2>1, <3>1 DEF TypeOK
      <3>2. CASE ~(o = "fail" \/ row[b.id] = NoRow)
        <4>1. row[b.id] \in Row
          BY <2>2, <3>2 DEF TypeOK
        <4>2. LET v == [row[b.id] EXCEPT !.active = FALSE] IN
                v \in Row /\ v.source = row[b.id].source /\ v.target = row[b.id].target
          BY <4>1 DEF Row
        <4> QED
          BY <2>1, <2>2, <3>2, <4>2, SetRowFacts
      <3> QED
        BY <3>1, <3>2
    <2>4. /\ body' \in [Requests -> Creation \cup Change \cup Deletion \cup {NoRow}]
          /\ phase' \in [Requests -> {"new", "write", "done"}]
          /\ \A q \in Requests : phase'[q] = "write" => phase[q] = "write" /\ body'[q] = body[q]
      BY <2>1 DEF Arrive, TypeOK
    <2>5. UNCHANGED <<seen, receiver>>
      BY <1>4 DEF DeleteMapping, Deactivate, Present
    <2>6. \A q \in Requests : phase'[q] = "write" =>
            body'[q] \in Change /\ seen[q] # NoRow /\ row'[body'[q].id] # NoRow
      BY <2>3, <2>4, BodyFacts DEF TypeOK
    <2> QED
      BY <1>0, <2>1, <2>3, <2>4, <2>5, <2>6 DEF TypeOK, receiver
  <1>5. ASSUME NEW f \in Formats, Choose(f) PROVE TypeOK'
    <2>1. chosen' \in Row \cup {NoRow}
      BY <1>5 DEF Choose, FirstFor, Applicable, Active, TypeOK
    <2> QED
      BY <1>0, <1>5, <2>1 DEF Choose, Outcomes, TypeOK, requests
  <1>6. CASE Request
    <2>1. chosen \in Row
      BY <1>6 DEF Request, TypeOK
    <2>2. [source |-> chosen.source, target |-> chosen.target]
            \in [source : Formats, target : Formats]
      BY <2>1 DEF Row
    <2>3. asked' \subseteq [source : Formats, target : Formats]
      BY <1>6, <2>2 DEF Request, TypeOK
    <2> QED
      BY <1>6, <2>3 DEF Request, TypeOK, requests
  <1>7. CASE UNCHANGED mappingVars
    BY <1>7 DEF mappingVars, requests, receiver, TypeOK
  <1> QED
    BY <1>1, <1>2, <1>3, <1>4, <1>5, <1>6, <1>7 DEF Next

(* TypeOK holds in every behaviour: a PUT between its two statements holds *)
(* a copy of a row that is still in the table.                             *)
THEOREM RegistryTypeOK == Spec => []TypeOK
  BY TypeInit, TypeStep, PTL DEF Spec

-----------------------------------------------------------------------------
(* A step leaves every row in place and with its formats, so what was a    *)
(* pair of formats in the table stays one.                                 *)
LEMMA KnownForGood ==
  ASSUME TypeOK, [Next]_mappingVars
  PROVE  \A s, t : Known(s, t) => Known(s, t)'
  <1>1. ASSUME NEW r \in Requests, PostMapping(r) PROVE \A s, t : Known(s, t) => Known(s, t)'
    <2>1. PICK b \in Creation, i \in Mappings, o \in Outcomes :
            /\ row[i] = NoRow
            /\ row' = IF o = "fail" THEN row ELSE
                        [row EXCEPT ![i] = [name |-> b.name, source |-> b.source,
                                            target |-> b.target, active |-> TRUE]]
      BY <1>1 DEF PostMapping, NewRow
    <2>2. \A j \in Mappings : row[j] # NoRow => row'[j] = row[j]
      BY <2>1 DEF TypeOK
    <2> QED
      BY <2>2 DEF Known
  <1>2. ASSUME NEW r \in Requests, WriteForPut(r) PROVE \A s, t : Known(s, t) => Known(s, t)'
    <2> DEFINE i == body[r].id
               v == [row[i] EXCEPT !.name = seen[r].name, !.active = seen[r].active]
    <2>1. /\ i \in Mappings /\ row[i] \in Row /\ row[i] # NoRow /\ seen[r] \in Row
      BY <1>2, BodyFacts DEF WriteForPut, Update, TypeOK
    <2>2. v \in Row /\ v.source = row[i].source /\ v.target = row[i].target
      BY <2>1, EditFacts DEF Row
    <2>3. UNCHANGED row \/ SetRow(i, v)
      BY <1>2 DEF WriteForPut, Update
    <2>4. CASE UNCHANGED row
      BY <2>4 DEF Known
    <2>5. CASE SetRow(i, v)
      BY <2>1, <2>2, <2>5, SetRowFacts
    <2> QED
      BY <2>3, <2>4, <2>5
  <1>3. ASSUME NEW r \in Requests, DeleteMapping(r) PROVE \A s, t : Known(s, t) => Known(s, t)'
    <2>1. PICK b \in Deletion :
            \/ UNCHANGED row
            \/ row[b.id] # NoRow /\ SetRow(b.id, [row[b.id] EXCEPT !.active = FALSE])
      BY <1>3 DEF DeleteMapping, Deactivate, Present
    <2>2. CASE UNCHANGED row
      BY <2>2 DEF Known
    <2>3. CASE row[b.id] # NoRow /\ SetRow(b.id, [row[b.id] EXCEPT !.active = FALSE])
      <3>1. b.id \in Mappings /\ row[b.id] \in Row
        BY <2>3, BodyFacts DEF TypeOK
      <3>2. LET v == [row[b.id] EXCEPT !.active = FALSE] IN
              v \in Row /\ v.source = row[b.id].source /\ v.target = row[b.id].target
        BY <3>1 DEF Row
      <3> QED
        BY <2>3, <3>1, <3>2, SetRowFacts
    <2> QED
      BY <2>1, <2>2, <2>3
  <1>4. CASE UNCHANGED row
    BY <1>4 DEF Known
  <1> QED
    BY <1>1, <1>2, <1>3, <1>4
       DEF Next, ReadForPut, Present, Choose, Request, mappingVars

(* RequestsStayKnown holds whatever is renamed, deactivated or deleted     *)
(* between the receiver's look at the table, its publish and later.        *)
THEOREM TransformsStayKnown == Spec => []RequestsStayKnown
  <1>1. Init => RequestsStayKnown
    BY DEF Init, RequestsStayKnown
  <1>2. TypeOK /\ RequestsStayKnown /\ [Next]_mappingVars => RequestsStayKnown'
    <2> SUFFICES ASSUME TypeOK, RequestsStayKnown, [Next]_mappingVars
                 PROVE  RequestsStayKnown'
      OBVIOUS
    <2>0. \A s, t : Known(s, t) => Known(s, t)'
      BY KnownForGood
    <2>1. ASSUME NEW f \in Formats, Choose(f) PROVE RequestsStayKnown'
      <3>1. chosen' # NoRow => \E i \in Mappings : row[i] # NoRow /\ chosen' = row[i]
        BY <2>1 DEF Choose, FirstFor, Applicable, Active
      <3>2. chosen' # NoRow => Known(chosen'.source, chosen'.target)
        BY <3>1 DEF Known
      <3> QED
        BY <2>0, <2>1, <3>2 DEF Choose, RequestsStayKnown, Known
    <2>2. CASE Request
      BY <2>0, <2>2 DEF Request, RequestsStayKnown
    <2>3. CASE UNCHANGED receiver
      BY <2>0, <2>3 DEF receiver, RequestsStayKnown
    <2> QED
      BY <2>1, <2>2, <2>3
         DEF Next, PostMapping, NewRow, ReadForPut, WriteForPut, Update, DeleteMapping,
             Deactivate, Present, mappingVars
  <1> QED
    BY <1>1, <1>2, RegistryTypeOK, PTL DEF Spec

-----------------------------------------------------------------------------
(* Setting one row keeps every copy that is not marked as having missed it *)
(* current; request r, if any, is not between its statements any more.     *)
LEMMA CopiesAfterSetRow ==
  ASSUME TypeOK, CopiesAreCurrent, NEW i \in Mappings, NEW v, SetRow(i, v),
         UNCHANGED seen,
         \A q \in Requests : phase'[q] = "write" => phase[q] = "write" /\ body'[q] = body[q]
  PROVE  CopiesAreCurrent'
  <1> SUFFICES ASSUME NEW q \in Requests, phase'[q] = "write",
                      NEW f \in Fields \ missed'[q]
               PROVE  seen[q][f] = IF body[q][f] = Unsaid THEN row'[body[q].id][f]
                                   ELSE body[q][f]
    BY DEF CopiesAreCurrent
  <1>1. phase[q] = "write" /\ body[q].id \in Mappings
    BY BodyFacts DEF TypeOK
  <1>2. missed'[q] = IF body[q].id = i THEN missed[q] \cup {g \in Fields : row[i][g] # v[g]}
                     ELSE missed[q]
    BY <1>1 DEF SetRow
  <1>3. seen[q][f] = IF body[q][f] = Unsaid THEN row[body[q].id][f] ELSE body[q][f]
    BY <1>1, <1>2 DEF CopiesAreCurrent
  <1>4. row'[body[q].id] = IF body[q].id = i THEN v ELSE row[body[q].id]
    BY <1>1 DEF SetRow, TypeOK
  <1>5. body[q].id = i => row[i][f] = v[f]
    BY <1>2
  <1> QED
    BY <1>3, <1>4, <1>5

(* The copies stay current.                                                *)
LEMMA CopiesStep == TypeOK /\ CopiesAreCurrent /\ [Next]_mappingVars => CopiesAreCurrent'
  <1> SUFFICES ASSUME TypeOK, CopiesAreCurrent, [Next]_mappingVars PROVE CopiesAreCurrent'
    OBVIOUS
  <1>1. ASSUME NEW r \in Requests, PostMapping(r) PROVE CopiesAreCurrent'
    <2>1. PICK b \in Creation, i \in Mappings, o \in Outcomes :
            /\ Arrive(r, b, "done") /\ row[i] = NoRow
            /\ row' = IF o = "fail" THEN row ELSE
                        [row EXCEPT ![i] = [name |-> b.name, source |-> b.source,
                                            target |-> b.target, active |-> TRUE]]
      BY <1>1 DEF PostMapping, NewRow
    <2>2. \A j \in Mappings : row[j] # NoRow => row'[j] = row[j]
      BY <2>1 DEF TypeOK
    <2>3. \A q \in Requests : phase'[q] = "write" => phase[q] = "write" /\ body'[q] = body[q]
      BY <2>1 DEF Arrive, TypeOK
    <2>4. \A q \in Requests : phase[q] = "write" => row'[body[q].id] = row[body[q].id]
      BY <2>2, BodyFacts DEF TypeOK
    <2>5. UNCHANGED <<seen, missed>>
      BY <1>1 DEF PostMapping, NewRow
    <2> QED
      BY <2>3, <2>4, <2>5 DEF CopiesAreCurrent
  <1>2. ASSUME NEW r \in Requests, ReadForPut(r) PROVE CopiesAreCurrent'
    <2>1. PICK b \in Change :
            \/ Arrive(r, b, "done") /\ UNCHANGED seen
            \/ /\ row[b.id] # NoRow
               /\ Arrive(r, b, "write")
               /\ seen' = [seen EXCEPT ![r] = Merge(row[b.id], b)]
      BY <1>2 DEF ReadForPut, Present
    <2>2. UNCHANGED <<row, missed>>
      BY <1>2 DEF ReadForPut, Present
    <2>3. CASE Arrive(r, b, "done") /\ UNCHANGED seen
      <3>1. \A q \in Requests : phase'[q] = "write" => phase[q] = "write" /\ body'[q] = body[q]
        BY <2>3 DEF Arrive, TypeOK
      <3> QED
        BY <2>2, <2>3, <3>1 DEF CopiesAreCurrent
    <2>4. CASE /\ row[b.id] # NoRow
               /\ Arrive(r, b, "write")
               /\ seen' = [seen EXCEPT ![r] = Merge(row[b.id], b)]
      <3>1. row[b.id] \in Row
        BY <2>4, BodyFacts DEF TypeOK
      <3>2. \A f \in Fields : seen'[r][f] = IF b[f] = Unsaid THEN row[b.id][f] ELSE b[f]
        BY <2>4, <3>1, MergeFacts DEF TypeOK
      <3>3. body'[r] = b
        BY <2>4 DEF Arrive, TypeOK
      <3>4. \A q \in Requests \ {r} : /\ seen'[q] = seen[q] /\ body'[q] = body[q]
                                      /\ phase'[q] = phase[q]
        BY <2>4 DEF Arrive, TypeOK
      <3> QED
        BY <2>2, <3>2, <3>3, <3>4 DEF CopiesAreCurrent
    <2> QED
      BY <2>1, <2>3, <2>4
  <1>3. ASSUME NEW r \in Requests, WriteForPut(r) PROVE CopiesAreCurrent'
    <2>1. \/ UNCHANGED <<row, missed>>
          \/ \E v : SetRow(body[r].id, v)
      BY <1>3 DEF WriteForPut, Update
    <2>2. phase' = [phase EXCEPT ![r] = "done"] /\ UNCHANGED <<body, seen>>
      BY <1>3 DEF WriteForPut, Update, Answer
    <2>3. \A q \in Requests : phase'[q] = "write" => phase[q] = "write" /\ body'[q] = body[q]
      BY <2>2 DEF TypeOK
    <2>4. body[r].id \in Mappings
      BY <1>3, BodyFacts DEF WriteForPut, Update, TypeOK
    <2>5. CASE UNCHANGED <<row, missed>>
      BY <2>2, <2>3, <2>5 DEF CopiesAreCurrent
    <2>6. CASE \E v : SetRow(body[r].id, v)
      BY <2>2, <2>3, <2>4, <2>6, CopiesAfterSetRow
    <2> QED
      BY <2>1, <2>5, <2>6
  <1>4. ASSUME NEW r \in Requests, DeleteMapping(r) PROVE CopiesAreCurrent'
    <2>1. PICK b \in Deletion :
            /\ Arrive(r, b, "done")
            /\ UNCHANGED <<row, missed>> \/ \E v : SetRow(b.id, v)
      BY <1>4 DEF DeleteMapping, Deactivate, Present
    <2>2. UNCHANGED seen /\ b.id \in Mappings
      BY <1>4, BodyFacts DEF DeleteMapping, Deactivate, Present
    <2>3. \A q \in Requests : phase'[q] = "write" => phase[q] = "write" /\ body'[q] = body[q]
      BY <2>1 DEF Arrive, TypeOK
    <2>4. CASE UNCHANGED <<row, missed>>
      BY <2>2, <2>3, <2>4 DEF CopiesAreCurrent
    <2>5. CASE \E v : SetRow(b.id, v)
      BY <2>2, <2>3, <2>5, CopiesAfterSetRow
    <2> QED
      BY <2>1, <2>4, <2>5
  <1>5. CASE UNCHANGED <<row, requests>>
    BY <1>5 DEF requests, CopiesAreCurrent
  <1> QED
    BY <1>1, <1>2, <1>3, <1>4, <1>5 DEF Next, Choose, Request, mappingVars

(* LostEditsOverlap: only requests that overlap undo each other's edits.   *)
THEOREM EditsLostOnlyByOverlap == Spec => LostEditsOverlap
  <1>1. Init => CopiesAreCurrent
    BY DEF Init, CopiesAreCurrent
  <1>2. ASSUME TypeOK, CopiesAreCurrent, NEW r \in Requests, WriteForPut(r),
               NEW f \in Fields, row'[body[r].id][f] # row[body[r].id][f]
        PROVE  body[r][f] # Unsaid \/ f \in missed[r]
    <2> DEFINE i == body[r].id
               v == [row[i] EXCEPT !.name = seen[r].name, !.active = seen[r].active]
    <2>1. /\ i \in Mappings /\ row[i] \in Row /\ seen[r] \in Row /\ phase[r] = "write"
      BY <1>2, BodyFacts DEF WriteForPut, Update, TypeOK
    <2>2. row' = [row EXCEPT ![i] = v]
      BY <1>2 DEF WriteForPut, Update, SetRow
    <2>3. row'[i] = v
      <3> HIDE DEF i, v
      <3> QED
        BY <1>2, <2>1, <2>2 DEF TypeOK
    <2>4. v.name = seen[r].name /\ v.active = seen[r].active
      BY <2>1, EditFacts DEF Row
    <2>5. seen[r][f] # row[i][f]
      BY <1>2, <2>3, <2>4 DEF Fields
    <2> QED
      BY <1>2, <2>1, <2>5 DEF CopiesAreCurrent
  <1>3. TypeOK /\ CopiesAreCurrent =>
          [\A r \in Requests : WriteForPut(r) =>
             LET b == body[r] IN \A f \in Fields :
               row'[b.id][f] # row[b.id][f] => b[f] # Unsaid \/ f \in missed[r]]_mappingVars
    BY <1>2
  <1> QED
    BY <1>1, <1>3, CopiesStep, RegistryTypeOK, PTL DEF Spec, LostEditsOverlap
=============================================================================
