-------------------------- MODULE SimulatorProofs ---------------------------
(***************************************************************************)
(* The simulator for any number of partners, operators and attempts:       *)
(* types, what a pause and its answer promise, that no corrupted order is  *)
(* ever stored, wherever its byte was overwritten, and that of the others  *)
(* all but the XML ones can be read.                                       *)
(***************************************************************************)
EXTENDS Simulator, SequenceFacts, TLAPS

Answers == {"awaited", "created", "refused", "failed"}

Letters == [sender : 1..N, receiver : 1..N, order : Drafts, answer : Answers]

(* The order posted last is an order somebody wrote, between two partners. *)
LetterOK ==
  \/ letter = NoLetter
  \/ /\ letter \in Letters
     /\ letter.receiver # letter.sender
     /\ letter.order.format = Preferred[letter.sender]

TypesOK == SimulatorTypeOK /\ LetterOK

(* A letter that was written is not the absence of one.                    *)
LEMMA LettersAreSome == \A l \in Letters : l # NoLetter
<1> SUFFICES ASSUME NEW l \in Letters PROVE l # NoLetter
  OBVIOUS
<1>1. l.answer # "none"
  BY DEF Letters, Answers
<1>2. NoLetter.answer = "none"
  BY DEF NoLetter
<1> QED
  BY <1>1, <1>2

(* The receiver drawn is another partner.                                  *)
LEMMA ReceiverIsAnother ==
  ASSUME NEW sender \in 1..N, NEW draw \in 1..(N - 1)
  PROVE  Receiver(sender, draw) \in 1..N \ {sender}
BY SimulatorAssumption DEF Receiver

(* What Post writes, and what the answer makes of it, is a letter.         *)
LEMMA PostLetter ==
  ASSUME TypesOK, Post
  PROVE  LetterOK' /\ letter' # NoLetter
<1>1. PICK sender \in 1..N, draw \in 1..(N - 1), order \in Drafts :
        /\ order.format = Preferred[sender]
        /\ letter' = [sender |-> sender, receiver |-> Receiver(sender, draw),
                      order |-> order, answer |-> "awaited"]
  BY DEF Post
<1>2. Receiver(sender, draw) \in 1..N \ {sender}
  BY ReceiverIsAnother
<1>3. letter' \in Letters
  BY <1>1, <1>2 DEF Letters, Answers
<1> QED
  BY <1>1, <1>2, <1>3, LettersAreSome DEF LetterOK

LEMMA AnswerLetter ==
  ASSUME TypesOK, GatewayAnswers
  PROVE  LetterOK'
<1>1. PICK answer \in {"created", "refused", "failed"} : letter' = [letter EXCEPT !.answer = answer]
  BY DEF GatewayAnswers
<1>2. letter \in Letters
  BY DEF GatewayAnswers, TypesOK, LetterOK, NoLetter
<1>3. letter' \in Letters
  BY <1>1, <1>2 DEF Letters, Answers
<1> QED
  BY <1>1, <1>2, <1>3, LettersAreSome DEF LetterOK, TypesOK, Letters

(* A letter has the type SimulatorTypeOK gives it.                         *)
LEMMA LetterTyped ==
  ASSUME LetterOK
  PROVE  letter # NoLetter =>
           /\ letter.sender \in 1..N /\ letter.receiver \in 1..N \ {letter.sender}
           /\ letter.order.format = Preferred[letter.sender]
           /\ letter.answer \in {"awaited", "created", "refused", "failed"}
BY DEF LetterOK, Letters, Answers

(* Every step keeps the types.                                             *)
LEMMA SimulatorTypesKept ==
  TypesOK /\ [SimulatorNext]_simulatorVars => TypesOK'
<1> SUFFICES ASSUME TypesOK, [SimulatorNext]_simulatorVars PROVE TypesOK'
  OBVIOUS
<1> SimulatorTypeOK /\ LetterOK
  BY DEF TypesOK
<1> USE SimulatorAssumption
<1>1. CASE Post
  <2>1. LetterOK'
    BY <1>1, PostLetter
  <2>2. late' \in 0..2
    BY <1>1 DEF Post, SimulatorTypeOK
  <2> QED
    BY <1>1, <2>1, <2>2, LetterTyped, SMTT(30)
       DEF Post, SimulatorTypeOK, TypesOK, operators, LetterOK, Letters, Answers
<1>2. CASE GatewayAnswers
  BY <1>2, AnswerLetter, LetterTyped
  DEF GatewayAnswers, SimulatorTypeOK, TypesOK, operators, process, LetterOK, Letters, Answers
<1>3. CASE UNCHANGED letter /\ SimulatorTypeOK'
  BY <1>3 DEF TypesOK, LetterOK
<1>4. CASE Fetch \/ GiveUp \/ Tick \/ Posted \/ Hang \/ Signal \/ Shutdown \/ Die
  <2>1. UNCHANGED <<letter, operators, paused, late>>
    BY <1>4 DEF Fetch, GiveUp, Tick, Posted, Hang, Signal, Shutdown, Die
  <2>2. /\ phase' \in {"fetching", "running", "exited", "stopped"}
        /\ loop' \in {"select", "ticked", "posted", "hung"}
        /\ signal' \in BOOLEAN
    BY <1>4 DEF Fetch, GiveUp, Tick, Posted, Hang, Signal, Shutdown, Die, SimulatorTypeOK
  <2>3. attempts' = attempts \/ (attempts < MaxAttempts /\ attempts' = attempts + 1)
    BY <1>4 DEF Fetch, GiveUp, Tick, Posted, Hang, Signal, Shutdown, Die
  <2>4. attempts' \in 0..MaxAttempts
    BY <2>3 DEF SimulatorTypeOK
  <2> QED
    BY <1>3, <2>1, <2>2, <2>4 DEF SimulatorTypeOK, operators
<1>5. CASE Restart
  <2>1. restarted' \in BOOLEAN
    BY <1>5, Zenon DEF Restart
  <2>2. control' \in [Operators -> [at : {"new", "stored", "done"},
                                    told : {"nothing", "pause", "resume", "unreachable"}]]
    BY <1>5 DEF Restart, SimulatorTypeOK
  <2>3. attempts' \in 0..MaxAttempts
    BY <1>5 DEF Restart
  <2> QED
    BY <1>3, <1>5, <2>1, <2>2, <2>3 DEF Restart, SimulatorTypeOK
<1>6. ASSUME NEW o \in Operators, Store(o) PROVE TypesOK'
  <2>1. control' \in [Operators -> [at : {"new", "stored", "done"},
                                    told : {"nothing", "pause", "resume", "unreachable"}]]
    BY <1>6 DEF Store, SimulatorTypeOK
  <2>2. \/ late' = late /\ restarted' = restarted
        \/ late' = 0 /\ restarted' = FALSE
    BY <1>6, Zenon DEF Store
  <2>3. paused' \in BOOLEAN /\ ordered' \in {"pause", "resume"} /\ misled' \in SUBSET Operators
    BY <1>6 DEF Store, SimulatorTypeOK
  <2> QED
    <3>1. restarted' \in BOOLEAN
      BY <2>2, Zenon DEF SimulatorTypeOK
    <3>2. late' \in 0..2
      BY <2>2 DEF SimulatorTypeOK
    <3>3. UNCHANGED <<process, letter>>
      BY <1>6 DEF Store
    <3> QED
      BY <1>3, <2>1, <2>3, <3>1, <3>2, <3>3 DEF SimulatorTypeOK, process
<1>7. ASSUME NEW o \in Operators, Answer(o) \/ Unreachable(o) PROVE TypesOK'
  <2>1. PICK told \in {"pause", "resume", "unreachable"} : Tell(o, told)
    BY <1>7 DEF Answer, Unreachable
  <2>2. control' \in [Operators -> [at : {"new", "stored", "done"},
                                    told : {"nothing", "pause", "resume", "unreachable"}]]
    BY <2>1 DEF Tell, SimulatorTypeOK
  <2> QED
    BY <1>3, <2>1, <2>2 DEF Tell, SimulatorTypeOK, process
<1>8. CASE UNCHANGED simulatorVars
  BY <1>3, <1>8 DEF simulatorVars, process, operators, SimulatorTypeOK
<1> QED
  BY <1>1, <1>2, <1>4, <1>5, <1>6, <1>7, <1>8 DEF SimulatorNext, Loop

(* They hold initially, and thus always.                                   *)
LEMMA SimulatorTypesInitially == SimulatorInit => TypesOK
<1> SUFFICES ASSUME SimulatorInit PROVE TypesOK
  OBVIOUS
<1>1. control \in [Operators -> [at : {"new", "stored", "done"},
                                 told : {"nothing", "pause", "resume", "unreachable"}]]
  BY DEF SimulatorInit
<1>2. attempts \in 0..MaxAttempts
  BY SimulatorAssumption DEF SimulatorInit
<1> QED
  <2>1. SimulatorTypeOK
    <3>1. signal \in BOOLEAN /\ paused \in BOOLEAN /\ restarted \in BOOLEAN
      BY Zenon DEF SimulatorInit
    <3>2. late \in 0..2
      BY DEF SimulatorInit
    <3> QED
      BY <1>1, <1>2, <3>1, <3>2, Zenon DEF SimulatorInit, SimulatorTypeOK
  <2> QED
    BY <2>1 DEF SimulatorInit, TypesOK, LetterOK

LEMMA AllTypesHold == SimulatorSpec => []TypesOK
<1> QED
  BY SimulatorTypesInitially, SimulatorTypesKept, PTL DEF SimulatorSpec

(* SimulatorTypesHold: SimulatorTypeOK for any number of partners,         *)
(* operators and attempts.                                                 *)
THEOREM SimulatorTypesHold == SimulatorSpec => []SimulatorTypeOK
<1>1. TypesOK => SimulatorTypeOK
  BY DEF TypesOK
<1> QED
  BY <1>1, AllTypesHold, PTL

-----------------------------------------------------------------------------
(* The flag is set only by a pause, and while the process that was asked   *)
(* lives it stays: then no tick passes the check any more, and the one     *)
(* order whose tick had passed it is the last.                             *)
PauseInv ==
  /\ paused => ordered = "pause"
  /\ ordered = "pause" /\ ~restarted =>
       /\ paused
       /\ late <= 1
       /\ late = 1 => loop # "ticked"

(* Every step keeps PauseInv.                                              *)
LEMMA PauseKept == SimulatorTypeOK /\ PauseInv /\ [SimulatorNext]_simulatorVars => PauseInv'
<1> SUFFICES ASSUME SimulatorTypeOK, PauseInv, [SimulatorNext]_simulatorVars PROVE PauseInv'
  OBVIOUS
<1>1. CASE Post
  BY <1>1 DEF Post, PauseInv, operators, SimulatorTypeOK
<1>2. CASE Tick
  BY <1>2 DEF Tick, PauseInv, operators
<1>3. CASE Posted \/ Hang
  BY <1>3 DEF Posted, Hang, PauseInv, operators
<1>4. CASE Fetch \/ GiveUp \/ GatewayAnswers \/ Signal \/ Shutdown \/ Die
  BY <1>4
  DEF Fetch, GiveUp, GatewayAnswers, Signal, Shutdown, Die, PauseInv, operators, process
<1>5. CASE Restart
  BY <1>5 DEF Restart, PauseInv, SimulatorTypeOK
<1>6. ASSUME NEW o \in Operators, Store(o) PROVE PauseInv'
  <2>1. Wants[o] \in {"pause", "resume"} /\ ordered' = Wants[o] /\ loop' = loop
    BY <1>6, SimulatorAssumption DEF Store, process
  <2>2. paused' <=> Wants[o] = "pause"
    BY <1>6 DEF Store
  <2>3. CASE paused' /\ paused
    <3>1. late' = late /\ restarted' = restarted
      BY <1>6, <2>3, Zenon DEF Store
    <3> QED
      BY <2>1, <2>2, <2>3, <3>1 DEF PauseInv
  <2>4. CASE ~(paused' /\ paused)
    <3>1. late' = 0
      BY <1>6, <2>4, Zenon DEF Store
    <3> QED
      BY <2>1, <2>2, <3>1 DEF PauseInv
  <2> QED
    BY <2>3, <2>4
<1>7. ASSUME NEW o \in Operators, Answer(o) \/ Unreachable(o) PROVE PauseInv'
  BY <1>7 DEF Answer, Unreachable, Tell, PauseInv, process
<1>8. CASE UNCHANGED simulatorVars
  BY <1>8 DEF simulatorVars, process, operators, PauseInv
<1> QED
  BY <1>1, <1>2, <1>3, <1>4, <1>5, <1>6, <1>7, <1>8 DEF SimulatorNext, Loop

(* PauseHolds: PauseTakesHold for any number of operators, whatever they   *)
(* ask in whatever order.                                                  *)
THEOREM PauseHolds == SimulatorSpec => []PauseTakesHold
<1>1. SimulatorInit => PauseInv
  BY DEF SimulatorInit, PauseInv
<1>2. PauseInv /\ SimulatorTypeOK => PauseTakesHold
  BY DEF PauseInv, PauseTakesHold, SimulatorTypeOK
<1> QED
  BY <1>1, <1>2, PauseKept, SimulatorTypesHold, PTL DEF SimulatorSpec

-----------------------------------------------------------------------------
(* Until it is answered or undone, a request is what the flag says.        *)
ToldInv ==
  /\ ToldWhatWasAsked
  /\ \A o \in Operators :
       control[o].at = "stored" /\ o \notin misled => (paused <=> Wants[o] = "pause")

(* Every step keeps ToldInv.                                               *)
LEMMA ToldKept == SimulatorTypeOK /\ ToldInv /\ [SimulatorNext]_simulatorVars => ToldInv'
<1> SUFFICES ASSUME SimulatorTypeOK, ToldInv, [SimulatorNext]_simulatorVars PROVE ToldInv'
  OBVIOUS
<1> USE SimulatorAssumption
<1>1. CASE UNCHANGED <<control, misled, paused>>
  BY <1>1 DEF ToldInv, ToldWhatWasAsked
<1>2. CASE Restart
  <2>1. \A q \in Operators :
          /\ control'[q].told \in {control[q].told, "unreachable"}
          /\ control'[q].at # "stored"
    BY <1>2 DEF Restart
  <2> QED
    BY <1>2, <2>1 DEF Restart, ToldInv, ToldWhatWasAsked
<1>3. ASSUME NEW o \in Operators, Store(o) PROVE ToldInv'
  <2>1. \A q \in Operators :
          /\ control'[q].told = control[q].told
          /\ control'[q].at = IF q = o THEN "stored" ELSE control[q].at
    BY <1>3 DEF Store, SimulatorTypeOK
  <2>2. ToldWhatWasAsked'
    BY <1>3, <2>1 DEF Store, ToldInv, ToldWhatWasAsked
  <2>3. \A q \in Operators :
          control'[q].at = "stored" /\ q \notin misled' => (paused' <=> Wants[q] = "pause")
    BY <1>3, <2>1 DEF Store
  <2> QED
    BY <2>2, <2>3 DEF ToldInv
<1>4. ASSUME NEW o \in Operators, NEW told, Tell(o, told),
             told \in {"pause", "resume"} /\ told # Wants[o] => o \in misled
      PROVE  ToldInv'
  <2>1. \A q \in Operators :
          control'[q] = IF q = o THEN [at |-> "done", told |-> told] ELSE control[q]
    BY <1>4 DEF Tell, SimulatorTypeOK
  <2>2. ToldWhatWasAsked'
    BY <1>4, <2>1 DEF Tell, ToldInv, ToldWhatWasAsked
  <2>3. \A q \in Operators :
          control'[q].at = "stored" /\ q \notin misled' => (paused' <=> Wants[q] = "pause")
    BY <1>4, <2>1 DEF Tell, ToldInv
  <2> QED
    BY <2>2, <2>3 DEF ToldInv
<1>5. ASSUME NEW o \in Operators, Answer(o) \/ Unreachable(o) PROVE ToldInv'
  BY <1>4, <1>5 DEF Answer, Unreachable, ToldInv
<1>6. CASE \/ Fetch \/ GiveUp \/ Loop \/ GatewayAnswers \/ Hang \/ Signal \/ Shutdown \/ Die
           \/ UNCHANGED simulatorVars
  BY <1>1, <1>6 DEF Fetch, GiveUp, Loop, Tick, Post, Posted, GatewayAnswers, Hang, Signal,
                    Shutdown, Die, simulatorVars, operators
<1> QED
  BY <1>2, <1>3, <1>5, <1>6 DEF SimulatorNext

(* ToldHolds: ToldWhatWasAsked for any number of operators.                *)
THEOREM ToldHolds == SimulatorSpec => []ToldWhatWasAsked
<1>1. SimulatorInit => ToldInv
  BY DEF SimulatorInit, ToldInv, ToldWhatWasAsked
<1>2. ToldInv => ToldWhatWasAsked
  BY DEF ToldInv
<1> QED
  BY <1>1, <1>2, ToldKept, SimulatorTypesHold, PTL DEF SimulatorSpec

-----------------------------------------------------------------------------
(* The orders in X12 and EDIFACT are texts.                                *)
Tokens(qty, price) ==
  {"'", "*", "+", "00", "0001", "1", "102", "137", "21", "220", "3", "4",
   "7", "850", "9", ":", "AAA", "BEG", "BGM", "DTM", "EA", "GE", "GS",
   "IEA", "IN", "ISA", "ITEM001", "LIN", "ORDERS", "PO", "PO1", "PRI",
   "QTY", "RECEIVER", "SA", "SE", "SENDER", "ST", "UNB", "UNH", "UNOA",
   "UNT", "UNZ", "ZZ", "order", "~", Today, qty, price}

(* A segment is a text of whatever holds its tag, its delimiters and the   *)
(* tokens of its elements.                                                 *)
Marks == {"*", "+", "~", "'"}

LEMMA SegmentType ==
  ASSUME NEW S, Marks \subseteq S, NEW tag \in S, NEW elements \in Seq(Seq(S))
  PROVE  X12Segment(tag, elements) \in Seq(S) /\ EdifactSegment(tag, elements) \in Seq(S)
<1> DEFINE parts == <<<<tag>>>> \o elements
<1>1. <<tag>> \in Seq(S)
  BY TupleType, Zenon
<1>2. <<<<tag>>>> \in Seq(Seq(S)) /\ <<<<tag>>>> # <<>>
  BY <1>1, TupleType
<1>3. parts \in Seq(Seq(S)) /\ parts # <<>>
  BY <1>2, ConcatType, ConcatNotEmpty
<1> HIDE DEF parts
<1>4. "*" \in S /\ "+" \in S /\ "~" \in S /\ "'" \in S
  BY DEF Marks
<1>5. <<"~">> \in Seq(S) /\ <<"'">> \in Seq(S)
  BY <1>4, TupleType, Zenon
<1>6. Join(parts, "*") \in Seq(S) /\ Join(parts, "+") \in Seq(S)
  BY <1>3, <1>4, JoinType, Zenon
<1>7. Join(parts, "*") \o <<"~">> \in Seq(S) /\ Join(parts, "+") \o <<"'">> \in Seq(S)
  BY <1>5, <1>6, ConcatType, Zenon
<1> QED
  BY <1>7, Zenon DEF X12Segment, EdifactSegment, parts

(* SegmentType for the numbers of elements that occur.                     *)
LEMMA SegmentsType ==
  ASSUME NEW S, Marks \subseteq S, NEW tag \in S
  PROVE  /\ \A a \in Seq(S) : X12Segment(tag, <<a>>) \in Seq(S)
         /\ \A a, b \in Seq(S) : X12Segment(tag, <<a, b>>) \in Seq(S)
         /\ \A a, b, c, d \in Seq(S) : X12Segment(tag, <<a, b, c, d>>) \in Seq(S)
         /\ \A a, b, c, d, e \in Seq(S) : X12Segment(tag, <<a, b, c, d, e>>) \in Seq(S)
         /\ \A a, b, c, d, e, f, g \in Seq(S) :
              X12Segment(tag, <<a, b, c, d, e, f, g>>) \in Seq(S)
         /\ \A a, b, c, d, e, f, g, h \in Seq(S) :
              X12Segment(tag, <<a, b, c, d, e, f, g, h>>) \in Seq(S)
         /\ \A a \in Seq(S) : EdifactSegment(tag, <<a>>) \in Seq(S)
         /\ \A a, b \in Seq(S) : EdifactSegment(tag, <<a, b>>) \in Seq(S)
         /\ \A a, b, c \in Seq(S) : EdifactSegment(tag, <<a, b, c>>) \in Seq(S)
BY SegmentType, TupleType, Zenon

(* The elements of a segment are short texts of the tokens.                *)
LEMMA ElementsType ==
  ASSUME NEW S
  PROVE  /\ <<>> \in Seq(S)
         /\ \A a \in S : <<a>> \in Seq(S)
         /\ \A a, b, c \in S : <<a, b, c>> \in Seq(S)
         /\ \A a, b, c, d, e \in S : <<a, b, c, d, e>> \in Seq(S)
BY TupleType, Zenon

(* The orders are texts of their tokens.                                   *)
LEMMA OrderType ==
  ASSUME NEW qty, NEW price
  PROVE  /\ x12Order(qty, price) \in Seq(Tokens(qty, price))
         /\ edifactOrder(qty, price) \in Seq(Tokens(qty, price))
<1> DEFINE S == Tokens(qty, price)
<1>1. Marks \subseteq S
  BY DEF Marks, Tokens
<1>2. x12Order(qty, price) \in Seq(S)
  <2>0. /\ "ISA" \in S /\ "00" \in S /\ "ZZ" \in S /\ "SENDER" \in S /\ "RECEIVER" \in S
        /\ "GS" \in S /\ "PO" \in S /\ Today \in S /\ "ST" \in S /\ "850" \in S
        /\ "0001" \in S /\ "BEG" \in S /\ "SA" \in S /\ "order" \in S /\ "PO1" \in S
        /\ "1" \in S /\ qty \in S /\ "EA" \in S /\ price \in S /\ "IN" \in S
        /\ "ITEM001" \in S /\ "SE" \in S /\ "4" \in S /\ "GE" \in S /\ "IEA" \in S
    BY DEF Tokens
  <2> HIDE DEF S
  <2>1. X12Segment("ISA", <<<<"00">>, <<>>, <<"00">>, <<>>,
                            <<"ZZ">>, <<"SENDER">>, <<"ZZ">>, <<"RECEIVER">>>>)
          \in Seq(S)
    BY <1>1, <2>0, ElementsType, SegmentsType, Zenon
  <2>2. X12Segment("GS", <<<<"PO">>, <<"SENDER">>, <<"RECEIVER">>, <<Today>>>>) \in Seq(S)
    BY <1>1, <2>0, ElementsType, SegmentsType, Zenon
  <2>3. X12Segment("ST", <<<<"850">>, <<"0001">>>>) \in Seq(S)
    BY <1>1, <2>0, ElementsType, SegmentsType, Zenon
  <2>4. X12Segment("BEG", <<<<"00">>, <<"SA">>, <<"order">>, <<>>, <<Today>>>>) \in Seq(S)
    BY <1>1, <2>0, ElementsType, SegmentsType, Zenon
  <2>5. X12Segment("PO1", <<<<"1">>, <<qty>>, <<"EA">>, <<price>>, <<>>, <<"IN">>, <<"ITEM001">>>>)
          \in Seq(S)
    BY <1>1, <2>0, ElementsType, SegmentsType, Zenon
  <2>6. X12Segment("SE", <<<<"4">>, <<"0001">>>>) \in Seq(S)
    BY <1>1, <2>0, ElementsType, SegmentsType, Zenon
  <2>7. X12Segment("GE", <<<<"1">>>>) \in Seq(S)
    BY <1>1, <2>0, ElementsType, SegmentsType, Zenon
  <2>8. X12Segment("IEA", <<<<"1">>>>) \in Seq(S)
    BY <1>1, <2>0, ElementsType, SegmentsType, Zenon
  <2> QED
    BY <2>1, <2>2, <2>3, <2>4, <2>5, <2>6, <2>7, <2>8, ConcatType, Zenon DEF x12Order
<1>3. edifactOrder(qty, price) \in Seq(S)
  <2>0. /\ "UNB" \in S /\ "UNOA" \in S /\ ":" \in S /\ "3" \in S /\ "SENDER" \in S
        /\ "RECEIVER" \in S /\ "UNH" \in S /\ "1" \in S /\ "ORDERS" \in S /\ "BGM" \in S
        /\ "220" \in S /\ "order" \in S /\ "9" \in S /\ "DTM" \in S /\ "137" \in S
        /\ Today \in S /\ "102" \in S /\ "LIN" \in S /\ "ITEM001" \in S /\ "IN" \in S
        /\ "QTY" \in S /\ "21" \in S /\ qty \in S /\ "PRI" \in S /\ "AAA" \in S
        /\ price \in S /\ "UNT" \in S /\ "7" \in S /\ "UNZ" \in S
    BY DEF Tokens
  <2> HIDE DEF S
  <2>1. EdifactSegment("UNB", <<<<"UNOA", ":", "3">>, <<"SENDER">>, <<"RECEIVER">>>>) \in Seq(S)
    BY <1>1, <2>0, ElementsType, SegmentsType, Zenon
  <2>2. EdifactSegment("UNH", <<<<"1">>, <<"ORDERS">>>>) \in Seq(S)
    BY <1>1, <2>0, ElementsType, SegmentsType, Zenon
  <2>3. EdifactSegment("BGM", <<<<"220">>, <<"order">>, <<"9">>>>) \in Seq(S)
    BY <1>1, <2>0, ElementsType, SegmentsType, Zenon
  <2>4. EdifactSegment("DTM", <<<<"137", ":", Today, ":", "102">>>>) \in Seq(S)
    BY <1>1, <2>0, ElementsType, SegmentsType, Zenon
  <2>5. EdifactSegment("LIN", <<<<"1">>, <<>>, <<"ITEM001", ":", "IN">>>>) \in Seq(S)
    BY <1>1, <2>0, ElementsType, SegmentsType, Zenon
  <2>6. EdifactSegment("QTY", <<<<"21", ":", qty>>>>) \in Seq(S)
    BY <1>1, <2>0, ElementsType, SegmentsType, Zenon
  <2>7. EdifactSegment("PRI", <<<<"AAA", ":", price>>>>) \in Seq(S)
    BY <1>1, <2>0, ElementsType, SegmentsType, Zenon
  <2>8. EdifactSegment("UNT", <<<<"7">>, <<"1">>>>) \in Seq(S)
    BY <1>1, <2>0, ElementsType, SegmentsType, Zenon
  <2>9. EdifactSegment("UNZ", <<<<"1">>>>) \in Seq(S)
    BY <1>1, <2>0, ElementsType, SegmentsType, Zenon
  <2> QED
    BY <2>1, <2>2, <2>3, <2>4, <2>5, <2>6, <2>7, <2>8, <2>9, ConcatType, Zenon DEF edifactOrder
<1> QED
  BY <1>2, <1>3

-----------------------------------------------------------------------------
(* A null byte stays where it was put, and Postgres finds it.              *)
LEMMA OverwriteHoldsNull ==
  ASSUME NEW S, NEW w \in Seq(S), NEW n \in 3..Len(w), NEW left \in BOOLEAN
  PROVE  "NUL" \in ToSet(Overwrite(w, n, left, <<"NUL">>))
<1> DEFINE T == S \cup {"<<<CORRUPT>>>", "NUL"}
           kept == IF left /\ w[n] \notin Delimiters THEN <<w[n]>> ELSE <<>>
           before == SubSeq(w, 1, n - 1) \o kept \o <<"<<<CORRUPT>>>">>
           after == SubSeq(w, n + 1, Len(w))
           all == before \o <<"NUL">> \o after
<1>1. "<<<CORRUPT>>>" \in T /\ "NUL" \in T /\ w[n] \in T
  OBVIOUS
<1>2. SubSeq(w, 1, n - 1) \in Seq(T) /\ after \in Seq(T)
  OBVIOUS
<1> HIDE DEF T, after
<1>3. <<w[n]>> \in Seq(T) /\ <<>> \in Seq(T) /\ <<"<<<CORRUPT>>>">> \in Seq(T)
  BY <1>1, TupleType, Zenon
<1>4. kept \in Seq(T)
  BY <1>3, Zenon
<1> HIDE DEF kept
<1>5. before \in Seq(T)
  BY <1>2, <1>3, <1>4, ConcatType, Zenon
<1> HIDE DEF before
<1>6. Len(before) + 1 \in DOMAIN all /\ all[Len(before) + 1] = "NUL"
  BY <1>1, <1>2, <1>5
<1>7. "NUL" \in ToSet(all)
  BY <1>6, Zenon DEF ToSet
<1> QED
  BY <1>7 DEF Overwrite, before, kept, after

(* No malformed order is accepted by both validation and Postgres.         *)
LEMMA MalformedKeptOut ==
  ASSUME NEW f \in Formats, NEW w \in generateContent(f, "malformed")
  PROVE  ~(Valid(f, w) /\ Storable(f, w))
<1>1. w \in Malform(f, Order(f, "10", "2"))
  BY DEF generateContent
<1>2. CASE f = "xml"
  <2>1. Order(f, "10", "2") = xmlOrder
    BY <1>2 DEF Order
  <2>2. CASE w = Tree("none")
    BY <1>2, <2>2 DEF Tree, Valid, XmlValid
  <2>3. CASE w = xmlOrder \o <<"NUL">>
    BY <1>2, <2>3 DEF Storable, xmlOrder, Tree
  <2> QED
    BY <1>1, <1>2, <2>1, <2>2, <2>3 DEF Malform
<1>3. CASE f # "xml"
  <2> DEFINE S == Tokens("10", "2")
             order == Order(f, "10", "2")
  <2>1. f = "x12" \/ f = "edifact"
    BY <1>3 DEF Formats
  <2>2. order = x12Order("10", "2") \/ order = edifactOrder("10", "2")
    BY <2>1 DEF Order
  <2>3. order \in Seq(S)
    BY <2>2, OrderType, Zenon
  <2> HIDE DEF S, order
  <2>6. w \in Malform(f, order)
    BY <1>1 DEF order
  <2>7. w \in {Overwrite(order, n, left, <<"NUL">>) : n \in 3..Len(order), left \in BOOLEAN}
    BY <1>3, <2>6 DEF Malform
  <2>4. PICK n \in 3..Len(order), left \in BOOLEAN : w = Overwrite(order, n, left, <<"NUL">>)
    BY <2>7
  <2>5. "NUL" \in ToSet(w)
    BY <2>3, <2>4, OverwriteHoldsNull, Zenon
  <2> QED
    BY <1>3, <2>5 DEF Storable
<1> QED
  BY <1>2, <1>3

(* What was created had been accepted by both.                             *)
CreatedInv == letter.answer = "created" => letter.order.valid /\ letter.order.storable

(* Every step keeps CreatedInv.                                            *)
LEMMA CreatedKept == TypesOK /\ CreatedInv /\ [SimulatorNext]_simulatorVars => CreatedInv'
<1> SUFFICES ASSUME TypesOK, CreatedInv, [SimulatorNext]_simulatorVars PROVE CreatedInv'
  OBVIOUS
<1>1. CASE Post
  BY <1>1 DEF Post, CreatedInv
<1>2. CASE GatewayAnswers
  <2>1. letter \in Letters
    BY <1>2 DEF GatewayAnswers, TypesOK, LetterOK, NoLetter
  <2> QED
    BY <1>2, <2>1 DEF GatewayAnswers, CreatedInv, Letters
<1>3. CASE UNCHANGED letter
  BY <1>3 DEF CreatedInv
<1> QED
  BY <1>1, <1>2, <1>3 DEF SimulatorNext, Fetch, GiveUp, Loop, Tick, Posted, Hang, Signal,
    Shutdown, Die, Restart, Store, Answer, Unreachable, Tell, simulatorVars

(* So no malformed draft is accepted by both.                              *)
LEMMA DraftsMalformed ==
  ASSUME NEW order \in Drafts, order.errorType = "malformed"
  PROVE  ~(order.valid /\ order.storable)
<1>1. \E f \in Formats, e \in ErrorTypes : \E w \in generateContent(f, e) :
        order = [format |-> f, errorType |-> e, valid |-> Valid(f, w),
                 storable |-> Storable(f, w), readable |-> Decodable(f, w)]
  BY DEF Drafts
<1>0. PICK f \in Formats, e \in ErrorTypes : \E w \in generateContent(f, e) :
        order = [format |-> f, errorType |-> e, valid |-> Valid(f, w),
                 storable |-> Storable(f, w), readable |-> Decodable(f, w)]
  BY <1>1, Zenon
<1>4. PICK w \in generateContent(f, e) :
        order = [format |-> f, errorType |-> e, valid |-> Valid(f, w),
                 storable |-> Storable(f, w), readable |-> Decodable(f, w)]
  BY <1>0, Zenon
<1>2. e = "malformed"
  BY <1>4
<1>3. ~(Valid(f, w) /\ Storable(f, w))
  BY <1>2, MalformedKeptOut
<1> QED
  BY <1>4, <1>3

(* CorruptionHolds: CorruptionKeptOut whichever byte of whichever order is *)
(* overwritten, whatever the delimiters beside it.                         *)
THEOREM CorruptionHolds == SimulatorSpec => []CorruptionKeptOut
<1>1. SimulatorInit => CreatedInv
  BY DEF SimulatorInit, NoLetter, CreatedInv
<1>2. TypesOK /\ CreatedInv => CorruptionKeptOut
  BY DraftsMalformed DEF TypesOK, LetterOK, Letters, CreatedInv, CorruptionKeptOut
<1> QED
  BY <1>1, <1>2, CreatedKept, AllTypesHold, PTL DEF SimulatorSpec

-----------------------------------------------------------------------------
(***************************************************************************)
(* What the simulator writes without a corruption is read by the engine,   *)
(* unless it is XML.                                                       *)
(***************************************************************************)
(* A text of segments over V that begin with something, the first of them  *)
(* and some of the others with these tags.                                 *)
Composed(segments, V, first, tags) ==
  /\ segments \in Seq(Lists(V)) /\ segments # <<>> /\ segments[1][1] = <<first>>
  /\ \A n \in DOMAIN segments : segments[n][1] # <<>>
  /\ \A tag \in tags : \E n \in DOMAIN segments : segments[n][1] = <<tag>>

WrittenAs(w, d, z, V, first, tags) ==
  \E segments : Composed(segments, V, first, tags) /\ w = Written(segments, d, z)

LEMMA SegmentIsList ==
  ASSUME NEW V, NEW tag \in V, NEW elements \in Seq(Seq(V))
  PROVE  /\ <<<<tag>>>> \o elements \in Lists(V)
         /\ (<<<<tag>>>> \o elements)[1] = <<tag>>
<1> DEFINE A == Seq(V)
           p == <<tag>>
           s == <<p>> \o elements
<1>1. p \in A /\ elements \in Seq(A)
  BY TupleType, Zenon
<1> HIDE DEF A, p
<1>2. s \in Seq(A) /\ s[1] = p /\ s # <<>>
  BY <1>1
<1> QED
  BY <1>2 DEF Lists, A, p

LEMMA WrittenAsFirst ==
  ASSUME NEW T, NEW d \in T, NEW z \in T, NEW V, V \subseteq T,
         NEW s \in Lists(V), NEW tag, s[1] = <<tag>>
  PROVE  WrittenAs(Join(s, d) \o <<z>>, d, z, V, tag, {tag})
<1> DEFINE L == Lists(V)
           M == Lists(T)
           none == <<>>
           j == Join(s, d)
<1>1. L \subseteq M
  BY DEF Lists
<1>2. s \in M
  BY <1>1
<1>3. none \in Seq(M) /\ Append(none, s) = <<s>>
  <2> HIDE DEF M
  <2> QED
    BY <1>2
<1>4. Written(Append(none, s), d, z) = Append(Written(none, d, z) \o j, z)
  BY <1>2, <1>3, WrittenMore, Zenon
<1>5. Written(none, d, z) = none
  BY WrittenNothing
<1>6. j \in Seq(T)
  BY <1>2, JoinType DEF Lists
<1> HIDE DEF j
<1>7. Append(none \o j, z) = j \o <<z>>
  BY <1>6
<1>8. Written(<<s>>, d, z) = j \o <<z>>
  BY <1>3, <1>4, <1>5, <1>7, Zenon
<1>9. Composed(<<s>>, V, tag, {tag})
  <2> HIDE DEF L
  <2>1. <<s>> \in Seq(L) /\ <<s>> # <<>> /\ <<s>>[1] = s /\ DOMAIN <<s>> = {1}
    BY DEF L
  <2>2. <<tag>> # <<>>
    OBVIOUS
  <2> QED
    BY <2>1, <2>2 DEF Composed, L
<1> QED
  BY <1>8, <1>9, Zenon DEF WrittenAs, j

LEMMA WrittenAsMore ==
  ASSUME NEW T, NEW d \in T, NEW z \in T, NEW V, V \subseteq T,
         NEW w, NEW first, NEW tags, WrittenAs(w, d, z, V, first, tags),
         NEW s \in Lists(V), NEW tag, s[1] = <<tag>>
  PROVE  WrittenAs(w \o (Join(s, d) \o <<z>>), d, z, V, first, tags \cup {tag})
<1> DEFINE L == Lists(V)
           M == Lists(T)
           j == Join(s, d)
<1>1. PICK x : Composed(x, V, first, tags) /\ w = Written(x, d, z)
  BY Zenon DEF WrittenAs
<1> DEFINE more == Append(x, s)
<1>2. L \subseteq M
  BY DEF Lists
<1>3. s \in L /\ x \in Seq(L)
  BY <1>1 DEF Composed
<1>4. s \in M /\ x \in Seq(M)
  <2> HIDE DEF L, M
  <2> QED
    BY <1>2, <1>3
<1>5. w \in Seq(T) /\ Written(more, d, z) = Append(w \o j, z)
  BY <1>1, <1>4, WrittenMore
<1>6. j \in Seq(T)
  BY <1>4, JoinType DEF Lists
<1> HIDE DEF j
<1>7. Append(w \o j, z) = w \o (j \o <<z>>)
  <2>1. j \o <<z>> = Append(j, z)
    BY <1>6
  <2>2. w \o Append(j, z) = Append(w \o j, z)
    BY <1>5, <1>6
  <2> QED
    BY <2>1, <2>2, Zenon
<1>8. Composed(more, V, first, tags \cup {tag})
  <2> HIDE DEF L, M
  <2>0. Len(x) \in Nat /\ DOMAIN x = 1..Len(x)
    BY <1>3
  <2>1. /\ more \in Seq(L) /\ more # <<>> /\ DOMAIN more = 1..(Len(x) + 1)
        /\ \A n \in DOMAIN x : more[n] = x[n] /\ n \in DOMAIN more
        /\ more[Len(x) + 1] = s /\ Len(x) + 1 \in DOMAIN more
        /\ \A n \in DOMAIN more : n \in DOMAIN x \/ n = Len(x) + 1
    BY <1>3, <2>0
  <2>2. x # <<>> /\ 1 \in DOMAIN x
    BY <1>1, <1>3 DEF Composed
  <2>3. <<tag>> # <<>>
    OBVIOUS
  <2> HIDE DEF more
  <2>4. more[1][1] = <<first>>
    BY <1>1, <2>1, <2>2 DEF Composed
  <2>5. \A n \in DOMAIN more : more[n][1] # <<>>
    BY <1>1, <2>1, <2>3 DEF Composed
  <2>6. ASSUME NEW t \in tags \cup {tag} PROVE \E n \in DOMAIN more : more[n][1] = <<t>>
    <3>1. CASE t = tag
      BY <2>1, <3>1
    <3>2. CASE t \in tags
      <4>1. PICK n \in DOMAIN x : x[n][1] = <<t>>
        BY <1>1, <3>2, Zenon DEF Composed
      <4> QED
        BY <2>1, <4>1, Zenon
    <3> QED
      BY <3>1, <3>2
  <2> QED
    BY <2>1, <2>4, <2>5, <2>6, Zenon DEF Composed, L
<1> QED
  BY <1>5, <1>7, <1>8, Zenon DEF WrittenAs, j

(* A text begins with one, or goes on with one.                            *)
LEMMA X12SegmentFirst ==
  ASSUME NEW T, NEW V, "*" \in T, "~" \in T, V \subseteq T,
         NEW tag \in V, NEW elements \in Seq(Seq(V))
  PROVE  WrittenAs(X12Segment(tag, elements), "*", "~", V, tag, {tag})
BY SegmentIsList, WrittenAsFirst, Zenon DEF X12Segment

LEMMA X12SegmentMore ==
  ASSUME NEW T, NEW V, "*" \in T, "~" \in T, V \subseteq T,
         NEW w, NEW first, NEW tags, WrittenAs(w, "*", "~", V, first, tags),
         NEW tag \in V, NEW elements \in Seq(Seq(V))
  PROVE  WrittenAs(w \o X12Segment(tag, elements), "*", "~", V, first,
                   tags \cup {tag})
BY SegmentIsList, WrittenAsMore, Zenon DEF X12Segment


(* A text begins with one, or goes on with one.                            *)
LEMMA EdifactSegmentFirst ==
  ASSUME NEW T, NEW V, "+" \in T, "'" \in T, V \subseteq T,
         NEW tag \in V, NEW elements \in Seq(Seq(V))
  PROVE  WrittenAs(EdifactSegment(tag, elements), "+", "'", V, tag, {tag})
BY SegmentIsList, WrittenAsFirst, Zenon DEF EdifactSegment

LEMMA EdifactSegmentMore ==
  ASSUME NEW T, NEW V, "+" \in T, "'" \in T, V \subseteq T,
         NEW w, NEW first, NEW tags, WrittenAs(w, "+", "'", V, first, tags),
         NEW tag \in V, NEW elements \in Seq(Seq(V))
  PROVE  WrittenAs(w \o EdifactSegment(tag, elements), "+", "'", V, first,
                   tags \cup {tag})
BY SegmentIsList, WrittenAsMore, Zenon DEF EdifactSegment


(* A token that is no delimiter of either format.                          *)
Plain(token) == token \notin {"*", "~", "+", ":", "'", "?", NewLine}

X12Clean(qty, price) == Tokens(qty, price) \ {"*", "~"}
EdifactClean(qty, price) == Tokens(qty, price) \ {"+", "'"}

(* The segments of an order in X12.                                      *)
LEMMA X12OrderWritten ==
  ASSUME NEW qty, NEW price, Plain(qty), Plain(price)
  PROVE  \E tags : /\ WrittenAs(x12Order(qty, price), "*", "~",
                                X12Clean(qty, price), "ISA", tags)
                   /\ "BEG" \in tags
<1> DEFINE V == X12Clean(qty, price)
           T == Tokens(qty, price)
           e1 == <<<<"00">>, <<>>, <<"00">>, <<>>, <<"ZZ">>, <<"SENDER">>,
              <<"ZZ">>, <<"RECEIVER">>>>
           e2 == <<<<"PO">>, <<"SENDER">>, <<"RECEIVER">>, <<Today>>>>
           e3 == <<<<"850">>, <<"0001">>>>
           e4 == <<<<"00">>, <<"SA">>, <<"order">>, <<>>, <<Today>>>>
           e5 == <<<<"1">>, <<qty>>, <<"EA">>, <<price>>, <<>>, <<"IN">>, <<"ITEM001">>>>
           e6 == <<<<"4">>, <<"0001">>>>
           e7 == <<<<"1">>>>
           e8 == <<<<"1">>>>
           w1 == X12Segment("ISA", e1)
           w2 == w1 \o X12Segment("GS", e2)
           w3 == w2 \o X12Segment("ST", e3)
           w4 == w3 \o X12Segment("BEG", e4)
           w5 == w4 \o X12Segment("PO1", e5)
           w6 == w5 \o X12Segment("SE", e6)
           w7 == w6 \o X12Segment("GE", e7)
           w8 == w7 \o X12Segment("IEA", e8)
<1>1. /\ "*" \in T /\ "~" \in T /\ V \subseteq T
  BY DEF Tokens, X12Clean
<1>2. /\ "ISA" \in V /\ "00" \in V /\ "ZZ" \in V /\ "SENDER" \in V /\ "RECEIVER" \in V
      /\ "GS" \in V /\ "PO" \in V /\ Today \in V /\ "ST" \in V /\ "850" \in V
      /\ "0001" \in V /\ "BEG" \in V /\ "SA" \in V /\ "order" \in V /\ "PO1" \in V
      /\ "1" \in V /\ qty \in V /\ "EA" \in V /\ price \in V /\ "IN" \in V
      /\ "ITEM001" \in V /\ "SE" \in V /\ "4" \in V /\ "GE" \in V /\ "IEA" \in V
  BY TodayAssumption DEF Tokens, X12Clean, Plain
<1> HIDE DEF V, T
<1>3. e1 \in Seq(Seq(V))
  BY <1>2, ElementsType, TupleType, Zenon
<1>4. e2 \in Seq(Seq(V))
  BY <1>2, ElementsType, TupleType, Zenon
<1>5. e3 \in Seq(Seq(V))
  BY <1>2, ElementsType, TupleType, Zenon
<1>6. e4 \in Seq(Seq(V))
  BY <1>2, ElementsType, TupleType, Zenon
<1>7. e5 \in Seq(Seq(V))
  BY <1>2, ElementsType, TupleType, Zenon
<1>8. e6 \in Seq(Seq(V))
  BY <1>2, ElementsType, TupleType, Zenon
<1>9. e7 \in Seq(Seq(V))
  BY <1>2, ElementsType, TupleType, Zenon
<1>10. e8 \in Seq(Seq(V))
  BY <1>2, ElementsType, TupleType, Zenon
<1> HIDE DEF e1, e2, e3, e4, e5, e6, e7, e8
<1>11. WrittenAs(w1, "*", "~", V, "ISA", {"ISA"})
  BY <1>1, <1>2, <1>3, X12SegmentFirst, Zenon
<1> HIDE DEF w1
<1> DEFINE t2 == {"ISA"} \cup {"GS"}
<1>12. WrittenAs(w2, "*", "~", V, "ISA", t2)
  BY <1>1, <1>2, <1>4, <1>11, X12SegmentMore, Zenon
<1> HIDE DEF t2, w2
<1> DEFINE t3 == t2 \cup {"ST"}
<1>13. WrittenAs(w3, "*", "~", V, "ISA", t3)
  BY <1>1, <1>2, <1>5, <1>12, X12SegmentMore, Zenon
<1> HIDE DEF t3, w3
<1> DEFINE t4 == t3 \cup {"BEG"}
<1>14. WrittenAs(w4, "*", "~", V, "ISA", t4)
  BY <1>1, <1>2, <1>6, <1>13, X12SegmentMore, Zenon
<1> HIDE DEF t4, w4
<1> DEFINE t5 == t4 \cup {"PO1"}
<1>15. WrittenAs(w5, "*", "~", V, "ISA", t5)
  BY <1>1, <1>2, <1>7, <1>14, X12SegmentMore, Zenon
<1> HIDE DEF t5, w5
<1> DEFINE t6 == t5 \cup {"SE"}
<1>16. WrittenAs(w6, "*", "~", V, "ISA", t6)
  BY <1>1, <1>2, <1>8, <1>15, X12SegmentMore, Zenon
<1> HIDE DEF t6, w6
<1> DEFINE t7 == t6 \cup {"GE"}
<1>17. WrittenAs(w7, "*", "~", V, "ISA", t7)
  BY <1>1, <1>2, <1>9, <1>16, X12SegmentMore, Zenon
<1> HIDE DEF t7, w7
<1> DEFINE t8 == t7 \cup {"IEA"}
<1>18. WrittenAs(w8, "*", "~", V, "ISA", t8)
  BY <1>1, <1>2, <1>10, <1>17, X12SegmentMore, Zenon
<1> HIDE DEF t8
<1>19. "BEG" \in t8
  BY Zenon DEF t2, t3, t4, t5, t6, t7, t8
<1>20. w8 = x12Order(qty, price)
  BY Zenon DEF x12Order, w1, w2, w3, w4, w5, w6, w7, w8, e1, e2, e3, e4, e5, e6, e7, e8
<1> QED
  BY <1>18, <1>19, <1>20, Zenon DEF V

(* The segments of an order in EDIFACT.                                  *)
LEMMA EdifactOrderWritten ==
  ASSUME NEW qty, NEW price, Plain(qty), Plain(price)
  PROVE  \E tags : /\ WrittenAs(edifactOrder(qty, price), "+", "'",
                                EdifactClean(qty, price), "UNB", tags)
                   /\ "UNB" \in tags
<1> DEFINE V == EdifactClean(qty, price)
           T == Tokens(qty, price)
           e1 == <<<<"UNOA", ":", "3">>, <<"SENDER">>, <<"RECEIVER">>>>
           e2 == <<<<"1">>, <<"ORDERS">>>>
           e3 == <<<<"220">>, <<"order">>, <<"9">>>>
           e4 == <<<<"137", ":", Today, ":", "102">>>>
           e5 == <<<<"1">>, <<>>, <<"ITEM001", ":", "IN">>>>
           e6 == <<<<"21", ":", qty>>>>
           e7 == <<<<"AAA", ":", price>>>>
           e8 == <<<<"7">>, <<"1">>>>
           e9 == <<<<"1">>>>
           w1 == EdifactSegment("UNB", e1)
           w2 == w1 \o EdifactSegment("UNH", e2)
           w3 == w2 \o EdifactSegment("BGM", e3)
           w4 == w3 \o EdifactSegment("DTM", e4)
           w5 == w4 \o EdifactSegment("LIN", e5)
           w6 == w5 \o EdifactSegment("QTY", e6)
           w7 == w6 \o EdifactSegment("PRI", e7)
           w8 == w7 \o EdifactSegment("UNT", e8)
           w9 == w8 \o EdifactSegment("UNZ", e9)
<1>1. /\ "+" \in T /\ "'" \in T /\ V \subseteq T
  BY DEF Tokens, EdifactClean
<1>2. /\ "UNB" \in V /\ "UNOA" \in V /\ ":" \in V /\ "3" \in V /\ "SENDER" \in V
      /\ "RECEIVER" \in V /\ "UNH" \in V /\ "1" \in V /\ "ORDERS" \in V /\ "BGM" \in V
      /\ "220" \in V /\ "order" \in V /\ "9" \in V /\ "DTM" \in V /\ "137" \in V
      /\ Today \in V /\ "102" \in V /\ "LIN" \in V /\ "ITEM001" \in V /\ "IN" \in V
      /\ "QTY" \in V /\ "21" \in V /\ qty \in V /\ "PRI" \in V /\ "AAA" \in V
      /\ price \in V /\ "UNT" \in V /\ "7" \in V /\ "UNZ" \in V
  BY TodayAssumption DEF Tokens, EdifactClean, Plain
<1> HIDE DEF V, T
<1>3. e1 \in Seq(Seq(V))
  BY <1>2, ElementsType, TupleType, Zenon
<1>4. e2 \in Seq(Seq(V))
  BY <1>2, ElementsType, TupleType, Zenon
<1>5. e3 \in Seq(Seq(V))
  BY <1>2, ElementsType, TupleType, Zenon
<1>6. e4 \in Seq(Seq(V))
  BY <1>2, ElementsType, TupleType, Zenon
<1>7. e5 \in Seq(Seq(V))
  BY <1>2, ElementsType, TupleType, Zenon
<1>8. e6 \in Seq(Seq(V))
  BY <1>2, ElementsType, TupleType, Zenon
<1>9. e7 \in Seq(Seq(V))
  BY <1>2, ElementsType, TupleType, Zenon
<1>10. e8 \in Seq(Seq(V))
  BY <1>2, ElementsType, TupleType, Zenon
<1>11. e9 \in Seq(Seq(V))
  BY <1>2, ElementsType, TupleType, Zenon
<1> HIDE DEF e1, e2, e3, e4, e5, e6, e7, e8, e9
<1>12. WrittenAs(w1, "+", "'", V, "UNB", {"UNB"})
  BY <1>1, <1>2, <1>3, EdifactSegmentFirst, Zenon
<1> HIDE DEF w1
<1> DEFINE t2 == {"UNB"} \cup {"UNH"}
<1>13. WrittenAs(w2, "+", "'", V, "UNB", t2)
  BY <1>1, <1>2, <1>4, <1>12, EdifactSegmentMore, Zenon
<1> HIDE DEF t2, w2
<1> DEFINE t3 == t2 \cup {"BGM"}
<1>14. WrittenAs(w3, "+", "'", V, "UNB", t3)
  BY <1>1, <1>2, <1>5, <1>13, EdifactSegmentMore, Zenon
<1> HIDE DEF t3, w3
<1> DEFINE t4 == t3 \cup {"DTM"}
<1>15. WrittenAs(w4, "+", "'", V, "UNB", t4)
  BY <1>1, <1>2, <1>6, <1>14, EdifactSegmentMore, Zenon
<1> HIDE DEF t4, w4
<1> DEFINE t5 == t4 \cup {"LIN"}
<1>16. WrittenAs(w5, "+", "'", V, "UNB", t5)
  BY <1>1, <1>2, <1>7, <1>15, EdifactSegmentMore, Zenon
<1> HIDE DEF t5, w5
<1> DEFINE t6 == t5 \cup {"QTY"}
<1>17. WrittenAs(w6, "+", "'", V, "UNB", t6)
  BY <1>1, <1>2, <1>8, <1>16, EdifactSegmentMore, Zenon
<1> HIDE DEF t6, w6
<1> DEFINE t7 == t6 \cup {"PRI"}
<1>18. WrittenAs(w7, "+", "'", V, "UNB", t7)
  BY <1>1, <1>2, <1>9, <1>17, EdifactSegmentMore, Zenon
<1> HIDE DEF t7, w7
<1> DEFINE t8 == t7 \cup {"UNT"}
<1>19. WrittenAs(w8, "+", "'", V, "UNB", t8)
  BY <1>1, <1>2, <1>10, <1>18, EdifactSegmentMore, Zenon
<1> HIDE DEF t8, w8
<1> DEFINE t9 == t8 \cup {"UNZ"}
<1>20. WrittenAs(w9, "+", "'", V, "UNB", t9)
  BY <1>1, <1>2, <1>11, <1>19, EdifactSegmentMore, Zenon
<1> HIDE DEF t9
<1>21. "UNB" \in t9
  BY Zenon DEF t2, t3, t4, t5, t6, t7, t8, t9
<1>22. w9 = edifactOrder(qty, price)
  BY Zenon DEF edifactOrder, w1, w2, w3, w4, w5, w6, w7, w8, w9, e1, e2, e3, e4, e5, e6, e7,
     e8, e9
<1> QED
  BY <1>20, <1>21, <1>22, Zenon DEF V

(* Where nothing is released or dropped, every terminator ends a segment.   *)
LEMMA NothingReleased ==
  ASSUME NEW T, NEW w \in Seq(T), "?" \notin T, NewLine \notin T
  PROVE  EdifactSegments(w) = LET segments == NotBlank(Split(w, "'"))
                              IN  [n \in DOMAIN segments |-> Split(segments[n], "+")]
<1> DEFINE Z == Len(w)
           Body(f, n) == n \in 1..(Z - 1) /\ w[n] = "?" /\ ~f[n - 1]
           Def(f) == f = [n \in 0..Z |-> Body(f, n)]
           r == CHOOSE f : Def(f)
           g == [n \in 0..Z |-> FALSE]
           ends == {n \in DOMAIN w : w[n] = "'" /\ ~r[n - 1]}
           gaps == {n \in DOMAIN w : r[n] \/ (w[n] = NewLine /\ ~r[n - 1])}
<1>1. /\ Z \in Nat /\ DOMAIN w = 1..Z
      /\ \A n \in 1..(Z - 1) : w[n] # "?"
      /\ \A n \in 1..Z : w[n] # NewLine
      /\ \A n \in 1..Z : n \in 0..Z /\ n - 1 \in 0..Z
  OBVIOUS
<1>2. Def(g)
  <2>1. \A n \in 0..Z : FALSE = Body(g, n)
    BY <1>1, Zenon
  <2> QED
    BY <2>1, Zenon
<1>3. Def(r)
  BY <1>2, Zenon
<1> HIDE DEF r
<1>4. \A n \in 0..Z : r[n] = Body(r, n)
  BY <1>3, Zenon
<1>5. \A n \in 0..Z : ~r[n]
  BY <1>1, <1>4, Zenon
<1>6. ends = {n \in DOMAIN w : w[n] = "'"}
  BY <1>1, <1>5, Zenon
<1>7. gaps = {}
  BY <1>1, <1>5, Zenon
<1>8. EdifactSegments(w) =
        LET segments == NotBlank(Pieces(w, ends, gaps))
        IN  [n \in DOMAIN segments |-> Split(segments[n], "+")]
  BY Zenon DEF EdifactSegments, r
<1> HIDE DEF ends, gaps
<1>9. EdifactSegments(w) =
        LET segments == NotBlank(Pieces(w, {n \in DOMAIN w : w[n] = "'"}, {}))
        IN  [n \in DOMAIN segments |-> Split(segments[n], "+")]
  BY <1>6, <1>7, <1>8
<1> QED
  BY <1>9, Zenon DEF Split

(* The engine finds the beginning and the order in X12, and the beginning  *)
(* in EDIFACT, for which it asks no more.                                  *)
LEMMA X12OrderReads ==
  ASSUME NEW qty, NEW price, Plain(qty), Plain(price)
  PROVE  X12Decodable(x12Order(qty, price))
<1> DEFINE V == X12Clean(qty, price)
           T == Tokens(qty, price)
           W == T \ {"~"}
           w == x12Order(qty, price)
<1>1. PICK tags : WrittenAs(w, "*", "~", V, "ISA", tags) /\ "BEG" \in tags
  BY X12OrderWritten, Zenon
<1>2. PICK segments : Composed(segments, V, "ISA", tags) /\ w = Written(segments, "*", "~")
  BY <1>1, Zenon DEF WrittenAs
<1>3. "~" \in T /\ Spares(W, T, "~") /\ "*" \in W /\ Spares(V, W, "*")
  BY DEF Tokens, Spares, X12Clean
<1> DEFINE b == Bodies(segments, "*")
<1> HIDE DEF V, T, W, w
<1>4. segments \in Seq(Lists(V)) /\ \A n \in DOMAIN segments : segments[n][1] # <<>>
  BY <1>2, Zenon DEF Composed
<1>5. /\ NotBlank(Split(Written(segments, "*", "~"), "~")) = b
      /\ [n \in DOMAIN b |-> Split(b[n], "*")] = segments
  BY <1>3, <1>4, SegmentsBack
<1>6. X12Segments(w) = segments
  BY <1>2, <1>5, Zenon DEF X12Segments
<1>7. segments # <<>> /\ segments[1][1] = <<"ISA">>
  BY <1>2, Zenon DEF Composed
<1>8. \E n \in DOMAIN segments : segments[n][1] = <<"BEG">>
  BY <1>1, <1>2, Zenon DEF Composed
<1>9. <<"ISA">> # <<>> /\ Head(<<"ISA">>) = "ISA"
  OBVIOUS
<1> QED
  BY <1>6, <1>7, <1>8, <1>9, Zenon DEF X12Decodable, w

LEMMA EdifactOrderReads ==
  ASSUME NEW qty, NEW price, Plain(qty), Plain(price)
  PROVE  EdifactDecodable(edifactOrder(qty, price))
<1> DEFINE V == EdifactClean(qty, price)
           T == Tokens(qty, price)
           W == T \ {"'"}
           w == edifactOrder(qty, price)
<1>1. PICK tags : WrittenAs(w, "+", "'", V, "UNB", tags)
  BY EdifactOrderWritten, Zenon
<1>2. PICK segments : Composed(segments, V, "UNB", tags) /\ w = Written(segments, "+", "'")
  BY <1>1, Zenon DEF WrittenAs
<1>3. "'" \in T /\ Spares(W, T, "'") /\ "+" \in W /\ Spares(V, W, "+")
  BY DEF Tokens, Spares, EdifactClean
<1>4. w \in Seq(T) /\ "?" \notin T /\ NewLine \notin T
  <2>1. w \in Seq(T)
    BY OrderType, Zenon
  <2>2. "?" \notin T /\ NewLine \notin T
    BY TodayAssumption DEF Tokens, Plain, NewLine
  <2> QED
    BY <2>1, <2>2
<1> DEFINE b == Bodies(segments, "+")
<1> HIDE DEF V, T, W, w
<1>5. segments \in Seq(Lists(V)) /\ \A n \in DOMAIN segments : segments[n][1] # <<>>
  BY <1>2, Zenon DEF Composed
<1>6. /\ NotBlank(Split(Written(segments, "+", "'"), "'")) = b
      /\ [n \in DOMAIN b |-> Split(b[n], "+")] = segments
  BY <1>3, <1>5, SegmentsBack
<1>7. EdifactSegments(w) = LET found == NotBlank(Split(w, "'"))
                           IN  [n \in DOMAIN found |-> Split(found[n], "+")]
  BY <1>4, NothingReleased, Zenon
<1>8. EdifactSegments(w) = segments
  BY <1>2, <1>6, <1>7, Zenon
<1>9. segments # <<>> /\ segments[1][1] = <<"UNB">>
  BY <1>2, Zenon DEF Composed
<1>10. <<"UNB">> # <<>> /\ Head(<<"UNB">>) \in {"UNA", "UNB"}
  OBVIOUS
<1> QED
  BY <1>8, <1>9, <1>10, Zenon DEF EdifactDecodable, w

(* So it reads an order with no byte overwritten unless it is XML.         *)
LEMMA DraftsRead ==
  ASSUME NEW order \in Drafts, order.errorType # "malformed"
  PROVE  order.readable <=> order.format # "xml"
<1>1. \E f \in Formats, e \in ErrorTypes : \E w \in generateContent(f, e) :
        order = [format |-> f, errorType |-> e, valid |-> Valid(f, w),
                 storable |-> Storable(f, w), readable |-> Decodable(f, w)]
  BY DEF Drafts
<1>2. PICK f \in Formats, e \in ErrorTypes : \E w \in generateContent(f, e) :
        order = [format |-> f, errorType |-> e, valid |-> Valid(f, w),
                 storable |-> Storable(f, w), readable |-> Decodable(f, w)]
  BY <1>1, Zenon
<1>3. PICK w \in generateContent(f, e) :
        order = [format |-> f, errorType |-> e, valid |-> Valid(f, w),
                 storable |-> Storable(f, w), readable |-> Decodable(f, w)]
  BY <1>2, Zenon
<1>4. e \in {"none", "schema_mismatch"} /\ order.format = f
      /\ order.readable = Decodable(f, w)
  BY <1>3 DEF ErrorTypes
<1>5. PICK qty, price : Plain(qty) /\ Plain(price) /\ w = Order(f, qty, price)
  <2>1. Plain("10") /\ Plain("2") /\ Plain("PRICE_MISSING") /\ Plain("QTY_INVALID")
    BY DEF Plain, NewLine
  <2>2. w = Order(f, "10", "2") \/ w = Order(f, "PRICE_MISSING", "QTY_INVALID")
    BY <1>3, <1>4 DEF generateContent
  <2> QED
    BY <2>1, <2>2, Zenon
<1>6. CASE f = "x12"
  <2>1. w = x12Order(qty, price) /\ Decodable(f, w) = X12Decodable(w)
    BY <1>5, <1>6 DEF Order, Decodable
  <2>2. X12Decodable(w)
    BY <1>5, <2>1, X12OrderReads, Zenon
  <2> QED
    BY <1>4, <1>6, <2>1, <2>2
<1>7. CASE f = "edifact"
  <2>1. w = edifactOrder(qty, price) /\ Decodable(f, w) = EdifactDecodable(w)
    BY <1>5, <1>7 DEF Order, Decodable
  <2>2. EdifactDecodable(w)
    BY <1>5, <2>1, EdifactOrderReads, Zenon
  <2> QED
    BY <1>4, <1>7, <2>1, <2>2
<1>8. CASE f = "xml"
  <2>1. w = xmlOrder /\ Decodable(f, w) = XmlDecodable(w)
    BY <1>5, <1>8 DEF Order, Decodable
  <2>2. ~XmlDecodable(w)
    BY <2>1 DEF xmlOrder, Tree, XmlDecodable
  <2> QED
    BY <1>4, <1>8, <2>1, <2>2
<1> QED
  BY <1>6, <1>7, <1>8 DEF Formats

(* OnlyXmlHolds: OnlyXmlFails for any date and any number of partners, on  *)
(* the invariant that keeps corruption out.                                *)
THEOREM OnlyXmlHolds == SimulatorSpec => []OnlyXmlFails
<1>1. SimulatorInit => CreatedInv
  BY DEF SimulatorInit, NoLetter, CreatedInv
<1>2. TypesOK /\ CreatedInv => OnlyXmlFails
  <2> SUFFICES ASSUME TypesOK, CreatedInv, letter # NoLetter, letter.answer = "created"
               PROVE  letter.order.readable <=> letter.order.format # "xml"
    BY DEF OnlyXmlFails
  <2>1. letter.order \in Drafts /\ letter.order.valid /\ letter.order.storable
    BY DEF TypesOK, LetterOK, Letters, CreatedInv
  <2>2. letter.order.errorType # "malformed"
    BY <2>1, DraftsMalformed
  <2> QED
    BY <2>1, <2>2, DraftsRead
<1> QED
  BY <1>1, <1>2, CreatedKept, AllTypesHold, PTL DEF SimulatorSpec
=============================================================================
