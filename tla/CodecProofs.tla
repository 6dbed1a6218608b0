----------------------------- MODULE CodecProofs -----------------------------
(***************************************************************************)
(* Orders of any size, in any chain of transformations: what is written is *)
(* read back, wherever the format has room for it.                         *)
(***************************************************************************)
EXTENDS Codecs, SequenceFacts, FiniteSetTheorems, TLAPS

(* Every token there is.                                                   *)
Literals ==
  {"#", " ", ".", "0", "00", "0001", "06", "1", "10", "102", "137", "1e", "2", "21", "220",
   "850", "9", "AAA", "BEG", "BGM", "BY", "DTM", "GE", "GS", "IATB", "IEA", "ISA", "LIN",
   "N1", "NAD", "OE", "ORDERS", "PO1", "PRI", "QTY", "SA", "SE", "ST", "UNA", "UNB", "UNH",
   "UNT", "UNZ", "VP", "ZZ"}

Tokens == Words \cup Dates \cup Times \cup Delimiting \cup Literals

Figure == DOMAIN Numerals

Orders == Document(Tokens, Tokens, Figure)

LEMMA DocumentGrows ==
  ASSUME NEW P, NEW C, NEW F, NEW P2, NEW C2, NEW F2,
         P \subseteq P2, C \subseteq C2, F \subseteq F2
  PROVE  Document(P, C, F) \subseteq Document(P2, C2, F2)
<1> DEFINE LF == [no : DOMAIN Numerals \ {"million"}, product : Seq(C), qty : F,
                  uom : Seq(C), price : F, description : Seq(Words)]
           LT == [no : DOMAIN Numerals \ {"million"}, product : Seq(C2), qty : F2,
                  uom : Seq(C2), price : F2, description : Seq(Words)]
<1>1. Seq(P) \subseteq Seq(P2) /\ Seq(C) \subseteq Seq(C2)
  OBVIOUS
<1>2. LF \subseteq LT
  BY <1>1
<1> HIDE DEF LF, LT
<1>3. Seq(LF) \subseteq Seq(LT)
  BY <1>2
<1> DEFINE B1 == Seq(P)
           B2 == Seq(C)
           A1 == Seq(P2)
           A2 == Seq(C2)
           Day2 == {<<>>} \cup Days \cup Moments
           SF == Seq(LF)
           ST == Seq(LT)
           CU == Seq(Words)
<1>4. Document(P, C, F) = [sender : B1, receiver : B1, number : B1, date : Day2, currency : CU,
        buyer : [id : B2, name : B1, address : CU],
        seller : [id : B2, name : B1, address : CU], lines : SF]
  BY Zenon DEF Document, LF
<1>5. Document(P2, C2, F2) = [sender : A1, receiver : A1, number : A1, date : Day2,
        currency : CU, buyer : [id : A2, name : A1, address : CU],
        seller : [id : A2, name : A1, address : CU], lines : ST]
  BY Zenon DEF Document, LT
<1>6. B1 \subseteq A1 /\ B2 \subseteq A2 /\ SF \subseteq ST
  BY <1>1, <1>3
<1> HIDE DEF A1, A2, B1, B2, Day2, SF, ST, CU
<1> QED
  BY <1>4, <1>5, <1>6

LEMMA OrdersGrow ==
  ASSUME NEW P, NEW C, NEW F, P \subseteq Tokens, C \subseteq Tokens, F \subseteq Figure
  PROVE  Document(P, C, F) \subseteq Orders
BY DocumentGrows, Zenon DEF Orders

(* The fields of a document.                                               *)
LEMMA DocumentFields ==
  ASSUME NEW P, NEW C, NEW F, NEW d \in Document(P, C, F)
  PROVE  /\ d.sender \in Seq(P) /\ d.receiver \in Seq(P) /\ d.number \in Seq(P)
         /\ d.date \in {<<>>} \cup Days \cup Moments
         /\ d.buyer.id \in Seq(C) /\ d.buyer.name \in Seq(P)
         /\ d.seller.id \in Seq(C) /\ d.seller.name \in Seq(P)
         /\ Len(d.lines) \in Nat /\ DOMAIN d.lines = 1..Len(d.lines)
         /\ \A n \in 1..Len(d.lines) :
              LET l == d.lines[n] IN
              /\ l.no \in Figure \ {"million"} /\ l.product \in Seq(C) /\ l.qty \in F
              /\ l.uom \in Seq(C) /\ l.price \in F
<1> DEFINE Entry == [no : DOMAIN Numerals \ {"million"}, product : Seq(C),
                    qty : F, uom : Seq(C), price : F, description : Seq(Words)]
<1>1. d.lines \in Seq(Entry)
  BY DEF Document
<1>2. \A l \in Entry : /\ l.no \in Figure \ {"million"} /\ l.product \in Seq(C) /\ l.qty \in F
                      /\ l.uom \in Seq(C) /\ l.price \in F
  BY DEF Figure
<1>3. /\ d.sender \in Seq(P) /\ d.receiver \in Seq(P) /\ d.number \in Seq(P)
      /\ d.date \in {<<>>} \cup Days \cup Moments
      /\ d.buyer.id \in Seq(C) /\ d.buyer.name \in Seq(P)
      /\ d.seller.id \in Seq(C) /\ d.seller.name \in Seq(P)
  BY DEF Document
<1> HIDE DEF Entry
<1>4. Len(d.lines) \in Nat /\ DOMAIN d.lines = 1..Len(d.lines)
      /\ \A n \in 1..Len(d.lines) : d.lines[n] \in Entry
  BY <1>1
<1> QED
  BY <1>2, <1>3, <1>4

-----------------------------------------------------------------------------
(***************************************************************************)
(* What the readers return, and how they read one segment more.            *)
(***************************************************************************)
LEMMA GetType ==
  ASSUME NEW T, NEW e \in Lists(T), NEW n \in Nat
  PROVE  Get(e, n) \in Seq(T)
<1> DEFINE A == Seq(T)
           none == <<>>
<1>1. e \in Seq(A) /\ none \in A
  BY DEF Lists
<1> HIDE DEF A, none
<1>2. n < Len(e) => e[n + 1] \in A
  BY <1>1
<1> QED
  BY <1>1, <1>2 DEF Get, A, none

LEMMA ComponentType ==
  ASSUME NEW T, NEW e \in Lists(T), NEW n \in Nat, NEW c \in Nat
  PROVE  Component(e, n, c) \in Seq(T)
<1>1. Get(e, n) \in Seq(T)
  BY GetType
<1>2. Split(Get(e, n), ":") \in Lists(T)
  BY <1>1, SplitType
<1> QED
  BY <1>2, GetType DEF Component

LEMMA ParseType ==
  ASSUME NEW text
  PROVE  /\ Parse(text) \in Figure
         /\ Atoi(text) \in Figure \ {"million"}
         /\ ParseDate(text) \in {<<>>} \cup Days
<1>1. "0" \in Figure \ {"million"}
  BY DEF Figure, Numerals
<1>2. (\E n \in Figure : Numerals[n] = text)
        => (CHOOSE n \in Figure : Numerals[n] = text) \in Figure
  <2> HIDE DEF Figure
  <2> QED
    OBVIOUS
<1>3. Parse(text) \in Figure
  BY <1>1, <1>2 DEF Parse, Figure
<1>4. Atoi(text) \in Figure \ {"million"}
  <2> HIDE DEF Figure
  <2> QED
    BY <1>1, <1>3 DEF Atoi
<1>5. ParseDate(text) \in {<<>>} \cup Days
  BY DEF ParseDate
<1> QED
  BY <1>3, <1>4, <1>5

LEMMA X12ProductType ==
  ASSUME NEW T, NEW e \in Lists(T)
  PROVE  X12Product(e) \in Seq(T)
<1> DEFINE pairs == {n \in 6..(Len(e) - 2) : n % 2 = 0}
           First(S) == CHOOSE n \in S : \A k \in S : n <= k
<1>1. \A n \in Nat : Get(e, n) \in Seq(T)
  BY GetType
<1>2. pairs \subseteq Nat
  OBVIOUS
<1>3. ASSUME NEW S \in SUBSET pairs, S # {} PROVE First(S) \in Nat
  <2>1. \E n \in S : \A k \in S : n <= k
    BY <1>2, <1>3, Smallest
  <2>2. First(S) \in S
    BY <2>1
  <2> QED
    BY <1>2, <2>2
<1> HIDE DEF First
<1>4. ASSUME NEW S \in SUBSET pairs, S # {} PROVE Get(e, First(S) + 1) \in Seq(T)
  <2>1. First(S) \in Nat
    BY <1>3, <1>4, Zenon
  <2>2. First(S) + 1 \in Nat
    BY <2>1
  <2> QED
    BY <1>1, <2>2
<1>5. <<>> \in Seq(T)
  OBVIOUS
<1> DEFINE known == {n \in pairs : Get(e, n) \in {<<"VP">>, <<"BP">>, <<"UP">>}}
           given == {n \in pairs : Get(e, n + 1) # <<>>}
<1>6. known \in SUBSET pairs /\ given \in SUBSET pairs
  OBVIOUS
<1>7. X12Product(e) = CASE known # {} -> Get(e, First(known) + 1)
                        [] known = {} /\ given # {} -> Get(e, First(given) + 1)
                        [] OTHER -> <<>>
  BY Zenon DEF X12Product, First
<1> HIDE DEF known, given, pairs
<1>8. CASE known # {}
  BY <1>4, <1>6, <1>7, <1>8
<1>9. CASE known = {} /\ given # {}
  BY <1>4, <1>6, <1>7, <1>9
<1>10. CASE known = {} /\ given = {}
  BY <1>5, <1>7, <1>10
<1> QED
  BY <1>8, <1>9, <1>10

Listed == Lists(Tokens)

Day == {<<>>} \cup Days \cup Moments

Item == [no : DOMAIN Numerals \ {"million"}, product : Seq(Tokens),
         qty : Figure, uom : Seq(Tokens), price : Figure, description : Seq(Words)]

(* The dates X12 and EDIFACT write.                                        *)
WholeDays == {<<>>} \cup Days

Shape ==
  LET A == Seq(Tokens)
      Party == [id : A, name : A, address : Seq(Words)]
  IN  [sender : A, receiver : A, number : A, date : Day, currency : Seq(Words),
       buyer : Party, seller : Party, lines : Seq(Item)]

LEMMA OrdersShape == Orders = Shape
BY DEF Orders, Document, Shape, Item, Day

(* What X12Read and EdifactRead make of an order is an order.              *)
LEMMA BlankType == Blank \in Orders
<1> DEFINE A == Seq(Tokens)
           none == <<>>
<1>1. none \in A /\ none \in Seq(Item) /\ none \in Seq(Words) /\ none \in Day
  BY DEF Day
<1> HIDE DEF A, none
<1>2. [id |-> none, name |-> none, address |-> none]
        \in [id : A, name : A, address : Seq(Words)]
  BY <1>1
<1>3. [sender |-> none, receiver |-> none, number |-> none, date |-> none, currency |-> none,
       buyer |-> [id |-> none, name |-> none, address |-> none],
       seller |-> [id |-> none, name |-> none, address |-> none], lines |-> none]
      \in [sender : A, receiver : A, number : A, date : Day, currency : Seq(Words),
           buyer : [id : A, name : A, address : Seq(Words)],
           seller : [id : A, name : A, address : Seq(Words)], lines : Seq(Item)]
  BY <1>1, <1>2
<1> QED
  BY <1>3, OrdersShape DEF Blank, NoParty, Shape, A, none

LEMMA X12ReadType ==
  ASSUME NEW d \in Orders, NEW e \in Listed
  PROVE  X12Read(d, e) \in Orders
<1> DEFINE A == Seq(Tokens)
           none == <<>>
           Party == [id : A, name : A, address : Seq(Words)]
           party == [id |-> Get(e, 4), name |-> Get(e, 2), address |-> none]
           item == [no |-> Atoi(Get(e, 1)), qty |-> Parse(Get(e, 2)), uom |-> Get(e, 3),
                    price |-> Parse(Get(e, 4)), product |-> X12Product(e),
                    description |-> none]
<1>0. none \in Seq(Words)
  OBVIOUS
<1> HIDE DEF none
<1>1. \A n \in Nat : Get(e, n) \in A
  BY GetType DEF Listed
<1>2. party \in Party
  BY <1>0, <1>1
<1>3. item \in Item
  <2>1. X12Product(e) \in A
    BY X12ProductType DEF Listed
  <2> HIDE DEF A
  <2>2. \A text : Parse(text) \in Figure /\ Atoi(text) \in Figure \ {"million"}
    BY ParseType
  <2>3. Item = [no : Figure \ {"million"}, product : A, qty : Figure, uom : A,
                price : Figure, description : Seq(Words)]
    BY DEF Item, A, Figure
  <2> QED
    BY <1>0, <1>1, <2>1, <2>2, <2>3
<1>4. \A text : ParseDate(text) \in Day
  BY ParseType DEF Day
<1> HIDE DEF party, item
<1>6. d \in Shape /\ d.lines \in Seq(Item)
  BY OrdersShape DEF Shape
<1>7. Append(d.lines, item) \in Seq(Item)
  BY <1>3, <1>6
<1>8. [d EXCEPT !.sender = Get(e, 6), !.receiver = Get(e, 8)] \in Shape
  BY <1>1, <1>6 DEF Shape
<1>9. [d EXCEPT !.number = Get(e, 3),
                !.date = IF Get(e, 5) = none THEN @ ELSE ParseDate(Get(e, 5))] \in Shape
  BY <1>1, <1>4, <1>6 DEF Shape
<1>10. [d EXCEPT !.buyer = party] \in Shape /\ [d EXCEPT !.seller = party] \in Shape
  BY <1>2, <1>6 DEF Shape
<1>11. [d EXCEPT !.lines = Append(@, item)] \in Shape
  BY <1>6, <1>7 DEF Shape
<1>12. X12Read(d, e) \in Shape
  BY <1>6, <1>8, <1>9, <1>10, <1>11, Zenon DEF X12Read, party, item, none
<1> QED
  BY <1>12, OrdersShape

(* SetLast, for each field it is used for.                                 *)
LEMMA SetLastIs ==
  ASSUME NEW lines \in Seq(Item), lines # <<>>, NEW v
  PROVE  LET last == lines[Len(lines)] IN
         /\ SetLast(lines, "qty", v) = [lines EXCEPT ![Len(lines)] = [last EXCEPT !.qty = v]]
         /\ SetLast(lines, "uom", v) = [lines EXCEPT ![Len(lines)] = [last EXCEPT !.uom = v]]
         /\ SetLast(lines, "price", v) = [lines EXCEPT ![Len(lines)] = [last EXCEPT !.price = v]]
BY DEF SetLast

LEMMA SetLastType ==
  ASSUME NEW lines \in Seq(Item), NEW v
  PROVE  /\ v \in Figure => /\ SetLast(lines, "qty", v) \in Seq(Item)
                            /\ SetLast(lines, "price", v) \in Seq(Item)
         /\ v \in Seq(Tokens) => SetLast(lines, "uom", v) \in Seq(Item)
<1>1. CASE lines = <<>>
  BY <1>1 DEF SetLast
<1>2. CASE lines # <<>>
  <2> DEFINE last == lines[Len(lines)]
  <2>1. last \in Item
    BY <1>2, LastIsMember
  <2>2. /\ v \in Figure => [last EXCEPT !.qty = v] \in Item /\ [last EXCEPT !.price = v] \in Item
        /\ v \in Seq(Tokens) => [last EXCEPT !.uom = v] \in Item
    <3> HIDE DEF last
    <3> QED
      BY <2>1 DEF Item
  <2>3. \A x \in Item : [lines EXCEPT ![Len(lines)] = x] \in Seq(Item)
    BY <1>2
  <2>4. /\ SetLast(lines, "qty", v) = [lines EXCEPT ![Len(lines)] = [last EXCEPT !.qty = v]]
        /\ SetLast(lines, "uom", v) = [lines EXCEPT ![Len(lines)] = [last EXCEPT !.uom = v]]
        /\ SetLast(lines, "price", v) = [lines EXCEPT ![Len(lines)] = [last EXCEPT !.price = v]]
    BY <1>2, SetLastIs, Zenon
  <2> HIDE DEF last
  <2> QED
    BY <2>2, <2>3, <2>4, Zenon
<1> QED
  BY <1>1, <1>2

LEMMA EdifactReadType ==
  ASSUME NEW d \in Orders, NEW e \in Listed
  PROVE  EdifactRead(d, e) \in Orders
<1> DEFINE A == Seq(Tokens)
           Party == [id : A, name : A, address : Seq(Words)]
           none == <<>>
           party == [id |-> Component(e, 2, 0),
                     name |-> IF Get(e, 4) # <<>> THEN Get(e, 4) ELSE Get(e, 3),
                     address |-> none]
           item == [no |-> Atoi(Get(e, 1)), qty |-> "0", uom |-> <<>>, price |-> "0",
                    product |-> Component(e, 3, 0), description |-> <<>>]
<1>0. none \in Seq(Words)
  OBVIOUS
<1> HIDE DEF none
<1>1. /\ \A n \in Nat : Get(e, n) \in A
      /\ \A n \in Nat : \A c \in Nat : Component(e, n, c) \in A
  BY GetType, ComponentType DEF Listed
<1>2. party \in Party
  BY <1>0, <1>1
<1>20. \A text : Parse(text) \in Figure /\ Atoi(text) \in Figure \ {"million"}
  BY ParseType
<1>3. item \in Item
  <2>1. <<>> \in A /\ <<>> \in Seq(Words) /\ "0" \in Figure
    BY DEF Figure, Numerals
  <2> HIDE DEF A
  <2>2. Item = [no : Figure \ {"million"}, product : A, qty : Figure, uom : A,
                price : Figure, description : Seq(Words)]
    BY DEF Item, A, Figure
  <2>3. none \in A /\ none \in Seq(Words)
    BY <2>1 DEF none
  <2>4. [no |-> Atoi(Get(e, 1)), qty |-> "0", uom |-> none, price |-> "0",
         product |-> Component(e, 3, 0), description |-> none] \in Item
    BY <1>1, <1>20, <2>1, <2>2, <2>3
  <2> QED
    BY <2>4 DEF none
<1>4. \A composite : ParseEdifactDate(composite) \in Day
  BY ParseType DEF ParseEdifactDate, Day
<1> HIDE DEF party, item
<1>6. d \in Shape /\ d.lines \in Seq(Item)
  BY OrdersShape DEF Shape
<1>7. Append(d.lines, item) \in Seq(Item)
  BY <1>3, <1>6
<1>70. \A lines \in Seq(Item) : [d EXCEPT !.lines = lines] \in Shape
  BY <1>6 DEF Shape
<1>71. SetLast(SetLast(d.lines, "qty", Parse(Component(e, 1, 1))), "uom", Component(e, 1, 2))
         \in Seq(Item)
  <2>1. SetLast(d.lines, "qty", Parse(Component(e, 1, 1))) \in Seq(Item)
    BY <1>6, <1>20, SetLastType
  <2>2. Component(e, 1, 2) \in Seq(Tokens)
    BY <1>1
  <2> HIDE DEF A
  <2> QED
    BY <2>1, <2>2, SetLastType
<1>72. SetLast(d.lines, "price", Parse(Component(e, 1, 1))) \in Seq(Item)
  BY <1>6, <1>20, SetLastType
<1>8. [d EXCEPT !.sender = Get(e, 2), !.receiver = Get(e, 3)] \in Shape
  BY <1>1, <1>6 DEF Shape
<1>9. [d EXCEPT !.number = Get(e, 2)] \in Shape
  BY <1>1, <1>6 DEF Shape
<1>90. [d EXCEPT !.date = ParseEdifactDate(Split(Get(e, 1), ":"))] \in Shape
  BY <1>4, <1>6 DEF Shape
<1>10. [d EXCEPT !.buyer = party] \in Shape /\ [d EXCEPT !.seller = party] \in Shape
  BY <1>2, <1>6 DEF Shape
<1>11. /\ [d EXCEPT !.lines = Append(@, item)] \in Shape
       /\ [d EXCEPT !.lines = SetLast(SetLast(@, "qty", Parse(Component(e, 1, 1))),
                                      "uom", Component(e, 1, 2))] \in Shape
       /\ [d EXCEPT !.lines = SetLast(@, "price", Parse(Component(e, 1, 1)))] \in Shape
  BY <1>7, <1>70, <1>71, <1>72
<1> HIDE DEF Shape
<1>12. EdifactRead(d, e) \in Shape
  BY <1>6, <1>8, <1>9, <1>90, <1>10, <1>11, Zenon
  DEF EdifactRead, party, item, none
<1> QED
  BY <1>12, OrdersShape

(* The function ReadAll is defined by: order[n] is what the first n        *)
(* segments say.                                                           *)
ReadFunction(order, f, segments) ==
  order = [n \in 0..Len(segments) |->
            IF n = 0 THEN Blank ELSE Read(f, order[n - 1], segments[n])]

Reads(order, f, segments) ==
  /\ order[0] = Blank
  /\ \A n \in 1..Len(segments) : order[n] = Read(f, order[n - 1], segments[n])

LEMMA ReadFunctionAt ==
  ASSUME NEW order, NEW f, NEW segments, ReadFunction(order, f, segments)
  PROVE  \A n \in 0..Len(segments) :
           order[n] = IF n = 0 THEN Blank ELSE Read(f, order[n - 1], segments[n])
BY Zenon DEF ReadFunction

LEMMA ReadFunctionReads ==
  ASSUME NEW X, NEW segments \in Seq(X), NEW f, NEW order, ReadFunction(order, f, segments)
  PROVE  Reads(order, f, segments)
<1>1. 0 \in 0..Len(segments) /\ \A n \in 1..Len(segments) : n \in 0..Len(segments) /\ n # 0
  OBVIOUS
<1>2. \A n \in 0..Len(segments) :
        order[n] = IF n = 0 THEN Blank ELSE Read(f, order[n - 1], segments[n])
  BY ReadFunctionAt
<1>3. order[0] = Blank
  BY <1>1, <1>2, Zenon
<1>4. ASSUME NEW n \in 1..Len(segments) PROVE order[n] = Read(f, order[n - 1], segments[n])
  BY <1>1, <1>2, Zenon
<1> QED
  BY <1>3, <1>4, Zenon DEF Reads

(* ReadAll returns the last value of a function that reads.                *)
LEMMA ReadAllIs ==
  ASSUME NEW segments \in Seq(Listed), NEW f
  PROVE  \E order \in [0..Len(segments) -> Orders] :
            Reads(order, f, segments) /\ ReadAll(f, segments) = order[Len(segments)]
<1> DEFINE N == Len(segments)
           Y == Orders
           step == [n \in 1..N |-> [x \in Y |-> Read(f, x, segments[n])]]
           base == Blank
           chosen == CHOOSE h : ReadFunction(h, f, segments)
<1>0. N \in Nat
  OBVIOUS
<1>00. base \in Y
  BY BlankType
<1>1. \A n \in 1..N : segments[n] \in Listed /\ n - 1 \in 0..N
  OBVIOUS
<1>2. Steps(step, N, Y)
  <2>1. \A n \in 1..N : \A x \in Y : Read(f, x, segments[n]) \in Y
    BY <1>1, X12ReadType, EdifactReadType, Zenon DEF Read
  <2> HIDE DEF Y, N
  <2> QED
    BY <2>1, Zenon DEF Steps
<1>3. PICK order : Unfolds(order, N, Y, base, step)
  <2> HIDE DEF step, N, Y, base
  <2> QED
    BY <1>0, <1>00, <1>2, Recursion, Zenon
<1>30. /\ order \in [0..N -> Y]
       /\ order[0] = base
       /\ \A n \in 1..N : order[n] = step[n][order[n - 1]]
  BY <1>3, Zenon DEF Unfolds
<1>4. \A n \in 1..N : order[n - 1] \in Y
  <2> HIDE DEF Y, N
  <2> QED
    BY <1>1, <1>30
<1>5. \A n \in 1..N : order[n] = Read(f, order[n - 1], segments[n])
  <2> HIDE DEF Y, N
  <2> QED
    BY <1>30, <1>4, Zenon
<1>6. ReadFunction(order, f, segments)
  <2>1. \A n \in 0..N : order[n] = IF n = 0 THEN Blank ELSE Read(f, order[n - 1], segments[n])
    <3> TAKE n \in 0..N
    <3>1. CASE n = 0
      BY <1>30, <3>1, Zenon
    <3>2. CASE n # 0
      <4>1. n \in 1..N
        BY <3>2
      <4> QED
        BY <1>5, <3>2, <4>1, Zenon
    <3> QED
      BY <3>1, <3>2
  <2> QED
    BY <1>30, <2>1, Zenon DEF ReadFunction
<1>7. ReadFunction(chosen, f, segments)
  BY <1>6
<1>8. ReadAll(f, segments) = chosen[N]
  BY Zenon DEF ReadAll, ReadFunction
<1> HIDE DEF chosen
<1>9. Reads(chosen, f, segments) /\ Reads(order, f, segments)
  BY <1>6, <1>7, ReadFunctionReads, Zenon
<1>10. \A n \in 0..N : chosen[n] = order[n]
  <2>1. Alongside(chosen, order, N)
    BY <1>9, Zenon DEF Reads, Alongside
  <2> QED
    BY <1>0, <2>1, Agreement, Zenon
<1>11. chosen[N] = order[N]
  <2>1. N \in 0..N
    BY <1>0
  <2> QED
    BY <1>10, <2>1, Zenon
<1> QED
  BY <1>8, <1>9, <1>11, <1>30, Zenon

(* Nothing says nothing; a segment more is read last.                      *)
LEMMA ReadAllType ==
  ASSUME NEW segments \in Seq(Listed), NEW f
  PROVE  ReadAll(f, segments) \in Orders
<1>1. PICK order \in [0..Len(segments) -> Orders] : ReadAll(f, segments) = order[Len(segments)]
  BY ReadAllIs
<1> QED
  BY <1>1

LEMMA ReadNothing == ASSUME NEW f PROVE ReadAll(f, <<>>) = Blank
<1> DEFINE none == <<>>
<1>1. none \in Seq(Listed) /\ Len(none) = 0
  OBVIOUS
<1> HIDE DEF none
<1>2. PICK order : Reads(order, f, none) /\ ReadAll(f, none) = order[Len(none)]
  BY <1>1, ReadAllIs
<1> QED
  BY <1>1, <1>2 DEF Reads, none

LEMMA ReadMore ==
  ASSUME NEW segments \in Seq(Listed), NEW e \in Listed, NEW f
  PROVE  ReadAll(f, Append(segments, e)) = Read(f, ReadAll(f, segments), e)
<1> DEFINE more == Append(segments, e)
           N == Len(segments)
           M == N + 1
<1>0. /\ N \in Nat /\ more \in Seq(Listed) /\ Len(more) = M
      /\ M \in 1..M /\ M - 1 = N /\ more[M] = e /\ N \in 0..N
      /\ \A n \in 1..N : segments[n] = more[n] /\ n \in 1..M
  OBVIOUS
<1> HIDE DEF more, M
<1>1. PICK h : Reads(h, f, segments) /\ ReadAll(f, segments) = h[N]
  BY ReadAllIs
<1>2. PICK g : Reads(g, f, more) /\ ReadAll(f, more) = g[Len(more)]
  BY <1>0, ReadAllIs
<1>3. Alongside(h, g, N)
  BY <1>0, <1>1, <1>2, Zenon DEF Reads, Alongside
<1>4. h[N] = g[N]
  <2>1. N \in Nat
    BY <1>0
  <2>2. \A n \in 0..N : h[n] = g[n]
    BY <1>3, <2>1, Agreement, Zenon
  <2> QED
    BY <1>0, <2>2
<1>5. g[M] = Read(f, g[M - 1], more[M])
  BY <1>0, <1>2, Zenon DEF Reads
<1> QED
  BY <1>0, <1>1, <1>2, <1>4, <1>5, Zenon DEF more

-----------------------------------------------------------------------------
(***************************************************************************)
(* What the encoders write: lists of segments that begin with a tag.       *)
(***************************************************************************)
(* Tokens V and figures F an encoder can do with.                          *)
Sufficient(V, F) ==
  /\ V \subseteq Tokens /\ Literals \subseteq V /\ ":" \in V /\ Dates \subseteq V
  /\ F \subseteq Figure
  /\ \A n \in F \cup (Figure \ {"million"}) : Numerals[n] \in Seq(V)

Tagged(V) == {s \in Lists(V) : s[1] # <<>>}

LEMMA LiteralsAre ==
  /\ "#" \in Literals /\ "00" \in Literals /\ "0001" \in Literals /\ "1" \in Literals
  /\ "102" \in Literals /\ "137" \in Literals /\ "21" \in Literals /\ "220" \in Literals
  /\ "850" \in Literals /\ "9" \in Literals /\ "AAA" \in Literals /\ "BEG" \in Literals
  /\ "BGM" \in Literals /\ "BY" \in Literals /\ "DTM" \in Literals /\ "GE" \in Literals
  /\ "GS" \in Literals /\ "IATB" \in Literals /\ "IEA" \in Literals /\ "ISA" \in Literals
  /\ "LIN" \in Literals /\ "N1" \in Literals /\ "NAD" \in Literals /\ "OE" \in Literals
  /\ "ORDERS" \in Literals /\ "PO1" \in Literals /\ "PRI" \in Literals /\ "QTY" \in Literals
  /\ "SA" \in Literals /\ "SE" \in Literals /\ "ST" \in Literals /\ "UNA" \in Literals
  /\ "UNB" \in Literals /\ "UNH" \in Literals /\ "UNT" \in Literals /\ "UNZ" \in Literals
  /\ "VP" \in Literals /\ "ZZ" \in Literals /\ " " \in Literals /\ "." \in Literals
BY DEF Literals

(* A literal is a text, and so is a date or a count.                       *)
LEMMA TextTypes ==
  ASSUME NEW V, NEW F, Sufficient(V, F)
  PROVE  /\ <<>> \in Seq(V) /\ \A l \in Literals : <<l>> \in Seq(V)
         /\ WholeDays \subseteq Seq(V)
         /\ \A n \in Nat : Printed(n) \in Seq(V) /\ Len(Printed(n)) = n
<1>1. Literals \subseteq V /\ Dates \subseteq V
  BY DEF Sufficient
<1>2. "#" \in V
  BY <1>1, LiteralsAre
<1>3. ASSUME NEW n \in Nat PROVE Printed(n) \in Seq(V) /\ Len(Printed(n)) = n
  <2>1. Printed(n) \in [1..n -> V]
    BY <1>2 DEF Printed
  <2> QED
    BY <2>1, TableType
<1> HIDE DEF Literals
<1>4. \A l \in Literals : <<l>> \in Seq(V)
  BY <1>1
<1>5. WholeDays \subseteq Seq(V)
  <2> DEFINE A == Seq(V)
  <2>1. <<>> \in A /\ \A t \in Dates : <<t>> \in A
    BY <1>1
  <2> HIDE DEF A
  <2>2. \A x \in WholeDays : x \in A
    BY <2>1, Zenon DEF WholeDays, Days
  <2> QED
    BY <2>2 DEF A
<1> QED
  BY <1>3, <1>4, <1>5

(* The parts X12Elements is put together from.                             *)
X12Head(d) ==
  <<<<<<"ISA">>, <<"00">>, <<>>, <<"00">>, <<>>, <<"ZZ">>, Pad(d.sender),
      <<"ZZ">>, Pad(d.receiver)>>,
    <<<<"GS">>, <<"OE">>, d.sender, d.receiver, DayOf(d.date)>>,
    <<<<"ST">>, <<"850">>, <<"0001">>>>,
    <<<<"BEG">>, <<"00">>, <<"SA">>, d.number, <<>>, DayOf(d.date)>>>>

X12Lines(lines) == [n \in DOMAIN lines |-> X12Line(lines[n])]

X12Trailer(d) ==
  <<<<<<"SE">>, Printed(X12Count(d)), <<"0001">>>>,
    <<<<"GE">>, <<"1">>, <<"1">>>>,
    <<<<"IEA">>, <<"1">>>>>>

LEMMA X12Elements_Parts ==
  ASSUME NEW d
  PROVE  X12Elements(d) = X12Head(d) \o X12Party("BY", d.buyer) \o X12Party("SE", d.seller)
                            \o X12Lines(d.lines) \o X12Trailer(d)
BY Zenon DEF X12Elements, X12Head, X12Lines, X12Trailer

LEMMA PadType ==
  ASSUME NEW V, NEW text \in Seq(V)
  PROVE  /\ Pad(text) \in Seq(V)
         /\ Len(Pad(text)) = IF Len(text) >= ISAWidth THEN ISAWidth ELSE Len(text)
         /\ Pad(Pad(text)) = Pad(text)
         /\ Pad(text) = SubSeq(text, 1, Min({ISAWidth, Len(text)}))
<1>1. ISAWidth \in Nat \ {0} /\ Len(text) \in Nat
  BY CodecAssumption
<1>2. SubSeq(text, 1, Len(text)) = text
  OBVIOUS
<1>3. Min({ISAWidth, Len(text)}) = IF Len(text) >= ISAWidth THEN ISAWidth ELSE Len(text)
  <2>1. PICK m \in {ISAWidth, Len(text)} : \A k \in {ISAWidth, Len(text)} : m <= k
    BY <1>1
  <2>2. /\ Min({ISAWidth, Len(text)}) \in {ISAWidth, Len(text)}
        /\ \A k \in {ISAWidth, Len(text)} : Min({ISAWidth, Len(text)}) <= k
    BY <2>1 DEF Min
  <2> QED
    BY <1>1, <2>2
<1>4. CASE Len(text) >= ISAWidth
  <2> DEFINE cut == SubSeq(text, 1, ISAWidth)
  <2>1. cut \in Seq(V) /\ Len(cut) = ISAWidth
    BY <1>1, <1>4
  <2>2. SubSeq(cut, 1, ISAWidth) = cut
    BY <2>1, <1>1
  <2>3. Pad(text) = cut
    BY <1>4 DEF Pad
  <2> HIDE DEF cut
  <2>4. Pad(cut) = cut
    BY <1>1, <2>1, <2>2 DEF Pad
  <2> QED
    BY <1>3, <1>4, <2>1, <2>3, <2>4 DEF cut
<1>5. CASE ~(Len(text) >= ISAWidth)
  BY <1>2, <1>3, <1>5 DEF Pad
<1> QED
  BY <1>4, <1>5

(* A tag and the elements that follow it make a segment.                   *)
LEMMA SegmentType ==
  ASSUME NEW V, NEW t \in V
  PROVE  LET A == Seq(V) IN
         /\ \A a \in A : <<<<t>>, a>> \in Tagged(V)
         /\ \A a, b \in A : <<<<t>>, a, b>> \in Tagged(V)
         /\ \A a, b, c \in A : <<<<t>>, a, b, c>> \in Tagged(V)
         /\ \A a, b, c, d \in A : <<<<t>>, a, b, c, d>> \in Tagged(V)
         /\ \A a, b, c, d, e \in A : <<<<t>>, a, b, c, d, e>> \in Tagged(V)
         /\ \A a, b, c, d, e, f, g \in A : <<<<t>>, a, b, c, d, e, f, g>> \in Tagged(V)
         /\ \A a, b, c, d, e, f, g, h \in A :
              <<<<t>>, a, b, c, d, e, f, g, h>> \in Tagged(V)
<1> DEFINE A == Seq(V)
           none == <<>>
           tag == <<t>>
<1>1. tag \in A /\ tag # none
  OBVIOUS
<1>2. Tagged(V) = {s \in Seq(A) \ {<<>>} : s[1] # none}
  BY DEF Tagged, Lists
<1> HIDE DEF A, none, tag
<1>3. \A a \in A : <<tag, a>> \in Seq(A) \ {<<>>} /\ <<tag, a>>[1] # none
  BY <1>1
<1>4. \A a, b \in A : <<tag, a, b>> \in Seq(A) \ {<<>>} /\ <<tag, a, b>>[1] # none
  BY <1>1
<1>5. \A a, b, c \in A : <<tag, a, b, c>> \in Seq(A) \ {<<>>} /\ <<tag, a, b, c>>[1] # none
  BY <1>1
<1>6. \A a, b, c, d \in A :
        <<tag, a, b, c, d>> \in Seq(A) \ {<<>>} /\ <<tag, a, b, c, d>>[1] # none
  BY <1>1
<1>7. \A a, b, c, d, e \in A :
        <<tag, a, b, c, d, e>> \in Seq(A) \ {<<>>} /\ <<tag, a, b, c, d, e>>[1] # none
  BY <1>1
<1>8. \A a, b, c, d, e, f, g \in A :
        <<tag, a, b, c, d, e, f, g>> \in Seq(A) \ {<<>>}
        /\ <<tag, a, b, c, d, e, f, g>>[1] # none
  BY <1>1
<1>9. \A a, b, c, d, e, f, g, h \in A :
        <<tag, a, b, c, d, e, f, g, h>> \in Seq(A) \ {<<>>}
        /\ <<tag, a, b, c, d, e, f, g, h>>[1] # none
  BY <1>1
<1>10. /\ \A a \in A : <<tag, a>> \in Tagged(V)
       /\ \A a, b \in A : <<tag, a, b>> \in Tagged(V)
       /\ \A a, b, c \in A : <<tag, a, b, c>> \in Tagged(V)
       /\ \A a, b, c, d \in A : <<tag, a, b, c, d>> \in Tagged(V)
  BY <1>2, <1>3, <1>4, <1>5, <1>6, Zenon
<1>11. \A a, b, c, d, e \in A : <<tag, a, b, c, d, e>> \in Tagged(V)
  <2> TAKE a, b, c, d, e \in A
  <2> DEFINE s == <<tag, a, b, c, d, e>>
  <2>1. s \in Seq(A) \ {<<>>} /\ s[1] # none
    BY <1>7
  <2> HIDE DEF s
  <2>2. s \in Tagged(V)
    BY <1>2, <2>1, Zenon
  <2> QED
    BY <2>2 DEF s
<1>12. \A a, b, c, d, e, f, g \in A : <<tag, a, b, c, d, e, f, g>> \in Tagged(V)
  <2> TAKE a, b, c, d, e, f, g \in A
  <2> DEFINE s == <<tag, a, b, c, d, e, f, g>>
  <2>1. s \in Seq(A) \ {<<>>} /\ s[1] # none
    BY <1>8
  <2> HIDE DEF s
  <2>2. s \in Tagged(V)
    BY <1>2, <2>1, Zenon
  <2> QED
    BY <2>2 DEF s
<1>13. \A a, b, c, d, e, f, g, h \in A : <<tag, a, b, c, d, e, f, g, h>> \in Tagged(V)
  <2> TAKE a, b, c, d, e, f, g, h \in A
  <2> DEFINE s == <<tag, a, b, c, d, e, f, g, h>>
  <2>1. s \in Seq(A) \ {<<>>} /\ s[1] # none
    BY <1>9
  <2> HIDE DEF s
  <2>2. s \in Tagged(V)
    BY <1>2, <2>1, Zenon
  <2> QED
    BY <2>2 DEF s
<1> QED
  BY <1>10, <1>11, <1>12, <1>13, Zenon DEF A, tag

(* An order of which the EDI formats carry everything, and its line items. *)
Entry(V, F) == [no : DOMAIN Numerals \ {"million"}, product : Seq(V),
                qty : F, uom : Seq(V), price : F, description : {<<>>}]

EdiDocument(P, C, F) ==
  LET Party == [id : Seq(C), name : Seq(P), address : {<<>>}]
  IN  [sender : Seq(P), receiver : Seq(P), number : Seq(P), date : WholeDays,
       currency : Seq(Words), buyer : Party, seller : Party, lines : Seq(Entry(C, F))]

LEMMA EdiDocuments ==
  ASSUME NEW P, NEW C, NEW F
  PROVE  EdiDocument(P, C, F) \subseteq Document(P, C, F)
<1> DEFINE none == <<>>
           CU == Seq(Words)
           LT == [no : DOMAIN Numerals \ {"million"}, product : Seq(C), qty : F,
                  uom : Seq(C), price : F, description : CU]
           LF == [no : DOMAIN Numerals \ {"million"}, product : Seq(C), qty : F,
                  uom : Seq(C), price : F, description : {none}]
           B1 == Seq(P)
           B2 == Seq(C)
           SF == Seq(LF)
           ST == Seq(LT)
           D1 == WholeDays
           D2 == {<<>>} \cup Days \cup Moments
<1>1. none \in CU
  OBVIOUS
<1>2. D1 \subseteq D2
  BY Zenon DEF WholeDays
<1> HIDE DEF none, CU
<1>3. LF \subseteq LT
  BY <1>1
<1> HIDE DEF LF, LT
<1>4. SF \subseteq ST
  BY <1>3
<1>5. EdiDocument(P, C, F)
        = [sender : B1, receiver : B1, number : B1, date : D1, currency : CU,
           buyer : [id : B2, name : B1, address : {none}],
           seller : [id : B2, name : B1, address : {none}], lines : SF]
  BY Zenon DEF EdiDocument, Entry, LF, none, CU
<1>6. Document(P, C, F)
        = [sender : B1, receiver : B1, number : B1, date : D2, currency : CU,
           buyer : [id : B2, name : B1, address : CU],
           seller : [id : B2, name : B1, address : CU], lines : ST]
  BY Zenon DEF Document, LT, CU
<1> HIDE DEF B1, B2, SF, ST, D1, D2
<1> QED
  BY <1>1, <1>2, <1>4, <1>5, <1>6

(* Its fields; those that are the same as in any document, and its date.   *)
LEMMA EdiFields ==
  ASSUME NEW P, NEW C, NEW F, NEW d \in EdiDocument(P, C, F)
  PROVE  /\ d \in Document(P, C, F)
         /\ d.date \in WholeDays /\ DayOf(d.date) = d.date
<1>1. d.date \in WholeDays
  BY DEF EdiDocument
<1>2. \A x \in WholeDays : DayOf(x) = x
  BY DEF WholeDays, Days, DayOf
<1> QED
  BY <1>1, <1>2, EdiDocuments

LEMMA CountTypes ==
  ASSUME NEW P, NEW C, NEW F, NEW d \in EdiDocument(P, C, F)
  PROVE  PartyCount(d) \in 0..2 /\ X12Count(d) \in Nat /\ EdifactCount(d) \in Nat
<1>1. Len(d.lines) \in Nat
  BY EdiFields, DocumentFields
<1>2. PartyCount(d) \in 0..2
  <2> DEFINE both == {"buyer", "seller"}
             some == {f \in both : HasParty(d[f])}
  <2>1. IsFiniteSet(both) /\ Cardinality(both) = 2
    <3>1. IsFiniteSet({"seller"}) /\ Cardinality({"seller"}) = 1
      BY FS_Singleton
    <3>2. both = {"seller"} \cup {"buyer"} /\ "buyer" \notin {"seller"}
      OBVIOUS
    <3> QED
      BY <3>1, <3>2, FS_AddElement
  <2>2. some \subseteq both
    OBVIOUS
  <2> HIDE DEF both, some
  <2>3. IsFiniteSet(some) /\ Cardinality(some) <= 2
    BY <2>1, <2>2, FS_Subset
  <2>4. Cardinality(some) \in Nat
    BY <2>3, FS_CardinalityType
  <2>5. Cardinality(some) \in 0..2
    BY <2>3, <2>4
  <2> QED
    BY <2>5 DEF PartyCount, some, both
<1> DEFINE n == Len(d.lines)
           p == PartyCount(d)
           date == IF d.date = <<>> THEN 0 ELSE 1
<1>3. X12Count(d) = 4 + p + n /\ EdifactCount(d) = 2 + date + p + 3 * n + 1
  BY Zenon DEF X12Count, EdifactCount
<1>4. date \in Nat
  BY Zenon, 0 \in Nat, 1 \in Nat
<1> HIDE DEF n, p, date
<1>5. n \in Nat /\ p \in 0..2
  BY <1>1, <1>2 DEF n, p
<1>6. 4 + p + n \in Nat /\ 2 + date + p + 3 * n + 1 \in Nat
  BY <1>4, <1>5
<1> QED
  BY <1>2, <1>3, <1>6, Zenon

LEMMA X12PartyType ==
  ASSUME NEW V, NEW F, Sufficient(V, F), NEW q \in Literals,
         NEW p, p.id \in Seq(V), p.name \in Seq(V)
  PROVE  X12Party(q, p) \in Seq(Tagged(V))
<1> DEFINE A == Seq(V)
           segment == <<<<"N1">>, <<q>>, p.name, <<"ZZ">>, p.id>>
<1>1. <<q>> \in A /\ <<"ZZ">> \in A /\ "N1" \in V
  BY TextTypes, LiteralsAre, Zenon DEF Sufficient
<1>2. segment \in Tagged(V)
  BY <1>1, SegmentType, Zenon
<1> HIDE DEF segment
<1>3. <<segment>> \in Seq(Tagged(V)) /\ <<>> \in Seq(Tagged(V))
  BY <1>2
<1> QED
  BY <1>3, Zenon DEF X12Party, segment

LEMMA X12LineType ==
  ASSUME NEW V, NEW F, Sufficient(V, F), NEW l,
         l.no \in Figure \ {"million"}, l.product \in Seq(V), l.qty \in F,
         l.uom \in Seq(V), l.price \in F
  PROVE  X12Line(l) \in Tagged(V)
<1> DEFINE A == Seq(V)
<1>1. <<>> \in A /\ <<"VP">> \in A /\ "PO1" \in V
  BY TextTypes, LiteralsAre, Zenon DEF Sufficient
<1>2. Numerals[l.no] \in A /\ Numerals[l.qty] \in A /\ Numerals[l.price] \in A
  BY Zenon DEF Sufficient
<1> QED
  BY <1>1, <1>2, SegmentType, Zenon DEF X12Line

LEMMA X12HeadType ==
  ASSUME NEW V, NEW F, Sufficient(V, F), NEW d \in EdiDocument(V, V, F)
  PROVE  X12Head(d) \in Seq(Tagged(V))
<1> DEFINE A == Seq(V)
           isa == <<<<"ISA">>, <<"00">>, <<>>, <<"00">>, <<>>, <<"ZZ">>, Pad(d.sender),
                    <<"ZZ">>, Pad(d.receiver)>>
           gs == <<<<"GS">>, <<"OE">>, d.sender, d.receiver, DayOf(d.date)>>
           st == <<<<"ST">>, <<"850">>, <<"0001">>>>
           beg == <<<<"BEG">>, <<"00">>, <<"SA">>, d.number, <<>>, DayOf(d.date)>>
<1>1. /\ <<>> \in A /\ <<"00">> \in A /\ <<"ZZ">> \in A /\ <<"OE">> \in A /\ <<"850">> \in A
      /\ <<"0001">> \in A /\ <<"SA">> \in A
  BY TextTypes, LiteralsAre, Zenon DEF Sufficient
<1>2. "ISA" \in V /\ "GS" \in V /\ "ST" \in V /\ "BEG" \in V
  BY LiteralsAre DEF Sufficient
<1>3. d.sender \in A /\ d.receiver \in A /\ d.number \in A
  BY EdiFields, DocumentFields, Zenon
<1>4. DayOf(d.date) \in A
  BY EdiFields, TextTypes, Zenon
<1>5. Pad(d.sender) \in A /\ Pad(d.receiver) \in A
  BY <1>3, PadType, Zenon
<1>6. isa \in Tagged(V)
  BY <1>1, <1>2, <1>5, SegmentType, Zenon
<1>7. gs \in Tagged(V)
  BY <1>1, <1>2, <1>3, <1>4, SegmentType, Zenon
<1>8. st \in Tagged(V)
  BY <1>1, <1>2, SegmentType, Zenon
<1>9. beg \in Tagged(V)
  BY <1>1, <1>2, <1>3, <1>4, SegmentType, Zenon
<1> HIDE DEF isa, gs, st, beg
<1>10. <<isa, gs, st, beg>> \in Seq(Tagged(V))
  BY <1>6, <1>7, <1>8, <1>9
<1> QED
  BY <1>10, Zenon DEF X12Head, isa, gs, st, beg

LEMMA X12TrailerType ==
  ASSUME NEW V, NEW F, Sufficient(V, F), NEW d, X12Count(d) \in Nat
  PROVE  X12Trailer(d) \in Seq(Tagged(V))
<1> DEFINE A == Seq(V)
           se == <<<<"SE">>, Printed(X12Count(d)), <<"0001">>>>
           ge == <<<<"GE">>, <<"1">>, <<"1">>>>
           iea == <<<<"IEA">>, <<"1">>>>
<1>1. <<"0001">> \in A /\ <<"1">> \in A /\ Printed(X12Count(d)) \in A
  BY TextTypes, LiteralsAre, Zenon DEF Sufficient
<1>2. "SE" \in V /\ "GE" \in V /\ "IEA" \in V
  BY LiteralsAre DEF Sufficient
<1>3. se \in Tagged(V) /\ ge \in Tagged(V)
  BY <1>1, <1>2, SegmentType, Zenon
<1>4. iea \in Tagged(V)
  BY <1>1, <1>2, SegmentType, Zenon
<1> HIDE DEF se, ge, iea
<1>5. <<se, ge, iea>> \in Seq(Tagged(V))
  BY <1>3, <1>4
<1> QED
  BY <1>5, Zenon DEF X12Trailer, se, ge, iea

LEMMA EntryFields ==
  ASSUME NEW V, NEW F, NEW l \in Entry(V, F)
  PROVE  /\ l.no \in Figure \ {"million"} /\ l.product \in Seq(V) /\ l.qty \in F
         /\ l.uom \in Seq(V) /\ l.price \in F
BY DEF Entry, Figure

LEMMA LinesEntries ==
  ASSUME NEW P, NEW V, NEW F, NEW d \in EdiDocument(P, V, F)
  PROVE  d.lines \in Seq(Entry(V, F))
BY DEF EdiDocument

LEMMA X12LinesType ==
  ASSUME NEW V, NEW F, Sufficient(V, F), NEW lines \in Seq(Entry(V, F))
  PROVE  /\ X12Lines(lines) \in Seq(Tagged(V)) /\ Len(X12Lines(lines)) = Len(lines)
         /\ \A n \in 1..Len(lines) : X12Lines(lines)[n] = X12Line(lines[n])
<1> DEFINE E == Entry(V, F)
           size == Len(lines)
           S == Tagged(V)
           table == [n \in 1..size |-> X12Line(lines[n])]
<1>1. size \in Nat /\ DOMAIN lines = 1..size /\ \A n \in 1..size : lines[n] \in E
  BY LenIsNat
<1>2. \A l \in E : X12Line(l) \in S
  BY EntryFields, X12LineType, Zenon
<1>3. X12Lines(lines) = table
  BY <1>1, Zenon DEF X12Lines
<1> HIDE DEF E, size, S
<1>4. table \in [1..size -> S] /\ \A n \in 1..size : table[n] = X12Line(lines[n])
  BY <1>1, <1>2
<1> HIDE DEF table
<1>5. table \in Seq(S) /\ Len(table) = size
  BY <1>1, <1>4, TableType, Zenon
<1> QED
  BY <1>3, <1>4, <1>5, Zenon DEF size, S

LEMMA X12LinesMore ==
  ASSUME NEW V, NEW F, Sufficient(V, F), NEW lines \in Seq(Entry(V, F)), NEW l \in Entry(V, F)
  PROVE  X12Lines(Append(lines, l)) = Append(X12Lines(lines), X12Line(l))
<1> DEFINE E == Entry(V, F)
           S == Tagged(V)
           more == Append(lines, l)
           size == Len(lines)
           b == X12Lines(lines)
           b2 == X12Lines(more)
           x == X12Line(l)
<1> HIDE DEF E, S
<1>0. more \in Seq(E) /\ size \in Nat /\ Len(more) = size + 1 /\ more[size + 1] = l
      /\ \A n \in 1..size : more[n] = lines[n]
  BY DEF E
<1>1. x \in S
  BY EntryFields, X12LineType, Zenon DEF E, S
<1> HIDE DEF more, x
<1>2. /\ b \in Seq(S) /\ Len(b) = size /\ \A n \in 1..size : b[n] = X12Line(lines[n])
      /\ b2 \in Seq(S) /\ Len(b2) = size + 1
      /\ \A n \in 1..(size + 1) : b2[n] = X12Line(more[n])
  BY <1>0, X12LinesType DEF E, S
<1> HIDE DEF b, b2, size
<1>3. Append(b, x) \in Seq(S) /\ Len(Append(b, x)) = size + 1
  BY <1>1, <1>2
<1>4. ASSUME NEW n \in 1..(size + 1) PROVE b2[n] = Append(b, x)[n]
  <2>1. CASE n = size + 1
    BY <1>0, <1>1, <1>2, <2>1 DEF x
  <2>2. CASE n # size + 1
    <3>1. n \in 1..size
      BY <1>0, <2>2
    <3>2. Append(b, x)[n] = b[n]
      BY <1>1, <1>2, <3>1
    <3>3. b2[n] = X12Line(more[n]) /\ more[n] = lines[n] /\ b[n] = X12Line(lines[n])
      BY <1>0, <1>2, <3>1
    <3> QED
      BY <3>2, <3>3
  <2> QED
    BY <2>1, <2>2
<1>5. b2 = Append(b, x)
  BY <1>2, <1>3, <1>4, SameSequence
<1> QED
  BY <1>5 DEF b, b2, x, more

LEMMA X12ElementsType ==
  ASSUME NEW V, NEW F, Sufficient(V, F), NEW d \in EdiDocument(V, V, F)
  PROVE  /\ X12Head(d) \in Seq(Tagged(V))
         /\ X12Party("BY", d.buyer) \in Seq(Tagged(V))
         /\ X12Party("SE", d.seller) \in Seq(Tagged(V))
         /\ X12Lines(d.lines) \in Seq(Tagged(V))
         /\ X12Trailer(d) \in Seq(Tagged(V))
         /\ X12Elements(d) \in Seq(Tagged(V))
<1> DEFINE S == Tagged(V)
           a == X12Head(d)
           b == X12Party("BY", d.buyer)
           c == X12Party("SE", d.seller)
           l == X12Lines(d.lines)
           t == X12Trailer(d)
<1>1. a \in Seq(S)
  BY X12HeadType
<1>2. b \in Seq(S) /\ c \in Seq(S)
  <2>1. /\ d.buyer.id \in Seq(V) /\ d.buyer.name \in Seq(V)
        /\ d.seller.id \in Seq(V) /\ d.seller.name \in Seq(V)
    BY EdiFields, DocumentFields, Zenon
  <2>2. "BY" \in Literals /\ "SE" \in Literals
    BY LiteralsAre
  <2> QED
    BY <2>1, <2>2, X12PartyType, Zenon
<1>3. l \in Seq(S)
  BY LinesEntries, X12LinesType
<1>4. t \in Seq(S)
  BY CountTypes, X12TrailerType
<1>5. X12Elements(d) = a \o b \o c \o l \o t
  BY X12Elements_Parts
<1> HIDE DEF S, a, b, c, l, t
<1>6. a \o b \o c \o l \o t \in Seq(S)
  BY <1>1, <1>2, <1>3, <1>4
<1> QED
  BY <1>1, <1>2, <1>3, <1>4, <1>5, <1>6 DEF S, a, b, c, l, t

(* Numbers are read as they are printed.                                   *)
LEMMA NumeralsAre ==
  /\ DOMAIN Numerals = {"0", "1", "2", "10", "million"}
  /\ \A n \in Figure \ {"million"} : Numerals[n] = <<n>>
  /\ Numerals["million"] = <<"1e", "+", "06">>
  /\ \A n \in Figure : \A m \in Figure : Numerals[n] = Numerals[m] => n = m
<1>1. /\ DOMAIN Numerals = {"0", "1", "2", "10", "million"}
      /\ \A n \in Figure \ {"million"} : Numerals[n] = <<n>>
      /\ Numerals["million"] = <<"1e", "+", "06">>
  BY DEF Numerals, Figure
<1>2. \A n, m : <<n>> = <<m>> => n = m
  OBVIOUS
<1>3. \A n : <<n>> # <<"1e", "+", "06">>
  OBVIOUS
<1> QED
  BY <1>1, <1>2, <1>3 DEF Figure

LEMMA ReadsFigure ==
  /\ \A n \in Figure : Parse(Numerals[n]) = n
  /\ \A n \in Figure \ {"million"} : Atoi(Numerals[n]) = n
<1>1. ASSUME NEW n \in Figure PROVE Parse(Numerals[n]) = n
  <2> DEFINE x == Numerals[n]
             m == CHOOSE m \in Figure : Numerals[m] = x
  <2>1. m \in Figure /\ Numerals[m] = x
    <3> HIDE DEF Figure
    <3> QED
      OBVIOUS
  <2>2. Parse(x) = m
    BY Zenon DEF Parse, Figure
  <2> HIDE DEF m
  <2> QED
    BY <2>1, <2>2, NumeralsAre, Zenon
<1> HIDE DEF Figure
<1>2. ASSUME NEW n \in Figure \ {"million"} PROVE Atoi(Numerals[n]) = n
  BY <1>1 DEF Atoi
<1> QED
  BY <1>1, <1>2

LEMMA ReadsDate == ASSUME NEW x \in WholeDays PROVE ParseDate(x) = x
BY Zenon DEF WholeDays, ParseDate

(* What X12 has room for.                                                  *)
X12Clean == Tokens \ {"~", "*"}

LEMMA X12Sufficient == Sufficient(X12Clean, Figure)
<1>1. X12Clean \subseteq Tokens /\ ":" \in X12Clean /\ "+" \in X12Clean
  BY DEF X12Clean, Tokens, Delimiting
<1>2. Literals \subseteq X12Clean
  <2>1. "~" \notin Literals /\ "*" \notin Literals
    BY DEF Literals
  <2> HIDE DEF Literals
  <2> QED
    BY <2>1 DEF X12Clean, Tokens
<1>3. Dates \subseteq X12Clean
  BY DateAssumption DEF X12Clean, Tokens, Delimiting
<1>4. \A n \in Figure : Numerals[n] \in Seq(X12Clean)
  <2>1. {"0", "1", "2", "10", "1e", "06"} \subseteq X12Clean
    <3>1. {"0", "1", "2", "10", "1e", "06"} \subseteq Literals
      BY DEF Literals
    <3> QED
      BY <1>2, <3>1
  <2> HIDE DEF X12Clean
  <2>2. Figure = {"0", "1", "2", "10", "million"}
    BY NumeralsAre DEF Figure
  <2>3. \A n \in {"0", "1", "2", "10"} : <<n>> \in Seq(X12Clean)
    BY <2>1
  <2>4. <<"1e", "+", "06">> \in Seq(X12Clean)
    BY <1>1, <2>1
  <2> QED
    BY <2>2, <2>3, <2>4, NumeralsAre
<1> QED
  BY <1>1, <1>2, <1>3, <1>4 DEF Sufficient

(* The segments of an X12 text are read back.                              *)
LEMMA X12SegmentsBack ==
  ASSUME NEW d \in EdiDocument(X12Clean, X12Clean, Figure)
  PROVE  X12Segments(X12Encode(d)) = X12Elements(d)
<1> DEFINE V == X12Clean
           W == Tokens \ {"~"}
           T == Tokens
           segments == X12Elements(d)
           w == Written(segments, "*", "~")
           b == Bodies(segments, "*")
<1>1. "~" \in T /\ Spares(W, T, "~") /\ "*" \in W /\ Spares(V, W, "*")
  BY DEF Tokens, Delimiting, Spares, X12Clean
<1>2. segments \in Seq(Tagged(V))
  BY X12Sufficient, X12ElementsType
<1>3. segments \in Seq(Lists(V)) /\ \A n \in DOMAIN segments : segments[n][1] # <<>>
  BY <1>2 DEF Tagged
<1> HIDE DEF V, W, T, segments
<1>4. /\ NotBlank(Split(w, "~")) = b
      /\ [n \in DOMAIN b |-> Split(b[n], "*")] = segments
  BY <1>1, <1>3, SegmentsBack
<1>5. X12Segments(w) = [n \in DOMAIN b |-> Split(b[n], "*")]
  BY <1>4, Zenon DEF X12Segments
<1> QED
  BY <1>4, <1>5, Zenon DEF X12Encode, segments

(* What one X12 segment changes.                                           *)
LEMMA X12ReadIs ==
  ASSUME NEW x, NEW e
  PROVE  /\ e[1] = <<"ISA">> =>
              X12Read(x, e) = [x EXCEPT !.sender = Get(e, 6), !.receiver = Get(e, 8)]
         /\ e[1] = <<"BEG">> =>
              X12Read(x, e)
                = [x EXCEPT !.number = Get(e, 3),
                            !.date = IF Get(e, 5) = <<>> THEN @ ELSE ParseDate(Get(e, 5))]
         /\ e[1] = <<"N1">> /\ Get(e, 1) = <<"BY">> =>
              X12Read(x, e) = [x EXCEPT !.buyer =
                                [id |-> Get(e, 4), name |-> Get(e, 2), address |-> <<>>]]
         /\ e[1] = <<"N1">> /\ Get(e, 1) = <<"SE">> =>
              X12Read(x, e) = [x EXCEPT !.seller =
                                [id |-> Get(e, 4), name |-> Get(e, 2), address |-> <<>>]]
         /\ e[1] = <<"PO1">> =>
              X12Read(x, e) = [x EXCEPT !.lines = Append(@,
                [no |-> Atoi(Get(e, 1)), qty |-> Parse(Get(e, 2)), uom |-> Get(e, 3),
                 price |-> Parse(Get(e, 4)), product |-> X12Product(e),
                 description |-> <<>>])]
         /\ e[1] \notin {<<"ISA">>, <<"BEG">>, <<"N1">>, <<"PO1">>} => X12Read(x, e) = x
<1> DEFINE isa == <<"ISA">>
           beg == <<"BEG">>
           n1 == <<"N1">>
           po1 == <<"PO1">>
           by == <<"BY">>
           se == <<"SE">>
<1>1. /\ isa # beg /\ isa # n1 /\ isa # po1 /\ beg # n1 /\ beg # po1 /\ n1 # po1
      /\ by # se
  OBVIOUS
<1> HIDE DEF isa, beg, n1, po1, by, se
<1>2. CASE e[1] = isa
  BY <1>1, <1>2, Zenon DEF X12Read, isa, beg, n1, po1
<1>3. CASE e[1] = beg
  BY <1>1, <1>3, Zenon DEF X12Read, isa, beg, n1, po1
<1>4. CASE e[1] = n1
  BY <1>1, <1>4, Zenon DEF X12Read, isa, beg, n1, po1, by, se
<1>5. CASE e[1] = po1
  BY <1>1, <1>5, Zenon DEF X12Read, isa, beg, n1, po1
<1>6. CASE e[1] \notin {isa, beg, n1, po1}
  BY <1>1, <1>6, Zenon DEF X12Read, isa, beg, n1, po1
<1> QED
  BY <1>2, <1>3, <1>4, <1>5, <1>6

LEMMA X12ReadsProduct ==
  ASSUME NEW a, NEW b, NEW c, NEW d, NEW e, NEW f, NEW product
  PROVE  X12Product(<<a, b, c, d, e, f, <<"VP">>, product>>) = product
<1> DEFINE vp == <<"VP">>
           g == <<a, b, c, d, e, f, vp, product>>
           pairs == {n \in 6..(Len(g) - 2) : n % 2 = 0}
           known == {n \in pairs : Get(g, n) \in {<<"VP">>, <<"BP">>, <<"UP">>}}
           First(S) == CHOOSE n \in S : \A k \in S : n <= k
<1>1. Len(g) = 8 /\ Get(g, 6) = vp /\ Get(g, 7) = product
  BY DEF Get
<1> HIDE DEF g
<1>2. pairs = {6}
  BY <1>1
<1> HIDE DEF pairs
<1>3. known = {6}
  BY <1>1, <1>2
<1>4. First(known) = 6
  <2>1. \E n \in known : \A k \in known : n <= k
    BY <1>3
  <2>2. First(known) \in known
    BY <2>1
  <2> QED
    BY <1>3, <2>2
<1> HIDE DEF known, First
<1>5. X12Product(g) = Get(g, First(known) + 1)
  <2>1. known # {}
    BY <1>3
  <2> QED
    BY <2>1 DEF X12Product, known, pairs, First
<1> QED
  BY <1>1, <1>4, <1>5 DEF g

LEMMA X12ReadsLine ==
  ASSUME NEW x, NEW l \in Entry(X12Clean, Figure)
  PROVE  X12Read(x, X12Line(l)) = [x EXCEPT !.lines = Append(@, l)]
<1> DEFINE g == <<<<"PO1">>, Numerals[l.no], Numerals[l.qty], l.uom, Numerals[l.price],
                  <<>>, <<"VP">>, l.product>>
           item == [no |-> Atoi(Get(g, 1)), qty |-> Parse(Get(g, 2)), uom |-> Get(g, 3),
                    price |-> Parse(Get(g, 4)), product |-> X12Product(g),
                    description |-> <<>>]
<1>1. X12Line(l) = g
  BY DEF X12Line
<1>2. X12Product(g) = l.product
  BY X12ReadsProduct
<1>3. /\ g[1] = <<"PO1">> /\ Get(g, 1) = Numerals[l.no] /\ Get(g, 2) = Numerals[l.qty]
      /\ Get(g, 3) = l.uom /\ Get(g, 4) = Numerals[l.price]
  BY DEF Get
<1> HIDE DEF g
<1>4. /\ Atoi(Numerals[l.no]) = l.no /\ Parse(Numerals[l.qty]) = l.qty
      /\ Parse(Numerals[l.price]) = l.price
  <2>1. l.no \in Figure \ {"million"} /\ l.qty \in Figure /\ l.price \in Figure
    BY EntryFields
  <2> QED
    BY <2>1, ReadsFigure, Zenon
<1>5. item = l
  <2>1. item = [no |-> l.no, qty |-> l.qty, uom |-> l.uom, price |-> l.price,
                product |-> l.product, description |-> <<>>]
    BY <1>2, <1>3, <1>4, Zenon
  <2> HIDE DEF item
  <2>2. l.description = <<>>
    BY DEF Entry
  <2> QED
    BY <2>1, <2>2 DEF Entry
<1>6. X12Read(x, g) = [x EXCEPT !.lines = Append(@, item)]
  BY <1>3, X12ReadIs, Zenon
<1> QED
  BY <1>1, <1>5, <1>6

(* Reading goes on where it was: nothing more, one segment more, a list    *)
(* more.                                                                   *)
LEMMA ReadOn ==
  ASSUME NEW V, NEW F, Sufficient(V, F), NEW s \in Seq(Tagged(V)), NEW e \in Tagged(V), NEW f
  PROVE  ReadAll(f, Append(s, e)) = Read(f, ReadAll(f, s), e)
<1>1. Tagged(V) \subseteq Listed
  BY DEF Sufficient, Tagged, Listed, Lists
<1>2. e \in Listed /\ s \in Seq(Listed)
  <2> DEFINE S == Tagged(V)
             L == Listed
  <2>1. S \subseteq L /\ e \in S /\ s \in Seq(S)
    BY <1>1
  <2> HIDE DEF S, L
  <2>2. e \in L /\ s \in Seq(L)
    BY <2>1
  <2> QED
    BY <2>2 DEF L
<1> QED
  BY <1>2, ReadMore, Zenon

LEMMA X12ReadHead ==
  ASSUME NEW d \in EdiDocument(X12Clean, X12Clean, Figure)
  PROVE  ReadAll("x12", X12Head(d))
           = [Blank EXCEPT !.sender = Pad(d.sender), !.receiver = Pad(d.receiver),
                           !.number = d.number, !.date = d.date]
<1> DEFINE S == Tagged(X12Clean)
           isa == <<<<"ISA">>, <<"00">>, <<>>, <<"00">>, <<>>, <<"ZZ">>, Pad(d.sender),
                    <<"ZZ">>, Pad(d.receiver)>>
           gs == <<<<"GS">>, <<"OE">>, d.sender, d.receiver, DayOf(d.date)>>
           st == <<<<"ST">>, <<"850">>, <<"0001">>>>
           beg == <<<<"BEG">>, <<"00">>, <<"SA">>, d.number, <<>>, DayOf(d.date)>>
           x == [Blank EXCEPT !.sender = Pad(d.sender), !.receiver = Pad(d.receiver)]
           none == <<>>
           R(s) == ReadAll("x12", s)
<1>1. X12Head(d) = <<isa, gs, st, beg>> /\ X12Head(d) \in Seq(S)
  BY X12Sufficient, X12HeadType, Zenon DEF X12Head
<1>3. d.date \in WholeDays /\ DayOf(d.date) = d.date /\ ParseDate(d.date) = d.date
  BY EdiFields, ReadsDate, Zenon
<1>2. /\ X12Read(Blank, isa) = x /\ X12Read(x, gs) = x /\ X12Read(x, st) = x
      /\ X12Read(x, beg) = [x EXCEPT !.number = d.number, !.date = d.date]
  <2>1. isa[1] = <<"ISA">> /\ Get(isa, 6) = Pad(d.sender) /\ Get(isa, 8) = Pad(d.receiver)
    BY DEF Get
  <2>2. /\ gs[1] \notin {<<"ISA">>, <<"BEG">>, <<"N1">>, <<"PO1">>}
        /\ st[1] \notin {<<"ISA">>, <<"BEG">>, <<"N1">>, <<"PO1">>}
    OBVIOUS
  <2>3. beg[1] = <<"BEG">> /\ Get(beg, 3) = d.number /\ Get(beg, 5) = d.date
    BY <1>3 DEF Get
  <2> HIDE DEF isa, gs, st, beg
  <2>4. X12Read(Blank, isa) = x
    <3>1. X12Read(Blank, isa)
            = [Blank EXCEPT !.sender = Get(isa, 6), !.receiver = Get(isa, 8)]
      BY <2>1, X12ReadIs, Zenon
    <3> QED
      BY <2>1, <3>1
  <2>7. x.date = <<>>
    BY DEF Blank
  <2> HIDE DEF x
  <2>5. X12Read(x, gs) = x /\ X12Read(x, st) = x
    BY <2>2, X12ReadIs, Zenon
  <2>6. X12Read(x, beg) = [x EXCEPT !.number = d.number, !.date = d.date]
    <3> DEFINE date == IF d.date = <<>> THEN x.date ELSE ParseDate(d.date)
    <3>1. X12Read(x, beg)
            = [x EXCEPT !.number = Get(beg, 3),
                        !.date = IF Get(beg, 5) = <<>> THEN @ ELSE ParseDate(Get(beg, 5))]
      BY <2>3, X12ReadIs, Zenon
    <3>2. X12Read(x, beg) = [x EXCEPT !.number = d.number, !.date = date]
      BY <2>3, <3>1
    <3>3. date = d.date
      BY <1>3, <2>7, Zenon
    <3> QED
      BY <3>2, <3>3, Zenon
  <2> QED
    BY <2>4, <2>5, <2>6
<1>4. R(none) = Blank
  BY ReadNothing
<1>5. \A s \in Seq(S) : \A e \in S : R(Append(s, e)) = X12Read(R(s), e)
  BY X12Sufficient, ReadOn DEF Read
<1> HIDE DEF S, isa, gs, st, beg, none, R
<1>6. isa \in S /\ gs \in S /\ st \in S /\ beg \in S
  BY <1>1
<1>7. /\ none \in Seq(S) /\ Append(none, isa) \in Seq(S)
      /\ Append(Append(none, isa), gs) \in Seq(S)
      /\ Append(Append(Append(none, isa), gs), st) \in Seq(S)
      /\ <<isa, gs, st, beg>> = Append(Append(Append(Append(none, isa), gs), st), beg)
  BY <1>6 DEF none
<1> HIDE DEF x
<1>8. R(Append(none, isa)) = x
  BY <1>2, <1>4, <1>5, <1>6, <1>7
<1>9. R(Append(Append(none, isa), gs)) = x
  BY <1>2, <1>5, <1>6, <1>7, <1>8
<1>10. R(Append(Append(Append(none, isa), gs), st)) = x
  BY <1>2, <1>5, <1>6, <1>7, <1>9
<1>11. R(<<isa, gs, st, beg>>) = [x EXCEPT !.number = d.number, !.date = d.date]
  BY <1>2, <1>5, <1>6, <1>7, <1>10
<1> QED
  BY <1>1, <1>11 DEF R, x, Blank

(* Fields of an order that are set to what they are, or set twice.         *)
LEMMA OrderSame ==
  ASSUME NEW x \in Orders
  PROVE  /\ [x EXCEPT !.buyer = x.buyer] = x /\ [x EXCEPT !.seller = x.seller] = x
         /\ [x EXCEPT !.lines = x.lines] = x /\ [x EXCEPT !.date = x.date] = x
<1>1. x \in Shape
  BY OrdersShape
<1> QED
  BY <1>1 DEF Shape

LEMMA OrderFields ==
  ASSUME NEW x \in Orders, NEW v, NEW w
  PROVE  /\ [x EXCEPT !.buyer = v].buyer = v /\ [x EXCEPT !.seller = v].seller = v
         /\ [x EXCEPT !.lines = v].lines = v
         /\ [[x EXCEPT !.lines = v] EXCEPT !.lines = w] = [x EXCEPT !.lines = w]
<1>1. x \in Shape
  BY OrdersShape
<1> QED
  BY <1>1 DEF Shape

LEMMA ReadOrder ==
  ASSUME NEW V, NEW F, Sufficient(V, F), NEW s \in Seq(Tagged(V)), NEW f
  PROVE  ReadAll(f, s) \in Orders
<1> DEFINE S == Tagged(V)
           L == Listed
<1>1. S \subseteq L
  BY DEF Sufficient, Tagged, Listed, Lists
<1>2. s \in Seq(S)
  OBVIOUS
<1> HIDE DEF S, L
<1>3. s \in Seq(L)
  BY <1>1, <1>2
<1> QED
  BY <1>3, ReadAllType DEF L

LEMMA PartyIs ==
  ASSUME NEW P, NEW C, NEW F, NEW d \in EdiDocument(P, C, F)
  PROVE  /\ [id |-> d.buyer.id, name |-> d.buyer.name, address |-> <<>>] = d.buyer
         /\ [id |-> d.seller.id, name |-> d.seller.name, address |-> <<>>] = d.seller
         /\ ~HasParty(d.buyer) => d.buyer = NoParty
         /\ ~HasParty(d.seller) => d.seller = NoParty
<1> DEFINE A == Seq(C)
           B == Seq(P)
           none == <<>>
           Party == [id : A, name : B, address : {none}]
<1>1. d.buyer \in Party /\ d.seller \in Party
  BY DEF EdiDocument
<1> HIDE DEF A, B, none
<1>2. \A p \in Party : [id |-> p.id, name |-> p.name, address |-> none] = p
  OBVIOUS
<1> HIDE DEF Party
<1>3. \A p \in Party : ~HasParty(p) => p.id = none /\ p.name = none
  BY DEF HasParty, none
<1>4. NoParty = [id |-> none, name |-> none, address |-> none]
  BY DEF NoParty, none
<1>5. \A p \in Party : ~HasParty(p) => p = NoParty
  BY <1>2, <1>3, <1>4
<1> QED
  BY <1>1, <1>2, <1>5 DEF none

LEMMA X12ReadParties ==
  ASSUME NEW d \in EdiDocument(X12Clean, X12Clean, Figure), NEW s \in Seq(Tagged(X12Clean))
  PROVE  /\ ReadAll("x12", s).buyer = NoParty =>
              ReadAll("x12", s \o X12Party("BY", d.buyer))
                = [ReadAll("x12", s) EXCEPT !.buyer = d.buyer]
         /\ ReadAll("x12", s).seller = NoParty =>
              ReadAll("x12", s \o X12Party("SE", d.seller))
                = [ReadAll("x12", s) EXCEPT !.seller = d.seller]
<1> DEFINE S == Tagged(X12Clean)
           x == ReadAll("x12", s)
           buyer == <<<<"N1">>, <<"BY">>, d.buyer.name, <<"ZZ">>, d.buyer.id>>
           seller == <<<<"N1">>, <<"SE">>, d.seller.name, <<"ZZ">>, d.seller.id>>
<1>1. /\ s \o <<>> = s
      /\ \A e \in S : s \o <<e>> = Append(s, e)
  OBVIOUS
<1>2. \A e \in S : ReadAll("x12", Append(s, e)) = X12Read(x, e)
  BY X12Sufficient, ReadOn DEF Read
<1>3. X12Party("BY", d.buyer) \in Seq(S) /\ X12Party("SE", d.seller) \in Seq(S)
  BY X12Sufficient, X12ElementsType, Zenon
<1>4. /\ HasParty(d.buyer) => X12Party("BY", d.buyer) = <<buyer>>
      /\ ~HasParty(d.buyer) => X12Party("BY", d.buyer) = <<>>
      /\ HasParty(d.seller) => X12Party("SE", d.seller) = <<seller>>
      /\ ~HasParty(d.seller) => X12Party("SE", d.seller) = <<>>
  BY Zenon DEF X12Party
<1>5. /\ buyer[1] = <<"N1">> /\ Get(buyer, 1) = <<"BY">> /\ Get(buyer, 2) = d.buyer.name
      /\ Get(buyer, 4) = d.buyer.id
      /\ seller[1] = <<"N1">> /\ Get(seller, 1) = <<"SE">> /\ Get(seller, 2) = d.seller.name
      /\ Get(seller, 4) = d.seller.id
  BY DEF Get
<1> HIDE DEF S, buyer, seller
<1>6. /\ HasParty(d.buyer) => buyer \in S
      /\ HasParty(d.seller) => seller \in S
  <2>1. \A e : <<e>> \in Seq(S) => e \in S
    <3> TAKE e
    <3>1. Len(<<e>>) = 1 /\ <<e>>[1] = e
      OBVIOUS
    <3> QED
      BY <3>1, LenIsNat
  <2> QED
    BY <1>3, <1>4, <2>1, Zenon
<1>7. x \in Orders
  BY X12Sufficient, ReadOrder DEF S
<1> HIDE DEF x
<1>8. /\ X12Read(x, buyer) = [x EXCEPT !.buyer = d.buyer]
      /\ X12Read(x, seller) = [x EXCEPT !.seller = d.seller]
  <2>1. X12Read(x, buyer)
          = [x EXCEPT !.buyer =
              [id |-> Get(buyer, 4), name |-> Get(buyer, 2), address |-> <<>>]]
    BY <1>5, X12ReadIs, Zenon
  <2>2. X12Read(x, seller)
          = [x EXCEPT !.seller =
              [id |-> Get(seller, 4), name |-> Get(seller, 2), address |-> <<>>]]
    BY <1>5, X12ReadIs, Zenon
  <2>3. /\ [id |-> d.buyer.id, name |-> d.buyer.name, address |-> <<>>] = d.buyer
        /\ [id |-> d.seller.id, name |-> d.seller.name, address |-> <<>>] = d.seller
    BY PartyIs, Zenon
  <2> QED
    BY <1>5, <2>1, <2>2, <2>3
<1>9. x.buyer = NoParty =>
        ReadAll("x12", s \o X12Party("BY", d.buyer)) = [x EXCEPT !.buyer = d.buyer]
  <2>1. CASE HasParty(d.buyer)
    BY <1>1, <1>2, <1>4, <1>6, <1>8, <2>1, Zenon
  <2>2. CASE ~HasParty(d.buyer)
    <3>1. d.buyer = NoParty
      BY <2>2, PartyIs, Zenon
    <3>2. [x EXCEPT !.buyer = x.buyer] = x
      BY <1>7, OrderSame, Zenon
    <3>3. ReadAll("x12", s \o X12Party("BY", d.buyer)) = x
      BY <1>1, <1>4, <2>2, Zenon DEF x
    <3> QED
      BY <3>1, <3>2, <3>3, Zenon
  <2> QED
    BY <2>1, <2>2
<1>10. x.seller = NoParty =>
         ReadAll("x12", s \o X12Party("SE", d.seller)) = [x EXCEPT !.seller = d.seller]
  <2>1. CASE HasParty(d.seller)
    BY <1>1, <1>2, <1>4, <1>6, <1>8, <2>1, Zenon
  <2>2. CASE ~HasParty(d.seller)
    <3>1. d.seller = NoParty
      BY <2>2, PartyIs, Zenon
    <3>2. [x EXCEPT !.seller = x.seller] = x
      BY <1>7, OrderSame, Zenon
    <3>3. ReadAll("x12", s \o X12Party("SE", d.seller)) = x
      BY <1>1, <1>4, <2>2, Zenon DEF x
    <3> QED
      BY <3>1, <3>2, <3>3, Zenon
  <2> QED
    BY <2>1, <2>2
<1> QED
  BY <1>9, <1>10 DEF x

LEMMA X12ReadLines ==
  ASSUME NEW s \in Seq(Tagged(X12Clean)), ReadAll("x12", s).lines = <<>>
  PROVE  \A lines \in Seq(Entry(X12Clean, Figure)) :
           ReadAll("x12", s \o X12Lines(lines)) = [ReadAll("x12", s) EXCEPT !.lines = lines]
<1> DEFINE S == Tagged(X12Clean)
           E == Entry(X12Clean, Figure)
           x == ReadAll("x12", s)
           R(t) == ReadAll("x12", t)
           Good(lines) == R(s \o X12Lines(lines)) = [x EXCEPT !.lines = lines]
           P == {lines \in Seq(E) : Good(lines)}
<1>1. /\ x \in Orders /\ x.lines = <<>>
      /\ \A t \in Seq(S) : \A e \in S : R(Append(t, e)) = X12Read(R(t), e)
  BY X12Sufficient, ReadOrder, ReadOn DEF Read
<1>2. /\ \A lines \in Seq(E) : X12Lines(lines) \in Seq(S)
      /\ \A l \in E : X12Line(l) \in S
      /\ \A lines \in Seq(E) : \A l \in E :
           X12Lines(Append(lines, l)) = Append(X12Lines(lines), X12Line(l))
  BY X12Sufficient, X12LinesType, X12LinesMore, X12LineType, EntryFields
<1>3. /\ s \o <<>> = s
      /\ \A t \in Seq(S) : s \o t \in Seq(S)
      /\ \A t \in Seq(S) : \A e \in S : s \o Append(t, e) = Append(s \o t, e)
  BY ConcatFacts, ConcatType
<1>4. \A y : \A l \in E : X12Read(y, X12Line(l)) = [y EXCEPT !.lines = Append(@, l)]
  BY X12ReadsLine
<1>5. \A lines \in Seq(E) : \A l \in E : Append(lines, l) \in Seq(E)
  BY AppendType
<1>6. X12Lines(<<>>) = <<>>
  <2>1. DOMAIN <<>> = {}
    OBVIOUS
  <2>2. X12Lines(<<>>) = [n \in {} |-> X12Line(<<>>[n])]
    BY <2>1 DEF X12Lines
  <2>3. [n \in {} |-> X12Line(<<>>[n])] = <<>>
    OBVIOUS
  <2> QED
    BY <2>2, <2>3
<1>7. <<>> \in P
  <2>1. [x EXCEPT !.lines = x.lines] = x
    BY <1>1, OrderSame, Zenon
  <2>2. R(s \o X12Lines(<<>>)) = x
    BY <1>3, <1>6, Zenon
  <2>3. Good(<<>>)
    BY <1>1, <2>1, <2>2, Zenon
  <2>4. <<>> \in Seq(E)
    OBVIOUS
  <2> QED
    BY <2>3, <2>4
<1> HIDE DEF S, E, x, R
<1>8. ASSUME NEW lines \in Seq(E), NEW l \in E, lines \in P PROVE Append(lines, l) \in P
  <2> DEFINE t == X12Lines(lines)
             e == X12Line(l)
             y == [x EXCEPT !.lines = lines]
             more == Append(lines, l)
  <2>1. t \in Seq(S) /\ e \in S /\ X12Lines(more) = Append(t, e)
    BY <1>2
  <2>2. R(s \o t) = y
    BY <1>8
  <2> HIDE DEF t, e
  <2>3. R(s \o Append(t, e)) = X12Read(R(s \o t), e)
    BY <1>1, <1>3, <2>1, Zenon
  <2>4. X12Read(y, e) = [y EXCEPT !.lines = Append(y.lines, l)]
    BY <1>4, Zenon DEF e
  <2> HIDE DEF more
  <2>5. y.lines = lines
    BY <1>1, OrderFields, Zenon
  <2>6. [y EXCEPT !.lines = more] = [x EXCEPT !.lines = more]
    BY <1>1, OrderFields, Zenon
  <2>7. Good(more)
    BY <2>1, <2>2, <2>3, <2>4, <2>5, <2>6, Zenon DEF more
  <2> QED
    BY <1>5, <1>8, <2>7 DEF more
<1> HIDE DEF P
<1>9. Seq(E) \subseteq P
  BY <1>7, <1>8, SequenceInduction, Zenon
<1> QED
  BY <1>9, Zenon DEF P, E, R, x

LEMMA X12ReadTrailer ==
  ASSUME NEW d \in EdiDocument(X12Clean, X12Clean, Figure), NEW s \in Seq(Tagged(X12Clean))
  PROVE  ReadAll("x12", s \o X12Trailer(d)) = ReadAll("x12", s)
<1> DEFINE S == Tagged(X12Clean)
           se == <<<<"SE">>, Printed(X12Count(d)), <<"0001">>>>
           ge == <<<<"GE">>, <<"1">>, <<"1">>>>
           iea == <<<<"IEA">>, <<"1">>>>
           R(t) == ReadAll("x12", t)
           x == R(s)
<1>1. X12Trailer(d) = <<se, ge, iea>> /\ X12Trailer(d) \in Seq(S)
  BY X12Sufficient, X12ElementsType, Zenon DEF X12Trailer
<1>2. /\ se[1] \notin {<<"ISA">>, <<"BEG">>, <<"N1">>, <<"PO1">>}
      /\ ge[1] \notin {<<"ISA">>, <<"BEG">>, <<"N1">>, <<"PO1">>}
      /\ iea[1] \notin {<<"ISA">>, <<"BEG">>, <<"N1">>, <<"PO1">>}
  OBVIOUS
<1>3. \A t \in Seq(S) : \A e \in S : R(Append(t, e)) = X12Read(R(t), e)
  BY X12Sufficient, ReadOn DEF Read
<1>4. s \in Seq(S)
  OBVIOUS
<1> HIDE DEF S, se, ge, iea, R
<1>5. se \in S /\ ge \in S /\ iea \in S
  BY <1>1
<1>6. /\ Append(s, se) \in Seq(S) /\ Append(Append(s, se), ge) \in Seq(S)
      /\ s \o <<se, ge, iea>> = Append(Append(Append(s, se), ge), iea)
  BY <1>4, <1>5
<1>7. X12Read(x, se) = x /\ X12Read(x, ge) = x /\ X12Read(x, iea) = x
  BY <1>2, X12ReadIs, Zenon
<1>8. R(Append(s, se)) = x
  BY <1>3, <1>4, <1>5, <1>7
<1>9. R(Append(Append(s, se), ge)) = x
  BY <1>3, <1>5, <1>6, <1>7, <1>8
<1>10. R(s \o <<se, ge, iea>>) = x
  BY <1>3, <1>5, <1>6, <1>7, <1>9
<1> QED
  BY <1>1, <1>10 DEF R

(* What is left of an order in X12: the day, no address, description or    *)
(* currency, and of sender and receiver what fits.                         *)
X12Left(d) ==
  [EdiPart(d) EXCEPT !.currency = <<>>, !.sender = Pad(d.sender), !.receiver = Pad(d.receiver)]

X12Cut(d) ==
  [d EXCEPT !.currency = <<>>, !.sender = Pad(d.sender), !.receiver = Pad(d.receiver)]

(* Two orders with the same fields are one.                                *)
SameFields(x, y) ==
  /\ x.sender = y.sender /\ x.receiver = y.receiver /\ x.number = y.number
  /\ x.date = y.date /\ x.currency = y.currency /\ x.buyer = y.buyer
  /\ x.seller = y.seller /\ x.lines = y.lines

LEMMA SameOrder ==
  ASSUME NEW x \in Orders, NEW y \in Orders, SameFields(x, y)
  PROVE  x = y
<1> DEFINE A == Seq(Tokens)
           B == Seq(Words)
           C == Seq(Item)
           P == [id : A, name : A, address : B]
           D == Day
           R == [sender : A, receiver : A, number : A, date : D, currency : B,
                 buyer : P, seller : P, lines : C]
<1>1. x \in R /\ y \in R
  BY OrdersShape DEF Shape
<1> HIDE DEF A, B, C, P, D
<1> QED
  BY <1>1 DEF SameFields

LEMMA X12CutType ==
  ASSUME NEW d \in EdiDocument(X12Clean, X12Clean, Figure)
  PROVE  /\ d \in Orders /\ X12Cut(d) \in Orders
         /\ LET x0 == [Blank EXCEPT !.sender = Pad(d.sender), !.receiver = Pad(d.receiver),
                                    !.number = d.number, !.date = d.date]
                x1 == [x0 EXCEPT !.buyer = d.buyer]
                x2 == [x1 EXCEPT !.seller = d.seller]
                x3 == [x2 EXCEPT !.lines = d.lines]
            IN  SameFields(x3, X12Cut(d))
<1>1. d \in Orders
  BY EdiFields, X12Sufficient, OrdersGrow, Zenon DEF Sufficient
<1>2. Pad(d.sender) \in Seq(Tokens) /\ Pad(d.receiver) \in Seq(Tokens)
  <2>1. d.sender \in Seq(Tokens) /\ d.receiver \in Seq(Tokens)
    BY <1>1, OrdersShape DEF Shape
  <2> QED
    BY <2>1, PadType
<1>3. X12Cut(d) \in Orders
  <2> DEFINE B == Seq(Words)
             none == <<>>
  <2>1. none \in B
    OBVIOUS
  <2> HIDE DEF B, none
  <2>2. [d EXCEPT !.currency = none, !.sender = Pad(d.sender), !.receiver = Pad(d.receiver)]
          \in Orders
    BY <1>1, <1>2, <2>1, OrdersShape DEF Shape, B
  <2> QED
    BY <2>2 DEF X12Cut, none
<1>4. /\ X12Cut(d).sender = Pad(d.sender) /\ X12Cut(d).receiver = Pad(d.receiver)
      /\ X12Cut(d).number = d.number /\ X12Cut(d).date = d.date
      /\ X12Cut(d).currency = <<>> /\ X12Cut(d).buyer = d.buyer
      /\ X12Cut(d).seller = d.seller /\ X12Cut(d).lines = d.lines
  BY <1>1, OrdersShape DEF X12Cut, Shape
<1> QED
  BY <1>1, <1>3, <1>4 DEF Blank, SameFields

LEMMA X12CutBack ==
  ASSUME NEW d \in EdiDocument(X12Clean, X12Clean, Figure)
  PROVE  X12Decode(X12Encode(d)) = X12Cut(d)
<1> DEFINE S == Tagged(X12Clean)
           a == X12Head(d)
           b == X12Party("BY", d.buyer)
           c == X12Party("SE", d.seller)
           l == X12Lines(d.lines)
           t == X12Trailer(d)
           R(s) == ReadAll("x12", s)
           x0 == [Blank EXCEPT !.sender = Pad(d.sender), !.receiver = Pad(d.receiver),
                               !.number = d.number, !.date = d.date]
           x1 == [x0 EXCEPT !.buyer = d.buyer]
           x2 == [x1 EXCEPT !.seller = d.seller]
           x3 == [x2 EXCEPT !.lines = d.lines]
<1>1. /\ a \in Seq(S) /\ b \in Seq(S) /\ c \in Seq(S) /\ l \in Seq(S) /\ t \in Seq(S)
      /\ X12Elements(d) = a \o b \o c \o l \o t
  BY X12Sufficient, X12ElementsType, X12Elements_Parts
<1>2. R(a) = x0
  BY X12ReadHead, Zenon
<1>3. x0.buyer = NoParty /\ x1.seller = NoParty /\ x2.lines = <<>>
  BY DEF Blank
<1>4. SameFields(x3, X12Cut(d)) /\ X12Cut(d) \in Orders
  BY X12CutType, Zenon
<1> HIDE DEF x0, x1, x2, x3
<1>5. R(a \o b) = x1
  <2>1. R(a).buyer = NoParty
    BY <1>2, <1>3
  <2>2. R(a \o b) = [R(a) EXCEPT !.buyer = d.buyer]
    BY <1>1, <2>1, X12ReadParties, Zenon
  <2> QED
    BY <1>2, <2>2, Zenon DEF x1
<1>6. a \o b \in Seq(S) /\ (a \o b) \o c \in Seq(S) /\ ((a \o b) \o c) \o l \in Seq(S)
  BY <1>1, ConcatType, Zenon
<1>7. R((a \o b) \o c) = x2
  <2>1. R(a \o b).seller = NoParty
    BY <1>3, <1>5
  <2>2. R((a \o b) \o c) = [R(a \o b) EXCEPT !.seller = d.seller]
    BY <1>6, <2>1, X12ReadParties, Zenon
  <2> QED
    BY <1>5, <2>2, Zenon DEF x2
<1>8. R(((a \o b) \o c) \o l) = x3
  <2>1. R((a \o b) \o c).lines = <<>>
    BY <1>3, <1>7
  <2>2. d.lines \in Seq(Entry(X12Clean, Figure))
    BY LinesEntries, Zenon
  <2>3. R(((a \o b) \o c) \o l) = [R((a \o b) \o c) EXCEPT !.lines = d.lines]
    BY <1>6, <2>1, <2>2, X12ReadLines, Zenon
  <2> QED
    BY <1>7, <2>3, Zenon DEF x3
<1>9. R((((a \o b) \o c) \o l) \o t) = x3
  BY <1>6, <1>8, X12ReadTrailer, Zenon
<1>10. X12Decode(X12Encode(d)) = R(X12Elements(d))
  BY X12SegmentsBack, Zenon DEF X12Decode
<1>11. x3 \in Orders
  <2>1. X12Elements(d) \in Seq(S)
    BY X12Sufficient, X12ElementsType
  <2> QED
    BY <1>1, <1>9, <2>1, X12Sufficient, ReadOrder, Zenon
<1> QED
  BY <1>1, <1>4, <1>9, <1>10, <1>11, SameOrder, Zenon

(* Of any order, the encoders write no more than its EDI part.             *)
IsEdiPart(x, d) ==
  /\ x.sender = d.sender /\ x.receiver = d.receiver /\ x.number = d.number
  /\ x.date = DayOf(d.date) /\ x.currency = d.currency
  /\ x.buyer = [id |-> d.buyer.id, name |-> d.buyer.name, address |-> <<>>]
  /\ x.seller = [id |-> d.seller.id, name |-> d.seller.name, address |-> <<>>]
  /\ x.lines = [n \in DOMAIN d.lines |-> [d.lines[n] EXCEPT !.description = <<>>]]
  /\ x = [sender |-> x.sender, receiver |-> x.receiver, number |-> x.number, date |-> x.date,
          currency |-> x.currency, buyer |-> x.buyer, seller |-> x.seller, lines |-> x.lines]

LEMMA EdiPartFields ==
  ASSUME NEW P, NEW C, NEW F, NEW d \in Document(P, C, F)
  PROVE  IsEdiPart(EdiPart(d), d)
<1> DEFINE A == Seq(P)
           B == Seq(C)
           Party == [id : B, name : A, address : Seq(Words)]
           L == Seq([no : DOMAIN Numerals \ {"million"}, product : Seq(C), qty : F,
                     uom : Seq(C), price : F, description : Seq(Words)])
           D == {<<>>} \cup Days \cup Moments
           CU == Seq(Words)
           day == DayOf(d.date)
           none == <<>>
           lines == [n \in DOMAIN d.lines |-> [d.lines[n] EXCEPT !.description = <<>>]]
<1>1. d \in [sender : A, receiver : A, number : A, date : D, currency : CU,
             buyer : Party, seller : Party, lines : L]
  BY DEF Document
<1>2. EdiPart(d) = [d EXCEPT !.date = day, !.buyer.address = none, !.seller.address = none,
                             !.lines = lines]
  BY DEF EdiPart
<1> HIDE DEF A, B, L, D, CU, day, none, lines
<1>3. d.buyer \in Party /\ d.seller \in Party
  BY <1>1
<1>4. \A p \in Party : [p EXCEPT !.address = none]
                        = [id |-> p.id, name |-> p.name, address |-> none]
  OBVIOUS
<1> HIDE DEF Party
<1>5. EdiPart(d) = [d EXCEPT !.date = day,
                             !.buyer = [id |-> d.buyer.id, name |-> d.buyer.name,
                                        address |-> none],
                             !.seller = [id |-> d.seller.id, name |-> d.seller.name,
                                         address |-> none],
                             !.lines = lines]
  <2>1. EdiPart(d) = [d EXCEPT !.date = day, !.buyer = [d.buyer EXCEPT !.address = none],
                               !.seller = [d.seller EXCEPT !.address = none],
                               !.lines = lines]
    BY <1>1, <1>2
  <2> QED
    BY <1>3, <1>4, <2>1
<1> QED
  BY <1>1, <1>5 DEF IsEdiPart, day, none, lines

(* The same line item but for its description.                             *)
SameItem(l, m) ==
  /\ l.no = m.no /\ l.product = m.product /\ l.qty = m.qty /\ l.uom = m.uom
  /\ l.price = m.price

LEMMA EdiPartLines ==
  ASSUME NEW P, NEW C, NEW F, NEW d \in Document(P, C, F)
  PROVE  LET x == EdiPart(d).lines IN
         /\ x \in Seq(Entry(C, F)) /\ Len(x) = Len(d.lines) /\ DOMAIN x = DOMAIN d.lines
         /\ \A n \in DOMAIN d.lines : SameItem(x[n], d.lines[n])
<1> DEFINE none == <<>>
           A == Seq(C)
           B == Seq(Words)
           N == DOMAIN Numerals \ {"million"}
           G == [no : N, product : A, qty : F, uom : A, price : F, description : B]
           E == [no : N, product : A, qty : F, uom : A, price : F, description : {none}]
           bare(l) == [l EXCEPT !.description = none]
           lines == d.lines
           size == Len(lines)
           x == [n \in DOMAIN lines |-> bare(lines[n])]
<1>1. lines \in Seq(G)
  BY DEF Document
<1>2. EdiPart(d).lines = x
  <2>1. IsEdiPart(EdiPart(d), d)
    BY EdiPartFields
  <2> QED
    BY <2>1, Zenon DEF IsEdiPart
<1>3. E = Entry(C, F)
  BY DEF Entry
<1> HIDE DEF none, A, B, N
<1>4. \A l \in G : bare(l) \in E /\ SameItem(bare(l), l)
  BY DEF SameItem
<1> HIDE DEF G, E, bare, lines
<1>5. size \in Nat /\ DOMAIN lines = 1..size /\ \A n \in 1..size : lines[n] \in G
  BY <1>1, LenIsNat
<1> HIDE DEF size
<1>6. x \in [1..size -> E] /\ \A n \in 1..size : x[n] = bare(lines[n])
  BY <1>4, <1>5
<1> HIDE DEF x
<1>7. x \in Seq(E) /\ Len(x) = size /\ DOMAIN x = 1..size
  BY <1>5, <1>6, TableType, LenIsNat
<1> QED
  BY <1>2, <1>3, <1>4, <1>5, <1>6, <1>7 DEF size, lines

LEMMA EdiPartType ==
  ASSUME NEW P, NEW C, NEW F, NEW d \in Document(P, C, F)
  PROVE  EdiPart(d) \in EdiDocument(P, C, F)
<1> DEFINE x == EdiPart(d)
           A == Seq(P)
           B == Seq(C)
           CU == Seq(Words)
           none == <<>>
           L == Seq(Entry(C, F))
           Party == [id : B, name : A, address : {none}]
<1>0. IsEdiPart(x, d)
  BY EdiPartFields
<1>1. /\ x.sender \in A /\ x.receiver \in A /\ x.number \in A
      /\ d.buyer.id \in B /\ d.buyer.name \in A /\ d.seller.id \in B /\ d.seller.name \in A
  <2>1. /\ d.sender \in A /\ d.receiver \in A /\ d.number \in A
        /\ d.buyer.id \in B /\ d.buyer.name \in A
        /\ d.seller.id \in B /\ d.seller.name \in A
    BY DocumentFields, Zenon
  <2> QED
    BY <1>0, <2>1, Zenon DEF IsEdiPart
<1>2. x.currency \in CU
  <2>1. d.currency \in CU
    BY DEF Document
  <2> QED
    BY <1>0, <2>1, Zenon DEF IsEdiPart
<1>3. x.date \in WholeDays
  <2>1. \A y \in {<<>>} \cup Days \cup Moments : DayOf(y) \in WholeDays
    BY DEF WholeDays, Days, Moments, DayOf
  <2>2. d.date \in {<<>>} \cup Days \cup Moments
    BY DocumentFields, Zenon
  <2> QED
    BY <1>0, <2>1, <2>2, Zenon DEF IsEdiPart
<1>4. x.lines \in L
  BY EdiPartLines
<1>5. /\ x.buyer = [id |-> d.buyer.id, name |-> d.buyer.name, address |-> none]
      /\ x.seller = [id |-> d.seller.id, name |-> d.seller.name, address |-> none]
      /\ x = [sender |-> x.sender, receiver |-> x.receiver, number |-> x.number,
              date |-> x.date, currency |-> x.currency, buyer |-> x.buyer,
              seller |-> x.seller, lines |-> x.lines]
  BY <1>0, Zenon DEF IsEdiPart
<1>6. EdiDocument(P, C, F) = [sender : A, receiver : A, number : A, date : WholeDays,
                              currency : CU, buyer : Party, seller : Party, lines : L]
  BY DEF EdiDocument
<1> HIDE DEF x, A, B, CU, none, L
<1>7. x.buyer \in Party /\ x.seller \in Party
  BY <1>1, <1>5
<1> HIDE DEF Party
<1>8. [sender |-> x.sender, receiver |-> x.receiver, number |-> x.number, date |-> x.date,
       currency |-> x.currency, buyer |-> x.buyer, seller |-> x.seller, lines |-> x.lines]
        \in EdiDocument(P, C, F)
  BY <1>1, <1>2, <1>3, <1>4, <1>6, <1>7
<1> QED
  BY <1>5, <1>8 DEF x

(* What is counted and written of the parties does not depend on their     *)
(* addresses.                                                              *)
LEMMA EdiPartParties ==
  ASSUME NEW P, NEW C, NEW F, NEW d \in Document(P, C, F)
  PROVE  LET x == EdiPart(d) IN
         /\ \A f \in {"buyer", "seller"} :
              /\ x[f].id = d[f].id /\ x[f].name = d[f].name /\ HasParty(x[f]) = HasParty(d[f])
              /\ \A q : /\ X12Party(q, x[f]) = X12Party(q, d[f])
                        /\ EdifactParty(q, x[f]) = EdifactParty(q, d[f])
         /\ PartyCount(x) = PartyCount(d)
         /\ DayOf(x.date) = DayOf(d.date) /\ (x.date = <<>>) = (d.date = <<>>)
<1> DEFINE x == EdiPart(d)
<1>0. IsEdiPart(x, d)
  BY EdiPartFields
<1>1. \A f \in {"buyer", "seller"} : x[f].id = d[f].id /\ x[f].name = d[f].name
  <2> HIDE DEF x
  <2>1. /\ x.buyer.id = d.buyer.id /\ x.buyer.name = d.buyer.name
        /\ x.seller.id = d.seller.id /\ x.seller.name = d.seller.name
    BY <1>0 DEF IsEdiPart
  <2> QED
    BY <2>1
<1>2. DayOf(x.date) = DayOf(d.date) /\ (x.date = <<>>) = (d.date = <<>>)
  <2>1. x.date = DayOf(d.date)
    BY <1>0, Zenon DEF IsEdiPart
  <2>2. d.date \in {<<>>} \cup Days \cup Moments
    BY DocumentFields, Zenon
  <2> HIDE DEF x
  <2>3. \A y \in {<<>>} \cup Days \cup Moments :
          DayOf(DayOf(y)) = DayOf(y) /\ (DayOf(y) = <<>>) = (y = <<>>)
    BY DEF Days, Moments, DayOf
  <2> QED
    BY <2>1, <2>2, <2>3
<1> HIDE DEF x
<1>3. ASSUME NEW f \in {"buyer", "seller"}
      PROVE  /\ HasParty(x[f]) = HasParty(d[f])
             /\ \A q : /\ X12Party(q, x[f]) = X12Party(q, d[f])
                       /\ EdifactParty(q, x[f]) = EdifactParty(q, d[f])
  <2>1. x[f].id = d[f].id /\ x[f].name = d[f].name
    BY <1>1
  <2>2. HasParty(x[f]) = HasParty(d[f])
    BY <2>1, Zenon DEF HasParty
  <2>3. ASSUME NEW q PROVE X12Party(q, x[f]) = X12Party(q, d[f])
    BY <2>1, <2>2, Zenon DEF X12Party
  <2>4. ASSUME NEW q PROVE EdifactParty(q, x[f]) = EdifactParty(q, d[f])
    BY <2>1, <2>2, Zenon DEF EdifactParty
  <2> QED
    BY <2>2, <2>3, <2>4
<1>4. PartyCount(x) = PartyCount(d)
  <2>1. {f \in {"buyer", "seller"} : HasParty(x[f])}
          = {f \in {"buyer", "seller"} : HasParty(d[f])}
    BY <1>3
  <2> QED
    BY <2>1 DEF PartyCount
<1> QED
  BY <1>1, <1>2, <1>3, <1>4 DEF x

LEMMA X12WritesEdiPart ==
  ASSUME NEW P, NEW C, NEW F, NEW d \in Document(P, C, F)
  PROVE  X12Encode(EdiPart(d)) = X12Encode(d)
<1> DEFINE x == EdiPart(d)
<1>1. /\ x.sender = d.sender /\ x.receiver = d.receiver /\ x.number = d.number
      /\ DayOf(x.date) = DayOf(d.date)
  <2>1. IsEdiPart(x, d)
    BY EdiPartFields
  <2>2. DayOf(x.date) = DayOf(d.date)
    BY EdiPartParties
  <2> QED
    BY <2>1, <2>2, Zenon DEF IsEdiPart
<1>2. /\ X12Party("BY", x.buyer) = X12Party("BY", d.buyer)
      /\ X12Party("SE", x.seller) = X12Party("SE", d.seller)
      /\ PartyCount(x) = PartyCount(d)
  BY EdiPartParties
<1>3. Len(x.lines) = Len(d.lines) /\ X12Lines(x.lines) = X12Lines(d.lines)
  <2>1. DOMAIN x.lines = DOMAIN d.lines /\ Len(x.lines) = Len(d.lines)
    BY EdiPartLines, Zenon
  <2>2. ASSUME NEW n \in DOMAIN d.lines PROVE X12Line(x.lines[n]) = X12Line(d.lines[n])
    <3>1. SameItem(x.lines[n], d.lines[n])
      BY EdiPartLines, Zenon
    <3> QED
      BY <3>1, Zenon DEF X12Line, SameItem
  <2> HIDE DEF x
  <2> QED
    BY <2>1, <2>2 DEF X12Lines
<1> HIDE DEF x
<1>4. X12Head(x) = X12Head(d) /\ X12Trailer(x) = X12Trailer(d)
  BY <1>1, <1>2, <1>3, Zenon DEF X12Head, X12Trailer, X12Count
<1>5. X12Elements(x) = X12Elements(d)
  BY <1>2, <1>3, <1>4, X12Elements_Parts, Zenon
<1> QED
  BY <1>5, Zenon DEF X12Encode, x

(* What X12 writes of an order without its delimiters it reads back, but   *)
(* for the time of day, the addresses, the descriptions and the currency,  *)
(* which it does not write, and what the fixed-width fields cut            *)
(* (codec/x12.go:19-125, 127-196).                                         *)
THEOREM X12RoundTrip ==
  ASSUME NEW d \in Document(X12Clean, X12Clean, Figure)
  PROVE  X12Decode(X12Encode(d)) = X12Left(d)
<1> DEFINE x == EdiPart(d)
<1>1. x \in EdiDocument(X12Clean, X12Clean, Figure)
  BY EdiPartType, Zenon
<1>2. x.sender = d.sender /\ x.receiver = d.receiver
  <2>1. IsEdiPart(x, d)
    BY EdiPartFields
  <2> QED
    BY <2>1, Zenon DEF IsEdiPart
<1>3. X12Decode(X12Encode(x)) = X12Cut(x)
  BY <1>1, X12CutBack, Zenon
<1>4. X12Encode(x) = X12Encode(d)
  BY X12WritesEdiPart, Zenon
<1>5. X12Cut(x) = X12Left(d)
  BY <1>2, Zenon DEF X12Cut, X12Left
<1> QED
  BY <1>3, <1>4, <1>5

-----------------------------------------------------------------------------
(***************************************************************************)
(* The same for EDIFACT.                                                   *)
(***************************************************************************)
(* What EDIFACT has room for: texts, composites and figures.               *)
EdifactClean == Tokens \ {"+", "'", "?", NewLine}

EdifactComposite == EdifactClean \ {":"}

EdifactFigures == Figure \ {"million"}

(* The parts EdifactElements is put together from.                         *)
EdifactHead(d) ==
  <<<<<<"UNB">>, <<"IATB", ":", "1">>, d.sender, d.receiver>>,
    <<<<"UNH">>, <<"1">>, <<"ORDERS">>>>,
    <<<<"BGM">>, <<"220">>, d.number, <<"9">>>>>>

EdifactLines(lines) == FlattenSeq([n \in DOMAIN lines |-> EdifactLine(lines[n])])

EdifactTrailer(d) ==
  <<<<<<"UNT">>, Printed(EdifactCount(d)), <<"1">>>>, <<<<"UNZ">>, <<"1">>>>>>

LEMMA EdifactElements_Parts ==
  ASSUME NEW d
  PROVE  EdifactElements(d) =
           EdifactHead(d) \o EdifactDate(d) \o EdifactParty("BY", d.buyer)
             \o EdifactParty("SE", d.seller) \o EdifactLines(d.lines) \o EdifactTrailer(d)
BY Zenon DEF EdifactElements, EdifactHead, EdifactLines, EdifactTrailer

LEMMA EdifactSufficient ==
  /\ Sufficient(EdifactClean, EdifactFigures)
  /\ Literals \subseteq EdifactComposite /\ Dates \subseteq EdifactComposite
  /\ EdifactComposite \subseteq EdifactClean
<1>1. EdifactClean \subseteq Tokens /\ ":" \in EdifactClean
  BY DEF EdifactClean, Tokens, Delimiting, NewLine
<1>2. Literals \subseteq EdifactComposite
  <2>1. /\ "+" \notin Literals /\ "'" \notin Literals /\ "?" \notin Literals
        /\ ":" \notin Literals /\ NewLine \notin Literals
    BY DEF Literals, NewLine
  <2> HIDE DEF Literals
  <2> QED
    BY <2>1 DEF EdifactComposite, EdifactClean, Tokens
<1>3. Dates \subseteq EdifactComposite
  BY DateAssumption DEF EdifactComposite, EdifactClean, Tokens, Delimiting
<1>4. EdifactComposite \subseteq EdifactClean
  BY DEF EdifactComposite
<1>5. \A n \in EdifactFigures : Numerals[n] \in Seq(EdifactClean)
  <2>1. {"0", "1", "2", "10"} \subseteq EdifactClean
    <3>1. {"0", "1", "2", "10"} \subseteq Literals
      BY DEF Literals
    <3> QED
      BY <1>2, <1>4, <3>1
  <2>2. EdifactFigures = {"0", "1", "2", "10"}
    BY NumeralsAre DEF Figure, EdifactFigures
  <2> HIDE DEF EdifactClean
  <2>3. \A n \in {"0", "1", "2", "10"} : <<n>> \in Seq(EdifactClean)
    BY <2>1
  <2> QED
    BY <2>2, <2>3, NumeralsAre DEF EdifactFigures
<1> QED
  BY <1>1, <1>2, <1>3, <1>4, <1>5 DEF Sufficient, EdifactFigures

LEMMA EdifactHeadType ==
  ASSUME NEW V, NEW F, Sufficient(V, F), NEW d \in EdiDocument(V, V, F)
  PROVE  EdifactHead(d) \in Seq(Tagged(V))
<1> DEFINE A == Seq(V)
           unb == <<<<"UNB">>, <<"IATB", ":", "1">>, d.sender, d.receiver>>
           unh == <<<<"UNH">>, <<"1">>, <<"ORDERS">>>>
           bgm == <<<<"BGM">>, <<"220">>, d.number, <<"9">>>>
<1>1. <<"1">> \in A /\ <<"ORDERS">> \in A /\ <<"220">> \in A /\ <<"9">> \in A
  BY TextTypes, LiteralsAre, Zenon
<1>2. "UNB" \in V /\ "UNH" \in V /\ "BGM" \in V /\ "IATB" \in V /\ ":" \in V /\ "1" \in V
  BY LiteralsAre DEF Sufficient
<1>3. <<"IATB", ":", "1">> \in A
  BY <1>2
<1>4. d.sender \in A /\ d.receiver \in A /\ d.number \in A
  BY EdiFields, DocumentFields, Zenon
<1>5. unb \in Tagged(V)
  BY <1>2, <1>3, <1>4, SegmentType, Zenon
<1>6. unh \in Tagged(V)
  BY <1>1, <1>2, SegmentType, Zenon
<1>7. bgm \in Tagged(V)
  BY <1>1, <1>2, <1>4, SegmentType, Zenon
<1> HIDE DEF unb, unh, bgm
<1>8. <<unb, unh, bgm>> \in Seq(Tagged(V))
  BY <1>5, <1>6, <1>7
<1> QED
  BY <1>8, Zenon DEF EdifactHead, unb, unh, bgm

LEMMA EdifactTrailerType ==
  ASSUME NEW V, NEW F, Sufficient(V, F), NEW d, EdifactCount(d) \in Nat
  PROVE  EdifactTrailer(d) \in Seq(Tagged(V))
<1> DEFINE A == Seq(V)
           unt == <<<<"UNT">>, Printed(EdifactCount(d)), <<"1">>>>
           unz == <<<<"UNZ">>, <<"1">>>>
<1>1. <<"1">> \in A /\ Printed(EdifactCount(d)) \in A
  BY TextTypes, LiteralsAre, Zenon
<1>2. "UNT" \in V /\ "UNZ" \in V
  BY LiteralsAre DEF Sufficient
<1>3. unt \in Tagged(V) /\ unz \in Tagged(V)
  BY <1>1, <1>2, SegmentType, Zenon
<1> HIDE DEF unt, unz
<1>4. <<unt, unz>> \in Seq(Tagged(V))
  BY <1>3
<1> QED
  BY <1>4, Zenon DEF EdifactTrailer, unt, unz

LEMMA EdifactDateType ==
  ASSUME NEW V, NEW F, Sufficient(V, F), NEW d, DayOf(d.date) \in WholeDays
  PROVE  EdifactDate(d) \in Seq(Tagged(V))
<1> DEFINE A == Seq(V)
           dtm == <<<<"DTM">>, <<"137", ":">> \o DayOf(d.date) \o <<":", "102">>>>
<1>1. "DTM" \in V /\ "137" \in V /\ ":" \in V /\ "102" \in V
  BY LiteralsAre DEF Sufficient
<1>2. DayOf(d.date) \in A
  BY TextTypes, Zenon
<1>3. <<"137", ":">> \o DayOf(d.date) \o <<":", "102">> \in A
  <2>1. <<"137", ":">> \in A /\ <<":", "102">> \in A
    BY <1>1
  <2> QED
    BY <1>2, <2>1, ConcatType
<1>4. dtm \in Tagged(V)
  BY <1>1, <1>3, SegmentType, Zenon
<1> HIDE DEF dtm
<1>5. <<dtm>> \in Seq(Tagged(V)) /\ <<>> \in Seq(Tagged(V))
  BY <1>4
<1> QED
  BY <1>5, Zenon DEF EdifactDate, dtm

LEMMA EdifactPartyType ==
  ASSUME NEW V, NEW F, Sufficient(V, F), NEW q \in Literals,
         NEW p, p.id \in Seq(V), p.name \in Seq(V)
  PROVE  EdifactParty(q, p) \in Seq(Tagged(V))
<1> DEFINE A == Seq(V)
           nad == <<<<"NAD">>, <<q>>, p.id \o <<":", ":", "ZZ">>, <<>>, p.name>>
<1>1. <<q>> \in A /\ <<>> \in A /\ "NAD" \in V /\ ":" \in V /\ "ZZ" \in V
  BY TextTypes, LiteralsAre, Zenon DEF Sufficient
<1>2. p.id \o <<":", ":", "ZZ">> \in A
  <2>1. <<":", ":", "ZZ">> \in A
    BY <1>1
  <2> QED
    BY <2>1, ConcatType
<1>3. nad \in Tagged(V)
  BY <1>1, <1>2, SegmentType, Zenon
<1> HIDE DEF nad
<1>4. <<nad>> \in Seq(Tagged(V)) /\ <<>> \in Seq(Tagged(V))
  BY <1>3
<1> QED
  BY <1>4, Zenon DEF EdifactParty, nad

LEMMA EdifactLineType ==
  ASSUME NEW V, NEW F, Sufficient(V, F), NEW l \in Entry(V, F)
  PROVE  EdifactLine(l) \in Seq(Tagged(V))
<1> DEFINE A == Seq(V)
           lin == <<<<"LIN">>, Numerals[l.no], <<>>, l.product \o <<":", "VP">>>>
           qty == <<<<"QTY">>, <<"21", ":">> \o Numerals[l.qty] \o <<":">> \o l.uom>>
           pri == <<<<"PRI">>, <<"AAA", ":">> \o Numerals[l.price]>>
<1>1. /\ <<>> \in A /\ "LIN" \in V /\ "QTY" \in V /\ "PRI" \in V /\ ":" \in V /\ "VP" \in V
      /\ "21" \in V /\ "AAA" \in V
  BY TextTypes, LiteralsAre, Zenon DEF Sufficient
<1>2. /\ l.no \in Figure \ {"million"} /\ l.product \in A /\ l.qty \in F
      /\ l.uom \in A /\ l.price \in F
  BY EntryFields, Zenon
<1>3. Numerals[l.no] \in A /\ Numerals[l.qty] \in A /\ Numerals[l.price] \in A
  BY <1>2, Zenon DEF Sufficient
<1>4. <<":", "VP">> \in A /\ <<"21", ":">> \in A /\ <<":">> \in A /\ <<"AAA", ":">> \in A
  BY <1>1
<1>5. /\ l.product \o <<":", "VP">> \in A
      /\ <<"21", ":">> \o Numerals[l.qty] \o <<":">> \o l.uom \in A
      /\ <<"AAA", ":">> \o Numerals[l.price] \in A
  BY <1>2, <1>3, <1>4, ConcatType, Zenon
<1>6. lin \in Tagged(V)
  BY <1>1, <1>3, <1>5, SegmentType, Zenon
<1>7. qty \in Tagged(V) /\ pri \in Tagged(V)
  BY <1>1, <1>5, SegmentType, Zenon
<1> HIDE DEF lin, qty, pri
<1>8. <<lin, qty, pri>> \in Seq(Tagged(V))
  BY <1>6, <1>7
<1> QED
  BY <1>8, Zenon DEF EdifactLine, lin, qty, pri

LEMMA EdifactLinesType ==
  ASSUME NEW V, NEW F, Sufficient(V, F), NEW lines \in Seq(Entry(V, F))
  PROVE  /\ EdifactLines(lines) \in Seq(Tagged(V))
         /\ \A l \in Entry(V, F) :
              EdifactLines(Append(lines, l)) = EdifactLines(lines) \o EdifactLine(l)
<1> DEFINE E == Entry(V, F)
           S == Tagged(V)
           Q == Seq(S)
           B(ls) == [n \in DOMAIN ls |-> EdifactLine(ls[n])]
<1>1. \A l \in E : EdifactLine(l) \in Q
  BY EdifactLineType
<1>2. \A ls \in Seq(E) : Len(ls) \in Nat /\ DOMAIN ls = 1..Len(ls)
                         /\ \A n \in 1..Len(ls) : ls[n] \in E
  BY LenIsNat
<1>3. lines \in Seq(E)
  OBVIOUS
<1> HIDE DEF E, Q
<1>4. ASSUME NEW ls \in Seq(E) PROVE B(ls) \in Seq(Q) /\ Len(B(ls)) = Len(ls)
  <2>1. B(ls) \in [1..Len(ls) -> Q]
    BY <1>1, <1>2
  <2>2. Len(ls) \in Nat
    BY <1>2
  <2> HIDE DEF B
  <2> QED
    BY <2>1, <2>2, TableType, Zenon
<1>5. ASSUME NEW l \in E
      PROVE  EdifactLines(Append(lines, l)) = EdifactLines(lines) \o EdifactLine(l)
  <2> DEFINE more == Append(lines, l)
             x == EdifactLine(l)
             size == Len(lines)
             b == B(lines)
             b2 == B(more)
  <2>1. /\ more \in Seq(E) /\ size \in Nat /\ Len(more) = size + 1 /\ more[size + 1] = l
        /\ \A n \in 1..size : more[n] = lines[n]
    BY <1>3
  <2>2. x \in Q
    BY <1>1
  <2> HIDE DEF more, x
  <2>3. b \in Seq(Q) /\ Len(b) = size /\ b2 \in Seq(Q) /\ Len(b2) = size + 1
    BY <1>3, <1>4, <2>1
  <2>4. /\ \A n \in 1..size : b[n] = EdifactLine(lines[n])
        /\ \A n \in 1..(size + 1) : b2[n] = EdifactLine(more[n])
    BY <1>2, <1>3, <2>1
  <2> HIDE DEF b, b2, size
  <2>5. Append(b, x) \in Seq(Q) /\ Len(Append(b, x)) = size + 1
    BY <2>2, <2>3
  <2>6. ASSUME NEW n \in 1..(size + 1) PROVE b2[n] = Append(b, x)[n]
    <3>1. CASE n = size + 1
      BY <2>1, <2>2, <2>3, <2>4, <3>1 DEF x
    <3>2. CASE n # size + 1
      <4>1. n \in 1..size
        BY <2>1, <3>2
      <4>2. Append(b, x)[n] = b[n]
        BY <2>2, <2>3, <4>1
      <4>3. b2[n] = EdifactLine(more[n]) /\ more[n] = lines[n] /\ b[n] = EdifactLine(lines[n])
        BY <2>1, <2>4, <4>1
      <4> QED
        BY <4>2, <4>3
    <3> QED
      BY <3>1, <3>2
  <2>7. b2 = Append(b, x)
    BY <2>3, <2>5, <2>6, SameSequence
  <2>8. FlattenSeq(Append(b, x)) = FlattenSeq(b) \o x
    BY <2>2, <2>3, FlattenAppend DEF Q
  <2>9. EdifactLines(more) = FlattenSeq(b2) /\ EdifactLines(lines) = FlattenSeq(b)
    BY Zenon DEF EdifactLines, b, b2
  <2> QED
    BY <2>7, <2>8, <2>9, Zenon DEF more, x
<1>6. EdifactLines(lines) \in Seq(S)
  <2>1. B(lines) \in Seq(Q)
    BY <1>3, <1>4
  <2>2. EdifactLines(lines) = FlattenSeq(B(lines))
    BY Zenon DEF EdifactLines
  <2> HIDE DEF B
  <2> QED
    BY <2>1, <2>2, FlattenType DEF Q
<1> QED
  BY <1>5, <1>6 DEF E

LEMMA EdifactElementsType ==
  ASSUME NEW V, NEW F, Sufficient(V, F), NEW d \in EdiDocument(V, V, F)
  PROVE  /\ EdifactHead(d) \in Seq(Tagged(V)) /\ EdifactDate(d) \in Seq(Tagged(V))
         /\ EdifactParty("BY", d.buyer) \in Seq(Tagged(V))
         /\ EdifactParty("SE", d.seller) \in Seq(Tagged(V))
         /\ EdifactLines(d.lines) \in Seq(Tagged(V))
         /\ EdifactTrailer(d) \in Seq(Tagged(V))
         /\ EdifactElements(d) \in Seq(Tagged(V))
<1> DEFINE S == Tagged(V)
           a == EdifactHead(d)
           h == EdifactDate(d)
           b == EdifactParty("BY", d.buyer)
           c == EdifactParty("SE", d.seller)
           l == EdifactLines(d.lines)
           t == EdifactTrailer(d)
<1>1. a \in Seq(S)
  BY EdifactHeadType
<1>2. h \in Seq(S)
  <2>1. DayOf(d.date) \in WholeDays
    BY EdiFields, Zenon
  <2> QED
    BY <2>1, EdifactDateType, Zenon
<1>3. b \in Seq(S) /\ c \in Seq(S)
  <2>1. /\ d.buyer.id \in Seq(V) /\ d.buyer.name \in Seq(V)
        /\ d.seller.id \in Seq(V) /\ d.seller.name \in Seq(V)
    BY EdiFields, DocumentFields, Zenon
  <2>2. "BY" \in Literals /\ "SE" \in Literals
    BY LiteralsAre
  <2> QED
    BY <2>1, <2>2, EdifactPartyType, Zenon
<1>4. l \in Seq(S)
  BY LinesEntries, EdifactLinesType
<1>5. t \in Seq(S)
  BY CountTypes, EdifactTrailerType
<1>6. EdifactElements(d) = a \o h \o b \o c \o l \o t
  BY EdifactElements_Parts
<1> HIDE DEF S, a, h, b, c, l, t
<1>7. a \o h \o b \o c \o l \o t \in Seq(S)
  BY <1>1, <1>2, <1>3, <1>4, <1>5
<1> QED
  BY <1>1, <1>2, <1>3, <1>4, <1>5, <1>6, <1>7 DEF S, a, h, b, c, l, t

(* The service string advice of EdifactEncode, as a segment is read.       *)
Advice == <<<<"UNA", ":">>, <<".", " ">>>>

LEMMA AdviceIs ==
  /\ Advice \in Tagged(EdifactClean) /\ Advice[1] = <<"UNA", ":">>
  /\ Join(Advice, "+") = <<"UNA", ":", "+", ".", " ">>
<1> DEFINE V == EdifactClean
           A == Seq(V)
           B == Seq(Tokens)
<1> DEFINE una == "UNA"
           colon == ":"
           plus == "+"
           dot == "."
           space == " "
           p == <<una, colon>>
           q == <<dot, space>>
<1>1. una \in V /\ colon \in V /\ dot \in V /\ space \in V
  <2>1. Literals \subseteq V /\ colon \in V
    BY EdifactSufficient, Zenon DEF Sufficient
  <2>2. una \in Literals /\ dot \in Literals /\ space \in Literals
    BY LiteralsAre, Zenon
  <2> QED
    BY <2>1, <2>2, Zenon
<1>2. plus \in Tokens /\ V \subseteq Tokens
  BY EdifactSufficient DEF Sufficient, Tokens, Delimiting
<1> HIDE DEF V, una, colon, plus, dot, space
<1>3. p \in A /\ q \in A /\ p # <<>>
  BY <1>1
<1>4. A \subseteq B
  BY <1>2
<1>5. Append(p, plus) \o q = <<una, colon, plus, dot, space>>
  <2>1. una \in Tokens /\ colon \in Tokens /\ dot \in Tokens /\ space \in Tokens
    BY <1>1, <1>2
  <2> QED
    BY <1>2, <2>1, TupleAppend
<1> HIDE DEF p, q, A, B
<1>6. p \in B /\ q \in B /\ <<p>> \in Lists(Tokens)
  <2>1. p \in B /\ q \in B
    BY <1>3, <1>4
  <2>2. <<p>> \in Seq(B) /\ <<p>> # <<>>
    BY <2>1
  <2> QED
    BY <2>1, <2>2 DEF Lists, B
<1>7. Join(<<p>>, plus) = p
  BY <1>2, <1>6, JoinOne DEF B
<1>8. Join(Append(<<p>>, q), plus) = Append(Join(<<p>>, plus), plus) \o q
  BY <1>2, <1>6, JoinMore DEF B
<1>9. /\ Append(<<p>>, q) = <<p, q>> /\ <<p, q>> \in Seq(A)
      /\ <<p, q>> # <<>> /\ <<p, q>>[1] = p
  <2>1. Append(<<p>>, q) = <<p, q>>
    BY <1>3, TupleAppend, Zenon
  <2>2. <<p, q>> \in Seq(A)
    BY <1>3, TupleType, Zenon
  <2>3. <<p, q>> # <<>> /\ <<p, q>>[1] = p
    OBVIOUS
  <2> QED
    BY <2>1, <2>2, <2>3
<1>10. <<p, q>> \in Tagged(V)
  BY <1>3, <1>9 DEF Tagged, Lists, A
<1>11. Advice = <<p, q>>
  BY Zenon DEF Advice, p, q, una, colon, dot, space
<1>12. Join(Advice, plus) = <<una, colon, plus, dot, space>>
  BY <1>5, <1>7, <1>8, <1>9, <1>11
<1> QED
  BY <1>9, <1>10, <1>11, <1>12, Zenon DEF p, V, una, colon, plus, dot, space

(* Where the release character shields a token: after the advice names it. *)
LEMMA ReleasesAre ==
  ASSUME NEW w \in Seq(Tokens), Len(w) >= 7, w[5] = "?", w[6] # "'",
         \A n \in DOMAIN w : w[n] # NewLine /\ (w[n] = "?" => n = 5)
  PROVE  EdifactSegments(w) =
           LET segments == NotBlank(CutAt(w, "'", {5}))
           IN  [n \in DOMAIN segments |-> Split(segments[n], "+")]
<1> DEFINE N == Len(w)
           Body(f, n) == n \in 1..(N - 1) /\ w[n] = "?" /\ ~f[n - 1]
           Def(f) == f = [n \in 0..N |-> Body(f, n)]
           r == CHOOSE f : Def(f)
           g == [n \in 0..N |-> n = 5]
           ends == {n \in DOMAIN w : w[n] = "'" /\ ~r[n - 1]}
           gaps == {n \in DOMAIN w : r[n] \/ (w[n] = NewLine /\ ~r[n - 1])}
<1>0. N \in Nat /\ N >= 7 /\ DOMAIN w = 1..N
  OBVIOUS
<1>1. Def(g)
  <2>1. \A n \in 0..N : (n = 5) = Body(g, n)
    <3> TAKE n \in 0..N
    <3>1. CASE n = 5
      <4>1. n - 1 \in 0..N /\ n - 1 # 5 /\ n \in 1..(N - 1)
        BY <1>0, <3>1
      <4>2. ~g[n - 1]
        BY <4>1
      <4> QED
        BY <3>1, <4>1, <4>2
    <3>2. CASE n # 5
      <4>1. n \in 1..(N - 1) => w[n] # "?"
        BY <1>0, <3>2
      <4> QED
        BY <3>2, <4>1
    <3> QED
      BY <3>1, <3>2
  <2> QED
    BY <2>1, Zenon
<1>2. Def(r)
  BY <1>1, Zenon
<1> HIDE DEF r
<1>3. \A n \in 0..N : r[n] = Body(r, n)
  BY <1>2, Zenon
<1>4. \A n \in 0..N : r[n] = (n = 5)
  <2>1. \A n \in 0..N : n # 5 => r[n] = FALSE
    <3> TAKE n \in 0..N
    <3>1. n # 5 /\ n \in 1..(N - 1) => w[n] # "?"
      BY <1>0
    <3>2. r[n] = Body(r, n)
      BY <1>3
    <3> QED
      BY <3>1, <3>2, Zenon
  <2>2. r[4] = FALSE
    <3>1. 4 \in 0..N /\ 4 # 5
      BY <1>0
    <3> QED
      BY <2>1, <3>1, Zenon
  <2>3. r[5] = TRUE
    <3>1. 5 \in 0..N /\ 5 \in 1..(N - 1) /\ 5 - 1 = 4
      BY <1>0
    <3>2. r[5] = Body(r, 5)
      BY <1>3, <3>1
    <3> QED
      BY <2>2, <3>1, <3>2
  <2> QED
    BY <2>1, <2>3
<1>5. ends = {n \in DOMAIN w : w[n] = "'"}
  <2>1. ASSUME NEW n \in DOMAIN w, w[n] = "'" PROVE ~r[n - 1]
    <3>1. n - 1 \in 0..N /\ n # 6
      BY <1>0, <2>1
    <3>2. n - 1 # 5
      BY <1>0, <3>1
    <3> QED
      BY <1>4, <3>1, <3>2
  <2> QED
    BY <2>1
<1>6. gaps = {5}
  <2>1. 5 \in DOMAIN w /\ \A n \in DOMAIN w : n \in 0..N
    BY <1>0
  <2>2. \A n \in DOMAIN w : r[n] <=> n = 5
    BY <1>4, <2>1, Zenon
  <2>3. \A n \in DOMAIN w : w[n] # NewLine
    OBVIOUS
  <2> QED
    BY <2>1, <2>2, <2>3, Zenon
<1>7. EdifactSegments(w) =
        LET segments == NotBlank(Pieces(w, ends, gaps))
        IN  [n \in DOMAIN segments |-> Split(segments[n], "+")]
  BY Zenon DEF EdifactSegments, r
<1> QED
  BY <1>5, <1>6, <1>7, Zenon DEF CutAt

(* The advice, cut at the segment terminators, loses its release character. *)
LEMMA AdviceCut ==
  \A v \in Seq(Tokens) :
    CutAt(UNA \o v, "'", {5}) = Split(Append(Join(Advice, "+"), "'") \o v, "'")
<1> DEFINE una == "UNA"
           colon == ":"
           plus == "+"
           dot == "."
           release == "?"
           space == " "
           end == "'"
           T == Tokens
           head == <<una, colon, plus, dot>>
           long == Append(Append(Append(head, release), space), end)
           short == Append(Append(head, space), end)
<1>1. /\ una # end /\ colon # end /\ plus # end /\ dot # end /\ release # end
  OBVIOUS
<1>2. space # end
  BY Zenon
<1>3. /\ una \in T /\ colon \in T /\ plus \in T /\ dot \in T /\ release \in T
      /\ space \in T /\ end \in T
  <2>1. /\ una \in Literals /\ dot \in Literals /\ space \in Literals
    BY LiteralsAre, Zenon
  <2>2. colon \in Delimiting /\ plus \in Delimiting /\ release \in Delimiting
        /\ end \in Delimiting
    BY Zenon DEF Delimiting
  <2> HIDE DEF una, colon, plus, dot, release, space, end
  <2> QED
    BY <2>1, <2>2, Zenon DEF Tokens
<1>4. UNA = <<una, colon, plus, dot, release, space, end>>
  BY Zenon DEF UNA
<1>5. Join(Advice, "+") = <<una, colon, plus, dot, space>>
  BY AdviceIs, Zenon
<1> HIDE DEF una, colon, plus, dot, release, space, end, T
<1>6. /\ head \in Seq(T) /\ Len(head) = 4 /\ \A n \in DOMAIN head : head[n] # end
      /\ head[1] = una /\ head[2] = colon /\ head[3] = plus /\ head[4] = dot
  BY <1>1, <1>3
<1> DEFINE u == <<una, colon, plus, dot, release, space, end>>
           l == <<una, colon, plus, dot, space>>
           one == Append(head, release)
           two == Append(one, space)
           less == Append(head, space)
<1>7. /\ u \in Seq(T) /\ Len(u) = 7 /\ l \in Seq(T) /\ Len(l) = 5
      /\ u[1] = una /\ u[2] = colon /\ u[3] = plus /\ u[4] = dot /\ u[5] = release
      /\ u[6] = space /\ u[7] = end
      /\ l[1] = una /\ l[2] = colon /\ l[3] = plus /\ l[4] = dot /\ l[5] = space
  BY <1>3
<1> HIDE DEF head, u, l
<1>70. \A s \in Seq(T) : \A t \in T :
         /\ Append(s, t) \in Seq(T) /\ Len(Append(s, t)) = Len(s) + 1
         /\ Append(s, t)[Len(s) + 1] = t
         /\ \A n \in 1..Len(s) : Append(s, t)[n] = s[n]
  OBVIOUS
<1>71. head \in Seq(T) /\ release \in T /\ space \in T /\ end \in T
  BY <1>3, <1>6
<1>72. /\ one \in Seq(T) /\ Len(one) = Len(head) + 1 /\ one[Len(head) + 1] = release
       /\ \A n \in 1..Len(head) : one[n] = head[n]
  BY <1>70, <1>71, Zenon
<1>73. /\ less \in Seq(T) /\ Len(less) = Len(head) + 1 /\ less[Len(head) + 1] = space
       /\ \A n \in 1..Len(head) : less[n] = head[n]
  BY <1>70, <1>71, Zenon
<1>74. /\ two \in Seq(T) /\ Len(two) = Len(one) + 1 /\ two[Len(one) + 1] = space
       /\ \A n \in 1..Len(one) : two[n] = one[n]
  BY <1>70, <1>71, <1>72, Zenon
<1> HIDE DEF one, less
<1>8. /\ one \in Seq(T) /\ Len(one) = 5 /\ one[5] = release /\ less[5] = space
      /\ less \in Seq(T) /\ Len(less) = 5
      /\ \A n \in 1..4 : one[n] = head[n] /\ less[n] = head[n]
  BY <1>6, <1>72, <1>73
<1>75. /\ Append(two, end) \in Seq(T) /\ Len(Append(two, end)) = Len(two) + 1
       /\ Append(two, end)[Len(two) + 1] = end
       /\ \A n \in 1..Len(two) : Append(two, end)[n] = two[n]
  BY <1>70, <1>71, <1>74, Zenon
<1> HIDE DEF two
<1>9. /\ two \in Seq(T) /\ Len(two) = 6 /\ two[6] = space
      /\ \A n \in 1..5 : two[n] = one[n]
  BY <1>8, <1>74
<1>10. /\ Append(two, end) \in Seq(T) /\ Len(Append(two, end)) = 7 /\ Append(two, end)[7] = end
       /\ \A n \in 1..6 : Append(two, end)[n] = two[n]
  <2> DEFINE all == Append(two, end)
  <2>1. /\ all \in Seq(T) /\ Len(all) = Len(two) + 1 /\ all[Len(two) + 1] = end
        /\ \A n \in 1..Len(two) : all[n] = two[n]
    BY <1>75
  <2> HIDE DEF all
  <2>2. all \in Seq(T) /\ Len(all) = 7 /\ all[7] = end /\ \A n \in 1..6 : all[n] = two[n]
    BY <1>9, <2>1
  <2> QED
    BY <2>2 DEF all
<1>11. Append(two, end) = u
  <2>1. \A n \in 1..7 : n \in 1..4 \/ n = 5 \/ n = 6 \/ n = 7
    OBVIOUS
  <2>2. \A n \in 1..4 : head[n] = u[n]
    BY <1>6, <1>7
  <2>3. \A n \in 1..7 : Append(two, end)[n] = u[n]
    BY <1>7, <1>8, <1>9, <1>10, <2>1, <2>2
  <2> QED
    BY <1>7, <1>10, <2>3, SameSequence
<1>12. less = l
  <2>1. \A n \in 1..5 : n \in 1..4 \/ n = 5
    OBVIOUS
  <2>2. \A n \in 1..4 : head[n] = l[n]
    BY <1>6, <1>7
  <2>3. \A n \in 1..5 : less[n] = l[n]
    BY <1>7, <1>8, <2>1, <2>2
  <2> QED
    BY <1>7, <1>8, <2>3, SameSequence
<1>13. UNA = long /\ Append(Join(Advice, "+"), end) = short
  BY <1>4, <1>5, <1>11, <1>12, Zenon DEF one, two, less, u, l
<1>14. \A v \in Seq(T) : CutAt(long \o v, end, {Len(head) + 1}) = Split(short \o v, end)
  <2>1. Uncut(T, head, release, space, end)
    BY <1>1, <1>2, <1>3, <1>6 DEF Uncut
  <2>2. Gapless(T, head, release, space, end)
    BY <2>1, GapCut, Zenon
  <2> QED
    BY <2>2, Zenon DEF Gapless
<1>15. Len(head) + 1 = 5
  BY <1>6
<1> QED
  BY <1>13, <1>14, <1>15, Zenon DEF T, end

(* The release character occurs in the advice, and there alone; a newline  *)
(* nowhere.                                                                *)
LEMMA AdviceOnce ==
  ASSUME NEW v \in Seq(Tokens \ {"?", NewLine})
  PROVE  /\ UNA \o v \in Seq(Tokens) /\ Len(UNA \o v) >= 7
         /\ (UNA \o v)[5] = "?" /\ (UNA \o v)[6] # "'"
         /\ \A n \in DOMAIN (UNA \o v) :
              (UNA \o v)[n] # NewLine /\ ((UNA \o v)[n] = "?" => n = 5)
<1> DEFINE una == "UNA"
           colon == ":"
           plus == "+"
           dot == "."
           release == "?"
           space == " "
           end == "'"
           T == Tokens
           R == Tokens \ {release, NewLine}
           u == <<una, colon, plus, dot, release, space, end>>
           w == u \o v
<1>1. una # release /\ colon # release /\ plus # release /\ dot # release /\ end # release
  OBVIOUS
<1>2. space # release /\ space # end
  BY Zenon
<1>20. /\ una # NewLine /\ colon # NewLine /\ plus # NewLine /\ dot # NewLine
       /\ release # NewLine /\ space # NewLine /\ end # NewLine
  BY DEF NewLine
<1>3. /\ una \in T /\ colon \in T /\ plus \in T /\ dot \in T /\ release \in T
      /\ space \in T /\ end \in T
  <2>1. /\ una \in Literals /\ dot \in Literals /\ space \in Literals
    BY LiteralsAre, Zenon
  <2>2. colon \in Delimiting /\ plus \in Delimiting /\ release \in Delimiting
        /\ end \in Delimiting
    BY Zenon DEF Delimiting
  <2> HIDE DEF una, colon, plus, dot, release, space, end
  <2> QED
    BY <2>1, <2>2, Zenon DEF Tokens
<1>4. UNA = u
  BY Zenon DEF UNA
<1>5. v \in Seq(R)
  OBVIOUS
<1> HIDE DEF una, colon, plus, dot, release, space, end
<1>6. /\ u \in Seq(T) /\ Len(u) = 7 /\ u[5] = release /\ u[6] = space
      /\ \A n \in 1..7 : u[n] # NewLine /\ (u[n] = release => n = 5)
  BY <1>1, <1>2, <1>20, <1>3
<1> HIDE DEF u
<1>7. v \in Seq(T) /\ \A n \in 1..Len(v) : v[n] # release /\ v[n] # NewLine
  BY <1>5
<1>8. /\ w \in Seq(T) /\ Len(w) = 7 + Len(v) /\ Len(v) \in Nat
      /\ \A n \in 1..7 : w[n] = u[n]
      /\ \A n \in 8..(7 + Len(v)) : w[n] = v[n - 7]
  <2>1. /\ \A n \in 1..Len(u) : w[n] = u[n]
        /\ \A n \in (Len(u) + 1)..(Len(u) + Len(v)) : w[n] = v[n - Len(u)]
    BY <1>6, <1>7, ConcatMembers, ZenonT(40)
  <2>2. w \in Seq(T) /\ Len(w) = Len(u) + Len(v)
    BY <1>6, <1>7, ConcatType
  <2>3. Len(v) \in Nat
    OBVIOUS
  <2> HIDE DEF w
  <2> QED
    BY <1>6, <2>1, <2>2, <2>3
<1> HIDE DEF w
<1>9. ASSUME NEW n \in DOMAIN w PROVE w[n] # NewLine /\ (w[n] = release => n = 5)
  <2>1. n \in 1..7 \/ (n \in 8..(7 + Len(v)) /\ n - 7 \in 1..Len(v))
    BY <1>8
  <2> QED
    BY <1>6, <1>7, <1>8, <2>1
<1>10. w \in Seq(T) /\ Len(w) >= 7 /\ w[5] = release /\ w[6] # end
  BY <1>2, <1>6, <1>8
<1> QED
  BY <1>4, <1>9, <1>10, Zenon DEF w, T, release, end

(* The segments of an EDIFACT text are read back, after the advice.        *)
LEMMA EdifactSegmentsBack ==
  ASSUME NEW d \in EdiDocument(EdifactClean, EdifactClean, EdifactFigures)
  PROVE  EdifactSegments(EdifactEncode(d)) = <<Advice>> \o EdifactElements(d)
<1> DEFINE V == EdifactClean
           T == Tokens \ {"?", NewLine}
           W == T \ {"'"}
           elements == EdifactElements(d)
           segments == <<Advice>> \o elements
           v == Written(elements, "+", "'")
           w == UNA \o v
           b == Bodies(segments, "+")
           x == Append(Join(Advice, "+"), "'")
<1>1. "'" \in T /\ Spares(W, T, "'") /\ "+" \in W /\ "+" \in T /\ Spares(V, W, "+")
  BY DEF Tokens, Delimiting, Spares, EdifactClean, NewLine
<1>2. elements \in Seq(Tagged(V)) /\ Advice \in Tagged(V)
  BY EdifactSufficient, EdifactElementsType, AdviceIs
<1>3. segments \in Seq(Tagged(V))
  <2> DEFINE S == Tagged(V)
  <2>1. elements \in Seq(S) /\ Advice \in S
    BY <1>2
  <2> HIDE DEF S, elements
  <2> QED
    BY <2>1 DEF S
<1>4. segments \in Seq(Lists(V)) /\ \A n \in DOMAIN segments : segments[n][1] # <<>>
  <2> HIDE DEF segments, V
  <2> QED
    BY <1>3 DEF Tagged
<1>5. Tagged(V) \subseteq Lists(T)
  BY DEF Tagged, Lists, EdifactClean
<1>6. elements \in Seq(Lists(T)) /\ Advice \in Lists(T)
  <2> DEFINE S == Tagged(V)
             L == Lists(T)
  <2>1. elements \in Seq(S) /\ Advice \in S /\ S \subseteq L
    BY <1>2, <1>5
  <2> HIDE DEF S, L, elements
  <2>2. elements \in Seq(L) /\ Advice \in L
    BY <2>1
  <2> QED
    BY <2>2 DEF L
<1> HIDE DEF V, W, T, segments, elements
<1>7. v \in Seq(T)
  BY <1>1, <1>6, WrittenMore
<1>8. Written(segments, "+", "'") = x \o v
  <2>1. LeadsOff(T, Advice, "+", "'")
    BY <1>1, <1>6, WrittenFirst, Zenon
  <2> QED
    BY <1>6, <2>1, Zenon DEF segments, LeadsOff
<1>9. /\ NotBlank(Split(Written(segments, "+", "'"), "'")) = b
      /\ [n \in DOMAIN b |-> Split(b[n], "+")] = segments
  BY <1>1, <1>4, SegmentsBack
<1>10. CutAt(w, "'", {5}) = Split(x \o v, "'")
  <2>1. v \in Seq(Tokens)
    BY <1>7 DEF T
  <2> HIDE DEF v
  <2> QED
    BY <2>1, AdviceCut, Zenon
<1> HIDE DEF v
<1>11. EdifactSegments(w) = LET found == NotBlank(CutAt(w, "'", {5}))
                            IN  [n \in DOMAIN found |-> Split(found[n], "+")]
  <2>1. /\ w \in Seq(Tokens) /\ Len(w) >= 7 /\ w[5] = "?" /\ w[6] # "'"
        /\ \A n \in DOMAIN w : w[n] # NewLine /\ (w[n] = "?" => n = 5)
    BY <1>7, AdviceOnce DEF T
  <2> HIDE DEF w
  <2> QED
    BY <2>1, ReleasesAre, Zenon
<1> HIDE DEF w, b, x
<1>12. EdifactSegments(w) = segments
  BY <1>8, <1>9, <1>10, <1>11, Zenon
<1> QED
  BY <1>12, Zenon DEF EdifactEncode, w, v, elements, segments

(* The composites EdifactElements writes, taken apart.                     *)
LEMMA CompositesBack ==
  /\ \A p \in Seq(EdifactComposite) :
       /\ Split(p \o <<":", ":", "ZZ">>, ":") = <<p, <<>>, <<"ZZ">>>>
       /\ Split(p \o <<":", "VP">>, ":") = <<p, <<"VP">>>>
       /\ Split(<<"AAA", ":">> \o p, ":") = <<<<"AAA">>, p>>
       /\ Split(<<"137", ":">> \o p \o <<":", "102">>, ":") = <<<<"137">>, p, <<"102">>>>
  /\ \A p, q \in Seq(EdifactComposite) :
       Split(<<"21", ":">> \o p \o <<":">> \o q, ":") = <<<<"21">>, p, q>>
<1> DEFINE T == Tokens
           W == EdifactComposite
           A == Seq(W)
           c == ":"
           Two(p, q) == Append(p, c) \o q
           Three(p, q, r) == Append(Append(p, c) \o q, c) \o r
           none == <<>>
<1>1. c \in T /\ Spares(W, T, c)
  BY DEF Tokens, Delimiting, Spares, EdifactComposite, EdifactClean, NewLine
<1>2. "ZZ" \in W /\ "VP" \in W /\ "AAA" \in W /\ "137" \in W /\ "102" \in W /\ "21" \in W
  BY EdifactSufficient, LiteralsAre
<1> HIDE DEF T, W, c
<1>3. /\ none \in A /\ <<"ZZ">> \in A /\ <<"VP">> \in A /\ <<"AAA">> \in A /\ <<"137">> \in A
      /\ <<"102">> \in A /\ <<"21">> \in A
  BY <1>2
<1>4. /\ \A p, q \in A : Split(Two(p, q), c) = <<p, q>>
      /\ \A p, q, r \in A : Split(Three(p, q, r), c) = <<p, q, r>>
  BY <1>1, SplitTwo
<1>5. \A s \in Seq(T) : \A z \in T :
        /\ s \o <<c, c, z>> = Append(Append(s, c) \o none, c) \o <<z>>
        /\ s \o <<c, z>> = Append(s, c) \o <<z>>
        /\ <<z, c>> = Append(<<z>>, c)
        /\ s \o <<c>> = Append(s, c)
  BY <1>1
<1>6. /\ "ZZ" \in T /\ "VP" \in T /\ "AAA" \in T /\ "137" \in T /\ "102" \in T /\ "21" \in T
      /\ \A p \in A : p \in Seq(T)
  BY <1>1, <1>2 DEF Spares
<1>7. ASSUME NEW p \in A
      PROVE  /\ Split(p \o <<c, c, "ZZ">>, c) = <<p, none, <<"ZZ">>>>
             /\ Split(p \o <<c, "VP">>, c) = <<p, <<"VP">>>>
             /\ Split(<<"AAA", c>> \o p, c) = <<<<"AAA">>, p>>
             /\ Split(<<"137", c>> \o p \o <<c, "102">>, c) = <<<<"137">>, p, <<"102">>>>
  <2>1. p \in Seq(T)
    BY <1>6
  <2>2. /\ p \o <<c, c, "ZZ">> = Three(p, none, <<"ZZ">>)
        /\ p \o <<c, "VP">> = Two(p, <<"VP">>)
        /\ <<"AAA", c>> \o p = Two(<<"AAA">>, p)
    BY <1>5, <1>6, <2>1, Zenon
  <2>3. Append(<<"137">>, c) \o p \in Seq(T)
    <3>1. Append(<<"137">>, c) \in Seq(T)
      BY <1>1, <1>6
    <3> QED
      BY <2>1, <3>1, ConcatType
  <2>4. <<"137", c>> \o p \o <<c, "102">> = Three(<<"137">>, p, <<"102">>)
    <3>1. <<"137", c>> = Append(<<"137">>, c)
      BY <1>1, <1>5, <1>6, Zenon
    <3>2. (Append(<<"137">>, c) \o p) \o <<c, "102">>
            = Append(Append(<<"137">>, c) \o p, c) \o <<"102">>
      BY <1>5, <1>6, <2>3, Zenon
    <3> QED
      BY <3>1, <3>2, ZenonT(40)
  <2>5. Split(Three(p, none, <<"ZZ">>), c) = <<p, none, <<"ZZ">>>>
    BY <1>3, <1>4, ZenonT(40)
  <2>6. Split(Two(p, <<"VP">>), c) = <<p, <<"VP">>>>
    BY <1>3, <1>4, ZenonT(40)
  <2>7. Split(Two(<<"AAA">>, p), c) = <<<<"AAA">>, p>>
    BY <1>3, <1>4, ZenonT(40)
  <2>8. Split(Three(<<"137">>, p, <<"102">>), c) = <<<<"137">>, p, <<"102">>>>
    BY <1>3, <1>4, ZenonT(40)
  <2> HIDE DEF Two, Three
  <2> QED
    BY <2>2, <2>4, <2>5, <2>6, <2>7, <2>8, Zenon
<1>8. ASSUME NEW p \in A, NEW q \in A
      PROVE  Split(<<"21", c>> \o p \o <<c>> \o q, c) = <<<<"21">>, p, q>>
  <2>1. Append(<<"21">>, c) \o p \in Seq(T)
    <3>1. Append(<<"21">>, c) \in Seq(T)
      BY <1>1, <1>6
    <3> QED
      BY <1>6, <3>1, ConcatType
  <2>2. <<"21", c>> \o p \o <<c>> \o q = Three(<<"21">>, p, q)
    <3>1. <<"21", c>> = Append(<<"21">>, c)
      BY <1>1, <1>5, <1>6, Zenon
    <3>2. (Append(<<"21">>, c) \o p) \o <<c>> = Append(Append(<<"21">>, c) \o p, c)
      BY <1>5, <1>6, <2>1, Zenon
    <3> QED
      BY <3>1, <3>2, ZenonT(40)
  <2>3. Split(Three(<<"21">>, p, q), c) = <<<<"21">>, p, q>>
    BY <1>3, <1>4, ZenonT(40)
  <2> HIDE DEF Three
  <2> QED
    BY <2>2, <2>3, Zenon
<1> QED
  BY <1>7, <1>8, Zenon DEF c, W, A, none

LEMMA EdifactReadIs ==
  ASSUME NEW x, NEW e
  PROVE  /\ e[1] = <<"UNB">> =>
              EdifactRead(x, e) = [x EXCEPT !.sender = Get(e, 2), !.receiver = Get(e, 3)]
         /\ e[1] = <<"BGM">> => EdifactRead(x, e) = [x EXCEPT !.number = Get(e, 2)]
         /\ e[1] = <<"DTM">> /\ Component(e, 1, 0) = <<"137">> /\ Len(Split(Get(e, 1), ":")) >= 2 =>
              EdifactRead(x, e) =
                [x EXCEPT !.date = ParseEdifactDate(Split(Get(e, 1), ":"))]
         /\ e[1] = <<"NAD">> /\ Get(e, 1) = <<"BY">> =>
              EdifactRead(x, e) = [x EXCEPT !.buyer =
                [id |-> Component(e, 2, 0),
                 name |-> IF Get(e, 4) # <<>> THEN Get(e, 4) ELSE Get(e, 3),
                 address |-> <<>>]]
         /\ e[1] = <<"NAD">> /\ Get(e, 1) = <<"SE">> =>
              EdifactRead(x, e) = [x EXCEPT !.seller =
                [id |-> Component(e, 2, 0),
                 name |-> IF Get(e, 4) # <<>> THEN Get(e, 4) ELSE Get(e, 3),
                 address |-> <<>>]]
         /\ e[1] = <<"LIN">> =>
              EdifactRead(x, e) = [x EXCEPT !.lines = Append(@,
                [no |-> Atoi(Get(e, 1)), qty |-> "0", uom |-> <<>>, price |-> "0",
                 product |-> Component(e, 3, 0), description |-> <<>>])]
         /\ e[1] = <<"QTY">> =>
              EdifactRead(x, e) =
                [x EXCEPT !.lines = SetLast(SetLast(@, "qty", Parse(Component(e, 1, 1))),
                                            "uom", Component(e, 1, 2))]
         /\ e[1] = <<"PRI">> =>
              EdifactRead(x, e) =
                [x EXCEPT !.lines = SetLast(@, "price", Parse(Component(e, 1, 1)))]
         /\ e[1] \notin {<<"UNB">>, <<"BGM">>, <<"DTM">>, <<"NAD">>, <<"LIN">>, <<"QTY">>,
                         <<"PRI">>} => EdifactRead(x, e) = x
<1> DEFINE unb == <<"UNB">>
           bgm == <<"BGM">>
           dtm == <<"DTM">>
           nad == <<"NAD">>
           lin == <<"LIN">>
           qty == <<"QTY">>
           pri == <<"PRI">>
           by == <<"BY">>
           se == <<"SE">>
<1>1. /\ unb # bgm /\ unb # dtm /\ unb # nad /\ unb # lin /\ unb # qty /\ unb # pri
      /\ bgm # dtm /\ bgm # nad /\ bgm # lin /\ bgm # qty /\ bgm # pri
      /\ dtm # nad /\ dtm # lin /\ dtm # qty /\ dtm # pri
      /\ nad # lin /\ nad # qty /\ nad # pri /\ lin # qty /\ lin # pri /\ qty # pri
      /\ by # se
  OBVIOUS
<1> HIDE DEF unb, bgm, dtm, nad, lin, qty, pri, by, se
<1>2. CASE e[1] = unb
  BY <1>1, <1>2, Zenon DEF EdifactRead, unb, bgm, dtm, nad, lin, qty, pri
<1>3. CASE e[1] = bgm
  BY <1>1, <1>3, Zenon DEF EdifactRead, unb, bgm, dtm, nad, lin, qty, pri
<1>4. CASE e[1] = dtm
  BY <1>1, <1>4, Zenon DEF EdifactRead, unb, bgm, dtm, nad, lin, qty, pri
<1>5. CASE e[1] = nad
  <2> DEFINE party == [id |-> Component(e, 2, 0),
                       name |-> IF Get(e, 4) # <<>> THEN Get(e, 4) ELSE Get(e, 3),
                       address |-> <<>>]
  <2>1. /\ e[1] # unb /\ e[1] # bgm /\ e[1] # dtm /\ e[1] # lin /\ e[1] # qty /\ e[1] # pri
        /\ e[1] \in {unb, bgm, dtm, nad, lin, qty, pri}
    BY <1>1, <1>5, Zenon
  <2>2. Get(e, 1) = by => EdifactRead(x, e) = [x EXCEPT !.buyer = party]
    <3>1. ASSUME Get(e, 1) = by PROVE EdifactRead(x, e) = [x EXCEPT !.buyer = party]
      <4>1. Get(e, 1) \notin {<<"SE">>, <<"SU">>}
        BY <3>1 DEF by
      <4> QED
        BY <1>5, <2>1, <3>1, <4>1, Zenon
           DEF EdifactRead, unb, bgm, dtm, nad, lin, qty, pri, by
    <3> QED
      BY <3>1
  <2>3. Get(e, 1) = se => EdifactRead(x, e) = [x EXCEPT !.seller = party]
    <3>1. ASSUME Get(e, 1) = se PROVE EdifactRead(x, e) = [x EXCEPT !.seller = party]
      <4>1. Get(e, 1) # by
        BY <1>1, <3>1
      <4> QED
        BY <1>5, <2>1, <3>1, <4>1, Zenon
           DEF EdifactRead, unb, bgm, dtm, nad, lin, qty, pri, by, se
    <3> QED
      BY <3>1
  <2> QED
    BY <1>5, <2>1, <2>2, <2>3, Zenon DEF unb, bgm, dtm, nad, lin, qty, pri, by, se
<1>6. CASE e[1] = lin
  BY <1>1, <1>6, Zenon DEF EdifactRead, unb, bgm, dtm, nad, lin, qty, pri
<1>7. CASE e[1] = qty
  BY <1>1, <1>7, Zenon DEF EdifactRead, unb, bgm, dtm, nad, lin, qty, pri
<1>8. CASE e[1] = pri
  BY <1>1, <1>8, Zenon DEF EdifactRead, unb, bgm, dtm, nad, lin, qty, pri
<1>9. CASE e[1] \notin {unb, bgm, dtm, nad, lin, qty, pri}
  BY <1>1, <1>9, Zenon DEF EdifactRead, unb, bgm, dtm, nad, lin, qty, pri
<1> QED
  BY <1>2, <1>3, <1>4, <1>5, <1>6, <1>7, <1>8, <1>9

(* The orders EDIFACT has room for.                                        *)
EdifactOrders == EdiDocument(EdifactClean, EdifactComposite, EdifactFigures)

LEMMA EdiDocumentGrows ==
  ASSUME NEW P, NEW C, NEW F, NEW C2, C \subseteq C2
  PROVE  /\ Entry(C, F) \subseteq Entry(C2, F)
         /\ EdiDocument(P, C, F) \subseteq EdiDocument(P, C2, F)
<1> DEFINE none == <<>>
           N == DOMAIN Numerals \ {"million"}
           A == Seq(P)
           B == Seq(C)
           B2 == Seq(C2)
           CU == Seq(Words)
           L == [no : N, product : B, qty : F, uom : B, price : F, description : {none}]
           L2 == [no : N, product : B2, qty : F, uom : B2, price : F, description : {none}]
           SL == Seq(L)
           SL2 == Seq(L2)
           D == WholeDays
<1>1. B \subseteq B2
  OBVIOUS
<1> HIDE DEF none, N, A, B, B2, CU
<1>2. L \subseteq L2
  BY <1>1
<1>3. L = Entry(C, F) /\ L2 = Entry(C2, F)
  BY Zenon DEF Entry, N, B, B2, none
<1> HIDE DEF L, L2
<1>4. SL \subseteq SL2
  BY <1>2
<1>5. /\ EdiDocument(P, C, F)
           = [sender : A, receiver : A, number : A, date : D, currency : CU,
              buyer : [id : B, name : A, address : {none}],
              seller : [id : B, name : A, address : {none}], lines : SL]
      /\ EdiDocument(P, C2, F)
           = [sender : A, receiver : A, number : A, date : D, currency : CU,
              buyer : [id : B2, name : A, address : {none}],
              seller : [id : B2, name : A, address : {none}], lines : SL2]
  BY <1>3, Zenon DEF EdiDocument, A, B, B2, CU, none
<1> HIDE DEF SL, SL2, D
<1> QED
  BY <1>1, <1>2, <1>3, <1>4, <1>5

LEMMA EdifactOrdersAre ==
  /\ EdifactOrders \subseteq EdiDocument(EdifactClean, EdifactClean, EdifactFigures)
  /\ EdifactOrders \subseteq Orders
  /\ Entry(EdifactComposite, EdifactFigures) \subseteq Entry(EdifactClean, EdifactFigures)
  /\ Entry(EdifactComposite, EdifactFigures) \subseteq Item
<1>1. /\ EdifactComposite \subseteq EdifactClean /\ EdifactClean \subseteq EdifactClean
      /\ EdifactFigures \subseteq EdifactFigures
      /\ EdifactClean \subseteq Tokens /\ EdifactComposite \subseteq Tokens
      /\ EdifactFigures \subseteq Figure
  BY DEF EdifactComposite, EdifactClean, EdifactFigures
<1>2. /\ EdifactOrders \subseteq EdiDocument(EdifactClean, EdifactClean, EdifactFigures)
      /\ Entry(EdifactComposite, EdifactFigures) \subseteq Entry(EdifactClean, EdifactFigures)
  BY <1>1, EdiDocumentGrows, Zenon DEF EdifactOrders
<1>3. EdifactOrders \subseteq Orders
  <2>1. Document(EdifactClean, EdifactComposite, EdifactFigures) \subseteq Orders
    BY <1>1, OrdersGrow, Zenon
  <2>2. EdifactOrders \subseteq Document(EdifactClean, EdifactComposite, EdifactFigures)
    BY EdiDocuments, Zenon DEF EdifactOrders
  <2> QED
    BY <2>1, <2>2, Zenon
<1> DEFINE N == DOMAIN Numerals \ {"million"}
           A == Seq(EdifactComposite)
           C == Seq(Tokens)
           D == Seq(Words)
           none == <<>>
<1>4. A \subseteq C /\ none \in D
  BY <1>1
<1> HIDE DEF A, C, D, N, none
<1>5. [no : N, product : A, qty : EdifactFigures, uom : A, price : EdifactFigures,
       description : {none}]
        \subseteq [no : N, product : C, qty : Figure, uom : C, price : Figure, description : D]
  BY <1>1, <1>4
<1> QED
  BY <1>2, <1>3, <1>5, Zenon DEF Entry, Item, A, C, D, N, none

LEMMA EdifactReadHead ==
  ASSUME NEW d \in EdifactOrders
  PROVE  /\ <<Advice>> \o EdifactHead(d) \in Seq(Tagged(EdifactClean))
         /\ ReadAll("edifact", <<Advice>> \o EdifactHead(d))
              = [Blank EXCEPT !.sender = d.sender, !.receiver = d.receiver, !.number = d.number]
<1> DEFINE S == Tagged(EdifactClean)
           others == {<<"UNB">>, <<"BGM">>, <<"DTM">>, <<"NAD">>, <<"LIN">>, <<"QTY">>, <<"PRI">>}
           unb == <<<<"UNB">>, <<"IATB", ":", "1">>, d.sender, d.receiver>>
           unh == <<<<"UNH">>, <<"1">>, <<"ORDERS">>>>
           bgm == <<<<"BGM">>, <<"220">>, d.number, <<"9">>>>
           x == [Blank EXCEPT !.sender = d.sender, !.receiver = d.receiver]
           none == <<>>
           R(s) == ReadAll("edifact", s)
<1>1. EdifactHead(d) = <<unb, unh, bgm>> /\ EdifactHead(d) \in Seq(S)
  BY EdifactSufficient, EdifactOrdersAre, EdifactHeadType, Zenon DEF EdifactHead
<1>2. Advice \in S /\ Advice[1] = <<"UNA", ":">>
  BY AdviceIs, Zenon
<1>3. Advice[1] \notin others
  <2>1. <<"UNA", ":">> \notin others
    OBVIOUS
  <2> HIDE DEF others
  <2> QED
    BY <1>2, <2>1
<1>4. /\ unb[1] = <<"UNB">> /\ Get(unb, 2) = d.sender /\ Get(unb, 3) = d.receiver
      /\ unh[1] \notin others
      /\ bgm[1] = <<"BGM">> /\ Get(bgm, 2) = d.number
  BY DEF Get
<1> HIDE DEF unb, unh, bgm
<1>5. EdifactRead(Blank, Advice) = Blank
  BY <1>3, EdifactReadIs, Zenon
<1>6. EdifactRead(Blank, unb) = x
  <2>1. EdifactRead(Blank, unb) = [Blank EXCEPT !.sender = Get(unb, 2), !.receiver = Get(unb, 3)]
    BY <1>4, EdifactReadIs, Zenon
  <2> QED
    BY <1>4, <2>1
<1> HIDE DEF x
<1>7. EdifactRead(x, unh) = x
  BY <1>4, EdifactReadIs, Zenon
<1>8. EdifactRead(x, bgm) = [x EXCEPT !.number = d.number]
  <2>1. EdifactRead(x, bgm) = [x EXCEPT !.number = Get(bgm, 2)]
    BY <1>4, EdifactReadIs, Zenon
  <2> QED
    BY <1>4, <2>1
<1>9. R(none) = Blank
  BY ReadNothing
<1>10. \A s \in Seq(S) : \A e \in S : R(Append(s, e)) = EdifactRead(R(s), e)
  BY EdifactSufficient, ReadOn DEF Read
<1> HIDE DEF S, none, R, others
<1>11. unb \in S /\ unh \in S /\ bgm \in S
  BY <1>1
<1>12. /\ none \in Seq(S) /\ Append(none, Advice) \in Seq(S)
       /\ Append(Append(none, Advice), unb) \in Seq(S)
       /\ Append(Append(Append(none, Advice), unb), unh) \in Seq(S)
       /\ <<Advice>> \o <<unb, unh, bgm>>
            = Append(Append(Append(Append(none, Advice), unb), unh), bgm)
       /\ <<Advice>> \o <<unb, unh, bgm>> \in Seq(S)
  BY <1>2, <1>11 DEF none
<1>13. R(Append(none, Advice)) = Blank
  BY <1>2, <1>5, <1>9, <1>10, <1>12
<1>14. R(Append(Append(none, Advice), unb)) = x
  BY <1>6, <1>10, <1>11, <1>12, <1>13
<1>15. R(Append(Append(Append(none, Advice), unb), unh)) = x
  BY <1>7, <1>10, <1>11, <1>12, <1>14
<1>16. R(<<Advice>> \o <<unb, unh, bgm>>) = [x EXCEPT !.number = d.number]
  BY <1>8, <1>10, <1>11, <1>12, <1>15
<1> QED
  BY <1>1, <1>12, <1>16 DEF R, S, x, Blank

(* The date, which is written only if there is one.                        *)
LEMMA EdifactReadDate ==
  ASSUME NEW d \in EdifactOrders, NEW s \in Seq(Tagged(EdifactClean)),
         ReadAll("edifact", s).date = <<>>
  PROVE  ReadAll("edifact", s \o EdifactDate(d)) = [ReadAll("edifact", s) EXCEPT !.date = d.date]
<1> DEFINE S == Tagged(EdifactClean)
           x == ReadAll("edifact", s)
           text == <<"137", ":">> \o d.date \o <<":", "102">>
           parts == <<<<"137">>, d.date, <<"102">>>>
           dtm == <<<<"DTM">>, text>>
<1>1. /\ s \o <<>> = s
      /\ \A e \in S : s \o <<e>> = Append(s, e)
  OBVIOUS
<1>2. \A e \in S : ReadAll("edifact", Append(s, e)) = EdifactRead(x, e)
  BY EdifactSufficient, ReadOn DEF Read
<1>3. d.date \in WholeDays /\ DayOf(d.date) = d.date
  BY EdiFields, Zenon DEF EdifactOrders
<1>4. EdifactDate(d) \in Seq(S)
  BY <1>3, EdifactSufficient, EdifactDateType, Zenon
<1>5. /\ d.date = <<>> => EdifactDate(d) = <<>>
      /\ d.date # <<>> => EdifactDate(d) = <<dtm>>
  BY <1>3, Zenon DEF EdifactDate
<1>6. x \in Orders
  BY EdifactSufficient, ReadOrder
<1>7. Split(text, ":") = parts
  <2>1. d.date \in Seq(EdifactComposite)
    <3>1. \A W : Dates \subseteq W => <<>> \in Seq(W) /\ \A t \in Dates : <<t>> \in Seq(W)
      OBVIOUS
    <3>2. Dates \subseteq EdifactComposite
      BY EdifactSufficient
    <3>3. /\ <<>> \in Seq(EdifactComposite)
          /\ \A t \in Dates : <<t>> \in Seq(EdifactComposite)
      BY <3>1, <3>2, Zenon
    <3> QED
      BY <1>3, <3>3, Zenon DEF WholeDays, Days
  <2> QED
    BY <2>1, CompositesBack, Zenon
<1> HIDE DEF text
<1>8. /\ dtm[1] = <<"DTM">> /\ Get(dtm, 1) = text
      /\ Component(dtm, 1, 0) = <<"137">> /\ Split(Get(dtm, 1), ":") = parts
      /\ Len(Split(Get(dtm, 1), ":")) >= 2
  <2>1. dtm[1] = <<"DTM">> /\ Get(dtm, 1) = text
    BY DEF Get
  <2>2. Component(dtm, 1, 0) = Get(parts, 0)
    BY <1>7, <2>1, Zenon DEF Component
  <2>3. Get(parts, 0) = <<"137">>
    BY DEF Get
  <2>4. Len(parts) >= 2
    OBVIOUS
  <2>5. Split(Get(dtm, 1), ":") = parts
    BY <1>7, <2>1, Zenon
  <2> HIDE DEF dtm, parts
  <2> QED
    BY <2>1, <2>2, <2>3, <2>4, <2>5
<1>80. ParseEdifactDate(parts) = d.date
  <2>1. parts[2] = d.date /\ parts[3] # <<"203">>
    OBVIOUS
  <2>2. ParseDate(d.date) = d.date
    BY <1>3, ReadsDate
  <2> HIDE DEF parts
  <2> QED
    BY <2>1, <2>2, Zenon DEF ParseEdifactDate
<1> HIDE DEF S, x, dtm, parts
<1>9. CASE d.date = <<>>
  <2>1. [x EXCEPT !.date = x.date] = x
    BY <1>6, OrderSame, Zenon
  <2>2. ReadAll("edifact", s \o EdifactDate(d)) = x
    BY <1>1, <1>5, <1>9, Zenon DEF x
  <2>3. x.date = <<>>
    BY DEF x
  <2> QED
    BY <1>9, <2>1, <2>2, <2>3, Zenon DEF x
<1>10. CASE d.date # <<>>
  <2>1. EdifactRead(x, dtm)
          = [x EXCEPT !.date = ParseEdifactDate(Split(Get(dtm, 1), ":"))]
    BY <1>8, EdifactReadIs, Zenon
  <2>3. dtm \in S
    <3>1. Len(<<dtm>>) = 1 /\ <<dtm>>[1] = dtm
      OBVIOUS
    <3>2. <<dtm>> \in Seq(S)
      BY <1>4, <1>5, <1>10
    <3> QED
      BY <3>1, <3>2, LenIsNat
  <2>4. EdifactRead(x, dtm) = [x EXCEPT !.date = d.date]
    BY <1>8, <1>80, <2>1, Zenon
  <2> QED
    BY <1>1, <1>2, <1>5, <1>10, <2>3, <2>4, Zenon DEF x
<1> QED
  BY <1>9, <1>10

LEMMA EdifactReadParties ==
  ASSUME NEW d \in EdifactOrders, NEW s \in Seq(Tagged(EdifactClean))
  PROVE  /\ ReadAll("edifact", s).buyer = NoParty =>
              ReadAll("edifact", s \o EdifactParty("BY", d.buyer))
                = [ReadAll("edifact", s) EXCEPT !.buyer = d.buyer]
         /\ ReadAll("edifact", s).seller = NoParty =>
              ReadAll("edifact", s \o EdifactParty("SE", d.seller))
                = [ReadAll("edifact", s) EXCEPT !.seller = d.seller]
<1> DEFINE S == Tagged(EdifactClean)
           x == ReadAll("edifact", s)
           by == d.buyer.id \o <<":", ":", "ZZ">>
           se == d.seller.id \o <<":", ":", "ZZ">>
           buyer == <<<<"NAD">>, <<"BY">>, by, <<>>, d.buyer.name>>
           seller == <<<<"NAD">>, <<"SE">>, se, <<>>, d.seller.name>>
           Name(e) == IF Get(e, 4) # <<>> THEN Get(e, 4) ELSE Get(e, 3)
<1>1. /\ s \o <<>> = s
      /\ \A e \in S : s \o <<e>> = Append(s, e)
  OBVIOUS
<1>2. \A e \in S : ReadAll("edifact", Append(s, e)) = EdifactRead(x, e)
  BY EdifactSufficient, ReadOn DEF Read
<1>3. EdifactParty("BY", d.buyer) \in Seq(S) /\ EdifactParty("SE", d.seller) \in Seq(S)
  BY EdifactOrdersAre, EdifactSufficient, EdifactElementsType, Zenon
<1>4. /\ HasParty(d.buyer) => EdifactParty("BY", d.buyer) = <<buyer>>
      /\ ~HasParty(d.buyer) => EdifactParty("BY", d.buyer) = <<>>
      /\ HasParty(d.seller) => EdifactParty("SE", d.seller) = <<seller>>
      /\ ~HasParty(d.seller) => EdifactParty("SE", d.seller) = <<>>
  BY Zenon DEF EdifactParty
<1>5. /\ Split(by, ":") = <<d.buyer.id, <<>>, <<"ZZ">>>>
      /\ Split(se, ":") = <<d.seller.id, <<>>, <<"ZZ">>>>
  <2>1. d.buyer.id \in Seq(EdifactComposite) /\ d.seller.id \in Seq(EdifactComposite)
    BY EdiFields, DocumentFields, Zenon DEF EdifactOrders
  <2> QED
    BY <2>1, CompositesBack, Zenon
<1> HIDE DEF by, se
<1>6. /\ buyer[1] = <<"NAD">> /\ Get(buyer, 1) = <<"BY">> /\ Get(buyer, 2) = by
      /\ Name(buyer) = d.buyer.name
      /\ seller[1] = <<"NAD">> /\ Get(seller, 1) = <<"SE">> /\ Get(seller, 2) = se
      /\ Name(seller) = d.seller.name
  BY DEF Get
<1>7. Component(buyer, 2, 0) = d.buyer.id /\ Component(seller, 2, 0) = d.seller.id
  <2>1. \A p, q, r : Get(<<p, q, r>>, 0) = p
    BY DEF Get
  <2>2. /\ Component(buyer, 2, 0) = Get(<<d.buyer.id, <<>>, <<"ZZ">>>>, 0)
        /\ Component(seller, 2, 0) = Get(<<d.seller.id, <<>>, <<"ZZ">>>>, 0)
    BY <1>5, <1>6, Zenon DEF Component
  <2> QED
    BY <2>1, <2>2, Zenon
<1> HIDE DEF S, buyer, seller
<1>8. /\ HasParty(d.buyer) => buyer \in S
      /\ HasParty(d.seller) => seller \in S
  <2>1. \A e : <<e>> \in Seq(S) => e \in S
    <3> TAKE e
    <3>1. Len(<<e>>) = 1 /\ <<e>>[1] = e
      OBVIOUS
    <3> QED
      BY <3>1, LenIsNat
  <2> QED
    BY <1>3, <1>4, <2>1, Zenon
<1>9. x \in Orders
  BY EdifactSufficient, ReadOrder DEF S
<1> HIDE DEF x
<1>10. /\ EdifactRead(x, buyer) = [x EXCEPT !.buyer = d.buyer]
       /\ EdifactRead(x, seller) = [x EXCEPT !.seller = d.seller]
  <2>1. EdifactRead(x, buyer)
          = [x EXCEPT !.buyer = [id |-> Component(buyer, 2, 0), name |-> Name(buyer),
                                 address |-> <<>>]]
    BY <1>6, EdifactReadIs, Zenon
  <2>2. EdifactRead(x, seller)
          = [x EXCEPT !.seller = [id |-> Component(seller, 2, 0), name |-> Name(seller),
                                  address |-> <<>>]]
    BY <1>6, EdifactReadIs, Zenon
  <2>3. /\ [id |-> d.buyer.id, name |-> d.buyer.name, address |-> <<>>] = d.buyer
        /\ [id |-> d.seller.id, name |-> d.seller.name, address |-> <<>>] = d.seller
    BY PartyIs, Zenon DEF EdifactOrders
  <2> HIDE DEF Name
  <2> QED
    BY <1>6, <1>7, <2>1, <2>2, <2>3
<1>11. x.buyer = NoParty =>
         ReadAll("edifact", s \o EdifactParty("BY", d.buyer)) = [x EXCEPT !.buyer = d.buyer]
  <2>1. CASE HasParty(d.buyer)
    BY <1>1, <1>2, <1>4, <1>8, <1>10, <2>1, Zenon
  <2>2. CASE ~HasParty(d.buyer)
    <3>1. d.buyer = NoParty
      BY <2>2, PartyIs, Zenon DEF EdifactOrders
    <3>2. [x EXCEPT !.buyer = x.buyer] = x
      BY <1>9, OrderSame, Zenon
    <3>3. ReadAll("edifact", s \o EdifactParty("BY", d.buyer)) = x
      BY <1>1, <1>4, <2>2, Zenon DEF x
    <3> QED
      BY <3>1, <3>2, <3>3, Zenon
  <2> QED
    BY <2>1, <2>2
<1>12. x.seller = NoParty =>
         ReadAll("edifact", s \o EdifactParty("SE", d.seller)) = [x EXCEPT !.seller = d.seller]
  <2>1. CASE HasParty(d.seller)
    BY <1>1, <1>2, <1>4, <1>8, <1>10, <2>1, Zenon
  <2>2. CASE ~HasParty(d.seller)
    <3>1. d.seller = NoParty
      BY <2>2, PartyIs, Zenon DEF EdifactOrders
    <3>2. [x EXCEPT !.seller = x.seller] = x
      BY <1>9, OrderSame, Zenon
    <3>3. ReadAll("edifact", s \o EdifactParty("SE", d.seller)) = x
      BY <1>1, <1>4, <2>2, Zenon DEF x
    <3> QED
      BY <3>1, <3>2, <3>3, Zenon
  <2> QED
    BY <2>1, <2>2
<1> QED
  BY <1>11, <1>12 DEF x

(* What is set in the line read last.                                      *)
LEMMA SetLastAppend ==
  ASSUME NEW lines \in Seq(Item), NEW i \in Item, NEW v
  PROVE  /\ v \in Figure =>
              /\ SetLast(Append(lines, i), "qty", v) = Append(lines, [i EXCEPT !.qty = v])
              /\ SetLast(Append(lines, i), "price", v) = Append(lines, [i EXCEPT !.price = v])
         /\ v \in Seq(Tokens) =>
              SetLast(Append(lines, i), "uom", v) = Append(lines, [i EXCEPT !.uom = v])
<1> DEFINE m == Len(lines) + 1
           more == Append(lines, i)
           I == Item
<1>1. more \in Seq(I) /\ more # <<>> /\ Len(more) = m /\ more[Len(more)] = i
  <2>1. lines \in Seq(I) /\ i \in I
    OBVIOUS
  <2> HIDE DEF I
  <2> QED
    BY <2>1
<1>2. /\ SetLast(more, "qty", v) = [more EXCEPT ![m] = [i EXCEPT !.qty = v]]
      /\ SetLast(more, "uom", v) = [more EXCEPT ![m] = [i EXCEPT !.uom = v]]
      /\ SetLast(more, "price", v) = [more EXCEPT ![m] = [i EXCEPT !.price = v]]
  <2> DEFINE last == more[Len(more)]
  <2>1. more \in Seq(Item) /\ more # <<>> /\ Len(more) = m /\ last = i
    BY <1>1, Zenon
  <2> HIDE DEF more
  <2>2. /\ SetLast(more, "qty", v) = [more EXCEPT ![Len(more)] = [last EXCEPT !.qty = v]]
        /\ SetLast(more, "uom", v) = [more EXCEPT ![Len(more)] = [last EXCEPT !.uom = v]]
        /\ SetLast(more, "price", v) = [more EXCEPT ![Len(more)] = [last EXCEPT !.price = v]]
    BY <2>1, SetLastIs
  <2> HIDE DEF last, m
  <2> QED
    BY <2>1, <2>2, Zenon
<1>3. /\ v \in Figure => [i EXCEPT !.qty = v] \in Item /\ [i EXCEPT !.price = v] \in Item
      /\ v \in Seq(Tokens) => [i EXCEPT !.uom = v] \in Item
  <2> DEFINE A == Seq(Tokens)
             B == Seq(Words)
             N == DOMAIN Numerals \ {"million"}
             I2 == [no : N, product : A, qty : Figure, uom : A, price : Figure, description : B]
  <2>1. i \in I2
    BY DEF Item
  <2> HIDE DEF A, B, N
  <2>2. /\ v \in Figure => [i EXCEPT !.qty = v] \in I2 /\ [i EXCEPT !.price = v] \in I2
        /\ v \in A => [i EXCEPT !.uom = v] \in I2
    BY <2>1
  <2> QED
    BY <2>2, Zenon DEF Item, A, B, N, I2
<1>4. ASSUME NEW y \in Item PROVE [more EXCEPT ![m] = y] = Append(lines, y)
  BY ReplaceLast
<1> HIDE DEF more, m
<1> QED
  BY <1>2, <1>3, <1>4, Zenon DEF more

(* The three segments of a line item, read one after another.              *)
LEMMA EdifactReadsLine ==
  ASSUME NEW y \in Orders, NEW l \in Entry(EdifactComposite, EdifactFigures)
  PROVE  \A lin, qty, pri : EdifactLine(l) = <<lin, qty, pri>> =>
           EdifactRead(EdifactRead(EdifactRead(y, lin), qty), pri)
             = [y EXCEPT !.lines = Append(y.lines, l)]
<1> DEFINE product == l.product \o <<":", "VP">>
           quantity == <<"21", ":">> \o Numerals[l.qty] \o <<":">> \o l.uom
           price == <<"AAA", ":">> \o Numerals[l.price]
           lin == <<<<"LIN">>, Numerals[l.no], <<>>, product>>
           qty == <<<<"QTY">>, quantity>>
           pri == <<<<"PRI">>, price>>
           lines == y.lines
           i0 == [no |-> l.no, qty |-> "0", uom |-> <<>>, price |-> "0",
                  product |-> l.product, description |-> <<>>]
           i1 == [no |-> l.no, qty |-> l.qty, uom |-> <<>>, price |-> "0",
                  product |-> l.product, description |-> <<>>]
           i2 == [no |-> l.no, qty |-> l.qty, uom |-> l.uom, price |-> "0",
                  product |-> l.product, description |-> <<>>]
           y1 == [y EXCEPT !.lines = Append(lines, i0)]
           y2 == [y EXCEPT !.lines = Append(lines, i2)]
           y3 == [y EXCEPT !.lines = Append(lines, l)]
<1>1. /\ l.no \in EdifactFigures /\ l.product \in Seq(EdifactComposite)
      /\ l.qty \in EdifactFigures /\ l.uom \in Seq(EdifactComposite)
      /\ l.price \in EdifactFigures
  BY EntryFields DEF EdifactFigures
<1>2. l \in Item
  BY EdifactOrdersAre
<1>3. Numerals[l.qty] \in Seq(EdifactComposite) /\ Numerals[l.price] \in Seq(EdifactComposite)
  <2>1. EdifactFigures \subseteq Literals
    BY NumeralsAre DEF EdifactFigures, Figure, Literals
  <2>2. \A n \in EdifactFigures : Numerals[n] = <<n>>
    BY NumeralsAre DEF EdifactFigures
  <2>3. EdifactFigures \subseteq EdifactComposite
    BY <2>1, EdifactSufficient
  <2>4. \A n \in EdifactFigures : <<n>> \in Seq(EdifactComposite)
    <3> HIDE DEF EdifactFigures
    <3> QED
      BY <2>3
  <2> QED
    BY <1>1, <2>2, <2>4
<1>4. /\ Split(product, ":") = <<l.product, <<"VP">>>>
      /\ Split(quantity, ":") = <<<<"21">>, Numerals[l.qty], l.uom>>
      /\ Split(price, ":") = <<<<"AAA">>, Numerals[l.price]>>
  BY <1>1, <1>3, CompositesBack, Zenon
<1>5. /\ Parse(Numerals[l.qty]) = l.qty /\ Parse(Numerals[l.price]) = l.price
      /\ Atoi(Numerals[l.no]) = l.no
  BY <1>1, ReadsFigure DEF EdifactFigures
<1> HIDE DEF product, quantity, price
<1>6. /\ lin[1] = <<"LIN">> /\ Get(lin, 1) = Numerals[l.no] /\ Get(lin, 3) = product
      /\ qty[1] = <<"QTY">> /\ Get(qty, 1) = quantity
      /\ pri[1] = <<"PRI">> /\ Get(pri, 1) = price
  BY DEF Get
<1> HIDE DEF lin, qty, pri
<1>7. /\ Component(lin, 3, 0) = l.product
      /\ Component(qty, 1, 1) = Numerals[l.qty] /\ Component(qty, 1, 2) = l.uom
      /\ Component(pri, 1, 1) = Numerals[l.price]
  <2>1. /\ \A p, q : Get(<<p, q>>, 0) = p /\ Get(<<p, q>>, 1) = q
        /\ \A p, q, r : Get(<<p, q, r>>, 1) = q /\ Get(<<p, q, r>>, 2) = r
    BY DEF Get
  <2>2. /\ Component(lin, 3, 0) = Get(<<l.product, <<"VP">>>>, 0)
        /\ Component(qty, 1, 1) = Get(<<<<"21">>, Numerals[l.qty], l.uom>>, 1)
        /\ Component(qty, 1, 2) = Get(<<<<"21">>, Numerals[l.qty], l.uom>>, 2)
        /\ Component(pri, 1, 1) = Get(<<<<"AAA">>, Numerals[l.price]>>, 1)
    BY <1>4, <1>6, Zenon DEF Component
  <2> QED
    BY <2>1, <2>2
<1>8. lines \in Seq(Item)
  BY OrdersShape DEF Shape
<1>9. /\ i0 \in Item /\ i1 \in Item /\ i2 \in Item
      /\ [i0 EXCEPT !.qty = l.qty] = i1 /\ [i1 EXCEPT !.uom = l.uom] = i2
      /\ [i2 EXCEPT !.price = l.price] = l
  <2> DEFINE A == Seq(Tokens)
             N == DOMAIN Numerals \ {"million"}
             none == <<>>
             zero == "0"
             B == Seq(Words)
             I2 == [no : N, product : A, qty : Figure, uom : A, price : Figure, description : B]
  <2>1. l \in I2
    BY <1>2 DEF Item
  <2>2. zero \in Figure /\ none \in A /\ none \in B
    BY NumeralsAre DEF Figure
  <2>20. l.description = none
    BY DEF Entry
  <2> HIDE DEF A, B, N, none, zero
  <2>3. /\ l.no \in N /\ l.qty \in Figure /\ l.uom \in A /\ l.price \in Figure /\ l.product \in A
        /\ l = [no |-> l.no, qty |-> l.qty, uom |-> l.uom, price |-> l.price,
                product |-> l.product, description |-> none]
    BY <2>1, <2>20
  <2>4. \A n \in N : \A q, c \in Figure : \A u, k \in A : \A t \in B :
          [no |-> n, qty |-> q, uom |-> u, price |-> c, product |-> k, description |-> t] \in I2
    OBVIOUS
  <2>5. i0 \in Item /\ i1 \in Item /\ i2 \in Item
    BY <2>2, <2>3, <2>4, Zenon DEF Item, A, B, N, none, zero, I2
  <2>7. [i0 EXCEPT !.qty = l.qty] = i1 /\ [i1 EXCEPT !.uom = l.uom] = i2
    OBVIOUS
  <2>8. [i2 EXCEPT !.price = l.price] = l
    <3>1. [i2 EXCEPT !.price = l.price]
            = [no |-> l.no, qty |-> l.qty, uom |-> l.uom, price |-> l.price,
               product |-> l.product, description |-> <<>>]
      OBVIOUS
    <3> QED
      BY <2>3, <3>1, Zenon DEF none
  <2> QED
    BY <2>5, <2>7, <2>8
<1>10. EdifactRead(y, lin) = y1
  <2>1. EdifactRead(y, lin) = [y EXCEPT !.lines = Append(y.lines,
           [no |-> Atoi(Get(lin, 1)), qty |-> "0", uom |-> <<>>, price |-> "0",
            product |-> Component(lin, 3, 0), description |-> <<>>])]
    BY <1>6, EdifactReadIs, Zenon
  <2> QED
    BY <1>5, <1>6, <1>7, <2>1, Zenon
<1>11. /\ SetLast(Append(lines, i0), "qty", l.qty) = Append(lines, i1)
       /\ SetLast(Append(lines, i1), "uom", l.uom) = Append(lines, i2)
       /\ SetLast(Append(lines, i2), "price", l.price) = Append(lines, l)
  <2>1. l.qty \in Figure /\ l.price \in Figure /\ l.uom \in Seq(Tokens)
    BY <1>2 DEF Item
  <2>2. ASSUME NEW i \in Item, NEW v \in Figure
        PROVE  /\ SetLast(Append(lines, i), "qty", v) = Append(lines, [i EXCEPT !.qty = v])
               /\ SetLast(Append(lines, i), "price", v) = Append(lines, [i EXCEPT !.price = v])
    <3> HIDE DEF lines
    <3> QED
      BY <1>8, SetLastAppend, ZenonT(40)
  <2>3. ASSUME NEW i \in Item, NEW v \in Seq(Tokens)
        PROVE  SetLast(Append(lines, i), "uom", v) = Append(lines, [i EXCEPT !.uom = v])
    <3> HIDE DEF lines
    <3> QED
      BY <1>8, SetLastAppend, ZenonT(40)
  <2> HIDE DEF i0, i1, i2, lines
  <2>4. SetLast(Append(lines, i0), "qty", l.qty) = Append(lines, [i0 EXCEPT !.qty = l.qty])
    BY <1>9, <2>1, <2>2, Zenon
  <2>5. SetLast(Append(lines, i1), "uom", l.uom) = Append(lines, [i1 EXCEPT !.uom = l.uom])
    BY <1>9, <2>1, <2>3, Zenon
  <2>6. SetLast(Append(lines, i2), "price", l.price)
          = Append(lines, [i2 EXCEPT !.price = l.price])
    BY <1>9, <2>1, <2>2, Zenon
  <2> QED
    BY <1>9, <2>4, <2>5, <2>6, Zenon
<1>12. /\ y1.lines = Append(lines, i0) /\ y2.lines = Append(lines, i2)
       /\ \A v : [y1 EXCEPT !.lines = v] = [y EXCEPT !.lines = v]
       /\ \A v : [y2 EXCEPT !.lines = v] = [y EXCEPT !.lines = v]
  <2> HIDE DEF i0, i2
  <2> QED
    BY OrderFields, Zenon
<1> HIDE DEF i0, i1, i2, lines
<1>13. EdifactRead(y1, qty) = y2
  <2>1. EdifactRead(y1, qty)
          = [y1 EXCEPT !.lines = SetLast(SetLast(y1.lines, "qty", Parse(Component(qty, 1, 1))),
                                         "uom", Component(qty, 1, 2))]
    BY <1>6, EdifactReadIs, Zenon
  <2> HIDE DEF y1
  <2>2. SetLast(SetLast(y1.lines, "qty", Parse(Component(qty, 1, 1))),
                "uom", Component(qty, 1, 2)) = Append(lines, i2)
    <3>1. /\ Parse(Component(qty, 1, 1)) = l.qty /\ Component(qty, 1, 2) = l.uom
      BY <1>5, <1>7, Zenon
    <3> QED
      BY <1>11, <1>12, <3>1, Zenon
  <2> QED
    BY <1>12, <2>1, <2>2, ZenonT(40)
<1>14. EdifactRead(y2, pri) = y3
  <2>1. EdifactRead(y2, pri)
          = [y2 EXCEPT !.lines = SetLast(y2.lines, "price", Parse(Component(pri, 1, 1)))]
    BY <1>6, EdifactReadIs, Zenon
  <2> HIDE DEF y2
  <2>2. SetLast(y2.lines, "price", Parse(Component(pri, 1, 1))) = Append(lines, l)
    BY <1>5, <1>7, <1>11, <1>12, Zenon
  <2> QED
    BY <1>12, <2>1, <2>2, Zenon
<1> HIDE DEF y1, y2
<1>15. EdifactLine(l) = <<lin, qty, pri>>
  BY Zenon DEF EdifactLine, lin, qty, pri, product, quantity, price
<1>16. \A a, b, c : <<lin, qty, pri>> = <<a, b, c>> => lin = a /\ qty = b /\ pri = c
  OBVIOUS
<1> HIDE DEF y3
<1>17. \A a, b, c : EdifactLine(l) = <<a, b, c>> =>
         EdifactRead(EdifactRead(EdifactRead(y, a), b), c) = y3
  <2> TAKE a, b, c
  <2>1. EdifactLine(l) = <<a, b, c>> => lin = a /\ qty = b /\ pri = c
    BY <1>15, <1>16, Zenon
  <2> QED
    BY <1>10, <1>13, <1>14, <2>1, Zenon
<1> QED
  BY <1>17, Zenon DEF y3, lines

LEMMA EdifactReadLines ==
  ASSUME NEW s \in Seq(Tagged(EdifactClean)), ReadAll("edifact", s).lines = <<>>
  PROVE  \A lines \in Seq(Entry(EdifactComposite, EdifactFigures)) :
           ReadAll("edifact", s \o EdifactLines(lines))
             = [ReadAll("edifact", s) EXCEPT !.lines = lines]
<1> DEFINE S == Tagged(EdifactClean)
           E == Entry(EdifactComposite, EdifactFigures)
           x == ReadAll("edifact", s)
           R(t) == ReadAll("edifact", t)
           Good(lines) == R(s \o EdifactLines(lines)) = [x EXCEPT !.lines = lines]
           P == {lines \in Seq(E) : Good(lines)}
<1>1. /\ x \in Orders /\ x.lines = <<>>
      /\ \A t \in Seq(S) : R(t) \in Orders
      /\ \A t \in Seq(S) : \A e \in S : R(Append(t, e)) = EdifactRead(R(t), e)
  BY EdifactSufficient, ReadOrder, ReadOn DEF Read
<1>2. /\ \A lines \in Seq(E) : EdifactLines(lines) \in Seq(S)
      /\ \A l \in E : EdifactLine(l) \in Seq(S)
      /\ \A lines \in Seq(E) : \A l \in E :
           EdifactLines(Append(lines, l)) = EdifactLines(lines) \o EdifactLine(l)
  <2> DEFINE C == Entry(EdifactClean, EdifactFigures)
  <2>1. /\ \A lines \in Seq(C) : EdifactLines(lines) \in Seq(S)
        /\ \A l \in C : EdifactLine(l) \in Seq(S)
        /\ \A lines \in Seq(C) : \A l \in C :
             EdifactLines(Append(lines, l)) = EdifactLines(lines) \o EdifactLine(l)
    BY EdifactSufficient, EdifactLinesType, EdifactLineType
  <2>2. E \subseteq C
    BY EdifactOrdersAre
  <2> HIDE DEF E, C, S
  <2>3. Seq(E) \subseteq Seq(C)
    BY <2>2
  <2> QED
    BY <2>1, <2>2, <2>3
<1>3. /\ s \o <<>> = s
      /\ \A t \in Seq(S) : s \o t \in Seq(S)
      /\ \A t, u \in Seq(S) : s \o (t \o u) = (s \o t) \o u
  BY ConcatFacts, ConcatType
<1>4. \A y \in Orders : \A l \in E : \A lin, qty, pri : EdifactLine(l) = <<lin, qty, pri>> =>
        EdifactRead(EdifactRead(EdifactRead(y, lin), qty), pri)
          = [y EXCEPT !.lines = Append(y.lines, l)]
  BY EdifactReadsLine
<1>5. \A lines \in Seq(E) : \A l \in E : Append(lines, l) \in Seq(E)
  BY AppendType
<1>6. EdifactLines(<<>>) = <<>>
  <2> DEFINE f == [n \in DOMAIN <<>> |-> EdifactLine(<<>>[n])]
  <2>1. f = <<>>
    OBVIOUS
  <2>2. EdifactLines(<<>>) = FlattenSeq(f)
    BY Zenon DEF EdifactLines
  <2>3. FlattenSeq(<<>>) = <<>>
    BY DEF FlattenSeq
  <2> HIDE DEF f
  <2> QED
    BY <2>1, <2>2, <2>3, Zenon
<1>7. <<>> \in P
  <2>1. [x EXCEPT !.lines = x.lines] = x
    BY <1>1, OrderSame, Zenon
  <2>2. R(s \o EdifactLines(<<>>)) = x
    BY <1>3, <1>6, Zenon
  <2>3. Good(<<>>)
    BY <1>1, <2>1, <2>2, Zenon
  <2>4. <<>> \in Seq(E)
    OBVIOUS
  <2> QED
    BY <2>3, <2>4
<1>8. ASSUME NEW l \in E
      PROVE  \E lin, qty, pri \in S : EdifactLine(l) = <<lin, qty, pri>>
  <2>1. PICK lin, qty, pri : EdifactLine(l) = <<lin, qty, pri>>
    BY Zenon DEF EdifactLine
  <2>2. <<lin, qty, pri>> \in Seq(S)
    BY <1>2, <2>1
  <2> HIDE DEF S
  <2>3. /\ Len(<<lin, qty, pri>>) = 3 /\ <<lin, qty, pri>>[1] = lin
        /\ <<lin, qty, pri>>[2] = qty /\ <<lin, qty, pri>>[3] = pri
    OBVIOUS
  <2>4. lin \in S /\ qty \in S /\ pri \in S
    <3> DEFINE z == <<lin, qty, pri>>
    <3>1. z \in Seq(S) /\ Len(z) = 3
      BY <2>2, <2>3, Zenon
    <3> HIDE DEF z
    <3>2. z[1] \in S /\ z[2] \in S /\ z[3] \in S
      <4>1. \A n \in 1..Len(z) : z[n] \in S
        BY <3>1, LenIsNat, Zenon
      <4>2. 1 \in 1..Len(z) /\ 2 \in 1..Len(z) /\ 3 \in 1..Len(z)
        BY <3>1
      <4> QED
        BY <4>1, <4>2, Zenon
    <3> QED
      BY <2>3, <3>2, Zenon DEF z
  <2> QED
    BY <2>1, <2>4, Zenon
<1> HIDE DEF S, E, x, R
<1>9. \A t \in Seq(S) : \A a, b, c \in S :
        /\ t \o <<a, b, c>> = Append(Append(Append(t, a), b), c)
        /\ Append(t, a) \in Seq(S) /\ Append(Append(t, a), b) \in Seq(S)
  OBVIOUS
<1>10. ASSUME NEW lines \in Seq(E), NEW l \in E, lines \in P PROVE Append(lines, l) \in P
  <2> DEFINE t == s \o EdifactLines(lines)
             y == [x EXCEPT !.lines = lines]
             more == Append(lines, l)
  <2>1. PICK lin, qty, pri \in S : EdifactLine(l) = <<lin, qty, pri>>
    BY <1>8
  <2>2. /\ t \in Seq(S) /\ R(t) = y
        /\ s \o EdifactLines(more) = t \o EdifactLine(l)
    BY <1>2, <1>3, <1>10, ZenonT(40)
  <2> HIDE DEF t
  <2>3. y \in Orders
    BY <1>1, <2>2
  <2>4. R(Append(t, lin)) = EdifactRead(y, lin)
    BY <1>1, <2>1, <2>2, Zenon
  <2>5. R(Append(Append(t, lin), qty)) = EdifactRead(EdifactRead(y, lin), qty)
    BY <1>1, <1>9, <2>1, <2>2, <2>4, Zenon
  <2>6. R(t \o EdifactLine(l)) = EdifactRead(EdifactRead(EdifactRead(y, lin), qty), pri)
    <3>1. R(Append(Append(Append(t, lin), qty), pri))
            = EdifactRead(R(Append(Append(t, lin), qty)), pri)
      BY <1>1, <1>9, <2>1, <2>2, Zenon
    <3>2. t \o EdifactLine(l) = Append(Append(Append(t, lin), qty), pri)
      <4>1. t \o <<lin, qty, pri>> = Append(Append(Append(t, lin), qty), pri)
        BY <1>9, <2>2
      <4> QED
        BY <2>1, <4>1, Zenon
    <3> QED
      BY <2>5, <3>1, <3>2, Zenon
  <2>7. EdifactRead(EdifactRead(EdifactRead(y, lin), qty), pri)
          = [y EXCEPT !.lines = Append(y.lines, l)]
    <3> HIDE DEF y
    <3>1. \A a, b, c : EdifactLine(l) = <<a, b, c>> =>
            EdifactRead(EdifactRead(EdifactRead(y, a), b), c)
              = [y EXCEPT !.lines = Append(y.lines, l)]
      BY <1>4, <2>3, Zenon
    <3> DEFINE last == [y EXCEPT !.lines = Append(y.lines, l)]
               ReadThree(a, b, c) == EdifactRead(EdifactRead(EdifactRead(y, a), b), c)
    <3>2. \A a, b, c : EdifactLine(l) = <<a, b, c>> => ReadThree(a, b, c) = last
      BY <3>1, Zenon
    <3> HIDE DEF last, ReadThree
    <3>3. ReadThree(lin, qty, pri) = last
      BY <2>1, <3>2
    <3> QED
      BY <3>3, Zenon DEF last, ReadThree
  <2> HIDE DEF more
  <2>8. y.lines = lines
    BY <1>1, OrderFields, Zenon
  <2>9. [y EXCEPT !.lines = more] = [x EXCEPT !.lines = more]
    BY <1>1, OrderFields, Zenon
  <2>10. Good(more)
    BY <2>2, <2>6, <2>7, <2>8, <2>9, Zenon DEF more
  <2> QED
    BY <1>5, <1>10, <2>10 DEF more
<1> HIDE DEF P
<1>11. Seq(E) \subseteq P
  BY <1>7, <1>10, SequenceInduction, Zenon
<1> QED
  BY <1>11, Zenon DEF P, E, R, x

LEMMA EdifactReadTrailer ==
  ASSUME NEW d \in EdifactOrders, NEW s \in Seq(Tagged(EdifactClean))
  PROVE  ReadAll("edifact", s \o EdifactTrailer(d)) = ReadAll("edifact", s)
<1> DEFINE S == Tagged(EdifactClean)
           others == {<<"UNB">>, <<"BGM">>, <<"DTM">>, <<"NAD">>, <<"LIN">>, <<"QTY">>, <<"PRI">>}
           unt == <<<<"UNT">>, Printed(EdifactCount(d)), <<"1">>>>
           unz == <<<<"UNZ">>, <<"1">>>>
           R(t) == ReadAll("edifact", t)
           x == R(s)
<1>1. EdifactTrailer(d) = <<unt, unz>> /\ EdifactTrailer(d) \in Seq(S)
  BY EdifactSufficient, EdifactOrdersAre, EdifactElementsType, Zenon DEF EdifactTrailer
<1>2. unt[1] \notin others /\ unz[1] \notin others
  OBVIOUS
<1>3. \A t \in Seq(S) : \A e \in S : R(Append(t, e)) = EdifactRead(R(t), e)
  BY EdifactSufficient, ReadOn DEF Read
<1>4. s \in Seq(S)
  OBVIOUS
<1> HIDE DEF S, unt, unz, R
<1>5. unt \in S /\ unz \in S
  BY <1>1
<1>6. /\ Append(s, unt) \in Seq(S)
      /\ s \o <<unt, unz>> = Append(Append(s, unt), unz)
  BY <1>4, <1>5
<1>7. EdifactRead(x, unt) = x /\ EdifactRead(x, unz) = x
  BY <1>2, EdifactReadIs, Zenon
<1> HIDE DEF others
<1>8. R(Append(s, unt)) = x
  BY <1>3, <1>4, <1>5, <1>7
<1>9. R(s \o <<unt, unz>>) = x
  BY <1>3, <1>5, <1>6, <1>7, <1>8
<1> QED
  BY <1>1, <1>9 DEF R

(* What is left of an order in EDIFACT: the day, no address, description   *)
(* or currency.                                                            *)
EdifactLeft(d) == [EdiPart(d) EXCEPT !.currency = <<>>]

EdifactCut(d) == [d EXCEPT !.currency = <<>>]

LEMMA EdifactCutType ==
  ASSUME NEW d \in EdifactOrders
  PROVE  /\ d \in Orders /\ EdifactCut(d) \in Orders
         /\ LET x0 == [Blank EXCEPT !.sender = d.sender, !.receiver = d.receiver,
                                    !.number = d.number]
                x1 == [x0 EXCEPT !.date = d.date]
                x2 == [x1 EXCEPT !.buyer = d.buyer]
                x3 == [x2 EXCEPT !.seller = d.seller]
                x4 == [x3 EXCEPT !.lines = d.lines]
            IN  SameFields(x4, EdifactCut(d))
<1>1. d \in Orders
  BY EdifactOrdersAre
<1>2. EdifactCut(d) \in Orders
  <2> DEFINE B == Seq(Words)
             none == <<>>
  <2>1. none \in B
    OBVIOUS
  <2> HIDE DEF B, none
  <2>2. [d EXCEPT !.currency = none] \in Orders
    BY <1>1, <2>1, OrdersShape DEF Shape, B
  <2> QED
    BY <2>2 DEF EdifactCut, none
<1>3. /\ EdifactCut(d).sender = d.sender /\ EdifactCut(d).receiver = d.receiver
      /\ EdifactCut(d).number = d.number /\ EdifactCut(d).date = d.date
      /\ EdifactCut(d).currency = <<>> /\ EdifactCut(d).buyer = d.buyer
      /\ EdifactCut(d).seller = d.seller /\ EdifactCut(d).lines = d.lines
  BY <1>1, OrdersShape DEF EdifactCut, Shape
<1> QED
  BY <1>1, <1>2, <1>3 DEF Blank, SameFields

LEMMA EdifactCutBack ==
  ASSUME NEW d \in EdifactOrders
  PROVE  EdifactDecode(EdifactEncode(d)) = EdifactCut(d)
<1> DEFINE S == Tagged(EdifactClean)
           first == <<Advice>>
           a == EdifactHead(d)
           h == EdifactDate(d)
           b == EdifactParty("BY", d.buyer)
           c == EdifactParty("SE", d.seller)
           l == EdifactLines(d.lines)
           t == EdifactTrailer(d)
           begun == first \o a
           R(s) == ReadAll("edifact", s)
           x0 == [Blank EXCEPT !.sender = d.sender, !.receiver = d.receiver,
                               !.number = d.number]
           x1 == [x0 EXCEPT !.date = d.date]
           x2 == [x1 EXCEPT !.buyer = d.buyer]
           x3 == [x2 EXCEPT !.seller = d.seller]
           x4 == [x3 EXCEPT !.lines = d.lines]
<1>0. d \in EdiDocument(EdifactClean, EdifactClean, EdifactFigures)
  BY EdifactOrdersAre
<1>1. /\ a \in Seq(S) /\ h \in Seq(S) /\ b \in Seq(S) /\ c \in Seq(S) /\ l \in Seq(S)
      /\ t \in Seq(S) /\ EdifactElements(d) = a \o h \o b \o c \o l \o t
  BY <1>0, EdifactSufficient, EdifactElementsType, EdifactElements_Parts
<1>2. first \in Seq(S) /\ begun \in Seq(S) /\ R(begun) = x0
  <2>1. Advice \in S
    BY AdviceIs
  <2>2. first \in Seq(S)
    BY <2>1, TupleType, Zenon
  <2> QED
    BY <2>2, EdifactReadHead, Zenon
<1>3. x0.date = <<>> /\ x1.buyer = NoParty /\ x2.seller = NoParty /\ x3.lines = <<>>
  BY DEF Blank
<1>4. SameFields(x4, EdifactCut(d)) /\ EdifactCut(d) \in Orders
  BY EdifactCutType, Zenon
<1> HIDE DEF x0, x1, x2, x3, x4
<1>5. first \o (a \o h \o b \o c \o l \o t) = begun \o h \o b \o c \o l \o t
  <2> HIDE DEF S, first, a, h, b, c, l, t
  <2>1. \A p, q \in Seq(S) : p \o q \in Seq(S) /\ first \o (p \o q) = (first \o p) \o q
    BY <1>2, SMTT(30)
  <2>2. a \o h \in Seq(S) /\ (a \o h) \o b \in Seq(S) /\ ((a \o h) \o b) \o c \in Seq(S)
        /\ (((a \o h) \o b) \o c) \o l \in Seq(S)
    BY <1>1, <2>1, Zenon
  <2>3. first \o (a \o h) = (first \o a) \o h
    BY <1>1, <2>1, Zenon
  <2>4. first \o ((a \o h) \o b) = (first \o (a \o h)) \o b
    BY <1>1, <2>1, <2>2, Zenon
  <2>5. first \o (((a \o h) \o b) \o c) = (first \o ((a \o h) \o b)) \o c
    BY <1>1, <2>1, <2>2, Zenon
  <2>6. first \o ((((a \o h) \o b) \o c) \o l) = (first \o (((a \o h) \o b) \o c)) \o l
    BY <1>1, <2>1, <2>2, Zenon
  <2>7. first \o (((((a \o h) \o b) \o c) \o l) \o t)
          = (first \o ((((a \o h) \o b) \o c) \o l)) \o t
    BY <1>1, <2>1, <2>2, Zenon
  <2> QED
    BY <2>3, <2>4, <2>5, <2>6, <2>7, Zenon
<1> HIDE DEF begun
<1>6. R(begun \o h) = x1
  <2>1. R(begun).date = <<>>
    BY <1>2, <1>3
  <2>2. R(begun \o h) = [R(begun) EXCEPT !.date = d.date]
    BY <1>2, <2>1, EdifactReadDate, Zenon
  <2> QED
    BY <1>2, <2>2, Zenon DEF x1
<1>7. /\ begun \o h \in Seq(S) /\ (begun \o h) \o b \in Seq(S)
      /\ ((begun \o h) \o b) \o c \in Seq(S) /\ (((begun \o h) \o b) \o c) \o l \in Seq(S)
      /\ ((((begun \o h) \o b) \o c) \o l) \o t \in Seq(S)
  BY <1>1, <1>2, ConcatType, Zenon
<1>8. R((begun \o h) \o b) = x2
  <2>1. R(begun \o h).buyer = NoParty
    BY <1>3, <1>6
  <2>2. R((begun \o h) \o b) = [R(begun \o h) EXCEPT !.buyer = d.buyer]
    BY <1>7, <2>1, EdifactReadParties, Zenon
  <2> QED
    BY <1>6, <2>2, Zenon DEF x2
<1>9. R(((begun \o h) \o b) \o c) = x3
  <2>1. R((begun \o h) \o b).seller = NoParty
    BY <1>3, <1>8
  <2>2. R(((begun \o h) \o b) \o c) = [R((begun \o h) \o b) EXCEPT !.seller = d.seller]
    BY <1>7, <2>1, EdifactReadParties, Zenon
  <2> QED
    BY <1>8, <2>2, Zenon DEF x3
<1>10. R((((begun \o h) \o b) \o c) \o l) = x4
  <2>1. R(((begun \o h) \o b) \o c).lines = <<>>
    BY <1>3, <1>9
  <2>2. d.lines \in Seq(Entry(EdifactComposite, EdifactFigures))
    BY LinesEntries, Zenon DEF EdifactOrders
  <2>3. R((((begun \o h) \o b) \o c) \o l) = [R(((begun \o h) \o b) \o c) EXCEPT !.lines = d.lines]
    BY <1>7, <2>1, <2>2, EdifactReadLines, Zenon
  <2> QED
    BY <1>9, <2>3, Zenon DEF x4
<1>11. R(((((begun \o h) \o b) \o c) \o l) \o t) = x4
  BY <1>7, <1>10, EdifactReadTrailer, Zenon
<1>12. EdifactDecode(EdifactEncode(d)) = R(first \o EdifactElements(d))
  BY <1>0, EdifactSegmentsBack, Zenon DEF EdifactDecode
<1>13. x4 \in Orders
  BY <1>7, <1>11, EdifactSufficient, ReadOrder, Zenon
<1> QED
  BY <1>1, <1>4, <1>5, <1>11, <1>12, <1>13, SameOrder, Zenon

LEMMA EdifactWritesEdiPart ==
  ASSUME NEW P, NEW C, NEW F, NEW d \in Document(P, C, F)
  PROVE  EdifactEncode(EdiPart(d)) = EdifactEncode(d)
<1> DEFINE x == EdiPart(d)
<1>1. x.sender = d.sender /\ x.receiver = d.receiver /\ x.number = d.number
  <2>1. IsEdiPart(x, d)
    BY EdiPartFields
  <2> QED
    BY <2>1, Zenon DEF IsEdiPart
<1>2. /\ EdifactParty("BY", x.buyer) = EdifactParty("BY", d.buyer)
      /\ EdifactParty("SE", x.seller) = EdifactParty("SE", d.seller)
      /\ PartyCount(x) = PartyCount(d)
      /\ DayOf(x.date) = DayOf(d.date) /\ (x.date = <<>>) = (d.date = <<>>)
  BY EdiPartParties
<1>3. Len(x.lines) = Len(d.lines) /\ EdifactLines(x.lines) = EdifactLines(d.lines)
  <2>1. DOMAIN x.lines = DOMAIN d.lines /\ Len(x.lines) = Len(d.lines)
    BY EdiPartLines, Zenon
  <2>2. ASSUME NEW n \in DOMAIN d.lines
        PROVE  EdifactLine(x.lines[n]) = EdifactLine(d.lines[n])
    <3>1. SameItem(x.lines[n], d.lines[n])
      BY EdiPartLines, Zenon
    <3> QED
      BY <3>1, Zenon DEF EdifactLine, SameItem
  <2> HIDE DEF x
  <2>3. [n \in DOMAIN x.lines |-> EdifactLine(x.lines[n])]
          = [n \in DOMAIN d.lines |-> EdifactLine(d.lines[n])]
    BY <2>1, <2>2
  <2> QED
    BY <2>1, <2>3, Zenon DEF EdifactLines
<1> HIDE DEF x
<1>4. EdifactDate(x) = EdifactDate(d) /\ EdifactCount(x) = EdifactCount(d)
  <2>1. CASE d.date = <<>>
    BY <1>2, <1>3, <2>1, Zenon DEF EdifactDate, EdifactCount
  <2>2. CASE d.date # <<>>
    BY <1>2, <1>3, <2>2, Zenon DEF EdifactDate, EdifactCount
  <2> QED
    BY <2>1, <2>2
<1>5. EdifactHead(x) = EdifactHead(d) /\ EdifactTrailer(x) = EdifactTrailer(d)
  BY <1>1, <1>4, Zenon DEF EdifactHead, EdifactTrailer
<1>6. EdifactElements(x) = EdifactElements(d)
  BY <1>2, <1>3, <1>4, <1>5, EdifactElements_Parts, Zenon
<1> QED
  BY <1>6, Zenon DEF EdifactEncode, x

(* What EDIFACT writes of an order without its delimiters, in the numbers  *)
(* too, and without newlines it reads back, but for the time of day, the   *)
(* addresses, the descriptions and the currency, which it does not write   *)
(* (codec/edifact.go:19-139, 141-206, 219-286).                            *)
THEOREM EdifactRoundTrip ==
  ASSUME NEW d \in Document(EdifactClean, EdifactComposite, EdifactFigures)
  PROVE  EdifactDecode(EdifactEncode(d)) = EdifactLeft(d)
<1> DEFINE x == EdiPart(d)
<1>1. x \in EdifactOrders
  BY EdiPartType, Zenon DEF EdifactOrders
<1>2. EdifactDecode(EdifactEncode(x)) = EdifactCut(x)
  BY <1>1, EdifactCutBack, Zenon
<1>3. EdifactEncode(x) = EdifactEncode(d)
  BY EdifactWritesEdiPart, Zenon
<1>4. EdifactCut(x) = EdifactLeft(d)
  BY Zenon DEF EdifactCut, EdifactLeft
<1> QED
  BY <1>2, <1>3, <1>4

-----------------------------------------------------------------------------
(***************************************************************************)
(* The types of what is written and read, whether it fits or not.          *)
(***************************************************************************)
LEMMA SplitAllType ==
  ASSUME NEW pieces \in Seq(Seq(Tokens)), NEW d
  PROVE  LET segments == NotBlank(pieces)
         IN  [n \in DOMAIN segments |-> Split(segments[n], d)] \in Seq(Listed)
<1> DEFINE A == Seq(Tokens)
           segments == NotBlank(pieces)
           f == [n \in DOMAIN segments |-> Split(segments[n], d)]
           L == Listed
<1>1. segments \in Seq(A)
  BY KeepType DEF NotBlank
<1>2. \A s \in A : Split(s, d) \in L
  BY SplitType DEF Listed
<1> HIDE DEF A, segments, L
<1>3. /\ Len(segments) \in Nat /\ DOMAIN segments = 1..Len(segments)
      /\ \A n \in 1..Len(segments) : segments[n] \in A
  BY <1>1, LenIsNat
<1>4. f \in [1..Len(segments) -> L]
  BY <1>2, <1>3
<1> HIDE DEF f
<1>5. f \in Seq(L)
  BY <1>3, <1>4, TableType, Zenon
<1> QED
  BY <1>5, Zenon DEF f, segments, L

LEMMA SegmentsType ==
  ASSUME NEW w \in Seq(Tokens)
  PROVE  X12Segments(w) \in Seq(Listed) /\ EdifactSegments(w) \in Seq(Listed)
<1> DEFINE T == Tokens
<1>1. X12Segments(w) \in Seq(Listed)
  <2>1. Split(w, "~") \in Seq(Seq(Tokens))
    BY SplitType DEF Lists
  <2> QED
    BY <2>1, SplitAllType, Zenon DEF X12Segments
<1>2. EdifactSegments(w) \in Seq(Listed)
  <2> DEFINE r == CHOOSE f : f = [n \in 0..Len(w) |->
                    n \in 1..(Len(w) - 1) /\ w[n] = "?" /\ ~f[n - 1]]
             ends == {n \in DOMAIN w : w[n] = "'" /\ ~r[n - 1]}
             gaps == {n \in DOMAIN w : r[n] \/ (w[n] = NewLine /\ ~r[n - 1])}
  <2>1. Pieces(w, ends, gaps) \in Seq(Seq(Tokens))
    <3> HIDE DEF ends, gaps
    <3>1. PICK f \in [0..Len(w) -> Lists(Tokens)] : Pieces(w, ends, gaps) = f[Len(w)]
      BY PiecesIs
    <3>2. Len(w) \in 0..Len(w)
      OBVIOUS
    <3> QED
      BY <3>1, <3>2 DEF Lists
  <2> DEFINE pieces == Pieces(w, ends, gaps)
  <2>2. EdifactSegments(w) = LET segments == NotBlank(pieces)
                             IN  [n \in DOMAIN segments |-> Split(segments[n], "+")]
    BY Zenon DEF EdifactSegments
  <2> HIDE DEF pieces
  <2> QED
    BY <2>1, <2>2, SplitAllType, Zenon DEF pieces
<1> QED
  BY <1>1, <1>2

LEMMA TokensSuffice == Sufficient(Tokens, Figure)
<1>1. Literals \subseteq Tokens /\ Dates \subseteq Tokens /\ ":" \in Tokens /\ "+" \in Tokens
  BY DEF Tokens, Delimiting
<1>2. \A n \in Figure \ {"million"} : Numerals[n] \in Seq(Tokens)
  <2>1. Figure \ {"million"} \subseteq Literals
    BY NumeralsAre DEF Figure, Literals
  <2>2. Figure \ {"million"} \subseteq Tokens
    BY <1>1, <2>1
  <2>3. \A n \in Figure \ {"million"} : <<n>> \in Seq(Tokens)
    BY <2>2
  <2> QED
    BY <2>3, NumeralsAre
<1>3. Numerals["million"] \in Seq(Tokens)
  <2>1. "1e" \in Tokens /\ "06" \in Tokens
    BY <1>1 DEF Literals
  <2>2. <<"1e", "+", "06">> \in Seq(Tokens)
    BY <1>1, <2>1
  <2> QED
    BY <2>2, NumeralsAre
<1>4. \A n \in Figure \cup (Figure \ {"million"}) : Numerals[n] \in Seq(Tokens)
  BY <1>2, <1>3
<1> QED
  BY <1>1, <1>4 DEF Sufficient

(* The service string advice is a text.                                    *)
LEMMA UNAType == UNA \in Seq(Tokens)
<1> DEFINE T == Tokens
           una == "UNA"
           colon == ":"
           plus == "+"
           dot == "."
           release == "?"
           space == " "
           end == "'"
<1>1. una \in Literals /\ dot \in Literals /\ space \in Literals
  BY LiteralsAre, Zenon
<1>2. colon \in Delimiting /\ plus \in Delimiting /\ release \in Delimiting
      /\ end \in Delimiting
  BY Zenon DEF Delimiting
<1>3. UNA = <<una, colon, plus, dot, release, space, end>>
  BY Zenon DEF UNA
<1> HIDE DEF una, colon, plus, dot, release, space, end
<1>4. /\ una \in T /\ colon \in T /\ plus \in T /\ dot \in T /\ release \in T
      /\ space \in T /\ end \in T
  BY <1>1, <1>2, Zenon DEF Tokens
<1> HIDE DEF T
<1>5. UNA \in Seq(T)
  BY <1>3, <1>4, TupleType, Zenon
<1> QED
  BY <1>5 DEF T

(* What the encoders make of any order is a text.                          *)
LEMMA WrittenType ==
  ASSUME NEW d \in Orders
  PROVE  X12Encode(d) \in Seq(Tokens) /\ EdifactEncode(d) \in Seq(Tokens)
<1> DEFINE T == Tokens
           S == Tagged(T)
<1>1. S \subseteq Lists(T)
  BY DEF Tagged
<1> DEFINE e == EdiPart(d)
<1>2. X12Elements(e) \in Seq(S) /\ EdifactElements(e) \in Seq(S)
  <2>1. e \in EdiDocument(Tokens, Tokens, Figure)
    BY EdiPartType, Zenon DEF Orders
  <2> QED
    BY <2>1, TokensSuffice, X12ElementsType, EdifactElementsType
<1>20. X12Encode(e) = X12Encode(d) /\ EdifactEncode(e) = EdifactEncode(d)
  BY X12WritesEdiPart, EdifactWritesEdiPart, Zenon DEF Orders
<1> HIDE DEF e
<1>3. "*" \in T /\ "~" \in T /\ "+" \in T /\ "'" \in T
  BY DEF Tokens, Delimiting
<1>4. X12Elements(e) \in Seq(Lists(T)) /\ EdifactElements(e) \in Seq(Lists(T))
  <2> DEFINE L == Lists(T)
             a == X12Elements(e)
             b == EdifactElements(e)
  <2>1. a \in Seq(S) /\ b \in Seq(S) /\ S \subseteq L
    BY <1>1, <1>2
  <2> HIDE DEF S, L, a, b
  <2>2. a \in Seq(L) /\ b \in Seq(L)
    BY <2>1
  <2> QED
    BY <2>2 DEF L, a, b
<1>5. /\ Written(X12Elements(e), "*", "~") \in Seq(T)
      /\ Written(EdifactElements(e), "+", "'") \in Seq(T)
  <2>1. \A A : <<<<>>>> \in Lists(A)
    BY DEF Lists
  <2>2. PICK s : s \in Lists(T)
    BY <2>1, Zenon
  <2>3. ASSUME NEW x \in Seq(Lists(T)), NEW a \in T, NEW z \in T
        PROVE  Written(x, a, z) \in Seq(T)
    BY <2>2, WrittenMore
  <2> QED
    BY <1>3, <1>4, <2>3, Zenon
<1>6. UNA \in Seq(T)
  BY UNAType
<1>7. X12Encode(e) \in Seq(T) /\ EdifactEncode(e) \in Seq(T)
  BY <1>5, <1>6, ConcatType, Zenon DEF X12Encode, EdifactEncode
<1> QED
  BY <1>7, <1>20

-----------------------------------------------------------------------------
(***************************************************************************)
(* Fits is what the round trips ask of an order.                           *)
(***************************************************************************)
LEMMA ClearOf ==
  ASSUME NEW A, NEW B, NEW t \in Seq(A), ToSet(t) \cap B = {}
  PROVE  t \in Seq(A \ B)
<1>1. \A n \in DOMAIN t : t[n] \in A /\ t[n] \notin B
  BY DEF ToSet
<1> DEFINE C == A \ B
<1>2. \A n \in DOMAIN t : t[n] \in C
  BY <1>1
<1> HIDE DEF C
<1>3. t \in Seq(C)
  BY <1>2
<1> QED
  BY <1>3 DEF C

(* An order whose fields are made of these tokens and numbers.             *)
LEMMA DocumentOf ==
  ASSUME NEW P, NEW C, NEW F, NEW d \in Orders,
         d.sender \in Seq(P), d.receiver \in Seq(P), d.number \in Seq(P),
         d.buyer.id \in Seq(C), d.buyer.name \in Seq(P),
         d.seller.id \in Seq(C), d.seller.name \in Seq(P),
         \A n \in DOMAIN d.lines :
           LET l == d.lines[n]
           IN  l.product \in Seq(C) /\ l.uom \in Seq(C) /\ l.qty \in F /\ l.price \in F
  PROVE  d \in Document(P, C, F)
<1> DEFINE A == Seq(Tokens)
           SP == Seq(P)
           SC == Seq(C)
           N == DOMAIN Numerals \ {"million"}
           CU == Seq(Words)
           L == [no : N, product : SC, qty : F, uom : SC, price : F, description : CU]
           D == Day
           lines == d.lines
<1>1. lines \in Seq(Item)
  BY OrdersShape DEF Shape
<1>2. /\ Len(lines) \in Nat /\ DOMAIN lines = 1..Len(lines)
      /\ \A n \in DOMAIN lines : lines[n] \in Item
  <2> HIDE DEF lines
  <2> QED
    BY <1>1, LenIsNat
<1>3. ASSUME NEW n \in DOMAIN lines PROVE lines[n] \in L
  <2> DEFINE l == lines[n]
  <2>1. l \in [no : N, product : A, qty : Figure, uom : A, price : Figure, description : CU]
    BY <1>2, Zenon DEF Item
  <2>2. l.product \in SC /\ l.uom \in SC /\ l.qty \in F /\ l.price \in F
    OBVIOUS
  <2> HIDE DEF l, A, N, SC, CU
  <2>3. l \in [no : N, product : SC, qty : F, uom : SC, price : F, description : CU]
    BY <2>1, <2>2
  <2> QED
    BY <2>3, Zenon DEF l
<1>4. lines \in Seq(L)
  <2> HIDE DEF L
  <2>1. lines \in [1..Len(lines) -> Item]
    <3> HIDE DEF lines
    <3> QED
      BY <1>1
  <2>2. lines \in [1..Len(lines) -> L]
    BY <1>2, <1>3, <2>1
  <2> HIDE DEF lines
  <2> QED
    BY <1>2, <2>2, TableType, Zenon
<1>5. d.sender \in SP /\ d.receiver \in SP /\ d.number \in SP
  OBVIOUS
<1>6. /\ d.buyer.id \in SC /\ d.buyer.name \in SP
      /\ d.seller.id \in SC /\ d.seller.name \in SP
  OBVIOUS
<1>7. d \in [sender : A, receiver : A, number : A, date : D, currency : CU,
             buyer : [id : A, name : A, address : CU],
             seller : [id : A, name : A, address : CU], lines : Seq(Item)]
  BY OrdersShape DEF Shape
<1> DEFINE I == Seq(Item)
           SL == Seq(L)
<1>8. d.lines \in SL
  BY <1>4
<1> HIDE DEF A, SP, SC, D, CU, I, SL, L, lines
<1>9. /\ d.buyer \in [id : SC, name : SP, address : CU]
      /\ d.seller \in [id : SC, name : SP, address : CU]
  BY <1>6, <1>7
<1>10. d \in [sender : SP, receiver : SP, number : SP, date : D, currency : CU,
              buyer : [id : SC, name : SP, address : CU],
              seller : [id : SC, name : SP, address : CU], lines : SL]
  BY <1>5, <1>7, <1>8, <1>9 DEF I
<1> QED
  BY <1>10, Zenon DEF Document, SP, SC, D, Day, CU, SL, L, N

(* An order with the same content and shorter routing is one as well.      *)
SameContent(e, d) ==
  /\ e.number = d.number /\ e.date = d.date /\ e.buyer = d.buyer /\ e.seller = d.seller
  /\ e.lines = d.lines

LEMMA DocumentLike ==
  ASSUME NEW P, NEW C, NEW F, NEW d \in Document(P, C, F), NEW e \in Orders,
         SameContent(e, d), e.sender \in Seq(P), e.receiver \in Seq(P)
  PROVE  e \in Document(P, C, F)
<1>1. /\ d.number \in Seq(P)
      /\ d.buyer.id \in Seq(C) /\ d.buyer.name \in Seq(P)
      /\ d.seller.id \in Seq(C) /\ d.seller.name \in Seq(P)
      /\ \A n \in DOMAIN d.lines :
           LET l == d.lines[n]
           IN  l.product \in Seq(C) /\ l.uom \in Seq(C) /\ l.qty \in F /\ l.price \in F
  BY DocumentFields
<1>2. /\ e.number \in Seq(P)
      /\ e.buyer.id \in Seq(C) /\ e.buyer.name \in Seq(P)
      /\ e.seller.id \in Seq(C) /\ e.seller.name \in Seq(P)
      /\ \A n \in DOMAIN e.lines :
           LET l == e.lines[n]
           IN  l.product \in Seq(C) /\ l.uom \in Seq(C) /\ l.qty \in F /\ l.price \in F
  BY <1>1, Zenon DEF SameContent
<1> QED
  BY <1>2, DocumentOf, Zenon

(* The texts and numbers of an order are among those Fits looks at.        *)
LEMMA TextsAre ==
  ASSUME NEW d \in Orders
  PROVE  /\ {d.buyer.id, d.seller.id} \subseteq Composites(d)
         /\ {d.sender, d.receiver, d.number, d.buyer.name, d.seller.name} \subseteq Texts(d)
         /\ Composites(d) \subseteq Texts(d)
         /\ \A n \in DOMAIN d.lines :
              /\ d.lines[n].product \in Composites(d) /\ d.lines[n].uom \in Composites(d)
              /\ d.lines[n].qty \in Figures(d) /\ d.lines[n].price \in Figures(d)
<1>1. \A n \in DOMAIN d.lines : d.lines[n] \in ToSet(d.lines)
  BY DEF ToSet
<1>2. {d.buyer.id, d.seller.id} \subseteq Composites(d)
  BY Zenon DEF Composites
<1>3. /\ {d.sender, d.receiver, d.number, d.buyer.name, d.seller.name} \subseteq Texts(d)
      /\ Composites(d) \subseteq Texts(d)
  BY Zenon DEF Texts
<1>4. ASSUME NEW n \in DOMAIN d.lines
      PROVE  /\ d.lines[n].product \in Composites(d) /\ d.lines[n].uom \in Composites(d)
             /\ d.lines[n].qty \in Figures(d) /\ d.lines[n].price \in Figures(d)
  <2> DEFINE l == d.lines[n]
             B == {{i.product, i.uom} : i \in ToSet(d.lines)}
             C == {{i.qty, i.price} : i \in ToSet(d.lines)}
  <2>1. l \in ToSet(d.lines)
    BY <1>1
  <2>2. {l.product, l.uom} \in B /\ {l.qty, l.price} \in C
    <3> HIDE DEF l
    <3> QED
      BY <2>1
  <2>3. UNION B \subseteq Composites(d) /\ Figures(d) = UNION C
    BY Zenon DEF Composites, Figures
  <2> HIDE DEF l, B, C
  <2>4. l.product \in UNION B /\ l.uom \in UNION B /\ l.qty \in UNION C /\ l.price \in UNION C
    BY <2>2
  <2> QED
    BY <2>3, <2>4 DEF l
<1> QED
  BY <1>2, <1>3, <1>4

(* The orders a format has room for.                                       *)
Room(f) == CASE f = "x12" -> Document(X12Clean, X12Clean, Figure)
             [] f = "edifact" -> Document(EdifactClean, EdifactComposite, EdifactFigures)
             [] f = "xml" -> Orders

LEMMA FitsIsRoom ==
  ASSUME NEW d \in Orders, NEW f \in Formats, Fits(f, d)
  PROVE  d \in Room(f)
<1> DEFINE A == Seq(Tokens)
<1>1. /\ d.sender \in A /\ d.receiver \in A /\ d.number \in A
      /\ d.buyer.id \in A /\ d.buyer.name \in A /\ d.seller.id \in A /\ d.seller.name \in A
      /\ \A n \in DOMAIN d.lines :
           LET l == d.lines[n]
           IN  l.product \in A /\ l.uom \in A /\ l.qty \in Figure /\ l.price \in Figure
  BY DocumentFields DEF Orders
<1>2. "x12" # "edifact" /\ "x12" # "xml" /\ "edifact" # "xml"
  OBVIOUS
<1>3. CASE f = "x12"
  <2> DEFINE V == X12Clean
             B == {"*", "~"}
  <2>1. Clear(Texts(d), B)
    BY <1>2, <1>3, Zenon DEF Fits
  <2>2. ASSUME NEW t \in Texts(d), t \in A PROVE t \in Seq(V)
    <3>1. ToSet(t) \cap B = {}
      BY <2>1 DEF Clear
    <3>2. V = Tokens \ B
      BY DEF X12Clean
    <3> HIDE DEF V, B
    <3> QED
      BY <2>2, <3>1, <3>2, ClearOf
  <2> HIDE DEF V, A
  <2>3. /\ d.sender \in Seq(V) /\ d.receiver \in Seq(V) /\ d.number \in Seq(V)
        /\ d.buyer.name \in Seq(V) /\ d.seller.name \in Seq(V)
        /\ d.buyer.id \in Seq(V) /\ d.seller.id \in Seq(V)
    BY <1>1, <2>2, TextsAre
  <2>4. \A n \in DOMAIN d.lines :
          LET l == d.lines[n]
          IN  l.product \in Seq(V) /\ l.uom \in Seq(V) /\ l.qty \in Figure /\ l.price \in Figure
    BY <1>1, <2>2, TextsAre
  <2>5. d \in Document(V, V, Figure)
    BY <2>3, <2>4, DocumentOf, Zenon
  <2> QED
    BY <1>2, <1>3, <2>5, Zenon DEF Room, V
<1>4. CASE f = "edifact"
  <2> DEFINE V == EdifactClean
             W == EdifactComposite
             B == {"+", "'", "?", NewLine}
             N == {Numerals[n] : n \in Figures(d)}
  <2>1. Clear(Texts(d), B) /\ Clear(Composites(d), {":"}) /\ Clear(N, {"+"})
    BY <1>2, <1>4, Zenon DEF Fits
  <2>2. ASSUME NEW t \in Texts(d), t \in A PROVE t \in Seq(V)
    <3>1. ToSet(t) \cap B = {}
      BY <2>1 DEF Clear
    <3>2. V = Tokens \ B
      BY DEF EdifactClean
    <3> HIDE DEF V, B
    <3> QED
      BY <2>2, <3>1, <3>2, ClearOf
  <2>3. ASSUME NEW t \in Composites(d), t \in A PROVE t \in Seq(W)
    <3>1. ToSet(t) \cap {":"} = {}
      BY <2>1 DEF Clear
    <3>2. t \in Seq(V)
      BY <2>2, <2>3, TextsAre
    <3>3. W = V \ {":"}
      BY DEF EdifactComposite
    <3> HIDE DEF V, W
    <3> QED
      BY <3>1, <3>2, <3>3, ClearOf
  <2>4. "million" \notin Figures(d)
    <3>1. ASSUME "million" \in Figures(d) PROVE FALSE
      <4>1. Numerals["million"] \in N
        BY <3>1
      <4>2. ToSet(Numerals["million"]) \cap {"+"} = {}
        BY <2>1, <4>1 DEF Clear
      <4>3. ToSet(<<"1e", "+", "06">>) \cap {"+"} # {}
        <5> DEFINE s == <<"1e", "+", "06">>
        <5>1. 2 \in DOMAIN s /\ s[2] = "+"
          OBVIOUS
        <5> HIDE DEF s
        <5>2. ToSet(s) \cap {"+"} # {}
          BY <5>1 DEF ToSet
        <5> QED
          BY <5>2 DEF s
      <4> QED
        BY <4>2, <4>3, NumeralsAre
    <3> QED
      BY <3>1
  <2> HIDE DEF A, V, W, N
  <2>5. /\ d.sender \in Seq(V) /\ d.receiver \in Seq(V) /\ d.number \in Seq(V)
        /\ d.buyer.name \in Seq(V) /\ d.seller.name \in Seq(V)
        /\ d.buyer.id \in Seq(W) /\ d.seller.id \in Seq(W)
    BY <1>1, <2>2, <2>3, TextsAre
  <2>6. \A n \in DOMAIN d.lines :
          LET l == d.lines[n]
          IN  /\ l.product \in Seq(W) /\ l.uom \in Seq(W)
              /\ l.qty \in EdifactFigures /\ l.price \in EdifactFigures
    BY <1>1, <2>3, <2>4, TextsAre DEF EdifactFigures
  <2>7. d \in Document(V, W, EdifactFigures)
    BY <2>5, <2>6, DocumentOf, Zenon
  <2> QED
    BY <1>2, <1>4, <2>7, Zenon DEF Room, V, W
<1>5. CASE f = "xml"
  BY <1>2, <1>5, Zenon DEF Room
<1> QED
  BY <1>3, <1>4, <1>5 DEF Formats

(* What a format leaves of an order it has room for.                       *)
Left(f, d) == CASE f = "x12" -> X12Left(d)
                [] f = "edifact" -> EdifactLeft(d)
                [] f = "xml" -> d

(* The texts of a format.                                                  *)
TextOf(f) == IF f = "xml" THEN {XmlEncode(d) : d \in Orders} ELSE Seq(Tokens)

LEMMA XmlReads ==
  ASSUME NEW d
  PROVE  XmlDecode(XmlEncode(d)) = d
BY DEF XmlDecode, XmlEncode

LEMMA FormatsDiffer ==
  "x12" # "edifact" /\ "x12" # "xml" /\ "edifact" # "xml"
OBVIOUS

(* Any text is read as some order, any order is written as some text.      *)
LEMMA DecodeType ==
  ASSUME NEW f \in Formats, NEW w \in TextOf(f)
  PROVE  Decode(f, w) \in Orders
<1>1. CASE f = "x12"
  <2>1. w \in Seq(Tokens)
    BY <1>1, FormatsDiffer, Zenon DEF TextOf
  <2>2. X12Segments(w) \in Seq(Listed)
    BY <2>1, SegmentsType, Zenon
  <2> QED
    BY <1>1, <2>2, ReadAllType, Zenon DEF Decode, X12Decode
<1>2. CASE f = "edifact"
  <2>1. w \in Seq(Tokens)
    BY <1>2, FormatsDiffer, Zenon DEF TextOf
  <2>2. EdifactSegments(w) \in Seq(Listed)
    BY <2>1, SegmentsType, Zenon
  <2>3. EdifactDecode(w) \in Orders
    BY <2>2, ReadAllType, Zenon DEF EdifactDecode
  <2> QED
    BY <1>2, <2>3, FormatsDiffer, Zenon DEF Decode
<1>3. CASE f = "xml"
  <2>1. PICK d \in Orders : w = XmlEncode(d)
    BY <1>3, Zenon DEF TextOf
  <2>2. XmlDecode(w) \in Orders
    BY <2>1, XmlReads, Zenon
  <2> QED
    BY <1>3, <2>2, FormatsDiffer, Zenon DEF Decode
<1> QED
  BY <1>1, <1>2, <1>3 DEF Formats

LEMMA EncodeIs ==
  /\ \A d : Encode("x12", d) = X12Encode(d) /\ Encode("edifact", d) = EdifactEncode(d)
            /\ Encode("xml", d) = XmlEncode(d)
  /\ \A w : Decode("x12", w) = X12Decode(w) /\ Decode("edifact", w) = EdifactDecode(w)
            /\ Decode("xml", w) = XmlDecode(w)
  /\ \A d : Left("x12", d) = X12Left(d) /\ Left("edifact", d) = EdifactLeft(d)
            /\ Left("xml", d) = d
BY FormatsDiffer, Zenon DEF Encode, Decode, Left

LEMMA EncodeType ==
  ASSUME NEW f \in Formats, NEW d \in Orders
  PROVE  Encode(f, d) \in TextOf(f)
<1>1. f = "x12" \/ f = "edifact" \/ f = "xml"
  BY DEF Formats
<1> QED
  BY <1>1, EncodeIs, FormatsDiffer, WrittenType, Zenon DEF TextOf

(* A format reads back what it wrote, of an order it has room for.         *)
LEMMA RoundTrip ==
  ASSUME NEW f \in Formats, NEW d \in Room(f)
  PROVE  Decode(f, Encode(f, d)) = Left(f, d)
<1>1. CASE f = "x12"
  <2>1. d \in Document(X12Clean, X12Clean, Figure)
    BY <1>1, FormatsDiffer, Zenon DEF Room
  <2>2. X12Decode(X12Encode(d)) = X12Left(d)
    BY <2>1, X12RoundTrip, Zenon
  <2>3. Decode("x12", Encode("x12", d)) = X12Decode(X12Encode(d))
    BY EncodeIs, Zenon
  <2>4. Left("x12", d) = X12Left(d)
    BY EncodeIs, Zenon
  <2> QED
    BY <1>1, <2>2, <2>3, <2>4, Zenon
<1>2. CASE f = "edifact"
  <2>1. d \in Document(EdifactClean, EdifactComposite, EdifactFigures)
    BY <1>2, FormatsDiffer, Zenon DEF Room
  <2>2. EdifactDecode(EdifactEncode(d)) = EdifactLeft(d)
    BY <2>1, EdifactRoundTrip, Zenon
  <2>3. Decode("edifact", Encode("edifact", d)) = EdifactDecode(EdifactEncode(d))
    BY EncodeIs, Zenon
  <2>4. Left("edifact", d) = EdifactLeft(d)
    BY EncodeIs, Zenon
  <2> QED
    BY <1>2, <2>2, <2>3, <2>4, Zenon
<1>3. CASE f = "xml"
  <2>1. Decode("xml", Encode("xml", d)) = XmlDecode(XmlEncode(d))
    BY EncodeIs, Zenon
  <2>2. XmlDecode(XmlEncode(d)) = d
    BY XmlReads
  <2>3. Left("xml", d) = d
    BY EncodeIs, Zenon
  <2> QED
    BY <1>3, <2>1, <2>2, <2>3, Zenon
<1> QED
  BY <1>1, <1>2, <1>3 DEF Formats

(* An order, or no more of it than the EDI formats carry.                  *)
Bare(bare, d) == IF bare THEN EdiPart(d) ELSE d

LEMMA EdiPartOrder ==
  ASSUME NEW d \in Orders
  PROVE  /\ EdiPart(d) \in EdiDocument(Tokens, Tokens, Figure) /\ EdiPart(d) \in Orders
         /\ EdiPart(d).sender = d.sender /\ EdiPart(d).receiver = d.receiver
         /\ \A f \in Formats : d \in Room(f) => EdiPart(d) \in Room(f)
<1>1. ASSUME NEW P, NEW C, NEW F, d \in Document(P, C, F)
      PROVE  EdiPart(d) \in EdiDocument(P, C, F) /\ EdiPart(d) \in Document(P, C, F)
  BY <1>1, EdiPartType, EdiDocuments
<1>2. d \in Document(Tokens, Tokens, Figure)
  BY DEF Orders
<1>3. EdiPart(d) \in EdiDocument(Tokens, Tokens, Figure) /\ EdiPart(d) \in Orders
  BY <1>1, <1>2, Zenon DEF Orders
<1>4. EdiPart(d).sender = d.sender /\ EdiPart(d).receiver = d.receiver
  <2>1. IsEdiPart(EdiPart(d), d)
    BY <1>2, EdiPartFields
  <2> QED
    BY <2>1, Zenon DEF IsEdiPart
<1>5. ASSUME NEW f \in Formats, d \in Room(f) PROVE EdiPart(d) \in Room(f)
  <2>1. f = "x12" \/ f = "edifact" \/ f = "xml"
    BY DEF Formats
  <2> QED
    BY <1>1, <1>3, <1>5, <2>1, FormatsDiffer, Zenon DEF Room
<1> QED
  BY <1>3, <1>4, <1>5

(* Of the same content the EDI formats carry the same, and all of what     *)
(* they carried before.                                                    *)
LEMMA EdiPartSame ==
  ASSUME NEW d \in Orders, NEW e \in Orders, SameContent(e, d)
  PROVE  SameContent(EdiPart(e), EdiPart(d))
<1>1. IsEdiPart(EdiPart(d), d) /\ IsEdiPart(EdiPart(e), e)
  BY EdiPartFields DEF Orders
<1> DEFINE x == EdiPart(d)
           y == EdiPart(e)
<1> HIDE DEF x, y
<1>2. x.number = d.number /\ y.number = e.number /\ e.number = d.number
  BY <1>1, Zenon DEF IsEdiPart, SameContent, x, y
<1>3. x.date = DayOf(d.date) /\ y.date = DayOf(e.date) /\ e.date = d.date
  BY <1>1, Zenon DEF IsEdiPart, SameContent, x, y
<1>4. x.buyer = y.buyer
  BY <1>1, Zenon DEF IsEdiPart, SameContent, x, y
<1>5. x.seller = y.seller
  BY <1>1, Zenon DEF IsEdiPart, SameContent, x, y
<1>6. x.lines = y.lines
  BY <1>1, Zenon DEF IsEdiPart, SameContent, x, y
<1>7. SameContent(y, x)
  BY <1>2, <1>3, <1>4, <1>5, <1>6, Zenon DEF SameContent
<1> QED
  BY <1>7 DEF x, y

LEMMA EdiPartTwice ==
  ASSUME NEW d \in Orders
  PROVE  SameContent(EdiPart(EdiPart(d)), EdiPart(d))
<1> DEFINE g == EdiPart(d)
           none == <<>>
           L == [n \in DOMAIN g.lines |-> [g.lines[n] EXCEPT !.description = none]]
<1>1. g \in EdiDocument(Tokens, Tokens, Figure) /\ g \in Document(Tokens, Tokens, Figure)
  BY EdiPartOrder, Zenon DEF Orders
<1>2. IsEdiPart(EdiPart(g), g)
  BY <1>1, EdiPartFields, Zenon
<1> HIDE DEF g
<1>3. DayOf(g.date) = g.date
  BY <1>1, EdiFields, Zenon
<1>4. /\ [id |-> g.buyer.id, name |-> g.buyer.name, address |-> none] = g.buyer
      /\ [id |-> g.seller.id, name |-> g.seller.name, address |-> none] = g.seller
  BY <1>1, PartyIs, Zenon
<1>5. L = g.lines
  <2> DEFINE A == Seq(Tokens)
             N == DOMAIN Numerals \ {"million"}
             E == [no : N, product : A, qty : Figure, uom : A, price : Figure,
                   description : {none}]
             lines == g.lines
  <2>1. lines \in Seq(E)
    BY <1>1, LinesEntries, Zenon DEF Entry
  <2> HIDE DEF A, N, none
  <2>2. \A i \in E : [i EXCEPT !.description = none] = i
    OBVIOUS
  <2> HIDE DEF E, lines
  <2>3. \A n \in DOMAIN lines : lines[n] \in E
    BY <2>1
  <2>4. lines = [n \in DOMAIN lines |-> lines[n]]
    BY <2>1
  <2>5. \A n \in DOMAIN lines : [lines[n] EXCEPT !.description = none] = lines[n]
    BY <2>2, <2>3, Zenon
  <2>6. [n \in DOMAIN lines |-> [lines[n] EXCEPT !.description = none]] = lines
    BY <2>4, <2>5
  <2> QED
    BY <2>6, Zenon DEF lines
<1> QED
  BY <1>2, <1>3, <1>4, <1>5, Zenon DEF IsEdiPart, SameContent, g, none

LEMMA BareMore ==
  ASSUME NEW d \in Orders, NEW e \in Orders, NEW bare \in BOOLEAN, NEW more \in BOOLEAN,
         SameContent(e, Bare(bare, d))
  PROVE  SameContent(Bare(more, e), Bare(more \/ bare, d))
<1>1. CASE ~more
  BY <1>1, Zenon DEF Bare
<1>2. CASE more
  <2>1. Bare(bare, d) \in Orders
    BY EdiPartOrder, Zenon DEF Bare
  <2>2. SameContent(EdiPart(e), EdiPart(Bare(bare, d)))
    BY <2>1, EdiPartSame, Zenon
  <2>3. SameContent(EdiPart(Bare(bare, d)), EdiPart(d))
    BY EdiPartTwice, Zenon DEF Bare, SameContent
  <2>4. SameContent(EdiPart(e), EdiPart(d))
    BY <2>2, <2>3, Zenon DEF SameContent
  <2> QED
    BY <1>2, <2>4, Zenon DEF Bare
<1> QED
  BY <1>1, <1>2

(* What a format leaves: the content, in X12 and EDIFACT no more than they *)
(* carry, and the routing, cut in X12.                                     *)
Routed(cut, e, d) ==
  /\ e.sender = IF cut THEN Pad(d.sender) ELSE d.sender
  /\ e.receiver = IF cut THEN Pad(d.receiver) ELSE d.receiver

LEMMA LeftKeeps ==
  ASSUME NEW f \in Formats, NEW d \in Orders
  PROVE  SameContent(Left(f, d), Bare(f # "xml", d)) /\ Routed(f = "x12", Left(f, d), d)
<1> DEFINE x == EdiPart(d)
<1>0. x \in Shape /\ x.sender = d.sender /\ x.receiver = d.receiver
  BY EdiPartOrder, OrdersShape, Zenon
<1>1. /\ SameContent(X12Left(d), x)
      /\ X12Left(d).sender = Pad(d.sender) /\ X12Left(d).receiver = Pad(d.receiver)
  <2>1. X12Left(d) = [x EXCEPT !.currency = <<>>, !.sender = Pad(d.sender),
                               !.receiver = Pad(d.receiver)]
    BY Zenon DEF X12Left
  <2> HIDE DEF x
  <2> QED
    BY <1>0, <2>1 DEF Shape, SameContent
<1>2. /\ SameContent(EdifactLeft(d), x)
      /\ EdifactLeft(d).sender = d.sender /\ EdifactLeft(d).receiver = d.receiver
  <2>1. EdifactLeft(d) = [x EXCEPT !.currency = <<>>]
    BY Zenon DEF EdifactLeft
  <2> HIDE DEF x
  <2> QED
    BY <1>0, <2>1 DEF Shape, SameContent
<1> HIDE DEF x
<1>3. CASE f = "x12"
  BY <1>1, <1>3, EncodeIs, FormatsDiffer, Zenon DEF Routed, Bare, x
<1>4. CASE f = "edifact"
  BY <1>2, <1>4, EncodeIs, FormatsDiffer, Zenon DEF Routed, Bare, x
<1>5. CASE f = "xml"
  BY <1>5, EncodeIs, FormatsDiffer, Zenon DEF Routed, SameContent, Bare
<1> QED
  BY <1>3, <1>4, <1>5 DEF Formats

(* Where there is room for an order there is room for the same content     *)
(* with the routing cut.                                                   *)
LEMMA RoomLike ==
  ASSUME NEW f \in Formats, NEW d \in Room(f), NEW e \in Orders, NEW cut \in BOOLEAN,
         SameContent(e, d), Routed(cut, e, d)
  PROVE  e \in Room(f)
<1>1. ASSUME NEW P, NEW C, NEW F, d \in Document(P, C, F)
      PROVE  e \in Document(P, C, F)
  <2>1. d.sender \in Seq(P) /\ d.receiver \in Seq(P)
    BY <1>1, DocumentFields
  <2>2. Pad(d.sender) \in Seq(P) /\ Pad(d.receiver) \in Seq(P)
    BY <2>1, PadType
  <2>3. e.sender \in Seq(P) /\ e.receiver \in Seq(P)
    BY <2>1, <2>2, Zenon DEF Routed
  <2> QED
    BY <1>1, <2>3, DocumentLike, Zenon
<1>2. CASE f = "x12"
  BY <1>1, <1>2, FormatsDiffer, Zenon DEF Room
<1>3. CASE f = "edifact"
  BY <1>1, <1>3, FormatsDiffer, Zenon DEF Room
<1>4. CASE f = "xml"
  BY <1>4, FormatsDiffer, Zenon DEF Room
<1> QED
  BY <1>2, <1>3, <1>4 DEF Formats

(* And with no more of the content than the EDI formats carry.             *)
LEMMA RoomBare ==
  ASSUME NEW f \in Formats, NEW d \in Orders, d \in Room(f), NEW e \in Orders,
         NEW bare \in BOOLEAN, NEW cut \in BOOLEAN,
         SameContent(e, Bare(bare, d)), Routed(cut, e, d)
  PROVE  e \in Room(f)
<1>1. Bare(bare, d) \in Room(f)
  BY EdiPartOrder, Zenon DEF Bare
<1>2. Routed(cut, e, Bare(bare, d))
  BY EdiPartOrder, Zenon DEF Bare, Routed
<1> QED
  BY <1>1, <1>2, RoomLike, Zenon

-----------------------------------------------------------------------------
(***************************************************************************)
(* The invariant of a chain: while everything fitted, the text at hand     *)
(* reads as the order the chain began with, no more of it than they carry  *)
(* if X12 or EDIFACT was on the way, its routing cut if X12 was.           *)
(***************************************************************************)
ChainTypes ==
  /\ format \in Formats
  /\ original \in Orders
  /\ wire \in TextOf(format)
  /\ through \subseteq Formats

OnlyXml == through \subseteq {"xml"}

Kept ==
  LET current == Decode(format, wire)
  IN  /\ SameContent(current, Bare(~OnlyXml, original))
      /\ Routed("x12" \in through, current, original)

ChainInv == ChainTypes /\ (AllFit => Kept)

LEMMA AllFitMore ==
  ASSUME NEW f \in Formats, original' = original, through' = through \cup {f}, AllFit'
  PROVE  AllFit /\ Fits(f, original)
<1>1. \A g \in through \cup {f} : Fits(g, original)
  <2>1. AllFit' = (\A g \in through' : Fits(g, original'))
    BY DEF AllFit
  <2> QED
    BY <2>1, Zenon
<1> QED
  BY <1>1, Zenon DEF AllFit

LEMMA ChainInit == Init => ChainInv
<1> SUFFICES ASSUME Init PROVE ChainInv
  OBVIOUS
<1>1. CASE /\ original \in Documents
           /\ format \in Formats
           /\ wire = Encode(format, original)
           /\ through = {format}
  <2>1. original \in Document(Words, Words, Figure)
    BY <1>1, DocumentAssumption, Zenon DEF Figure
  <2>2. original \in Orders
    <3>1. Words \subseteq Tokens /\ Figure \subseteq Figure
      BY DEF Tokens
    <3> QED
      BY <2>1, <3>1, OrdersGrow, Zenon
  <2>3. ChainTypes
    <3>1. wire \in TextOf(format)
      BY <1>1, <2>2, EncodeType, Zenon
    <3> QED
      BY <1>1, <2>2, <3>1, Zenon DEF ChainTypes
  <2>4. ASSUME AllFit PROVE Kept
    <3>1. Fits(format, original)
      BY <1>1, <2>4, Zenon DEF AllFit
    <3>2. original \in Room(format)
      BY <1>1, <2>2, <3>1, FitsIsRoom, Zenon
    <3>3. Decode(format, wire) = Left(format, original)
      BY <1>1, <3>2, RoundTrip, Zenon
    <3>4. /\ SameContent(Left(format, original), Bare(format # "xml", original))
          /\ Routed(format = "x12", Left(format, original), original)
      BY <1>1, <2>2, LeftKeeps, Zenon
    <3>5. /\ ("x12" \in through) = (format = "x12")
          /\ (~OnlyXml) = (format # "xml")
      BY <1>1 DEF OnlyXml
    <3> QED
      BY <3>3, <3>4, <3>5, Zenon DEF Kept
  <2> QED
    BY <2>3, <2>4 DEF ChainInv
<1>2. CASE /\ \E s \in Samples : format = s.format /\ wire = s.wire
           /\ original = Decode(format, wire)
           /\ through = {}
  <2>1. format \in {"x12", "edifact"} /\ wire \in Seq(Words)
    BY <1>2, SampleAssumption, Zenon
  <2>2. format \in Formats /\ format # "xml"
    BY <2>1 DEF Formats
  <2>3. wire \in Seq(Tokens)
    <3>1. Words \subseteq Tokens
      BY DEF Tokens
    <3> HIDE DEF Tokens
    <3> QED
      BY <2>1, <3>1
  <2>4. wire \in TextOf(format)
    BY <2>2, <2>3, Zenon DEF TextOf
  <2>5. original \in Orders
    BY <1>2, <2>2, <2>4, DecodeType, Zenon
  <2>6. through \subseteq Formats /\ ~("x12" \in through) /\ OnlyXml
    BY <1>2 DEF OnlyXml
  <2>7. Kept
    BY <1>2, <2>6, Zenon DEF Kept, SameContent, Routed, Bare
  <2> QED
    BY <2>2, <2>4, <2>5, <2>6, <2>7, Zenon DEF ChainInv, ChainTypes
<1> QED
  BY <1>1, <1>2, Zenon DEF Init

LEMMA ChainStep == ChainInv /\ [Next]_codecVars => ChainInv'
<1> SUFFICES ASSUME ChainInv, [Next]_codecVars PROVE ChainInv'
  OBVIOUS
<1> DEFINE current == Decode(format, wire)
           cut == "x12" \in through
           bare == ~OnlyXml
<1>1. ChainTypes
  BY DEF ChainInv
<1>2. current \in Orders
  BY <1>1, DecodeType, Zenon DEF ChainTypes
<1>3. ASSUME NEW target \in Formats, Transform(target)
      PROVE  ChainInv'
  <2>1. /\ wire' = Encode(target, current) /\ format' = target
        /\ through' = through \cup {target} /\ original' = original
    BY <1>3, Zenon DEF Transform
  <2>2. ChainTypes'
    <3>1. wire' \in TextOf(format')
      BY <1>2, <2>1, EncodeType, Zenon
    <3>2. through' \subseteq Formats
      BY <1>1, <2>1, Zenon DEF ChainTypes
    <3>3. format' \in Formats /\ original' \in Orders
      BY <1>1, <2>1, Zenon DEF ChainTypes
    <3>4. (TextOf(format))' = TextOf(format')
      BY DEF TextOf
    <3> QED
      BY <3>1, <3>2, <3>3, <3>4, Zenon DEF ChainTypes
  <2>3. ASSUME AllFit' PROVE Kept'
    <3>1. AllFit /\ Fits(target, original)
      BY <2>1, <2>3, AllFitMore, Zenon
    <3>2. SameContent(current, Bare(bare, original)) /\ Routed(cut, current, original)
      BY <3>1, Zenon DEF ChainInv, Kept
    <3>3. original \in Orders
      BY <1>1, Zenon DEF ChainTypes
    <3>4. original \in Room(target)
      BY <3>1, <3>3, FitsIsRoom, Zenon
    <3>5. cut \in BOOLEAN /\ bare \in BOOLEAN
      BY DEF OnlyXml
    <3> DEFINE after == Left(target, current)
               hence == Decode(target, Encode(target, current))
    <3> HIDE DEF current, cut, bare
    <3>6. current \in Room(target)
      BY <1>2, <3>2, <3>3, <3>4, <3>5, RoomBare, Zenon
    <3>7. hence = after
      BY <3>6, RoundTrip, Zenon
    <3> DEFINE more == target # "xml"
    <3>8. SameContent(after, Bare(more, current)) /\ Routed(target = "x12", after, current)
      BY <1>2, LeftKeeps, Zenon
    <3> HIDE DEF after
    <3>9. SameContent(after, Bare(more \/ bare, original))
      <4>1. more \in BOOLEAN
        OBVIOUS
      <4> HIDE DEF more
      <4>2. SameContent(Bare(more, current), Bare(more \/ bare, original))
        BY <1>2, <3>2, <3>3, <3>5, <4>1, BareMore, Zenon
      <4> QED
        BY <3>8, <4>2, Zenon DEF SameContent
    <3>10. /\ Pad(Pad(original.sender)) = Pad(original.sender)
           /\ Pad(Pad(original.receiver)) = Pad(original.receiver)
      <4>1. original.sender \in Seq(Tokens) /\ original.receiver \in Seq(Tokens)
        BY <3>3, DocumentFields DEF Orders
      <4> QED
        BY <4>1, PadType
    <3>11. Routed(cut \/ target = "x12", after, original)
      <4>1. CASE cut
        BY <3>2, <3>8, <3>10, <4>1, Zenon DEF Routed
      <4>2. CASE ~cut
        BY <3>2, <3>8, <4>2, Zenon DEF Routed
      <4> QED
        BY <4>1, <4>2, Zenon
    <3>12. /\ ("x12" \in through') = (cut \/ target = "x12")
           /\ (~OnlyXml') = (more \/ bare)
      BY <2>1 DEF cut, bare, OnlyXml
    <3>13. Decode(format', wire') = after
      BY <2>1, <3>7, Zenon
    <3>14. Kept' = /\ SameContent(Decode(format', wire'), Bare(~OnlyXml', original'))
                   /\ Routed("x12" \in through', Decode(format', wire'), original')
      BY DEF Kept, SameContent, Routed, Decode, X12Decode, EdifactDecode, Bare, EdiPart
    <3> QED
      BY <2>1, <3>9, <3>11, <3>12, <3>13, <3>14, Zenon
  <2> QED
    BY <2>2, <2>3, Zenon DEF ChainInv
<1>4. CASE UNCHANGED codecVars
  <2>1. original' = original /\ format' = format /\ wire' = wire /\ through' = through
    BY <1>4 DEF codecVars
  <2> QED
    BY <2>1 DEF ChainInv, ChainTypes, Kept, AllFit, OnlyXml
<1> QED
  BY <1>3, <1>4, Zenon DEF Next

(* A chain of transformations stays within its types, and where everything *)
(* fitted the text at hand reads as what the chain began with              *)
(* (engine.go:57-92).                                                      *)
THEOREM ChainHolds == Spec => []ChainInv
<1>1. Init => ChainInv
  BY ChainInit
<1>2. ChainInv /\ [Next]_codecVars => ChainInv'
  BY ChainStep
<1> QED
  BY <1>1, <1>2, PTL DEF Spec

(* An order keeps its number, date, parties and line items over every      *)
(* chain of transformations, through formats that have room for it: all of *)
(* them through XML, and through X12 and EDIFACT all but the time of day,  *)
(* the addresses and the descriptions (codec/x12.go, codec/edifact.go,     *)
(* codec/xml.go).                                                          *)
THEOREM ContentHolds == Spec => []ContentSurvives
<1>1. ChainInv => ContentSurvives
  <2> SUFFICES ASSUME ChainInv, AllFit
               PROVE  LET current == Decode(format, wire)
                          kept == IF through \subseteq {"xml"} THEN original
                                  ELSE EdiPart(original)
                      IN  \A f \in {"number", "date", "buyer", "seller", "lines"} :
                            current[f] = kept[f]
    BY Zenon DEF ContentSurvives
  <2> DEFINE current == Decode(format, wire)
             kept == IF through \subseteq {"xml"} THEN original ELSE EdiPart(original)
  <2>1. SameContent(current, kept)
    BY Zenon DEF ChainInv, Kept, Bare, OnlyXml
  <2> HIDE DEF current, kept
  <2>2. \A f \in {"number", "date", "buyer", "seller", "lines"} : current[f] = kept[f]
    BY <2>1 DEF SameContent
  <2> QED
    BY <2>2, Zenon DEF current, kept
<1> QED
  BY <1>1, ChainHolds, PTL

(* And its sender and receiver, but for what X12 cuts of them, once and    *)
(* for good (codec/x12.go:140-141, 239-245).                               *)
THEOREM RoutingHolds == Spec => []RoutingSurvives
<1>1. ChainInv => RoutingSurvives
  <2> SUFFICES ASSUME ChainInv, AllFit PROVE RoutingSurvives
    BY Zenon DEF RoutingSurvives
  <2> DEFINE current == Decode(format, wire)
             cut == "x12" \in through
             Fitted(t) == SubSeq(t, 1, Min({ISAWidth, Len(t)}))
  <2>1. Routed(cut, current, original)
    BY Zenon DEF ChainInv, Kept
  <2>2. original.sender \in Seq(Tokens) /\ original.receiver \in Seq(Tokens)
    BY DocumentFields DEF ChainInv, ChainTypes, Orders
  <2>3. /\ Pad(original.sender) = Fitted(original.sender)
        /\ Pad(original.receiver) = Fitted(original.receiver)
    BY <2>2, PadType
  <2>4. ASSUME NEW f \in {"sender", "receiver"}
        PROVE  current[f] = IF cut THEN Fitted(original[f]) ELSE original[f]
    <3> HIDE DEF current, cut, Fitted
    <3>1. CASE f = "sender"
      BY <2>1, <2>3, <3>1, Zenon DEF Routed
    <3>2. CASE f = "receiver"
      BY <2>1, <2>3, <3>2, Zenon DEF Routed
    <3> QED
      BY <3>1, <3>2
  <2> QED
    BY <2>4, Zenon DEF RoutingSurvives
<1> QED
  BY <1>1, ChainHolds, PTL

-----------------------------------------------------------------------------
(***************************************************************************)
(* What is written is valid, and counts its segments.                      *)
(***************************************************************************)
(* A segment with this tag.                                                *)
Among(segments, tag) == \E n \in DOMAIN segments : segments[n][1] = <<tag>>

LEMMA AmongMore ==
  ASSUME NEW S, NEW x \in Seq(S), NEW y \in Seq(S), NEW tag
  PROVE  /\ Among(x, tag) => Among(x \o y, tag)
         /\ Among(y, tag) => Among(x \o y, tag)
<1>1. /\ Len(x) \in Nat /\ DOMAIN x = 1..Len(x)
      /\ Len(y) \in Nat /\ DOMAIN y = 1..Len(y)
      /\ DOMAIN (x \o y) = 1..(Len(x) + Len(y))
      /\ \A n \in 1..Len(x) : (x \o y)[n] = x[n]
      /\ \A n \in 1..Len(y) : (x \o y)[Len(x) + n] = y[n]
  OBVIOUS
<1>2. ASSUME Among(x, tag) PROVE Among(x \o y, tag)
  <2>1. PICK n \in DOMAIN x : x[n][1] = <<tag>>
    BY <1>2, Zenon DEF Among
  <2>2. n \in DOMAIN (x \o y) /\ (x \o y)[n] = x[n]
    BY <1>1
  <2> QED
    BY <2>1, <2>2, Zenon DEF Among
<1>3. ASSUME Among(y, tag) PROVE Among(x \o y, tag)
  <2>1. PICK n \in DOMAIN y : y[n][1] = <<tag>>
    BY <1>3, Zenon DEF Among
  <2>2. Len(x) + n \in DOMAIN (x \o y) /\ (x \o y)[Len(x) + n] = y[n]
    BY <1>1
  <2> QED
    BY <2>1, <2>2, Zenon DEF Among
<1> QED
  BY <1>2, <1>3

(* The segments of an X12 order begin with ISA, those of an EDIFACT order  *)
(* with UNB, and the ones validation looks for are among them.             *)
LEMMA X12Tags ==
  ASSUME NEW d \in EdiDocument(Tokens, Tokens, Figure)
  PROVE  /\ \A tag \in {"GS", "ST", "SE", "GE", "IEA"} : Among(X12Elements(d), tag)
         /\ X12Elements(d) # <<>> /\ X12Elements(d)[1][1] = <<"ISA">>
<1> DEFINE S == Tagged(Tokens)
           a == X12Head(d)
           b == X12Party("BY", d.buyer)
           c == X12Party("SE", d.seller)
           l == X12Lines(d.lines)
           t == X12Trailer(d)
<1>1. /\ a \in Seq(S) /\ b \in Seq(S) /\ c \in Seq(S) /\ l \in Seq(S) /\ t \in Seq(S)
      /\ X12Elements(d) = a \o b \o c \o l \o t
  BY TokensSuffice, X12ElementsType, X12Elements_Parts
<1>2. Among(a, "GS") /\ Among(a, "ST") /\ a # <<>> /\ a[1][1] = <<"ISA">>
  <2>1. /\ DOMAIN a = 1..4 /\ a[1][1] = <<"ISA">> /\ a[2][1] = <<"GS">> /\ a[3][1] = <<"ST">>
    BY DEF X12Head
  <2> HIDE DEF a
  <2>2. 1 \in 1..4 /\ 2 \in 1..4 /\ 3 \in 1..4 /\ DOMAIN <<>> # 1..4
    OBVIOUS
  <2> QED
    BY <2>1, <2>2, Zenon DEF Among
<1>3. Among(t, "SE") /\ Among(t, "GE") /\ Among(t, "IEA")
  <2>1. /\ DOMAIN t = 1..3 /\ t[1][1] = <<"SE">> /\ t[2][1] = <<"GE">> /\ t[3][1] = <<"IEA">>
    BY DEF X12Trailer
  <2> HIDE DEF t
  <2>2. 1 \in 1..3 /\ 2 \in 1..3 /\ 3 \in 1..3
    OBVIOUS
  <2> QED
    BY <2>1, <2>2, Zenon DEF Among
<1> DEFINE ab == a \o b
           abc == ab \o c
           abcl == abc \o l
           x == abcl \o t
<1>4. ab \in Seq(S) /\ abc \in Seq(S) /\ abcl \in Seq(S)
  BY <1>1, ConcatType, Zenon
<1> HIDE DEF S, a, b, c, l, t
<1>5. /\ \A tag : Among(a, tag) => Among(ab, tag)
      /\ \A tag : Among(ab, tag) => Among(abc, tag)
      /\ \A tag : Among(abc, tag) => Among(abcl, tag)
      /\ \A tag : Among(abcl, tag) \/ Among(t, tag) => Among(x, tag)
  BY <1>1, <1>4, AmongMore, Zenon
<1>6. x # <<>> /\ x[1] = a[1]
  <2>1. ab # <<>> /\ ab[1] = a[1]
    BY <1>1, <1>2
  <2> HIDE DEF ab
  <2>2. abc # <<>> /\ abc[1] = ab[1]
    BY <1>1, <1>4, <2>1
  <2> HIDE DEF abc
  <2>3. abcl # <<>> /\ abcl[1] = abc[1]
    BY <1>1, <1>4, <2>2
  <2> HIDE DEF abcl
  <2>4. x # <<>> /\ x[1] = abcl[1]
    BY <1>1, <1>4, <2>3
  <2> QED
    BY <2>1, <2>2, <2>3, <2>4
<1>7. X12Elements(d) = x
  BY <1>1
<1> HIDE DEF ab, abc, abcl, x
<1>8. Among(x, "GS") /\ Among(x, "ST") /\ Among(x, "SE") /\ Among(x, "GE") /\ Among(x, "IEA")
  BY <1>2, <1>3, <1>5, Zenon
<1> QED
  BY <1>2, <1>6, <1>7, <1>8

LEMMA EdifactTags ==
  ASSUME NEW d \in EdiDocument(Tokens, Tokens, Figure)
  PROVE  Among(EdifactElements(d), "UNB") /\ Among(EdifactElements(d), "UNZ")
<1> DEFINE S == Tagged(Tokens)
           a == EdifactHead(d)
           h == EdifactDate(d)
           b == EdifactParty("BY", d.buyer)
           c == EdifactParty("SE", d.seller)
           l == EdifactLines(d.lines)
           t == EdifactTrailer(d)
<1>1. /\ a \in Seq(S) /\ h \in Seq(S) /\ b \in Seq(S) /\ c \in Seq(S) /\ l \in Seq(S)
      /\ t \in Seq(S)
      /\ EdifactElements(d) = a \o h \o b \o c \o l \o t
  BY TokensSuffice, EdifactElementsType, EdifactElements_Parts
<1>2. Among(a, "UNB")
  <2>1. DOMAIN a = 1..3 /\ a[1][1] = <<"UNB">> /\ 1 \in 1..3
    BY DEF EdifactHead
  <2> HIDE DEF a
  <2> QED
    BY <2>1, Zenon DEF Among
<1>3. Among(t, "UNZ")
  <2>1. DOMAIN t = 1..2 /\ t[2][1] = <<"UNZ">> /\ 2 \in 1..2
    BY DEF EdifactTrailer
  <2> HIDE DEF t
  <2> QED
    BY <2>1, Zenon DEF Among
<1> DEFINE ah == a \o h
           ahb == ah \o b
           ahbc == ahb \o c
           all == ahbc \o l
<1>4. ah \in Seq(S) /\ ahb \in Seq(S) /\ ahbc \in Seq(S) /\ all \in Seq(S)
  BY <1>1, ConcatType, Zenon
<1> HIDE DEF S, a, h, b, c, l, t
<1>5. /\ \A tag : Among(a, tag) => Among(ah, tag)
      /\ \A tag : Among(ah, tag) => Among(ahb, tag)
      /\ \A tag : Among(ahb, tag) => Among(ahbc, tag)
      /\ \A tag : Among(ahbc, tag) => Among(all, tag)
      /\ \A tag : Among(all, tag) \/ Among(t, tag) => Among(all \o t, tag)
  BY <1>1, <1>4, AmongMore, Zenon
<1> QED
  BY <1>1, <1>2, <1>3, <1>5, Zenon

LEMMA WrittenValid ==
  ASSUME NEW f \in Formats, NEW d \in Orders
  PROVE  Valid(f, Encode(f, d))
<1> DEFINE e == EdiPart(d)
<1>0. /\ e \in EdiDocument(Tokens, Tokens, Figure)
      /\ X12Encode(e) = X12Encode(d) /\ EdifactEncode(e) = EdifactEncode(d)
  BY EdiPartOrder, X12WritesEdiPart, EdifactWritesEdiPart, Zenon DEF Orders
<1> HIDE DEF e
<1> DEFINE S == Tagged(Tokens)
           x == X12Elements(e)
           y == EdifactElements(e)
           v == Written(x, "*", "~")
           w == Written(y, "+", "'")
<1>1. x \in Seq(S) /\ y \in Seq(S)
  BY <1>0, TokensSuffice, X12ElementsType, EdifactElementsType
<1>2. "*" \in Tokens /\ "~" \in Tokens /\ "+" \in Tokens /\ "'" \in Tokens
  BY DEF Tokens, Delimiting
<1>3. TagsIn(v, x) /\ TagsIn(w, y)
  BY <1>1, <1>2, WrittenTags, Zenon DEF Tagged
<1>4. ASSUME NEW u, NEW segments, TagsIn(u, segments), NEW tag, Among(segments, tag)
      PROVE  Holds(u, tag)
  <2>1. PICK n \in DOMAIN segments : segments[n][1] = <<tag>>
    BY <1>4, Zenon DEF Among
  <2>2. PICK k \in DOMAIN u : u[k] = segments[n][1][1]
    BY <1>4, Zenon DEF TagsIn
  <2>3. <<tag>>[1] = tag
    OBVIOUS
  <2>4. u[k] = tag
    BY <2>1, <2>2, <2>3, Zenon
  <2> QED
    BY <2>4, Zenon DEF Holds
<1> HIDE DEF S, v, w
<1>5. CASE f = "x12"
  <2>1. /\ \A tag \in {"GS", "ST", "SE", "GE", "IEA"} : Among(x, tag)
        /\ x # <<>> /\ x[1][1] = <<"ISA">>
    BY <1>0, X12Tags, Zenon
  <2> HIDE DEF x
  <2>2. \A tag \in {"GS", "ST", "SE", "GE", "IEA"} : Holds(v, tag)
    BY <1>3, <1>4, <2>1, Zenon
  <2>3. v # <<>> /\ v[1] = x[1][1][1]
    BY <1>3, <2>1, Zenon DEF TagsIn
  <2>4. x[1][1][1] = "ISA"
    BY <2>1
  <2>5. X12Valid(v)
    BY <2>2, <2>3, <2>4 DEF X12Valid, StartsWith
  <2>6. Encode("x12", d) = v
    BY <1>0, EncodeIs, Zenon DEF X12Encode, v, x
  <2>7. "x12" \in {"x12", "edi"}
    OBVIOUS
  <2> QED
    BY <1>5, <2>5, <2>6, <2>7, Zenon DEF Valid
<1>6. CASE f = "edifact"
  <2> DEFINE u == UNA \o w
  <2>1. Among(y, "UNB") /\ Among(y, "UNZ")
    BY <1>0, EdifactTags
  <2>2. Holds(w, "UNB") /\ Holds(w, "UNZ")
    BY <1>3, <1>4, <2>1, Zenon
  <2>3. UNA \in Seq(Tokens) /\ w \in Seq(Tokens) /\ UNA # <<>> /\ UNA[1] = "UNA"
    <3>1. w \in Seq(Tokens)
      <4>1. y \in Seq(Lists(Tokens))
        <5>1. S \subseteq Lists(Tokens)
          BY DEF S, Tagged
        <5> DEFINE L == Lists(Tokens)
        <5> HIDE DEF y, L
        <5>2. y \in Seq(L)
          BY <1>1, <5>1 DEF L
        <5> QED
          BY <5>2 DEF L
      <4>2. PICK s : s \in Lists(Tokens)
        <5>1. <<<<>>>> \in Lists(Tokens)
          BY DEF Lists
        <5> QED
          BY <5>1
      <4> HIDE DEF y
      <4> QED
        BY <1>2, <4>1, <4>2, WrittenMore DEF w
    <3>2. UNA \in Seq(Tokens)
      BY UNAType
    <3>3. UNA # <<>> /\ UNA[1] = "UNA"
      BY DEF UNA
    <3> QED
      BY <3>1, <3>2, <3>3
  <2>4. ASSUME NEW tag, Holds(w, tag) PROVE Holds(u, tag)
    <3>1. PICK k \in DOMAIN w : w[k] = tag \/ <<w[k], tag>> \in Within
      BY <2>4, Zenon DEF Holds
    <3> DEFINE una == UNA
               i == Len(una) + k
    <3> HIDE DEF una
    <3>2. i \in DOMAIN (una \o w) /\ (una \o w)[i] = w[k]
      BY <2>3 DEF una
    <3> QED
      BY <3>1, <3>2, Zenon DEF Holds, una
  <2>5. u # <<>> /\ u[1] = "UNA"
    BY <2>3
  <2> HIDE DEF u
  <2>6. EdifactValid(u)
    BY <2>2, <2>4, <2>5 DEF EdifactValid, StartsWith
  <2>7. Encode("edifact", d) = u
    BY <1>0, EncodeIs, Zenon DEF EdifactEncode, u, w, y
  <2>8. "edifact" \in {"edifact", "un"} /\ "edifact" \notin {"x12", "edi"}
    OBVIOUS
  <2> QED
    BY <1>6, <2>6, <2>7, <2>8, Zenon DEF Valid
<1>7. CASE f = "xml"
  <2>1. XmlValid(XmlEncode(d))
    BY DEF XmlValid, XmlEncode
  <2>2. Encode("xml", d) = XmlEncode(d)
    BY EncodeIs, Zenon
  <2>3. "xml" \notin {"edifact", "un"} /\ "xml" \notin {"x12", "edi"}
    OBVIOUS
  <2> QED
    BY <1>7, <2>1, <2>2, <2>3, Zenon DEF Valid
<1> QED
  BY <1>5, <1>6, <1>7 DEF Formats

(* The only segment with this tag is number n.                             *)
At(segments, tag, n) ==
  /\ n \in DOMAIN segments
  /\ segments[n][1] = <<tag>>
  /\ \A k \in DOMAIN segments : segments[k][1] = <<tag>> => k = n

LEMMA AtIsPosition ==
  ASSUME NEW x, NEW tag, NEW n, At(x, tag, n)
  PROVE  (CHOOSE k \in DOMAIN x : x[k][1] = <<tag>>) = n
BY Zenon DEF At

LEMMA AtMore ==
  ASSUME NEW S, NEW x \in Seq(S), NEW y \in Seq(S), NEW tag
  PROVE  /\ \A n : At(x, tag, n) /\ ~Among(y, tag) => At(x \o y, tag, n)
         /\ \A n : ~Among(x, tag) /\ At(y, tag, n) => At(x \o y, tag, Len(x) + n)
         /\ ~Among(x, tag) /\ ~Among(y, tag) => ~Among(x \o y, tag)
<1> DEFINE z == x \o y
           i == Len(x)
           j == Len(y)
<1>1. /\ i \in Nat /\ DOMAIN x = 1..i /\ j \in Nat /\ DOMAIN y = 1..j /\ DOMAIN z = 1..(i + j)
      /\ \A n \in 1..i : z[n] = x[n] /\ n \in 1..(i + j)
      /\ \A n \in 1..j : z[i + n] = y[n] /\ i + n \in 1..(i + j)
  OBVIOUS
<1> HIDE DEF z, i, j
<1>2. ASSUME NEW k \in DOMAIN z
      PROVE  k \in DOMAIN x \/ \E n \in DOMAIN y : k = i + n
  <2>1. k \in 1..i \/ (k - i \in 1..j /\ k = i + (k - i))
    BY <1>1
  <2> QED
    BY <1>1, <2>1
<1>3. ASSUME NEW n, At(x, tag, n), ~Among(y, tag) PROVE At(z, tag, n)
  <2>1. n \in DOMAIN z /\ z[n][1] = <<tag>>
    BY <1>1, <1>3 DEF At
  <2>2. ASSUME NEW k \in DOMAIN z, z[k][1] = <<tag>> PROVE k = n
    <3>1. CASE k \in DOMAIN x
      BY <1>1, <1>3, <2>2, <3>1 DEF At
    <3>2. CASE \E m \in DOMAIN y : k = i + m
      <4>1. PICK m \in DOMAIN y : k = i + m
        BY <3>2
      <4>2. y[m][1] = <<tag>>
        BY <1>1, <2>2, <4>1
      <4> QED
        BY <1>3, <4>2, Zenon DEF Among
    <3> QED
      BY <1>2, <3>1, <3>2
  <2> QED
    BY <2>1, <2>2, Zenon DEF At
<1>4. ASSUME NEW n, ~Among(x, tag), At(y, tag, n) PROVE At(z, tag, i + n)
  <2>1. i + n \in DOMAIN z /\ z[i + n][1] = <<tag>>
    BY <1>1, <1>4 DEF At
  <2>2. ASSUME NEW k \in DOMAIN z, z[k][1] = <<tag>> PROVE k = i + n
    <3>1. CASE k \in DOMAIN x
      BY <1>1, <1>4, <2>2, <3>1 DEF Among
    <3>2. CASE \E m \in DOMAIN y : k = i + m
      BY <1>1, <1>4, <2>2, <3>2 DEF At
    <3> QED
      BY <1>2, <3>1, <3>2
  <2> QED
    BY <2>1, <2>2, Zenon DEF At
<1>5. ASSUME ~Among(x, tag), ~Among(y, tag), Among(z, tag) PROVE FALSE
  <2>1. PICK k \in DOMAIN z : z[k][1] = <<tag>>
    BY <1>5, Zenon DEF Among
  <2>2. CASE k \in DOMAIN x
    BY <1>1, <1>5, <2>1, <2>2 DEF Among
  <2>3. CASE \E m \in DOMAIN y : k = i + m
    BY <1>1, <1>5, <2>1, <2>3 DEF Among
  <2> QED
    BY <1>2, <2>2, <2>3
<1> QED
  BY <1>3, <1>4, <1>5 DEF z, i

(* The parties of an order, counted.                                       *)
Once(p) == IF HasParty(p) THEN 1 ELSE 0

LEMMA PartyCountIs ==
  ASSUME NEW d
  PROVE  PartyCount(d) = Once(d.buyer) + Once(d.seller)
<1> DEFINE some == {f \in {"buyer", "seller"} : HasParty(d[f])}
           b == HasParty(d.buyer)
           s == HasParty(d.seller)
<1>0. /\ d["buyer"] = d.buyer /\ d["seller"] = d.seller /\ "buyer" # "seller"
      /\ PartyCount(d) = Cardinality(some)
  BY DEF PartyCount
<1> HIDE DEF b, s
<1>1. /\ "buyer" \in some <=> b
      /\ "seller" \in some <=> s
      /\ some \subseteq {"buyer", "seller"}
  BY DEF b, s
<1> HIDE DEF some
<1>2. Cardinality({}) = 0
  BY FS_EmptySet
<1>3. /\ \A e : IsFiniteSet({e}) /\ Cardinality({e}) = 1
  BY FS_Singleton
<1>4. Cardinality({"buyer", "seller"}) = 2
  <2> DEFINE one == {"buyer"}
  <2>1. {"buyer", "seller"} = one \cup {"seller"} /\ "seller" \notin one
    OBVIOUS
  <2>2. IsFiniteSet(one) /\ Cardinality(one) = 1
    BY <1>3, Zenon
  <2> HIDE DEF one
  <2>3. Cardinality(one \cup {"seller"})
          = IF "seller" \in one THEN Cardinality(one) ELSE Cardinality(one) + 1
    BY <2>2, FS_AddElement, Zenon
  <2> QED
    BY <2>1, <2>2, <2>3
<1>5. Once(d.buyer) = (IF b THEN 1 ELSE 0) /\ Once(d.seller) = (IF s THEN 1 ELSE 0)
  BY Zenon DEF Once, b, s
<1>6. CASE b /\ s
  <2>1. some = {"buyer", "seller"}
    BY <1>1, <1>6
  <2> QED
    BY <1>0, <1>4, <1>5, <1>6, <2>1
<1>7. CASE b /\ ~s
  <2>1. some = {"buyer"}
    BY <1>1, <1>7
  <2> QED
    BY <1>0, <1>3, <1>5, <1>7, <2>1
<1>8. CASE ~b /\ s
  <2>1. some = {"seller"}
    BY <1>1, <1>8
  <2> QED
    BY <1>0, <1>3, <1>5, <1>8, <2>1
<1>9. CASE ~b /\ ~s
  <2>1. some = {}
    BY <1>1, <1>9
  <2> QED
    BY <1>0, <1>2, <1>5, <1>9, <2>1
<1> QED
  BY <1>6, <1>7, <1>8, <1>9

(* Parties and line items have tags of their own.                          *)
LEMMA PartyTags ==
  ASSUME NEW p, NEW q
  PROVE  /\ Len(X12Party(q, p)) = Once(p)
         /\ \A tag : tag # "N1" => ~Among(X12Party(q, p), tag)
         /\ Len(EdifactParty(q, p)) = Once(p)
         /\ \A tag : tag # "NAD" => ~Among(EdifactParty(q, p), tag)
<1> DEFINE n1 == <<<<"N1">>, <<q>>, p.name, <<"ZZ">>, p.id>>
           nad == <<<<"NAD">>, <<q>>, p.id \o <<":", ":", "ZZ">>, <<>>, p.name>>
<1>1. \A tag : n1[1] = <<tag>> => tag = "N1"
  OBVIOUS
<1>2. \A tag : nad[1] = <<tag>> => tag = "NAD"
  OBVIOUS
<1>3. /\ X12Party(q, p) = IF HasParty(p) THEN <<n1>> ELSE <<>>
      /\ EdifactParty(q, p) = IF HasParty(p) THEN <<nad>> ELSE <<>>
  BY Zenon DEF X12Party, EdifactParty
<1> HIDE DEF n1, nad
<1>4. \A s : Len(<<s>>) = 1 /\ DOMAIN <<s>> = {1} /\ <<s>>[1] = s
  OBVIOUS
<1>5. Len(<<>>) = 0 /\ DOMAIN <<>> = {}
  OBVIOUS
<1>6. CASE HasParty(p)
  <2>1. X12Party(q, p) = <<n1>> /\ EdifactParty(q, p) = <<nad>> /\ Once(p) = 1
    BY <1>3, <1>6, Zenon DEF Once
  <2> QED
    BY <1>1, <1>2, <1>4, <2>1 DEF Among
<1>7. CASE ~HasParty(p)
  <2>1. X12Party(q, p) = <<>> /\ EdifactParty(q, p) = <<>> /\ Once(p) = 0
    BY <1>3, <1>7, Zenon DEF Once
  <2> QED
    BY <1>5, <2>1 DEF Among
<1> QED
  BY <1>6, <1>7

LEMMA X12LinesTags ==
  ASSUME NEW V, NEW F, Sufficient(V, F), NEW lines \in Seq(Entry(V, F)), NEW tag, tag # "PO1"
  PROVE  ~Among(X12Lines(lines), tag)
<1>1. /\ X12Lines(lines) \in Seq(Tagged(V)) /\ Len(X12Lines(lines)) = Len(lines)
      /\ \A n \in 1..Len(lines) : X12Lines(lines)[n] = X12Line(lines[n])
  BY X12LinesType
<1>2. DOMAIN X12Lines(lines) = 1..Len(lines)
  <2> DEFINE x == X12Lines(lines)
             S == Tagged(V)
  <2>1. x \in Seq(S) /\ Len(x) = Len(lines)
    BY <1>1
  <2> HIDE DEF x, S
  <2> QED
    BY <2>1 DEF x
<1>3. \A l : X12Line(l)[1] = <<"PO1">>
  BY DEF X12Line
<1>4. <<"PO1">> # <<tag>>
  OBVIOUS
<1>5. ASSUME Among(X12Lines(lines), tag) PROVE FALSE
  <2>1. PICK n \in DOMAIN X12Lines(lines) : X12Lines(lines)[n][1] = <<tag>>
    BY <1>5, Zenon DEF Among
  <2>2. X12Lines(lines)[n] = X12Line(lines[n])
    BY <1>1, <1>2, Zenon
  <2> QED
    BY <1>3, <1>4, <2>1, <2>2, Zenon
<1> QED
  BY <1>5

LEMMA EdifactLinesTags ==
  ASSUME NEW V, NEW F, Sufficient(V, F), NEW lines \in Seq(Entry(V, F)),
         NEW tag, tag \notin {"LIN", "QTY", "PRI"}
  PROVE  Len(EdifactLines(lines)) = 3 * Len(lines) /\ ~Among(EdifactLines(lines), tag)
<1> DEFINE E == Entry(V, F)
           S == Tagged(V)
           L(x) == EdifactLines(x)
           P == {x \in Seq(E) : Len(L(x)) = 3 * Len(x) /\ ~Among(L(x), tag)}
           none == <<>>
<1>1. none \in P
  <2> DEFINE f == [n \in DOMAIN <<>> |-> EdifactLine(<<>>[n])]
  <2>1. f = <<>>
    OBVIOUS
  <2>2. EdifactLines(<<>>) = FlattenSeq(f)
    BY Zenon DEF EdifactLines
  <2>3. FlattenSeq(<<>>) = <<>>
    BY DEF FlattenSeq
  <2> HIDE DEF f
  <2>4. L(none) = none
    BY <2>1, <2>2, <2>3, Zenon
  <2>5. none \in Seq(E) /\ Len(none) = 0 /\ DOMAIN none = {}
    OBVIOUS
  <2> QED
    BY <2>4, <2>5 DEF Among
<1>2. ASSUME NEW x \in Seq(E), NEW l \in E, x \in P PROVE Append(x, l) \in P
  <2> DEFINE s == EdifactLine(l)
             lin == <<<<"LIN">>, Numerals[l.no], <<>>, l.product \o <<":", "VP">>>>
             qty == <<<<"QTY">>, <<"21", ":">> \o Numerals[l.qty] \o <<":">> \o l.uom>>
             pri == <<<<"PRI">>, <<"AAA", ":">> \o Numerals[l.price]>>
  <2>1. L(x) \in Seq(S) /\ L(Append(x, l)) = L(x) \o s
    BY EdifactLinesType
  <2>2. s = <<lin, qty, pri>>
    BY Zenon DEF EdifactLine
  <2>3. lin[1] # <<tag>> /\ qty[1] # <<tag>> /\ pri[1] # <<tag>>
    OBVIOUS
  <2> HIDE DEF lin, qty, pri
  <2>4. Len(s) = 3 /\ ~Among(s, tag)
    <3>1. DOMAIN <<lin, qty, pri>> = 1..3 /\ \A n \in 1..3 : n = 1 \/ n = 2 \/ n = 3
      OBVIOUS
    <3> QED
      BY <2>2, <2>3, <3>1 DEF Among
  <2>5. s \in Seq(S)
    BY EdifactLineType
  <2>6. Len(L(x)) = 3 * Len(x) /\ ~Among(L(x), tag) /\ Len(x) \in Nat
    BY <1>2
  <2>7. Append(x, l) \in Seq(E) /\ Len(Append(x, l)) = Len(x) + 1
    OBVIOUS
  <2> HIDE DEF L, s, E, S
  <2>8. ~Among(L(x) \o s, tag)
    BY <2>1, <2>4, <2>5, <2>6, AtMore, Zenon
  <2>9. Len(L(x) \o s) = 3 * (Len(x) + 1)
    <3> DEFINE m == L(x)
    <3>1. Len(m \o s) = Len(m) + Len(s)
      BY <2>1, <2>5, ConcatType
    <3> QED
      BY <2>4, <2>6, <3>1
  <2> QED
    BY <2>1, <2>7, <2>8, <2>9 DEF L, E
<1> HIDE DEF P
<1>3. Seq(E) \subseteq P
  BY <1>1, <1>2, SequenceInduction DEF none
<1>4. lines \in P
  BY <1>3
<1> QED
  BY <1>4 DEF P

LEMMA CountedIs ==
  ASSUME NEW x, NEW first, NEW last, NEW more, NEW i, NEW j, At(x, first, i), At(x, last, j),
         x[j][2] = Printed(j - i + 1 + more)
  PROVE  Counted(x, first, last, more)
<1>1. (CHOOSE n \in DOMAIN x : x[n][1] = <<first>>) = i
  BY AtIsPosition
<1>2. (CHOOSE n \in DOMAIN x : x[n][1] = <<last>>) = j
  BY AtIsPosition
<1> QED
  BY <1>1, <1>2, Zenon DEF Counted

LEMMA X12Counts ==
  ASSUME NEW d \in EdiDocument(X12Clean, X12Clean, Figure)
  PROVE  Counted(X12Segments(X12Encode(d)), "ST", "SE", 1)
<1> DEFINE S == Tagged(X12Clean)
           a == X12Head(d)
           b == X12Party("BY", d.buyer)
           c == X12Party("SE", d.seller)
           l == X12Lines(d.lines)
           t == X12Trailer(d)
           ab == a \o b
           abc == ab \o c
           abcl == abc \o l
           x == abcl \o t
           size == Len(d.lines)
<1>1. /\ a \in Seq(S) /\ b \in Seq(S) /\ c \in Seq(S) /\ l \in Seq(S) /\ t \in Seq(S)
      /\ X12Elements(d) = x
  BY X12Sufficient, X12ElementsType, X12Elements_Parts
<1>2. Len(a) = 4 /\ At(a, "ST", 3) /\ ~Among(a, "SE")
  <2> DEFINE isa == <<<<"ISA">>, <<"00">>, <<>>, <<"00">>, <<>>, <<"ZZ">>, Pad(d.sender),
                      <<"ZZ">>, Pad(d.receiver)>>
             gs == <<<<"GS">>, <<"OE">>, d.sender, d.receiver, DayOf(d.date)>>
             st == <<<<"ST">>, <<"850">>, <<"0001">>>>
             beg == <<<<"BEG">>, <<"00">>, <<"SA">>, d.number, <<>>, DayOf(d.date)>>
  <2>1. a = <<isa, gs, st, beg>>
    BY Zenon DEF X12Head
  <2>2. isa[1] = <<"ISA">> /\ gs[1] = <<"GS">> /\ st[1] = <<"ST">> /\ beg[1] = <<"BEG">>
    OBVIOUS
  <2> HIDE DEF a, isa, gs, st, beg
  <2>3. /\ Len(a) = 4 /\ DOMAIN a = 1..4
        /\ a[1][1] = <<"ISA">> /\ a[2][1] = <<"GS">> /\ a[3][1] = <<"ST">> /\ a[4][1] = <<"BEG">>
    BY <2>1, <2>2
  <2>4. \A n \in 1..4 : n = 1 \/ n = 2 \/ n = 3 \/ n = 4
    OBVIOUS
  <2>5. /\ <<"ISA">> # <<"ST">> /\ <<"GS">> # <<"ST">> /\ <<"BEG">> # <<"ST">>
        /\ <<"ISA">> # <<"SE">> /\ <<"GS">> # <<"SE">> /\ <<"BEG">> # <<"SE">>
        /\ <<"ST">> # <<"SE">> /\ 3 \in 1..4
    OBVIOUS
  <2>6. At(a, "ST", 3)
    BY <2>3, <2>4, <2>5, Zenon DEF At
  <2>7. ~Among(a, "SE")
    BY <2>3, <2>4, <2>5, Zenon DEF Among
  <2> QED
    BY <2>3, <2>6, <2>7
<1>3. /\ Len(b) = Once(d.buyer) /\ ~Among(b, "ST") /\ ~Among(b, "SE")
      /\ Len(c) = Once(d.seller) /\ ~Among(c, "ST") /\ ~Among(c, "SE")
  BY PartyTags
<1>4. Len(l) = size /\ ~Among(l, "ST") /\ ~Among(l, "SE")
  BY X12Sufficient, LinesEntries, X12LinesTags, X12LinesType
<1>5. ~Among(t, "ST") /\ At(t, "SE", 1) /\ t[1][2] = Printed(X12Count(d))
  <2>1. /\ DOMAIN t = 1..3 /\ t[1][1] = <<"SE">> /\ t[2][1] = <<"GE">> /\ t[3][1] = <<"IEA">>
        /\ t[1][2] = Printed(X12Count(d))
    BY DEF X12Trailer
  <2> HIDE DEF t
  <2>2. \A n \in 1..3 : n = 1 \/ n = 2 \/ n = 3
    OBVIOUS
  <2>3. /\ <<"SE">> # <<"ST">> /\ <<"GE">> # <<"ST">> /\ <<"IEA">> # <<"ST">>
        /\ <<"GE">> # <<"SE">> /\ <<"IEA">> # <<"SE">> /\ 1 \in 1..3
    OBVIOUS
  <2> QED
    BY <2>1, <2>2, <2>3, Zenon DEF At, Among
<1>6. size \in Nat
  BY EdiFields, DocumentFields
<1>7. X12Count(d) = 4 + (Once(d.buyer) + Once(d.seller)) + size
  BY PartyCountIs, Zenon DEF X12Count
<1>8. Once(d.buyer) \in Nat /\ Once(d.seller) \in Nat
  BY DEF Once
<1> HIDE DEF S, a, b, c, l, t, size
<1>9. /\ ab \in Seq(S) /\ Len(ab) = Len(a) + Len(b)
  BY <1>1, ConcatType
<1> HIDE DEF ab
<1>10. /\ abc \in Seq(S) /\ Len(abc) = Len(ab) + Len(c)
  BY <1>1, <1>9, ConcatType
<1> HIDE DEF abc
<1>11. /\ abcl \in Seq(S) /\ Len(abcl) = Len(abc) + Len(l)
  BY <1>1, <1>10, ConcatType
<1>12. At(ab, "ST", 3) /\ ~Among(ab, "SE")
  BY <1>1, <1>2, <1>3, AtMore, Zenon DEF ab
<1>13. At(abc, "ST", 3) /\ ~Among(abc, "SE")
  BY <1>1, <1>3, <1>9, <1>12, AtMore, Zenon DEF abc
<1>14. At(abcl, "ST", 3) /\ ~Among(abcl, "SE")
  BY <1>1, <1>4, <1>10, <1>13, AtMore, Zenon
<1> HIDE DEF abcl
<1>15. At(x, "ST", 3) /\ At(x, "SE", Len(abcl) + 1)
  BY <1>1, <1>5, <1>11, <1>14, AtMore, Zenon
<1>16. x[Len(abcl) + 1] = t[1]
  <2>1. 1 \in 1..Len(t)
    BY <1>1, <1>5 DEF At
  <2> QED
    BY <1>1, <1>11, <2>1
<1>17. Len(abcl) = 4 + Once(d.buyer) + Once(d.seller) + size
  BY <1>2, <1>3, <1>4, <1>9, <1>10, <1>11
<1>18. X12Count(d) = (Len(abcl) + 1) - 3 + 1 + 1
  BY <1>6, <1>7, <1>8, <1>17
<1>19. X12Segments(X12Encode(d)) = x
  BY <1>1, X12SegmentsBack, Zenon
<1> HIDE DEF x
<1> QED
  BY <1>5, <1>15, <1>16, <1>18, <1>19, CountedIs, Zenon

LEMMA DateTags ==
  ASSUME NEW d
  PROVE  /\ Len(EdifactDate(d)) = IF d.date = <<>> THEN 0 ELSE 1
         /\ \A tag : tag # "DTM" => ~Among(EdifactDate(d), tag)
<1> DEFINE dtm == <<<<"DTM">>, <<"137", ":">> \o DayOf(d.date) \o <<":", "102">>>>
<1>1. \A tag : dtm[1] = <<tag>> => tag = "DTM"
  OBVIOUS
<1>2. EdifactDate(d) = IF d.date = <<>> THEN <<>> ELSE <<dtm>>
  BY Zenon DEF EdifactDate
<1> HIDE DEF dtm
<1>3. Len(<<dtm>>) = 1 /\ DOMAIN <<dtm>> = {1} /\ <<dtm>>[1] = dtm
  OBVIOUS
<1>4. Len(<<>>) = 0 /\ DOMAIN <<>> = {}
  OBVIOUS
<1> QED
  BY <1>1, <1>2, <1>3, <1>4 DEF Among

LEMMA EdifactCounts ==
  ASSUME NEW d \in EdifactOrders
  PROVE  Counted(EdifactSegments(EdifactEncode(d)), "UNH", "UNT", 0)
<1> DEFINE S == Tagged(EdifactClean)
           g == <<Advice>>
           a == EdifactHead(d)
           h == EdifactDate(d)
           b == EdifactParty("BY", d.buyer)
           c == EdifactParty("SE", d.seller)
           l == EdifactLines(d.lines)
           t == EdifactTrailer(d)
           ah == a \o h
           ahb == ah \o b
           ahbc == ahb \o c
           body == ahbc \o l
           y == body \o t
           x == g \o y
           size == Len(d.lines)
           dated == IF d.date = <<>> THEN 0 ELSE 1
<1>0. d \in EdiDocument(EdifactClean, EdifactClean, EdifactFigures)
  BY EdifactOrdersAre
<1>1. /\ a \in Seq(S) /\ h \in Seq(S) /\ b \in Seq(S) /\ c \in Seq(S) /\ l \in Seq(S)
      /\ t \in Seq(S) /\ EdifactElements(d) = y
  BY <1>0, EdifactSufficient, EdifactElementsType, EdifactElements_Parts
<1>2. g \in Seq(S) /\ Len(g) = 1 /\ ~Among(g, "UNH") /\ ~Among(g, "UNT")
  <2>1. Advice \in S /\ Advice[1] = <<"UNA", ":">>
    BY AdviceIs, Zenon
  <2> HIDE DEF S
  <2>2. g \in Seq(S) /\ Len(g) = 1 /\ DOMAIN g = {1} /\ g[1] = Advice
    BY <2>1
  <2>3. <<"UNA", ":">> # <<"UNH">> /\ <<"UNA", ":">> # <<"UNT">>
    OBVIOUS
  <2> HIDE DEF g
  <2> QED
    BY <2>1, <2>2, <2>3 DEF Among
<1>3. Len(a) = 3 /\ At(a, "UNH", 2) /\ ~Among(a, "UNT")
  <2> DEFINE unb == <<<<"UNB">>, <<"IATB", ":", "1">>, d.sender, d.receiver>>
             unh == <<<<"UNH">>, <<"1">>, <<"ORDERS">>>>
             bgm == <<<<"BGM">>, <<"220">>, d.number, <<"9">>>>
  <2>1. a = <<unb, unh, bgm>>
    BY Zenon DEF EdifactHead
  <2>2. unb[1] = <<"UNB">> /\ unh[1] = <<"UNH">> /\ bgm[1] = <<"BGM">>
    OBVIOUS
  <2> HIDE DEF a, unb, unh, bgm
  <2>3. /\ Len(a) = 3 /\ DOMAIN a = 1..3
        /\ a[1][1] = <<"UNB">> /\ a[2][1] = <<"UNH">> /\ a[3][1] = <<"BGM">>
    BY <2>1, <2>2
  <2>4. \A n \in 1..3 : n = 1 \/ n = 2 \/ n = 3
    OBVIOUS
  <2>5. /\ <<"UNB">> # <<"UNH">> /\ <<"BGM">> # <<"UNH">>
        /\ <<"UNB">> # <<"UNT">> /\ <<"UNH">> # <<"UNT">> /\ <<"BGM">> # <<"UNT">>
        /\ 2 \in 1..3
    OBVIOUS
  <2>6. At(a, "UNH", 2)
    BY <2>3, <2>4, <2>5, Zenon DEF At
  <2>7. ~Among(a, "UNT")
    BY <2>3, <2>4, <2>5, Zenon DEF Among
  <2> QED
    BY <2>3, <2>6, <2>7
<1>4. Len(h) = dated /\ ~Among(h, "UNH") /\ ~Among(h, "UNT")
  BY DateTags
<1>5. /\ Len(b) = Once(d.buyer) /\ ~Among(b, "UNH") /\ ~Among(b, "UNT")
      /\ Len(c) = Once(d.seller) /\ ~Among(c, "UNH") /\ ~Among(c, "UNT")
  BY PartyTags
<1>6. Len(l) = 3 * size /\ ~Among(l, "UNH") /\ ~Among(l, "UNT")
  <2>1. d.lines \in Seq(Entry(EdifactClean, EdifactFigures))
    BY <1>0, LinesEntries
  <2>2. "UNH" \notin {"LIN", "QTY", "PRI"} /\ "UNT" \notin {"LIN", "QTY", "PRI"}
    OBVIOUS
  <2> QED
    BY <2>1, <2>2, EdifactSufficient, EdifactLinesTags
<1>7. ~Among(t, "UNH") /\ At(t, "UNT", 1) /\ t[1][2] = Printed(EdifactCount(d))
  <2>1. /\ DOMAIN t = 1..2 /\ t[1][1] = <<"UNT">> /\ t[2][1] = <<"UNZ">>
        /\ t[1][2] = Printed(EdifactCount(d))
    BY DEF EdifactTrailer
  <2> HIDE DEF t
  <2>2. \A n \in 1..2 : n = 1 \/ n = 2
    OBVIOUS
  <2>3. <<"UNT">> # <<"UNH">> /\ <<"UNZ">> # <<"UNH">> /\ <<"UNZ">> # <<"UNT">> /\ 1 \in 1..2
    OBVIOUS
  <2> QED
    BY <2>1, <2>2, <2>3, Zenon DEF At, Among
<1>8. size \in Nat /\ dated \in Nat /\ Once(d.buyer) \in Nat /\ Once(d.seller) \in Nat
  BY <1>0, EdiFields, DocumentFields DEF Once
<1>9. EdifactCount(d) = 2 + dated + (Once(d.buyer) + Once(d.seller)) + 3 * size + 1
  BY PartyCountIs, Zenon DEF EdifactCount
<1>10. EdifactSegments(EdifactEncode(d)) = x
  BY <1>0, <1>1, EdifactSegmentsBack, Zenon
<1> HIDE DEF S, g, a, h, b, c, l, t, size, dated
<1>11. ah \in Seq(S) /\ Len(ah) = Len(a) + Len(h)
  BY <1>1, ConcatType
<1>12. At(ah, "UNH", 2) /\ ~Among(ah, "UNT")
  BY <1>1, <1>3, <1>4, AtMore, Zenon
<1> HIDE DEF ah
<1>13. ahb \in Seq(S) /\ Len(ahb) = Len(ah) + Len(b)
  BY <1>1, <1>11, ConcatType
<1>14. At(ahb, "UNH", 2) /\ ~Among(ahb, "UNT")
  BY <1>1, <1>5, <1>11, <1>12, AtMore, Zenon
<1> HIDE DEF ahb
<1>15. ahbc \in Seq(S) /\ Len(ahbc) = Len(ahb) + Len(c)
  BY <1>1, <1>13, ConcatType
<1>16. At(ahbc, "UNH", 2) /\ ~Among(ahbc, "UNT")
  BY <1>1, <1>5, <1>13, <1>14, AtMore, Zenon
<1> HIDE DEF ahbc
<1>17. body \in Seq(S) /\ Len(body) = Len(ahbc) + Len(l)
  BY <1>1, <1>15, ConcatType
<1>18. At(body, "UNH", 2) /\ ~Among(body, "UNT")
  BY <1>1, <1>6, <1>15, <1>16, AtMore, Zenon
<1> HIDE DEF body
<1>19. y \in Seq(S)
  BY <1>1, <1>17, ConcatType
<1>20. At(y, "UNH", 2) /\ At(y, "UNT", Len(body) + 1)
  BY <1>1, <1>7, <1>17, <1>18, AtMore, Zenon
<1>21. y[Len(body) + 1] = t[1] /\ Len(body) + 1 \in 1..Len(y)
  <2>1. 1 \in 1..Len(t)
    BY <1>1, <1>7 DEF At
  <2> QED
    BY <1>1, <1>17, <2>1
<1> HIDE DEF y
<1>22. At(x, "UNH", Len(g) + 2) /\ At(x, "UNT", Len(g) + (Len(body) + 1))
  BY <1>2, <1>19, <1>20, AtMore, Zenon
<1>23. x[Len(g) + (Len(body) + 1)] = t[1]
  <2> DEFINE n == Len(body) + 1
  <2>1. n \in 1..Len(y) /\ y[n] = t[1]
    BY <1>21
  <2> HIDE DEF n
  <2>2. (g \o y)[Len(g) + n] = y[n]
    <3> DEFINE m == Len(g) + n
    <3>1. Len(g) \in Nat /\ Len(y) \in Nat
      BY <1>2, <1>19, LenIsNat, Zenon
    <3>2. m \in (Len(g) + 1)..(Len(g) + Len(y)) /\ m - Len(g) = n
      BY <2>1, <3>1
    <3> HIDE DEF m
    <3>3. (g \o y)[m] = y[m - Len(g)]
      BY <1>2, <1>19, <3>2, ConcatMembers, Zenon
    <3> QED
      BY <3>2, <3>3, Zenon DEF m
  <2>3. y[n] = t[1]
    BY <2>1
  <2> QED
    BY <2>2, <2>3, Zenon DEF n, x
<1>24. Len(body) = 3 + dated + Once(d.buyer) + Once(d.seller) + 3 * size
  BY <1>3, <1>4, <1>5, <1>6, <1>11, <1>13, <1>15, <1>17
<1>25. EdifactCount(d) = (Len(g) + (Len(body) + 1)) - (Len(g) + 2) + 1 + 0
  <2> DEFINE n == Len(body)
             m == Len(g)
             count == EdifactCount(d)
             u == Once(d.buyer)
             v == Once(d.seller)
  <2>1. /\ n = 3 + dated + u + v + 3 * size
        /\ count = 2 + dated + (u + v) + 3 * size + 1
        /\ m = 1
    BY <1>2, <1>9, <1>24, Zenon
  <2>2. size \in Nat /\ dated \in Nat /\ u \in Nat /\ v \in Nat
    BY <1>8, Zenon
  <2> HIDE DEF n, m, count, u, v
  <2>3. count = (m + (n + 1)) - (m + 2) + 1 + 0
    BY <2>1, <2>2
  <2> QED
    BY <2>3, Zenon DEF n, m, count
<1> DEFINE i == Len(g) + 2
           j == Len(g) + (Len(body) + 1)
<1> HIDE DEF x
<1>26. x[j][2] = Printed(j - i + 1 + 0)
  BY <1>7, <1>23, <1>25, Zenon
<1>27. At(x, "UNH", i) /\ At(x, "UNT", j)
  BY <1>22
<1> HIDE DEF i, j
<1>28. Counted(x, "UNH", "UNT", 0)
  BY <1>26, <1>27, CountedIs, Zenon
<1> QED
  BY <1>10, <1>28, Zenon

-----------------------------------------------------------------------------
(***************************************************************************)
(* The text at hand, once one was written, is that of an order; one the    *)
(* format has room for, as long as everything fitted.                      *)
(***************************************************************************)
WrittenBy ==
  through # {} => \E d \in Orders : /\ wire = Encode(format, d)
                                    /\ AllFit => d \in Room(format)

LEMMA WrittenInit == Init => WrittenBy
<1> SUFFICES ASSUME Init, through # {} PROVE WrittenBy
  BY Zenon DEF WrittenBy
<1>1. /\ original \in Documents /\ format \in Formats
      /\ wire = Encode(format, original) /\ through = {format}
  BY DEF Init
<1>2. original \in Orders
  BY ChainInit, Zenon DEF ChainInv, ChainTypes
<1>3. AllFit => original \in Room(format)
  <2>1. AllFit => Fits(format, original)
    BY <1>1, Zenon DEF AllFit
  <2> QED
    BY <1>1, <1>2, <2>1, FitsIsRoom, Zenon
<1> QED
  BY <1>1, <1>2, <1>3, Zenon DEF WrittenBy

LEMMA WrittenStep == ChainInv /\ WrittenBy /\ [Next]_codecVars => WrittenBy'
<1> SUFFICES ASSUME ChainInv, WrittenBy, [Next]_codecVars PROVE WrittenBy'
  OBVIOUS
<1> DEFINE current == Decode(format, wire)
           cut == "x12" \in through
           bare == ~OnlyXml
<1>1. ChainTypes
  BY DEF ChainInv
<1>2. current \in Orders
  BY <1>1, DecodeType, Zenon DEF ChainTypes
<1>3. ASSUME NEW target \in Formats, Transform(target)
      PROVE  WrittenBy'
  <2>1. /\ wire' = Encode(target, current) /\ format' = target
        /\ through' = through \cup {target} /\ original' = original
    BY <1>3, Zenon DEF Transform
  <2>2. ASSUME AllFit' PROVE current \in Room(target)
    <3>1. AllFit /\ Fits(target, original)
      BY <2>1, <2>2, AllFitMore, Zenon
    <3>2. SameContent(current, Bare(bare, original)) /\ Routed(cut, current, original)
      BY <3>1, Zenon DEF ChainInv, Kept
    <3>3. original \in Orders
      BY <1>1, Zenon DEF ChainTypes
    <3>4. original \in Room(target)
      BY <3>1, <3>3, FitsIsRoom, Zenon
    <3>5. cut \in BOOLEAN /\ bare \in BOOLEAN
      BY DEF OnlyXml
    <3> HIDE DEF current, cut, bare
    <3> QED
      BY <1>2, <3>2, <3>3, <3>4, <3>5, RoomBare, Zenon
  <2> HIDE DEF current
  <2>3. WrittenBy' = (through' # {} =>
                        \E d \in Orders : /\ wire' = Encode(format', d)
                                          /\ AllFit' => d \in Room(format'))
    BY DEF WrittenBy, Encode, Room
  <2> QED
    BY <1>2, <2>1, <2>2, <2>3, Zenon
<1>4. CASE UNCHANGED codecVars
  <2>1. original' = original /\ format' = format /\ wire' = wire /\ through' = through
    BY <1>4 DEF codecVars
  <2> QED
    BY <2>1 DEF WrittenBy, AllFit
<1> QED
  BY <1>3, <1>4, Zenon DEF Next

LEMMA WrittenHolds == Spec => []WrittenBy
<1>1. Init => WrittenBy
  BY WrittenInit
<1>2. ChainInv /\ WrittenBy /\ [Next]_codecVars => WrittenBy'
  BY WrittenStep
<1> QED
  BY <1>1, <1>2, ChainHolds, PTL DEF Spec

(* Whatever an order is converted to, of any size and content, passes the  *)
(* validation the sender asks of it (validation/validator.go:21-58, 70-92, *)
(* cmd/sender main.go:140).                                                *)
THEOREM ValidHolds == Spec => []WrittenIsAccepted
<1>1. ChainInv /\ WrittenBy => WrittenIsAccepted
  <2> SUFFICES ASSUME ChainInv, WrittenBy, through # {} PROVE Valid(format, wire)
    BY Zenon DEF WrittenIsAccepted
  <2>1. PICK d \in Orders : wire = Encode(format, d)
    BY Zenon DEF WrittenBy
  <2>2. format \in Formats
    BY DEF ChainInv, ChainTypes
  <2> QED
    BY <2>1, <2>2, WrittenValid, Zenon
<1> QED
  BY <1>1, ChainHolds, WrittenHolds, PTL

(* The trailer of an order of any size counts its segments, in X12 with    *)
(* one more (codec/edifact.go:192-202, codec/x12.go:190-191).              *)
THEOREM CountsHold == Spec => []TrailerCounts
<1>1. WrittenBy => TrailerCounts
  <2> SUFFICES ASSUME WrittenBy, AllFit, through # {}
               PROVE  /\ format = "edifact" => Counted(EdifactSegments(wire), "UNH", "UNT", 0)
                      /\ format = "x12" => Counted(X12Segments(wire), "ST", "SE", 1)
    BY Zenon DEF TrailerCounts
  <2>1. PICK d \in Orders : wire = Encode(format, d) /\ d \in Room(format)
    BY Zenon DEF WrittenBy
  <2>2. CASE format = "edifact"
    <3>1. d \in Document(EdifactClean, EdifactComposite, EdifactFigures)
      BY <2>1, <2>2, FormatsDiffer, Zenon DEF Room
    <3>2. EdiPart(d) \in EdifactOrders
      BY <3>1, EdiPartType, Zenon DEF EdifactOrders
    <3>3. wire = EdifactEncode(EdiPart(d))
      <4>1. EdifactEncode(EdiPart(d)) = EdifactEncode(d)
        BY <3>1, EdifactWritesEdiPart
      <4>2. Encode("edifact", d) = EdifactEncode(d)
        BY EncodeIs, Zenon
      <4> QED
        BY <2>1, <2>2, <4>1, <4>2, Zenon
    <3> QED
      BY <2>2, <3>2, <3>3, EdifactCounts, FormatsDiffer, Zenon
  <2>3. CASE format = "x12"
    <3>1. d \in Document(X12Clean, X12Clean, Figure)
      BY <2>1, <2>3, FormatsDiffer, Zenon DEF Room
    <3>2. EdiPart(d) \in EdiDocument(X12Clean, X12Clean, Figure)
      BY <3>1, EdiPartType, Zenon
    <3>3. wire = X12Encode(EdiPart(d))
      <4>1. X12Encode(EdiPart(d)) = X12Encode(d)
        BY <3>1, X12WritesEdiPart
      <4>2. Encode("x12", d) = X12Encode(d)
        BY EncodeIs, Zenon
      <4> QED
        BY <2>1, <2>3, <4>1, <4>2, Zenon
    <3> QED
      BY <2>3, <3>2, <3>3, X12Counts, FormatsDiffer, Zenon
  <2> QED
    BY <2>2, <2>3, Zenon
<1> QED
  BY <1>1, WrittenHolds, PTL
=============================================================================
