------------------------------ MODULE MCCodecs ------------------------------
(***************************************************************************)
(* Orders for Codecs: plain ones, with every field present or missing, and *)
(* ones that hold a delimiter, a newline, a time of day or a number        *)
(* printed with an exponent.  And the orders of cmd/simulator, and one     *)
(* from elsewhere that is dated to the minute.                             *)
(***************************************************************************)
EXTENDS Codecs, Templates

Marks == Delimiting

Odd(t) == <<"a", t, "b">>

Line(n, product, qty) ==
  [no |-> n, product |-> product, qty |-> qty, uom |-> <<"EA">>, price |-> "10",
   description |-> <<"new">>]

Purchase(sender, number, date, buyer, seller, lines) ==
  [Blank EXCEPT !.sender = sender, !.receiver = <<"r">>, !.number = number,
     !.date = date, !.currency = <<"EUR">>, !.buyer = buyer, !.seller = seller,
     !.lines = lines]

Party(id, name) == [id |-> id, name |-> name, address |-> <<"here">>]

Parties == {NoParty, Party(<<"i">>, <<>>), Party(<<>>, <<"n">>), Party(<<"i">>, <<"n">>)}

LineItems == {<<>>, <<Line("1", <<"p">>, "2")>>,
              <<Line("1", <<>>, "10"), Line("2", <<"p">>, "million")>>}

Plain ==
  {Purchase(s, <<"o">>, d, b, e, l) :
     s \in {<<>>, <<"s">>, <<"s", "e", "n", "d">>},
     d \in {<<>>, <<"20260215">>, <<"20260215", "1430">>},
     b \in Parties, e \in Parties, l \in LineItems}

OddOnes ==
  LET p == Party(<<"i">>, <<"n">>)
      D == <<"20260215">>
      L == <<Line("1", <<"p">>, "2")>>
  IN UNION {{Purchase(Odd(t), <<"o">>, D, p, p, L),
             Purchase(<<"s">>, Odd(t), D, p, p, L),
             Purchase(<<"s">>, <<"o">>, D, [p EXCEPT !.name = Odd(t)], p, L),
             Purchase(<<"s">>, <<"o">>, D, p, [p EXCEPT !.id = Odd(t)], L),
             Purchase(<<"s">>, <<"o">>, D, p, p, <<Line("1", Odd(t), "2")>>)} :
            t \in Marks}

Orders == Plain \cup OddOnes

(* The orders of the simulator that validation and Postgres let in.        *)
SimulatorOrders ==
  UNION {{[format |-> f, wire |-> w] : w \in generateContent(f, e)} :
           f \in {"x12", "edifact"}, e \in {"none", "schema_mismatch"}}

(* An order dated to the minute, which only others write in EDIFACT.       *)
ToTheMinute ==
  EdifactSegment("UNB", <<<<"UNOA", ":", "3">>, <<"s">>, <<"r">>>>)
  \o EdifactSegment("BGM", <<<<"220">>, <<"o">>, <<"9">>>>)
  \o EdifactSegment("DTM", <<<<"137", ":", "20260215", "1430", ":", "203">>>>)
  \o EdifactSegment("UNZ", <<<<"1">>>>)

Wires == SimulatorOrders \cup {[format |-> "edifact", wire |-> ToTheMinute]}

Alphabet ==
  Marks \cup {"a", "b", "d", "e", "i", "n", "o", "p", "r", "s", "EA", "EUR", "new", "here"}
  \cup UNION {ToSet(s.wire) : s \in Wires}

Day == "20260215"

Names == {<<"SENDER", "SE">>}
=============================================================================
