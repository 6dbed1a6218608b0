------------------------------- MODULE Engine -------------------------------
(***************************************************************************)
(* internal/transformation: the engine, the canonical document and the     *)
(* X12, EDIFACT and XML codecs, as operators on texts.                     *)
(*                                                                         *)
(* A text is a sequence of tokens.  A token is a piece of text without     *)
(* delimiters, or one delimiter: a text that holds a delimiter of the      *)
(* format it is written in is split there when it is read, because no      *)
(* encoder escapes anything.  Left out are the blanks and newlines at the  *)
(* ends of a text, which both decoders trim, the other spellings of a day  *)
(* (six digits, dashes), and an interchange's date and control number.     *)
(***************************************************************************)
EXTENDS Texts, FiniteSets

CONSTANTS
  Dates,       \* days, as time.Format writes them
  Times,       \* times of day to the minute, midnight apart
  ISAWidth     \* tokens that fit a fixed-width ISA field (15 characters)

ASSUME CodecAssumption == ISAWidth \in Nat \ {0}

Formats == {"x12", "edifact", "xml"}

(* "million" is any number that %g prints with an exponent, as 1e+06.      *)
Numerals == [n \in {"0", "1", "2", "10", "million"} |->
              IF n = "million" THEN <<"1e", "+", "06">> ELSE <<n>>]

(* ParseFloat, its error ignored: what is no number reads 0.               *)
Parse(text) ==
  IF \E n \in DOMAIN Numerals : Numerals[n] = text
    THEN CHOOSE n \in DOMAIN Numerals : Numerals[n] = text
    ELSE "0"

(* A line number is an integer: an exponent is no digit.                   *)
Atoi(text) == IF Parse(text) = "million" THEN "0" ELSE Parse(text)

(* A count that is printed: of its digits only the value matters, so it is *)
(* that many strokes.                                                      *)
Printed(count) == [stroke \in 1..count |-> "#"]

Days == {<<day>> : day \in Dates}
Moments == Dates \X Times

(* The zero time, which is written as nothing, for what is no date.        *)
ParseDate(text) == IF text \in Days THEN text ELSE <<>>

(* An order's date is a time; X12 and EDIFACT are given its day.           *)
DayOf(date) == IF date = <<>> THEN <<>> ELSE <<Head(date)>>

NoParty == [id |-> <<>>, name |-> <<>>, address |-> <<>>]

(* What a decoder starts from.                                             *)
Blank ==
  [sender |-> <<>>, receiver |-> <<>>, number |-> <<>>, date |-> <<>>,
   currency |-> <<>>, buyer |-> NoParty, seller |-> NoParty, lines |-> <<>>]

-----------------------------------------------------------------------------
(***************************************************************************)
(* Segments and elements.                                                  *)
(***************************************************************************)
(* Element n of a segment, the tag being number 0; the same for the        *)
(* components of a composite.                                              *)
Get(elements, n) == IF n < Len(elements) THEN elements[n + 1] ELSE <<>>

HasParty_ById(p) == p.id # <<>>
HasParty(p) == p.id # <<>> \/ p.name # <<>>

PartyCount(d) == Cardinality({f \in {"buyer", "seller"} : HasParty(d[f])})

(* QTY and PRI belong to the line item read last, if there is one.         *)
SetLast(lines, field, value) ==
  IF lines = <<>> THEN lines ELSE [lines EXCEPT ![Len(lines)][field] = value]

-----------------------------------------------------------------------------
(***************************************************************************)
(* X12.                                                                    *)
(***************************************************************************)
Pad_NeverCuts(text) == text

(* padRight cuts what is too long; what it pads is trimmed when read.      *)
Pad(text) == IF Len(text) >= ISAWidth THEN SubSeq(text, 1, ISAWidth) ELSE text

X12Segment(tag, elements) == Join(<<<<tag>>>> \o elements, "*") \o <<"~">>

X12Party(qualifier, p) ==
  IF HasParty(p) THEN <<<<<<"N1">>, <<qualifier>>, p.name, <<"ZZ">>, p.id>>>> ELSE <<>>

X12Line(l) ==
  <<<<"PO1">>, Numerals[l.no], Numerals[l.qty], l.uom, Numerals[l.price],
    <<>>, <<"VP">>, l.product>>

X12Count(d) == 4 + PartyCount(d) + Len(d.lines)

X12Elements(d) ==
  <<<<<<"ISA">>, <<"00">>, <<>>, <<"00">>, <<>>, <<"ZZ">>, Pad(d.sender),
      <<"ZZ">>, Pad(d.receiver)>>,
    <<<<"GS">>, <<"OE">>, d.sender, d.receiver, DayOf(d.date)>>,
    <<<<"ST">>, <<"850">>, <<"0001">>>>,
    <<<<"BEG">>, <<"00">>, <<"SA">>, d.number, <<>>, DayOf(d.date)>>>>
  \o X12Party("BY", d.buyer)
  \o X12Party("SE", d.seller)
  \o [n \in DOMAIN d.lines |-> X12Line(d.lines[n])]
  \o <<<<<<"SE">>, Printed(X12Count(d)), <<"0001">>>>,
       <<<<"GE">>, <<"1">>, <<"1">>>>,
       <<<<"IEA">>, <<"1">>>>>>

X12Encode(d) == Written(X12Elements(d), "*", "~")

X12Segments(w) ==
  LET segments == NotBlank(Split(w, "~"))
  IN  [n \in DOMAIN segments |-> Split(segments[n], "*")]

(* From element 6 on, qualifiers and values alternate: the first value     *)
(* with a known qualifier, else the first value there is.                  *)
X12Product(e) ==
  LET pairs == {n \in 6..(Len(e) - 2) : n % 2 = 0}
      known == {n \in pairs : Get(e, n) \in {<<"VP">>, <<"BP">>, <<"UP">>}}
      given == {n \in pairs : Get(e, n + 1) # <<>>}
      First(S) == CHOOSE n \in S : \A k \in S : n <= k
  IN  CASE known # {} -> Get(e, First(known) + 1)
        [] known = {} /\ given # {} -> Get(e, First(given) + 1)
        [] OTHER -> <<>>

X12Read(d, e) ==
  LET party == [id |-> Get(e, 4), name |-> Get(e, 2), address |-> <<>>] IN
  CASE e[1] = <<"ISA">> -> [d EXCEPT !.sender = Get(e, 6), !.receiver = Get(e, 8)]
    [] e[1] = <<"BEG">> ->
         [d EXCEPT !.number = Get(e, 3),
                   !.date = IF Get(e, 5) = <<>> THEN @ ELSE ParseDate(Get(e, 5))]
    [] e[1] = <<"N1">> /\ Get(e, 1) = <<"BY">> -> [d EXCEPT !.buyer = party]
    [] e[1] = <<"N1">> /\ Get(e, 1) = <<"SE">> -> [d EXCEPT !.seller = party]
    [] e[1] = <<"PO1">> ->
         [d EXCEPT !.lines = Append(@,
            [no |-> Atoi(Get(e, 1)), qty |-> Parse(Get(e, 2)), uom |-> Get(e, 3),
             price |-> Parse(Get(e, 4)), product |-> X12Product(e),
             description |-> <<>>])]
    [] OTHER -> d

(* The first segment opens an interchange, and there is an order or, in    *)
(* the ISA segment read last, at least a sender.                           *)
X12Decodable(w) ==
  LET segments == X12Segments(w)
      isas == {n \in DOMAIN segments : segments[n][1] = <<"ISA">>}
  IN  /\ segments # <<>>
      /\ segments[1][1] # <<>> /\ Head(segments[1][1]) = "ISA"
      /\ \/ \E n \in DOMAIN segments : segments[n][1] = <<"BEG">>
         \/ \E n \in isas : Get(segments[n], 6) # <<>> /\ \A k \in isas : k <= n

-----------------------------------------------------------------------------
(***************************************************************************)
(* EDIFACT.                                                                *)
(***************************************************************************)
NewLine == "newline"

EdifactSegment(tag, elements) == Join(<<<<tag>>>> \o elements, "+") \o <<"'">>

EdifactParty(qualifier, p) ==
  IF HasParty(p)
    THEN <<<<<<"NAD">>, <<qualifier>>, p.id \o <<":", ":", "ZZ">>, <<>>, p.name>>>>
    ELSE <<>>

EdifactLine(l) ==
  <<<<<<"LIN">>, Numerals[l.no], <<>>, l.product \o <<":", "VP">>>>,
    <<<<"QTY">>, <<"21", ":">> \o Numerals[l.qty] \o <<":">> \o l.uom>>,
    <<<<"PRI">>, <<"AAA", ":">> \o Numerals[l.price]>>>>

EdifactDate(d) ==
  IF d.date = <<>> THEN <<>>
  ELSE <<<<<<"DTM">>, <<"137", ":">> \o DayOf(d.date) \o <<":", "102">>>>>>

EdifactCount_NoDate(d) == 3 + PartyCount(d) + 3 * Len(d.lines)

EdifactCount(d) ==
  2 + (IF d.date = <<>> THEN 0 ELSE 1) + PartyCount(d) + 3 * Len(d.lines) + 1

EdifactElements(d) ==
  <<<<<<"UNB">>, <<"IATB", ":", "1">>, d.sender, d.receiver>>,
    <<<<"UNH">>, <<"1">>, <<"ORDERS">>>>,
    <<<<"BGM">>, <<"220">>, d.number, <<"9">>>>>>
  \o EdifactDate(d)
  \o EdifactParty("BY", d.buyer)
  \o EdifactParty("SE", d.seller)
  \o FlattenSeq([n \in DOMAIN d.lines |-> EdifactLine(d.lines[n])])
  \o <<<<<<"UNT">>, Printed(EdifactCount(d)), <<"1">>>>,
       <<<<"UNZ">>, <<"1">>>>>>

UNA == <<"UNA", ":", "+", ".", "?", " ", "'">>

EdifactEncode(d) == UNA \o Written(EdifactElements(d), "+", "'")

(* The release character ? shields the token after it and is dropped;      *)
(* elements and components are split only afterwards, so what it shields   *)
(* is a terminator or a newline, which is dropped otherwise.               *)
EdifactSegments(w) ==
  LET releases[n \in 0..Len(w)] ==
        n \in 1..(Len(w) - 1) /\ w[n] = "?" /\ ~releases[n - 1]
      ends == {n \in DOMAIN w : w[n] = "'" /\ ~releases[n - 1]}
      dropped == {n \in DOMAIN w : releases[n] \/ (w[n] = NewLine /\ ~releases[n - 1])}
      segments == NotBlank(Pieces(w, ends, dropped))
  IN  [n \in DOMAIN segments |-> Split(segments[n], "+")]

(* Component c of the composite in element n.                              *)
Component(e, n, c) == Get(Split(Get(e, n), ":"), c)

(* A time of day is read with the qualifier 203 only, a day with any.      *)
ParseEdifactDate(composite) ==
  IF composite[2] \in Moments /\ Len(composite) = 3 /\ composite[3] = <<"203">>
    THEN composite[2] ELSE ParseDate(composite[2])

EdifactRead(d, e) ==
  LET party == [id |-> Component(e, 2, 0),
                name |-> IF Get(e, 4) # <<>> THEN Get(e, 4) ELSE Get(e, 3),
                address |-> <<>>] IN
  CASE e[1] = <<"UNB">> -> [d EXCEPT !.sender = Get(e, 2), !.receiver = Get(e, 3)]
    [] e[1] = <<"BGM">> -> [d EXCEPT !.number = Get(e, 2)]
    [] e[1] = <<"DTM">> /\ Component(e, 1, 0) = <<"137">>
                        /\ Len(Split(Get(e, 1), ":")) >= 2 ->
         [d EXCEPT !.date = ParseEdifactDate(Split(Get(e, 1), ":"))]
    [] e[1] = <<"NAD">> /\ Get(e, 1) = <<"BY">> -> [d EXCEPT !.buyer = party]
    [] e[1] = <<"NAD">> /\ Get(e, 1) \in {<<"SE">>, <<"SU">>} -> [d EXCEPT !.seller = party]
    [] e[1] = <<"LIN">> ->
         [d EXCEPT !.lines = Append(@,
            [no |-> Atoi(Get(e, 1)), qty |-> "0", uom |-> <<>>, price |-> "0",
             product |-> Component(e, 3, 0), description |-> <<>>])]
    [] e[1] = <<"QTY">> ->
         [d EXCEPT !.lines = SetLast(SetLast(@, "qty", Parse(Component(e, 1, 1))),
                                     "uom", Component(e, 1, 2))]
    [] e[1] = <<"PRI">> ->
         [d EXCEPT !.lines = SetLast(@, "price", Parse(Component(e, 1, 1)))]
    [] OTHER -> d

EdifactDecodable(w) ==
  LET segments == EdifactSegments(w) IN
  segments # <<>> /\ segments[1][1] # <<>> /\ Head(segments[1][1]) \in {"UNA", "UNB"}

-----------------------------------------------------------------------------
(***************************************************************************)
(* XML: encoding/xml writes every field and escapes what needs it.  The    *)
(* whole element tree is one token; only a <Document> can be read.         *)
(***************************************************************************)
XmlEncode(d) == <<[root |-> "Document", content |-> d]>>
XmlDecode(w) == w[1].content

XmlDecodable_AnyRoot(w) == w[1].root # "none"

XmlDecodable(w) == w[1].root = "Document"

-----------------------------------------------------------------------------
(***************************************************************************)
(* The engine.                                                             *)
(***************************************************************************)
(* Both decoders go over the segments once, from a blank document.         *)
Read(f, d, e) == IF f = "x12" THEN X12Read(d, e) ELSE EdifactRead(d, e)

ReadAll(f, segments) ==
  LET order[n \in 0..Len(segments)] ==
        IF n = 0 THEN Blank ELSE Read(f, order[n - 1], segments[n])
  IN  order[Len(segments)]

X12Decode(w) == ReadAll("x12", X12Segments(w))
EdifactDecode(w) == ReadAll("edifact", EdifactSegments(w))

Encode(f, d) == CASE f = "x12" -> X12Encode(d)
                  [] f = "edifact" -> EdifactEncode(d)
                  [] f = "xml" -> XmlEncode(d)

Decode(f, w) == CASE f = "x12" -> X12Decode(w)
                  [] f = "edifact" -> EdifactDecode(w)
                  [] f = "xml" -> XmlDecode(w)

Decodable(f, w) == CASE f = "x12" -> X12Decodable(w)
                     [] f = "edifact" -> EdifactDecodable(w)
                     [] f = "xml" -> XmlDecodable(w)
=============================================================================
