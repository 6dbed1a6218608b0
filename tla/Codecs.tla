------------------------------- MODULE Codecs -------------------------------
(***************************************************************************)
(* A behaviour takes one document through any chain of transformations;    *)
(* what must survive is stated over chains of every length.                *)
(***************************************************************************)
EXTENDS Validation

CONSTANTS
  Words,       \* the tokens of texts from outside
  Documents,   \* the canonical documents a chain may begin with
  Samples      \* wires written by others: records of a format and a wire

Delimiting == {"*", "~", "+", ":", "'", "?", NewLine}

(* The canonical documents made of these tokens and numbers; what only XML *)
(* carries is made of any words.                                           *)
Document(plain, composite, figures) ==
  LET Party == [id : Seq(composite), name : Seq(plain), address : Seq(Words)]
      LineItem == [no : DOMAIN Numerals \ {"million"}, product : Seq(composite),
                   qty : figures, uom : Seq(composite), price : figures,
                   description : Seq(Words)]
  IN  [sender : Seq(plain), receiver : Seq(plain), number : Seq(plain),
       date : {<<>>} \cup Days \cup Moments, currency : Seq(Words),
       buyer : Party, seller : Party, lines : Seq(LineItem)]

ASSUME DocumentAssumption ==
  \A d \in Documents : d \in Document(Words, Words, DOMAIN Numerals)

ASSUME SampleAssumption ==
  \A s \in Samples : s.format \in {"x12", "edifact"} /\ s.wire \in Seq(Words)

(* What time.Parse accepts is digits.                                      *)
ASSUME DateAssumption == (Dates \cup Times) \cap Delimiting = {}

VARIABLES
  original,    \* the document at the beginning of the chain
  format,      \* the format of the text at hand
  wire,        \* that text
  through      \* history: the formats the document has been encoded in

codecVars == <<original, format, wire, through>>

Init ==
  \/ /\ original \in Documents
     /\ format \in Formats
     /\ wire = Encode(format, original)
     /\ through = {format}
  \/ /\ \E s \in Samples : format = s.format /\ wire = s.wire
     /\ original = Decode(format, wire)
     /\ through = {}

Transform(target) ==
  /\ Decodable(format, wire)
  /\ wire' = Encode(target, Decode(format, wire))
  /\ format' = target
  /\ through' = through \cup {target}
  /\ UNCHANGED original

Next == \E target \in Formats : Transform(target)

Spec == Init /\ [][Next]_codecVars

-----------------------------------------------------------------------------
(* Does format f have room for document d: do its delimiters stay clear of *)
(* the texts and, in EDIFACT, of the numbers?                              *)
Composites(d) ==
  {d.buyer.id, d.seller.id} \cup UNION {{l.product, l.uom} : l \in ToSet(d.lines)}

Texts(d) ==
  {d.sender, d.receiver, d.number, d.buyer.name, d.seller.name} \cup Composites(d)

(* Blanks at the ends of a text are left out, newlines among them.         *)
ASSUME EdgeAssumption ==
  \A d \in Documents : \A t \in Texts(d) \ {<<>>} : NewLine \notin {Head(t), Last(t)}

Figures(d) == UNION {{l.qty, l.price} : l \in ToSet(d.lines)}

Clear(texts, delimiters) == \A t \in texts : ToSet(t) \cap delimiters = {}

Fits(f, d) ==
  CASE f = "x12" -> Clear(Texts(d), {"*", "~"})
    [] f = "edifact" -> /\ Clear(Texts(d), {"+", "'", "?", NewLine})
                        /\ Clear(Composites(d), {":"})
                        /\ Clear({Numerals[n] : n \in Figures(d)}, {"+"})
    [] f = "xml" -> TRUE

AllFit == \A f \in through : Fits(f, original)

(* What X12 and EDIFACT carry of a document: not the time of day, nor the  *)
(* parties' addresses, nor the descriptions of the line items.             *)
EdiPart(d) ==
  [d EXCEPT !.date = DayOf(d.date), !.buyer.address = <<>>, !.seller.address = <<>>,
            !.lines = [n \in DOMAIN d.lines |-> [d.lines[n] EXCEPT !.description = <<>>]]]

(* ContentSurvives: through formats that have room for it, an order keeps  *)
(* its number, date, parties and line items over any chain of              *)
(* transformations: all of them through XML, and through the others all    *)
(* but the time of day, the addresses and the descriptions, which neither  *)
(* writes (codec/x12.go:149-182, codec/edifact.go:159-190,                 *)
(* canonical/document.go:32-51).                                           *)
ContentSurvives ==
  LET current == Decode(format, wire)
      kept == IF through \subseteq {"xml"} THEN original ELSE EdiPart(original)
  IN  AllFit => \A f \in {"number", "date", "buyer", "seller", "lines"} :
                  current[f] = kept[f]

(* RoutingSurvives: so do sender and receiver, but the fixed-width fields  *)
(* of X12 cut them, once and for good (codec/x12.go:140-141, 239-245).     *)
RoutingSurvives ==
  LET current == Decode(format, wire) IN
  AllFit => \A f \in {"sender", "receiver"} :
              current[f] = IF "x12" \in through
                             THEN SubSeq(original[f], 1, Min({ISAWidth, Len(original[f])}))
                             ELSE original[f]

(* WrittenIsAccepted: whatever an order is converted to passes validation, *)
(* which the sender asks of what the transformer publishes                 *)
(* (validation/validator.go:21-58, 70-92, cmd/sender main.go:140).         *)
WrittenIsAccepted == through # {} => Valid(format, wire)

(* Segment first to segment last, and so many more, is what the trailer    *)
(* last says it counts.                                                    *)
Counted(segments, first, last, more) ==
  LET Position(tag) == CHOOSE n \in DOMAIN segments : segments[n][1] = <<tag>>
  IN  segments[Position(last)][2] =
        Printed(Position(last) - Position(first) + 1 + more)

(* TrailerCounts: the trailer of an EDIFACT message counts its segments    *)
(* from UNH to UNT; the trailer of an X12 transaction set says one more    *)
(* than there are from ST to SE (codec/edifact.go:192-202,                 *)
(* codec/x12.go:190-191).                                                  *)
TrailerCounts == AllFit /\ through # {} =>
  /\ format = "edifact" => Counted(EdifactSegments(wire), "UNH", "UNT", 0)
  /\ format = "x12" => Counted(X12Segments(wire), "ST", "SE", 1)
=============================================================================
