----------------------------- MODULE Templates ------------------------------
(***************************************************************************)
(* The orders cmd/simulator writes: flawless, with words where numbers     *)
(* belong, or with a byte overwritten.  Their product code has a           *)
(* qualifier, IN, that the X12 decoder does not know; the EDIFACT ones     *)
(* have no UNA, no parties and no unit; the XML ones have a root of their  *)
(* own.  Every partner signs as SENDER.                                    *)
(***************************************************************************)
EXTENDS Validation

CONSTANT Today   \* the date on the orders, a token

(* time.Format writes digits.                                              *)
ASSUME TodayAssumption == Today \notin {"*", "~", "+", ":", "'", "?", NewLine}

ErrorTypes == {"none", "malformed", "schema_mismatch"}

x12Order(qty, price) ==
  X12Segment("ISA", <<<<"00">>, <<>>, <<"00">>, <<>>,
                      <<"ZZ">>, <<"SENDER">>, <<"ZZ">>, <<"RECEIVER">>>>)
  \o X12Segment("GS", <<<<"PO">>, <<"SENDER">>, <<"RECEIVER">>, <<Today>>>>)
  \o X12Segment("ST", <<<<"850">>, <<"0001">>>>)
  \o X12Segment("BEG", <<<<"00">>, <<"SA">>, <<"order">>, <<>>, <<Today>>>>)
  \o X12Segment("PO1", <<<<"1">>, <<qty>>, <<"EA">>, <<price>>, <<>>, <<"IN">>, <<"ITEM001">>>>)
  \o X12Segment("SE", <<<<"4">>, <<"0001">>>>)
  \o X12Segment("GE", <<<<"1">>>>)
  \o X12Segment("IEA", <<<<"1">>>>)

edifactOrder(qty, price) ==
  EdifactSegment("UNB", <<<<"UNOA", ":", "3">>, <<"SENDER">>, <<"RECEIVER">>>>)
  \o EdifactSegment("UNH", <<<<"1">>, <<"ORDERS">>>>)
  \o EdifactSegment("BGM", <<<<"220">>, <<"order">>, <<"9">>>>)
  \o EdifactSegment("DTM", <<<<"137", ":", Today, ":", "102">>>>)
  \o EdifactSegment("LIN", <<<<"1">>, <<>>, <<"ITEM001", ":", "IN">>>>)
  \o EdifactSegment("QTY", <<<<"21", ":", qty>>>>)
  \o EdifactSegment("PRI", <<<<"AAA", ":", price>>>>)
  \o EdifactSegment("UNT", <<<<"7">>, <<"1">>>>)
  \o EdifactSegment("UNZ", <<<<"1">>>>)

Tree(root) == <<[root |-> root, content |-> Blank]>>

xmlOrder == Tree("PurchaseOrder")

Order(f, qty, price) == CASE f = "x12" -> x12Order(qty, price)
                          [] f = "edifact" -> edifactOrder(qty, price)
                          [] OTHER -> xmlOrder

Delimiters == {"*", "~", "+", ":", "'"}

(* One byte, never of the first tag, becomes a null byte, with a marker    *)
(* put before it: a delimiter is lost, a longer token is cut, and may or   *)
(* may not be recognised still.  XML is no XML any more, unless the byte   *)
(* was in the prolog, where the parser minds nothing.                      *)
Overwrite(w, n, left, byte) ==
  SubSeq(w, 1, n - 1)
  \o (IF left /\ w[n] \notin Delimiters THEN <<w[n]>> ELSE <<>>)
  \o <<"<<<CORRUPT>>>">> \o byte \o SubSeq(w, n + 1, Len(w))

Malform_NoNull(f, w) ==
  IF f = "xml" THEN {Tree("none"), w}
  ELSE {Overwrite(w, n, left, <<>>) : n \in 3..Len(w), left \in BOOLEAN}

Malform(f, w) ==
  IF f = "xml" THEN {Tree("none"), w \o <<"NUL">>}
  ELSE {Overwrite(w, n, left, <<"NUL">>) : n \in 3..Len(w), left \in BOOLEAN}

generateContent(f, errorType) ==
  CASE errorType = "none" -> {Order(f, "10", "2")}
    [] errorType = "malformed" -> Malform(f, Order(f, "10", "2"))
    [] errorType = "schema_mismatch" -> {Order(f, "PRICE_MISSING", "QTY_INVALID")}
=============================================================================
