----------------------------- MODULE Validation -----------------------------
(***************************************************************************)
(* internal/validation: what the gateway, the sender and the receiver ask  *)
(* of a text.  Segments are looked for anywhere in it, as pieces of text:  *)
(* the tag SE is found in the name SENDER.                                 *)
(***************************************************************************)
EXTENDS Engine

CONSTANT Within   \* pairs of a token and a tag that occurs inside of it

Holds(w, tag) == \E n \in DOMAIN w : w[n] = tag \/ <<w[n], tag>> \in Within

StartsWith(w, tags) == w # <<>> /\ w[1] \in tags

X12Valid(w) ==
  StartsWith(w, {"ISA"}) /\ \A tag \in {"GS", "ST", "SE", "GE", "IEA"} : Holds(w, tag)

EdifactValid_NoUNA(w) ==
  StartsWith(w, {"UNB"}) /\ \A tag \in {"UNB", "UNZ"} : Holds(w, tag)

EdifactValid(w) ==
  StartsWith(w, {"UNA", "UNB"}) /\ \A tag \in {"UNB", "UNZ"} : Holds(w, tag)

(* Any element tree will do, whatever its root; what is no XML has none.   *)
XmlValid(w) == w # <<>> /\ w[1].root # "none"

(* GetValidator ignores case and knows two names the engine does not.      *)
Valid(f, w) == CASE f \in {"x12", "edi"} -> X12Valid(w)
                 [] f \in {"edifact", "un"} -> EdifactValid(w)
                 [] f = "xml" -> XmlValid(w)
                 [] OTHER -> FALSE
=============================================================================
