------------------------------- MODULE Texts --------------------------------
(***************************************************************************)
(* Texts as sequences of tokens: cut at delimiters and joined with them,   *)
(* what strings.Split, Join and Fprintf do for internal/transformation.    *)
(***************************************************************************)
EXTENDS Filtering, SequencesExt

(* A token goes to the end of the last part.                               *)
AddTo(parts, token) == [parts EXCEPT ![Len(parts)] = Append(@, token)]

(* The pieces of a text between the positions where it is cut; what is at  *)
(* the gaps is dropped.                                                    *)
Pieces(text, cuts, gaps) ==
  LET pieces[n \in 0..Len(text)] ==
        IF n # 0 /\ n \notin cuts /\ n \notin gaps THEN AddTo(pieces[n - 1], text[n])
        ELSE IF n = 0 THEN <<<<>>>>
        ELSE IF n \in cuts THEN Append(pieces[n - 1], <<>>)
        ELSE pieces[n - 1]
  IN  pieces[Len(text)]

Split(text, delimiter) == Pieces(text, {n \in DOMAIN text : text[n] = delimiter}, {})

Join(parts, delimiter) ==
  Tail(FlattenSeq([n \in DOMAIN parts |-> <<delimiter>> \o parts[n]]))

(* The text of a list of segments, each a list of elements.                *)
Written(segments, delimiter, terminator) ==
  FlattenSeq([n \in DOMAIN segments |-> Join(segments[n], delimiter) \o <<terminator>>])

NotBlank(texts) == Keep(texts, Range(texts) \ {<<>>})
=============================================================================
