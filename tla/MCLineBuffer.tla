---------------------------- MODULE MCLineBuffer ----------------------------
(* Texts for the line buffer: rows with columns of several lengths.        *)
EXTENDS LineBuffer

CONSTANTS SetLens, ColLens, OtherLens, LongLens, MaxTextLines

Shapes == [kind : {"set"}, len : SetLens] \cup [kind : {"col"}, len : ColLens]
            \cup [kind : {"other"}, len : OtherLens \cup LongLens]

(* A column line follows the line that opens the row, or another column; a *)
(* long line does not follow a column directly.                            *)
RowShapes ==
  {t \in [1..MaxTextLines -> Shapes] :
     \A l \in 1..MaxTextLines :
       /\ t[l].kind = "col" => l > 1 /\ t[l - 1].kind \in {"set", "col"}
       /\ t[l].len \in LongLens /\ t[l].kind = "other" =>
            l = 1 \/ t[l - 1].kind = "other"}

(* The text made of lines of the shapes t.                                 *)
TextOf(t) ==
  LET end[l \in 0..MaxTextLines] == IF l = 0 THEN 0 ELSE end[l - 1] + t[l].len
  IN [l \in 1..MaxTextLines |-> [kind |-> t[l].kind, end |-> end[l]]]

RowTexts == {TextOf(t) : t \in RowShapes}

=============================================================================
