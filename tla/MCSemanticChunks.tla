--------------------------- MODULE MCSemanticChunks ---------------------------
(* Instances of SemanticChunks for TLC: every text of a few pieces. *)
EXTENDS SemanticChunks

CONSTANT MaxText   \* bound: pieces of a text

\* A text begins with a line, and the word after a "#" is that of a title.
WellFormed(t) ==
    /\ t[1] \in LineStart \ {"top"}
    /\ \A i \in 1..Len(t) : t[i] = "mark" =>
        \E j \in i + 1 .. Len(t) : t[j] = "word" /\ \A k \in i + 1 .. j - 1 : t[k] = "more"

AllTexts == UNION {{t \in [1..n -> Piece] : WellFormed(t)} : n \in 1..MaxText}
=============================================================================
