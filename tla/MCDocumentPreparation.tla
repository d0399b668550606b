------------------------- MODULE MCDocumentPreparation -------------------------
(***************************************************************************)
(* Every text the cleaner can return over a letter, a full stop, a space   *)
(* and a line break, up to a length.                                       *)
(***************************************************************************)
EXTENDS DocumentPreparation

CONSTANT MaxLength

White == {" ", "newline"}

(* clean_text: lines are stripped, runs of spaces are one space, blank     *)
(* lines come one at a time.                                               *)
Clean(t) ==
    /\ t # <<>> => t[1] \notin White /\ t[Len(t)] \notin White
    /\ \A i \in 1 .. Len(t) - 1 : t[i] \in White /\ t[i + 1] \in White =>
            t[i] = "newline" /\ t[i + 1] = "newline"
    /\ \A i \in 1 .. Len(t) - 2 : \E k \in i .. i + 2 : t[k] # "newline"

CleanTexts == {t \in BoundedSeq({"a", ".", " ", "newline"}, MaxLength) : Clean(t)}
=================================================================================
