---------------------------- MODULE ConversationLog ----------------------------
(***************************************************************************)
(* What a conversation promises to those who ask in it and read it.  A key *)
(* asks one question and at most one question is open.  The list of answers*)
(* grows at its end, one whole answer at a time; an answer that was shown  *)
(* can be withdrawn, and the others keep their places.  A link of a        *)
(* citation goes with its source, and everything with the conversation.    *)
(***************************************************************************)
EXTENDS SequencesExt

CONSTANTS Keys, Bodies, Sources, None

VARIABLES
    question,   \* the body asked under each key, or None
    open,       \* the key whose question waits for its answer, if there is one
    shown,      \* the keys whose answers the list shows, oldest first
    links,      \* sources each answer links to
    gone,       \* sources that exist no more
    removed     \* the conversation was deleted

vars == <<question, open, shown, links, gone, removed>>

Init ==
    /\ question = [k \in Keys |-> None]
    /\ open = {}
    /\ shown = <<>>
    /\ links = [k \in Keys |-> {}]
    /\ gone = {}
    /\ removed = FALSE

Ask(k, b) ==
    /\ ~removed
    /\ open = {}
    /\ question[k] = None
    /\ question' = [question EXCEPT ![k] = b]
    /\ open' = {k}
    /\ UNCHANGED <<shown, links, gone, removed>>

(* The answer of the open question follows all that are shown.             *)
Answer(k, cites) ==
    /\ ~removed
    /\ open = {k}
    /\ open' = {}
    /\ shown' = Append(shown, k)
    /\ links' = [links EXCEPT ![k] = cites]
    /\ cites \cap gone = {}
    /\ UNCHANGED <<question, gone, removed>>

(* A question is given up.  Its key stays used.                            *)
GiveUp ==
    /\ open # {}
    /\ open' = {}
    /\ UNCHANGED <<question, shown, links, gone, removed>>

(* The failure mark of a request whose commit was not acknowledged.        *)
WithdrawAnswer(i) ==
    /\ shown' = RemoveAt(shown, i)
    /\ UNCHANGED <<question, open, links, gone, removed>>

Erase(s) ==
    /\ s \notin gone
    /\ gone' = gone \cup {s}
    /\ links' = [k \in Keys |-> links[k] \ {s}]
    /\ UNCHANGED <<question, open, shown, removed>>

RemoveConversation ==
    /\ ~removed
    /\ removed' = TRUE
    /\ question' = [k \in Keys |-> None]
    /\ open' = {}
    /\ shown' = <<>>
    /\ links' = [k \in Keys |-> {}]
    /\ UNCHANGED gone

Next ==
    \/ \E k \in Keys, b \in Bodies : Ask(k, b)
    \/ \E k \in Keys, cites \in SUBSET Sources : Answer(k, cites)
    \/ GiveUp
    \/ \E i \in DOMAIN shown : WithdrawAnswer(i)
    \/ \E s \in Sources : Erase(s)
    \/ RemoveConversation

Spec == Init /\ [][Next]_vars
================================================================================
