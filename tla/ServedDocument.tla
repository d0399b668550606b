---------------------------- MODULE ServedDocument ----------------------------
(***************************************************************************)
(* What the lifecycle promises the searches of one document: they find one *)
(* index generation or none.  A generation is taken into service whole, in *)
(* one step and at most once; it stays until a newer one takes its place   *)
(* or the document is withdrawn, and it never comes back.                  *)
(***************************************************************************)
CONSTANTS Generations, Nothing

VARIABLES
    served,     \* the generation searches find, or Nothing
    fresh,      \* generations that may still be taken into service
    withdrawn   \* a deletion was accepted

vars == <<served, fresh, withdrawn>>

Init ==
    /\ served = Nothing
    /\ fresh = Generations
    /\ withdrawn = FALSE

(* Only of a generation that is new.  It is not said that a withdrawal     *)
(* comes after the last one: DeletionBlocksActivation of LifecycleClaims   *)
(* says so, and fails.                                                     *)
Activate(g) ==
    /\ g \in fresh
    /\ served' = g
    /\ fresh' = fresh \ {g}
    /\ UNCHANGED withdrawn

(* A deletion is accepted, and nothing is found from here on.              *)
Withdraw ==
    /\ ~withdrawn
    /\ withdrawn' = TRUE
    /\ served' = Nothing
    /\ UNCHANGED fresh

(* The purge drops generations; the one in service is not dropped.         *)
Forget ==
    /\ withdrawn
    /\ served = Nothing
    /\ fresh' \in SUBSET fresh
    /\ UNCHANGED <<served, withdrawn>>

Next == (\E g \in Generations : Activate(g)) \/ Withdraw \/ Forget

Spec == Init /\ [][Next]_vars
==============================================================================
