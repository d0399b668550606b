------------------------- MODULE MCDocumentLifecycle -------------------------
(* Symmetric processes and interchangeable replacement/reindex jobs.       *)
EXTENDS LifecycleClaims, TLC

Symmetry ==
    Permutations(Workers) \cup Permutations(Clients)
        \cup Permutations(Jobs \ {Initial})
==============================================================================
