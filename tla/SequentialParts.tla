----------------------------- MODULE SequentialParts -----------------------------
(***************************************************************************)
(* Three parts that share no state: the preparation of a document by an    *)
(* ingestion job, one retrieval request, and a walk through a listing.     *)
(* Every behaviour follows one of them, against what the rest of the       *)
(* system may do to it meanwhile.                                          *)
(***************************************************************************)
EXTENDS DocumentPreparation, AnswerEvidence, Listing

VARIABLE part   \* the one that is followed

vars == <<preparationVars, evidenceVars, listingVars, part>>

\* Only the part that is followed starts with a choice.
Init ==
    /\ part \in {"preparation", "evidence", "listing"}
    /\ PreparationInit(IF part = "preparation" THEN Texts ELSE {<<>>})
    /\ EvidenceInit
    /\ IF part = "listing" THEN ListingInit(Listings, SUBSET Rows)
                           ELSE ListingInit({"members"}, {{}})

Next ==
    /\ \/ /\ part = "preparation" /\ PreparationNext
          /\ UNCHANGED <<evidenceVars, listingVars>>
       \/ /\ part = "evidence" /\ EvidenceNext
          /\ UNCHANGED <<preparationVars, listingVars>>
       \/ /\ part = "listing" /\ ListingNext
          /\ UNCHANGED <<preparationVars, evidenceVars>>
    /\ UNCHANGED part

Spec == Init /\ [][Next]_vars
=================================================================================
