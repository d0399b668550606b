--------------------------------- MODULE MCListing ---------------------------------
(***************************************************************************)
(* Five rows, two pairs of them created at the same moment, pages of two.   *)
(***************************************************************************)
EXTENDS Listing

CONSTANTS l1, l2, l3, l4, l5

MCRowRank ==
    [r \in Rows |-> CASE r = l1 -> 1 [] r = l2 -> 2 [] r = l3 -> 3 [] r = l4 -> 4 [] r = l5 -> 5]
MCMoment ==
    [r \in Rows |-> CASE r = l1 -> 2 [] r = l2 -> 1 [] r = l3 -> 2 [] r = l4 -> 3 [] r = l5 -> 1]
=================================================================================
