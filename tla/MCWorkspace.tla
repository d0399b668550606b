------------------------------- MODULE MCWorkspace -------------------------------
(***************************************************************************)
(* A collection with one document, two more keys, two clients, two tabs    *)
(* and two exports, under a budget of requests they share.                 *)
(***************************************************************************)
EXTENDS Workspace

CONSTANTS k1, k2, k3, c1, c2, t1, t2, e1, e2

Rated == {[rating |-> "helpful", reason |-> "none"],
          [rating |-> "not_helpful", reason |-> "incorrect"],
          [rating |-> "not_helpful", reason |-> "other"]}
=================================================================================
