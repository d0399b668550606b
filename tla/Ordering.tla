-------------------------------- MODULE Ordering --------------------------------
(***************************************************************************)
(* ORDER BY of a query, and list.sort: the members of a finite set in a    *)
(* strict total order, given as a set of pairs.                            *)
(***************************************************************************)
EXTENDS Integers, FiniteSets

IsStrictOrder(S, order) ==
    /\ \A a, b, c \in S : <<a, b>> \in order /\ <<b, c>> \in order => <<a, c>> \in order
    /\ \A a, b \in S : a = b \/ <<a, b>> \in order \/ <<b, a>> \in order
    /\ \A a \in S : <<a, a>> \notin order

Before(S, order, a) == {b \in S : <<b, a>> \in order}

\* By a key, and among equal keys in another order.
By(S, key) == {p \in S \X S : key[p[1]] < key[p[2]]}
ThenBy(S, key, order) ==
    {p \in S \X S : key[p[1]] < key[p[2]] \/ (key[p[1]] = key[p[2]] /\ <<p[1], p[2]>> \in order)}

\* Position i holds the member that i - 1 others precede.
InOrder(S, order) ==
    [i \in 1 .. Cardinality(S) |-> CHOOSE a \in S : Cardinality(Before(S, order, a)) = i - 1]
=================================================================================
