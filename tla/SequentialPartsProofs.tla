--------------------------- MODULE SequentialPartsProofs ---------------------------
(***************************************************************************)
(* The invariants of SequentialParts, for every set of rows, chunks and    *)
(* texts and every limit.  The parts share no variable: each invariant is  *)
(* proved for the steps of its own part and kept by those of the others.   *)
(***************************************************************************)
EXTENDS SequentialParts, OrderingProofs

-----------------------------------------------------------------------------
(* Listings: a walk by cursor.                                              *)

LEMMA ListingOrders ==
    ASSUME NEW S \in SUBSET Rows
    PROVE /\ IsFiniteSet(S)
          /\ IsStrictOrder(S, ById)
          /\ IsStrictOrder(S, NewestFirst)
          /\ IsStrictOrder(S, WalkOrder)
  <1>1. IsFiniteSet(S)
    BY FS_Subset, ListingAssumption
  <1>2. \A r \in Rows : RowRank[r] \in Nat /\ Moment[r] \in Nat
    BY ListingAssumption
  <1>3. \A r, s \in Rows : RowRank[r] = RowRank[s] => r = s
    BY ListingAssumption
  <1>4. \A r, s \in S : /\ <<r, s>> \in ById <=> RowRank[r] < RowRank[s]
                        /\ <<r, s>> \in NewestFirst <=>
                              \/ Moment[r] > Moment[s]
                              \/ Moment[r] = Moment[s] /\ RowRank[r] > RowRank[s]
    BY DEF ById, NewestFirst
  <1>5. IsStrictOrder(S, ById)
    BY <1>2, <1>3, <1>4 DEF IsStrictOrder
  <1>6. IsStrictOrder(S, NewestFirst)
    BY <1>2, <1>3, <1>4 DEF IsStrictOrder
  <1> QED
    BY <1>1, <1>5, <1>6 DEF WalkOrder

\* A page is in order.  It holds all the rows, or those that are not among its
\* first Limit rows come after them.
LEMMA PageSplits ==
    ASSUME NEW S \in SUBSET Rows, NEW order, IsStrictOrder(S, order)
    PROVE LET found == Page(S, order) IN
          /\ found \in Seq(S)
          /\ \A i, j \in 1 .. Len(found) : i < j => <<found[i], found[j]>> \in order
          /\ Len(found) <= Limit => S \subseteq ToSet(found)
          /\ Len(found) > Limit => \A r \in S :
                \/ \E i \in 1 .. Limit : found[i] = r
                \/ <<found[Limit], r>> \in order
  <1> DEFINE list == InOrder(S, order)
             n == Len(list)
             m == IF Limit < n THEN Limit + 1 ELSE n
             found == SubSeq(list, 1, m)
  <1>1. IsFiniteSet(S)
    BY ListingOrders
  <1>2. /\ list \in Seq(S)
        /\ \A a \in S : \E i \in DOMAIN list : list[i] = a
        /\ \A i, j \in DOMAIN list : i < j => <<list[i], list[j]>> \in order
    BY <1>1, InOrderSorts
  <1>3. Limit \in Nat /\ Limit >= 1
    BY ListingAssumption
  <1>4. Page(S, order) = found
    BY DEF Page
  <1> HIDE DEF list
  <1>5. n \in Nat /\ DOMAIN list = 1 .. n /\ \A i \in 1 .. n : list[i] \in S
    BY <1>2
  <1> HIDE DEF n
  <1>6. m \in Nat /\ m <= n /\ (m <= Limit => m = n)
    BY <1>3, <1>5
  <1>7. /\ found \in Seq(S) /\ Len(found) = m
        /\ \A i \in 1 .. m : found[i] = list[i]
    BY <1>5, <1>6, SubSeqProperties
  <1> HIDE DEF m, found
  <1>8. \A i, j \in 1 .. Len(found) : i < j => <<found[i], found[j]>> \in order
    <2>1. ASSUME NEW i \in 1 .. m, NEW j \in 1 .. m, i < j
          PROVE <<found[i], found[j]>> \in order
      <3>1. i \in 1 .. n /\ j \in 1 .. n
        BY <1>5, <1>6
      <3> QED
        BY <1>2, <1>5, <1>7, <2>1, <3>1
    <2> QED
      BY <1>7, <2>1
  <1>9. ASSUME Len(found) <= Limit PROVE S \subseteq ToSet(found)
    <2>1. DOMAIN found = 1 .. m /\ m = n
      BY <1>6, <1>7, <1>9
    <2> QED
      BY <1>2, <1>5, <1>7, <2>1 DEF ToSet
  <1>10. ASSUME Len(found) > Limit, NEW r \in S
         PROVE \/ \E i \in 1 .. Limit : found[i] = r
               \/ <<found[Limit], r>> \in order
    <2>1. PICK i \in 1 .. n : list[i] = r
      BY <1>2, <1>5
    <2>2. Limit \in 1 .. m /\ Limit \in 1 .. n /\ found[Limit] = list[Limit]
      <3>1. Limit \in 1 .. m
        BY <1>3, <1>6, <1>7, <1>10
      <3>2. Limit \in 1 .. n
        BY <1>3, <1>5, <1>6, <3>1
      <3> QED
        BY <1>7, <3>1, <3>2
    <2>3. CASE i <= Limit
      BY <1>3, <1>6, <1>7, <1>10, <2>1, <2>3
    <2>4. CASE Limit < i
      BY <1>2, <1>5, <2>1, <2>2, <2>4
    <2> QED
      BY <1>3, <1>5, <2>3, <2>4
  <1> QED
    BY <1>4, <1>7, <1>8, <1>9, <1>10

\* A page adds to the walk what comes after its cursor, in order, and moves the
\* cursor to the last row it shows.
LEMMA AnswerKeepsListing ==
    ASSUME WalkInv, CursorIsStable, listing \in {"conversations", "messages"},
           walk.op = "pages", listing' = listing, table' = table,
           Answer(Page(Past(WalkOrder), WalkOrder), LastShown(Page(Past(WalkOrder), WalkOrder)))
    PROVE WalkInv' /\ CursorIsStable'
  <1> DEFINE S == Past(WalkOrder)
             found == Page(S, WalkOrder)
             n == Len(found)
             old == walk.shown
             m == Len(old)
             new == walk'.shown
             shown == IF n > Limit THEN SubSeq(found, 1, Limit) ELSE found
             k == Len(shown)
  <1>1. S \in SUBSET Rows /\ WalkOrder' = WalkOrder
    BY DEF Past, WalkInv, WalkOrder, ById, NewestFirst
  <1>2. /\ found \in Seq(S)
        /\ \A i, j \in 1 .. n : i < j => <<found[i], found[j]>> \in WalkOrder
        /\ n <= Limit => S \subseteq ToSet(found)
        /\ n > Limit => \A r \in S :
              \/ \E i \in 1 .. Limit : found[i] = r
              \/ <<found[Limit], r>> \in WalkOrder
    <2>1. IsStrictOrder(S, WalkOrder)
      BY <1>1, ListingOrders
    <2> HIDE DEF S
    <2> QED
      BY <1>1, <2>1, PageSplits
  <1>3. /\ walk.cursor = Start => old = <<>>
        /\ walk.cursor # Start => old # <<>> /\ Last(old) = walk.cursor
        /\ \A r \in walk.steady :
            \/ r \in ToSet(old)
            \/ walk.cursor = Start \/ <<walk.cursor, r>> \in WalkOrder
        /\ walk.cursor \in Rows \cup {Start} /\ old \in Seq(Rows)
        /\ table \subseteq Rows /\ walk.steady \subseteq table
    BY DEF WalkInv
  <1>4. Limit \in Nat /\ Limit >= 1 /\ Start \notin Rows
    BY ListingAssumption
  <1>5. walk' = IF n > Limit
                THEN [walk EXCEPT !.cursor = found[Limit], !.shown = old \o SubSeq(found, 1, Limit)]
                ELSE [walk EXCEPT !.op = "done", !.shown = old \o found]
    BY DEF Answer, LastShown
  <1>6. \A r \in S : r \in table /\ (walk.cursor = Start \/ <<walk.cursor, r>> \in WalkOrder)
    BY DEF Past
  <1>7. \A r \in walk.steady : r \in ToSet(old) \/ r \in S
    BY <1>3 DEF Past
  <1>8. \A i, j \in DOMAIN old : i < j => <<old[i], old[j]>> \in WalkOrder
    BY DEF CursorIsStable
  <1>9. IsStrictOrder(Rows, WalkOrder)
    BY ListingOrders
  <1> HIDE DEF S, found
  <1>10. n \in Nat /\ DOMAIN found = 1 .. n /\ \A i \in 1 .. n : found[i] \in S
    BY <1>2
  <1> HIDE DEF n
  <1>11. /\ shown \in Seq(S) /\ k = IF n > Limit THEN Limit ELSE n
         /\ \A i \in 1 .. k : shown[i] = found[i]
    <2>1. CASE n > Limit
      <3>1. \A i \in 1 .. Limit : found[i] \in S
        BY <1>4, <1>10, <2>1
      <3>2. /\ SubSeq(found, 1, Limit) \in Seq(S)
            /\ Len(SubSeq(found, 1, Limit)) = Limit
            /\ \A i \in 1 .. Limit : SubSeq(found, 1, Limit)[i] = found[i]
        BY <1>4, <3>1, SubSeqProperties
      <3> QED
        BY <2>1, <3>2
    <2>2. CASE ~(n > Limit)
      BY <1>2, <2>2 DEF n
    <2> QED
      BY <2>1, <2>2
  <1>12. new = old \o shown
    BY <1>5 DEF WalkInv
  <1> HIDE DEF shown
  <1>13. k \in Nat /\ k <= n /\ \A i \in 1 .. k : shown[i] \in S /\ shown[i] = found[i]
    BY <1>4, <1>10, <1>11
  <1> HIDE DEF k
  <1>14. m \in Nat /\ DOMAIN old = 1 .. m /\ \A i \in 1 .. m : old[i] \in Rows
    BY <1>3
  <1>15. /\ new \in Seq(Rows) /\ Len(new) = m + k
         /\ \A i \in 1 .. m + k : new[i] = IF i <= m THEN old[i] ELSE shown[i - m]
    <2>1. shown \in Seq(Rows)
      BY <1>1, <1>11
    <2> QED
      BY <1>3, <1>12, <2>1, ConcatProperties DEF k
  <1>16. m > 0 <=> walk.cursor # Start
    BY <1>3
  <1>17. m > 0 => old[m] = walk.cursor
    BY <1>3, <1>16 DEF Last
  <1> HIDE DEF m, old, new
  <1>18. ASSUME NEW i \in 1 .. m + k, NEW j \in 1 .. m + k, i < j
         PROVE <<new[i], new[j]>> \in WalkOrder
    <2>1. CASE j <= m
      BY <1>8, <1>14, <1>15, <1>18, <2>1
    <2>2. CASE m < i
      <3>1. /\ i - m \in 1 .. n /\ j - m \in 1 .. n /\ i - m < j - m
            /\ i - m \in 1 .. k /\ j - m \in 1 .. k
        BY <1>10, <1>13, <1>14, <1>18, <2>2
      <3>2. new[i] = found[i - m] /\ new[j] = found[j - m]
        BY <1>13, <1>14, <1>15, <1>18, <2>2, <3>1
      <3> QED
        BY <1>2, <3>1, <3>2 DEF n
    <2>3. CASE i <= m /\ m < j
      <3>1. i \in 1 .. m /\ j - m \in 1 .. k /\ m \in 1 .. m
        BY <1>13, <1>14, <1>18, <2>3
      <3>2. new[i] = old[i] /\ new[j] = shown[j - m] /\ shown[j - m] \in S
        BY <1>13, <1>14, <1>15, <2>3, <3>1
      <3>3. walk.cursor # Start /\ old[m] = walk.cursor
        BY <1>14, <1>16, <1>17, <3>1
      <3>4. <<old[m], new[j]>> \in WalkOrder
        BY <1>6, <3>2, <3>3
      <3>5. i = m \/ <<old[i], old[m]>> \in WalkOrder
        BY <1>8, <1>14, <3>1
      <3>6. old[i] \in Rows /\ old[m] \in Rows /\ new[j] \in Rows
        BY <1>1, <1>14, <3>1, <3>2
      <3> QED
        BY <1>9, <3>2, <3>4, <3>5, <3>6 DEF IsStrictOrder
    <2> QED
      BY <1>13, <1>14, <1>18, <2>1, <2>2, <2>3
  <1>19. ToSet(old) \subseteq ToSet(new)
    <2>1. \A i \in 1 .. m : i \in 1 .. m + k /\ new[i] = old[i]
      BY <1>13, <1>14, <1>15
    <2> QED
      BY <1>14, <1>15, <2>1 DEF ToSet
  <1>20. ASSUME NEW i \in 1 .. k PROVE found[i] \in ToSet(new)
    <2>1. m + i \in 1 .. m + k /\ new[m + i] = shown[i]
      BY <1>13, <1>14, <1>15
    <2> QED
      BY <1>13, <1>15, <2>1 DEF ToSet
  <1>21. CASE n > Limit
    <2>1. /\ walk' = [walk EXCEPT !.cursor = found[Limit], !.shown = new]
          /\ k = Limit /\ k \in 1 .. n /\ k \in 1 .. k
      BY <1>4, <1>5, <1>10, <1>11, <1>12, <1>21 DEF old, shown
    <2>2. found[Limit] \in Rows /\ found[Limit] # Start
      BY <1>1, <1>4, <1>10, <2>1
    <2>3. new # <<>> /\ Last(new) = found[Limit]
      <3>1. m + k \in 1 .. m + k /\ ~(m + k <= m) /\ (m + k) - m = k
        BY <1>13, <1>14, <2>1
      <3>2. new[m + k] = found[Limit]
        BY <1>13, <1>15, <2>1, <3>1
      <3> QED
        BY <1>15, <3>1, <3>2 DEF Last
    <2>4. ASSUME NEW r \in walk.steady
          PROVE r \in ToSet(new) \/ <<found[Limit], r>> \in WalkOrder
      BY <1>2, <1>7, <1>19, <1>20, <1>21, <2>1 DEF n
    <2>5. /\ walk'.op = "pages" /\ walk'.cursor = found[Limit] /\ walk'.shown = new
          /\ walk'.steady = walk.steady
      BY <2>1 DEF WalkInv
    <2>6. WalkInv'
      <3>1. walk' \in [op : {"idle", "pages", "done", "refused"}, cursor : Rows \cup {Start},
                      shown : Seq(Rows), steady : SUBSET table']
        BY <1>15, <2>1, <2>2 DEF WalkInv
      <3> QED
        BY <1>1, <1>3, <2>2, <2>3, <2>4, <2>5, <3>1 DEF WalkInv
    <2> QED
      BY <1>1, <1>15, <1>18, <2>5, <2>6 DEF CursorIsStable, Complete
  <1>22. CASE ~(n > Limit)
    <2>1. walk' = [walk EXCEPT !.op = "done", !.shown = new] /\ k = n
      BY <1>5, <1>11, <1>12, <1>22 DEF old, shown
    <2>2. S \subseteq ToSet(new)
      <3>1. S \subseteq ToSet(found)
        BY <1>2, <1>4, <1>10, <1>22 DEF n
      <3> QED
        BY <1>10, <1>20, <2>1, <3>1 DEF ToSet
    <2>3. walk.steady \subseteq ToSet(new)
      BY <1>7, <1>19, <2>2
    <2>4. /\ walk'.op = "done" /\ walk'.cursor = walk.cursor /\ walk'.shown = new
          /\ walk'.steady = walk.steady
      BY <2>1 DEF WalkInv
    <2>5. WalkInv'
      <3>1. walk' \in [op : {"idle", "pages", "done", "refused"}, cursor : Rows \cup {Start},
                      shown : Seq(Rows), steady : SUBSET table']
        BY <1>15, <2>1 DEF WalkInv
      <3> QED
        BY <1>3, <2>4, <3>1 DEF WalkInv
    <2> QED
      BY <1>1, <1>15, <1>18, <2>3, <2>4, <2>5 DEF CursorIsStable, Complete
  <1> QED
    BY <1>21, <1>22

\* Rows that leave are no longer expected of the walk.
LEMMA LeavesKeepsListing ==
    ASSUME WalkInv, CursorIsStable, listing \in {"conversations", "messages"},
           listing' = listing, NEW rows, Leaves(rows)
    PROVE WalkInv' /\ CursorIsStable'
  <1>1. /\ walk' = [walk EXCEPT !.steady = walk.steady \ rows]
        /\ table' = table \ rows /\ WalkOrder' = WalkOrder
    BY DEF Leaves, WalkOrder, ById, NewestFirst
  <1>2. /\ walk'.op = walk.op /\ walk'.cursor = walk.cursor /\ walk'.shown = walk.shown
        /\ walk'.steady = walk.steady \ rows
        /\ walk'.steady \subseteq table'
    BY <1>1 DEF WalkInv
  <1>3. walk' \in [op : {"idle", "pages", "done", "refused"}, cursor : Rows \cup {Start},
                  shown : Seq(Rows), steady : SUBSET table']
    BY <1>1, <1>2 DEF WalkInv
  <1>4. walk.op = "idle" => walk' = NoWalk
    <2>1. ASSUME walk.op = "idle" PROVE walk'.steady = {}
      BY <1>2, <2>1 DEF WalkInv, NoWalk
    <2> QED
      BY <1>2, <1>3, <2>1 DEF WalkInv, NoWalk
  <1>5. WalkInv'
    BY <1>1, <1>2, <1>3, <1>4 DEF WalkInv
  <1> QED
    BY <1>1, <1>2, <1>5 DEF CursorIsStable, Complete

\* Every step of the routes and of the rest keeps the invariant.
LEMMA ListingStep ==
    ASSUME ListingInv, ListingNext
    PROVE ListingInv'
  <1>1. listing' = listing
    BY DEF ListingNext
  <1> SUFFICES ASSUME listing \in {"conversations", "messages"}
               PROVE WalkInv' /\ CursorIsStable'
    BY <1>1 DEF ListingInv
  <1>2. WalkInv /\ CursorIsStable
    BY DEF ListingInv
  <1>3. WalkOrder' = WalkOrder
    BY <1>1 DEF WalkOrder, ById, NewestFirst
  <1>4. CASE BeginWalk
    <2>1. /\ walk' = [NoWalk EXCEPT !.op = "pages", !.steady = table] /\ table' = table
      BY <1>2, <1>4 DEF BeginWalk, WalkInv
    <2>2. walk' = [op |-> "pages", cursor |-> Start, shown |-> <<>>, steady |-> table]
      BY <2>1 DEF NoWalk
    <2>3. walk' \in [op : {"idle", "pages", "done", "refused"}, cursor : Rows \cup {Start},
                    shown : Seq(Rows), steady : SUBSET table']
      <3>1. <<>> \in Seq(Rows)
        BY EmptySeq
      <3>2. PICK s \in Seq(Rows) : s = <<>>
        BY <3>1
      <3>3. walk' = [op |-> "pages", cursor |-> Start, shown |-> s, steady |-> table]
        BY <2>2, <3>2
      <3> QED
        BY <2>1, <3>3
    <2>4. /\ walk'.op = "pages" /\ walk'.cursor = Start /\ walk'.shown = <<>>
          /\ DOMAIN walk'.shown = {}
      BY <2>2
    <2>5. WalkInv'
      BY <1>2, <2>1, <2>3, <2>4 DEF WalkInv
    <2> QED
      BY <2>4, <2>5 DEF CursorIsStable, Complete
  <1>5. CASE walk.op = "pages" /\ NotFound /\ table' = table
    <2>1. /\ walk' = [walk EXCEPT !.op = "refused"] /\ table' = table
      BY <1>5 DEF NotFound
    <2>2. /\ walk'.op = "refused" /\ walk'.cursor = walk.cursor /\ walk'.shown = walk.shown
          /\ walk'.steady = walk.steady
      BY <1>2, <2>1 DEF WalkInv
    <2>3. walk' \in [op : {"idle", "pages", "done", "refused"}, cursor : Rows \cup {Start},
                    shown : Seq(Rows), steady : SUBSET table']
      BY <1>2, <2>1 DEF WalkInv
    <2> QED
      BY <1>2, <1>3, <2>1, <2>2, <2>3 DEF WalkInv, CursorIsStable, Complete
  <1>6. CASE NextPage
    <2>1. walk.op = "pages"
      BY <1>6 DEF NextPage
    <2>2. CASE ListConversations
      <3>1. /\ listing = "conversations" /\ table' = table /\ WalkOrder = NewestFirst
            /\ \/ NotFound
               \/ Answer(Page(Past(NewestFirst), NewestFirst),
                         LastShown(Page(Past(NewestFirst), NewestFirst)))
        BY <2>2 DEF ListConversations, WalkOrder
      <3>2. CASE NotFound
        BY <1>5, <2>1, <3>1, <3>2
      <3> QED
        BY <1>1, <1>2, <2>1, <3>1, <3>2, AnswerKeepsListing
    <2>3. CASE ListMessages
      <3>1. /\ listing = "messages" /\ table' = table /\ WalkOrder = ById
            /\ \/ NotFound
               \/ Answer(Page(Past(ById), ById), LastShown(Page(Past(ById), ById)))
        BY <2>3 DEF ListMessages, WalkOrder
      <3>2. CASE NotFound
        BY <1>5, <2>1, <3>1, <3>2
      <3> QED
        BY <1>1, <1>2, <2>1, <3>1, <3>2, AnswerKeepsListing
    <2>4. ~ListMembers /\ ~ListInvitations /\ ~ListGrants /\ ~\E viewed \in Rows : ListAuditEvents(viewed)
      BY DEF ListMembers, ListInvitations, ListGrants, ListAuditEvents
    <2> QED
      BY <1>6, <2>2, <2>3, <2>4 DEF NextPage
  <1>7. CASE \E r \in Rows : InsertRow(r)
    <2>1. PICK r \in Rows : table' = table \cup {r} /\ walk' = walk
      BY <1>7 DEF InsertRow
    <2> QED
      BY <1>2, <1>3, <2>1 DEF WalkInv, CursorIsStable, Complete
  <1>8. CASE \E r \in Rows : DeleteRow(r)
    BY <1>1, <1>2, <1>8, LeavesKeepsListing DEF DeleteRow
  <1>9. CASE DeleteParent
    BY <1>1, <1>2, <1>9, LeavesKeepsListing DEF DeleteParent
  <1> QED
    BY <1>4, <1>6, <1>7, <1>8, <1>9 DEF ListingNext

LEMMA ListingInvariant == Spec => []ListingInv
  <1>1. Init => ListingInv
    <2> SUFFICES ASSUME Init PROVE WalkInv /\ CursorIsStable
      BY DEF ListingInv
    <2>1. table \subseteq Rows /\ walk = NoWalk
      BY DEF Init, ListingInit
    <2> QED
      BY <2>1 DEF WalkInv, CursorIsStable, Complete, NoWalk
  <1>2. ListingInv /\ [Next]_vars => ListingInv'
    <2> SUFFICES ASSUME ListingInv, [Next]_vars PROVE ListingInv'
      OBVIOUS
    <2>1. ListingNext \/ UNCHANGED listingVars
      BY DEF Next, vars
    <2>2. CASE UNCHANGED listingVars
      BY <2>2 DEF listingVars, ListingInv, WalkInv, CursorIsStable, Complete, WalkOrder, ById,
                  NewestFirst
    <2> QED
      BY <2>1, <2>2, ListingStep
  <1> QED
    BY <1>1, <1>2, PTL DEF Spec

\* Whatever is created and deleted between two pages, a walk by the cursors of
\* conversations and messages shows every row that stays, once and in order.
THEOREM CursorAlwaysStable == Spec => []CursorIsStable
  <1>1. ListingInv => CursorIsStable
    BY DEF ListingInv, CursorIsStable
  <1> QED
    BY <1>1, ListingInvariant, PTL

-----------------------------------------------------------------------------
(* Preparation: cutting.                                                    *)

\* The end of a chunk lies after its start and within both limits.
LEMMA PreferredEndFits ==
    ASSUME text \in Seq(STRING), NEW s \in 0 .. Len(text) - 1
    PROVE /\ PreferredEnd(s) \in s + 1 .. Len(text)
          /\ PreferredEnd(s) - s \in 1 .. MaxChars
  <1> DEFINE n == Len(text)
             hard == Min({n, s + MaxChars})
             target == Min({hard, s + TargetChars})
             ends == SentenceEnds(s, hard)
             after == {e \in ends : e >= target}
             spaces == {i \in s + 1 .. hard : text[i + 1] = " "}
  <1>1. n \in Nat
    OBVIOUS
  <1> HIDE DEF n
  <1>2. MaxChars \in Nat \ {0} /\ s \in Int /\ 0 <= s /\ s < n
    BY <1>1, PreparationAssumption DEF n
  <1>3. hard = IF n <= s + MaxChars THEN n ELSE s + MaxChars
    BY <1>1, <1>2, MinOfTwo
  <1> HIDE DEF hard
  <1>4. hard \in Int /\ s + 1 <= hard /\ hard <= n /\ hard <= s + MaxChars
    BY <1>1, <1>2, <1>3
  <1>5. ends \subseteq s + 1 .. hard /\ after \subseteq s + 1 .. hard /\ spaces \subseteq s + 1 .. hard
    BY DEF SentenceEnds
  <1>6. PreferredEnd(s) =
            CASE hard = n -> hard
              [] hard # n /\ after # {} -> Min(after)
              [] hard # n /\ after = {} /\ ends # {} -> Max(ends)
              [] hard # n /\ ends = {} /\ spaces # {} -> Max(spaces)
              [] OTHER -> hard
    BY DEF PreferredEnd, hard, n
  <1>7. ASSUME NEW S, S \subseteq s + 1 .. hard, S # {}
        PROVE Min(S) \in s + 1 .. hard /\ Max(S) \in s + 1 .. hard
    <2>1. S \in SUBSET Int /\ s + 1 \in Int /\ \A x \in S : s + 1 <= x /\ x <= hard
      BY <1>2, <1>4, <1>7
    <2> QED
      BY <1>4, <1>7, <2>1, MinBounded, MaxBounded
  <1> HIDE DEF after, ends, spaces
  <1>8. hard \in s + 1 .. hard
    BY <1>2, <1>4
  <1>9. PreferredEnd(s) \in s + 1 .. hard
    <2>1. after # {} => Min(after) \in s + 1 .. hard
      BY <1>5, <1>7
    <2>2. ends # {} => Max(ends) \in s + 1 .. hard
      BY <1>5, <1>7
    <2>3. spaces # {} => Max(spaces) \in s + 1 .. hard
      BY <1>5, <1>7
    <2> QED
      BY <1>6, <1>8, <2>1, <2>2, <2>3
  <1> QED
    BY <1>1, <1>2, <1>4, <1>9 DEF n

\* The next chunk starts at least one character on, and leaves no gap.
LEMMA NextStartFits ==
    ASSUME NEW s \in Nat, NEW e \in Nat, s < e
    PROVE NextStart(s, e) \in s + 1 .. e
  <1> DEFINE next == Max({s + 1, e - OverlapChars})
             spaces == {i \in next .. e - 1 : text[i + 1] = " "}
  <1>1. OverlapChars \in Nat
    BY PreparationAssumption
  <1>2. next = IF s + 1 <= e - OverlapChars THEN e - OverlapChars ELSE s + 1
    BY <1>1, MaxOfTwo
  <1> HIDE DEF next
  <1>3. next \in s + 1 .. e
    BY <1>1, <1>2
  <1>4. NextStart(s, e) = IF spaces # {} THEN Min(spaces) + 1 ELSE next
    BY DEF NextStart, next
  <1>5. CASE spaces # {}
    <2>1. spaces \subseteq next .. e - 1
      OBVIOUS
    <2> HIDE DEF spaces
    <2>2. spaces \in SUBSET Int /\ next \in Int /\ \A i \in spaces : next <= i
      BY <1>3, <2>1
    <2>3. Min(spaces) \in next .. e - 1
      BY <1>5, <2>1, <2>2, MinBounded
    <2> QED
      BY <1>3, <1>4, <1>5, <2>3
  <1> QED
    BY <1>3, <1>4, <1>5

\* Cutting keeps what is cut, moves forward and leaves no gap.
LEMMA CutKeepsPieces ==
    ASSUME text \in Seq(STRING), CutSoFar, Cut
    PROVE CutSoFar' /\ batches' = <<>> /\ vectors' = <<>>
  <1> DEFINE n == Len(text)
             e == PreferredEnd(start)
             k == Len(chunks)
             new == [from |-> start, to |-> e]
  <1>1. /\ chunks \in Seq([from : 0 .. n, to : 0 .. n])
        /\ \A i \in DOMAIN chunks : Tokens(chunks[i]) \in 1 .. MaxChars
        /\ \A i, j \in DOMAIN chunks : i < j => chunks[i].from < chunks[j].from
        /\ start \in 0 .. n /\ start < n
        /\ \A i \in DOMAIN chunks : chunks[i].from < start
        /\ \A o \in 0 .. start - 1 :
            \E i \in DOMAIN chunks : chunks[i].from <= o /\ o < chunks[i].to
        /\ batches = <<>> /\ vectors = <<>>
    BY DEF Cut, CutSoFar, Piece
  <1>2. /\ text' = text /\ batches' = batches /\ vectors' = vectors
        /\ chunks' = Append(chunks, new)
        /\ start' = IF e >= n THEN start ELSE NextStart(start, e)
        /\ phase' = IF e >= n THEN "batch" ELSE "chunk"
    BY DEF Cut
  <1>3. n \in Nat /\ start \in Nat /\ start \in 0 .. n - 1
    <2>1. n \in Nat
      BY LenProperties
    <2>2. start \in 0 .. n /\ start < n
      BY <1>1
    <2> HIDE DEF n
    <2> QED
      BY <2>1, <2>2
  <1>4. e \in start + 1 .. n /\ e - start \in 1 .. MaxChars
    <2>1. \A s \in 0 .. n - 1 : PreferredEnd(s) \in s + 1 .. n /\ PreferredEnd(s) - s \in 1 .. MaxChars
      BY PreferredEndFits
    <2> HIDE DEF n
    <2> QED
      BY <1>3, <2>1
  <1> HIDE DEF n, e
  <1>5. e \in Nat /\ start < e /\ e <= n /\ new \in [from : 0 .. n, to : 0 .. n]
    BY <1>1, <1>3, <1>4
  <1>6. NextStart(start, e) \in start + 1 .. e
    BY <1>3, <1>5, NextStartFits
  <1>7. k \in Nat /\ DOMAIN chunks = 1 .. k /\ \A i \in 1 .. k : chunks[i] \in [from : 0 .. n, to : 0 .. n]
    BY <1>1, LenProperties, ElementOfSeq
  <1>8. /\ chunks' \in Seq([from : 0 .. n, to : 0 .. n]) /\ DOMAIN chunks' = 1 .. k + 1
        /\ \A i \in 1 .. k : chunks'[i] = chunks[i]
        /\ chunks'[k + 1] = new
    <2>1. /\ chunks' \in Seq([from : 0 .. n, to : 0 .. n]) /\ Len(chunks') = k + 1
          /\ \A i \in 1 .. k : chunks'[i] = chunks[i]
          /\ chunks'[k + 1] = new
      BY <1>1, <1>2, <1>5, AppendProperties
    <2> QED
      BY <2>1
  <1> HIDE DEF k
  <1>9. new.from = start /\ new.to = e
    OBVIOUS
  <1> HIDE DEF new
  <1>10. \A i \in 1 .. k + 1 : i \in 1 .. k \/ i = k + 1
    BY <1>7
  <1>11. \A i \in DOMAIN chunks' : Tokens(chunks'[i]) \in 1 .. MaxChars
    BY <1>1, <1>4, <1>7, <1>8, <1>9, <1>10 DEF Tokens
  <1>12. \A i, j \in DOMAIN chunks' : i < j => chunks'[i].from < chunks'[j].from
    <2>1. ASSUME NEW i \in 1 .. k + 1, NEW j \in 1 .. k + 1, i < j
          PROVE chunks'[i].from < chunks'[j].from
      <3>1. i \in 1 .. k
        BY <1>7, <2>1
      <3>2. CASE j \in 1 .. k
        BY <1>1, <1>7, <1>8, <2>1, <3>1, <3>2
      <3>3. CASE j = k + 1
        BY <1>1, <1>7, <1>8, <1>9, <3>1, <3>3
      <3> QED
        BY <1>10, <3>2, <3>3
    <2> QED
      BY <1>8, <2>1
  <1>13. \A o \in 0 .. e - 1 :
            \E i \in DOMAIN chunks' : chunks'[i].from <= o /\ o < chunks'[i].to
    <2> TAKE o \in 0 .. e - 1
    <2>1. CASE o < start
      <3>1. PICK i \in 1 .. k : chunks[i].from <= o /\ o < chunks[i].to
        BY <1>1, <1>3, <1>7, <2>1
      <3>2. i \in 1 .. k + 1
        BY <1>7
      <3> QED
        BY <1>8, <3>1, <3>2
    <2>2. CASE start <= o
      <3>1. k + 1 \in 1 .. k + 1 /\ o < e
        BY <1>5, <1>7
      <3> QED
        BY <1>8, <1>9, <2>2, <3>1
    <2> QED
      BY <1>3, <2>1, <2>2
  <1>14. phase' = "chunk" => /\ start' \in 0 .. n /\ start' < n
                            /\ \A i \in DOMAIN chunks' : chunks'[i].from < start'
                            /\ \A o \in 0 .. start' - 1 : o \in 0 .. e - 1
    <2> SUFFICES ASSUME phase' = "chunk"
                 PROVE /\ start' \in 0 .. n /\ start' < n
                       /\ \A i \in DOMAIN chunks' : chunks'[i].from < start'
                       /\ \A o \in 0 .. start' - 1 : o \in 0 .. e - 1
      OBVIOUS
    <2>1. start' = NextStart(start, e) /\ e < n
      BY <1>2, <1>3, <1>5
    <2>2. start' \in start + 1 .. e
      BY <1>6, <2>1
    <2>3. start' \in 0 .. n /\ start' < n /\ start < start' /\ \A o \in 0 .. start' - 1 : o \in 0 .. e - 1
      BY <1>3, <1>5, <2>1, <2>2
    <2>4. ASSUME NEW i \in 1 .. k + 1 PROVE chunks'[i].from < start'
      <3>1. CASE i \in 1 .. k
        <4>1. chunks[i].from < start /\ chunks[i].from \in 0 .. n
          BY <1>1, <1>7, <3>1
        <4> QED
          BY <1>3, <1>8, <2>3, <3>1, <4>1
      <3>2. CASE i = k + 1
        BY <1>8, <1>9, <2>3, <3>2
      <3> QED
        BY <1>10, <3>1, <3>2
    <2> QED
      BY <1>8, <2>3, <2>4
  <1>15. phase' # "chunk" => e = n /\ phase' = "batch"
    BY <1>2, <1>3, <1>5
  <1>16. CutSoFar'
    <2>1. Len(text') = n /\ text' = text
      BY <1>2 DEF n
    <2>2. phase' \in {"chunk", "batch"}
      BY <1>2
    <2>3. phase' = "chunk" =>
            /\ batches' = <<>> /\ vectors' = <<>>
            /\ start' \in 0 .. n /\ start' < n
            /\ \A i \in DOMAIN chunks' : chunks'[i].from < start'
            /\ \A o \in 0 .. start' - 1 :
                \E i \in DOMAIN chunks' : chunks'[i].from <= o /\ o < chunks'[i].to
      BY <1>1, <1>2, <1>13, <1>14
    <2>4. phase' = "batch" =>
            \A o \in 0 .. n - 1 :
                \E i \in DOMAIN chunks' : chunks'[i].from <= o /\ o < chunks'[i].to
      BY <1>13, <1>15
    <2> QED
      BY <1>8, <1>11, <1>12, <2>1, <2>2, <2>3, <2>4 DEF CutSoFar, Piece, Tokens
  <1> QED
    BY <1>1, <1>2, <1>16

-----------------------------------------------------------------------------
(* Preparation: batching.                                                   *)

Batching(C) == [full : Seq(Seq(C)), batch : Seq(C), tokens : Int]

\* Placing the chunks one by one is defined, whatever their tokens are.
LEMMA PlacedDefined ==
    ASSUME NEW C, chunks \in Seq(C), \A c \in C : Tokens(c) \in Int
    PROVE /\ \A i \in 0 .. Len(chunks) : Placed[i] \in Batching(C)
          /\ Placed[0] = [full |-> <<>>, batch |-> <<>>, tokens |-> 0]
          /\ \A i \in 1 .. Len(chunks) : Placed[i] = AddChunk(Placed[i - 1], chunks[i])
  <1> DEFINE n == Len(chunks)
             D == Batching(C)
             base == [full |-> <<>>, batch |-> <<>>, tokens |-> 0]
             step == [i \in 1 .. n |-> [acc \in D |-> AddChunk(acc, chunks[i])]]
  <1>1. n \in Nat /\ \A i \in 1 .. n : chunks[i] \in C
    OBVIOUS
  <1>2. base \in D
    <2>1. <<>> \in Seq(Seq(C)) /\ <<>> \in Seq(C)
      BY EmptySeq
    <2>2. PICK full \in Seq(Seq(C)), batch \in Seq(C) : full = <<>> /\ batch = <<>>
      BY <2>1
    <2>3. [full |-> full, batch |-> batch, tokens |-> 0] \in D
      BY DEF Batching
    <2> QED
      BY <2>2, <2>3
  <1>3. ASSUME NEW acc \in D, NEW c \in C PROVE AddChunk(acc, c) \in D
    <2>1. acc.full \in Seq(Seq(C)) /\ acc.batch \in Seq(C) /\ acc.tokens \in Int /\ Tokens(c) \in Int
      BY DEF Batching
    <2>2. Append(acc.full, acc.batch) \in Seq(Seq(C)) /\ Append(acc.batch, c) \in Seq(C) /\ <<c>> \in Seq(C)
      BY <2>1, AppendProperties
    <2> QED
      BY <2>1, <2>2 DEF AddChunk, Batching
  <1> HIDE DEF n, D, base
  <1>4. step \in [1 .. n -> [D -> D]]
    BY <1>1, <1>3
  <1>5. \A i \in 1 .. n : \A acc \in D : step[i][acc] = AddChunk(acc, chunks[i])
    OBVIOUS
  <1> HIDE DEF step
  <1>6. PICK f : IsListLoop(f, n, D, base, step)
    BY <1>1, <1>2, <1>4, ListLoopDefined
  <1>7. f \in [0 .. n -> D] /\ f[0] = base /\ \A i \in 1 .. n : f[i] = AddChunk(f[i - 1], chunks[i])
    <2>1. f \in [0 .. n -> D] /\ f[0] = base /\ \A i \in 1 .. n : f[i] = step[i][f[i - 1]]
      BY <1>6 DEF IsListLoop
    <2>2. \A i \in 1 .. n : i - 1 \in 0 .. n
      BY <1>1
    <2> QED
      BY <1>5, <2>1, <2>2
  <1>8. f = [i \in 0 .. n |-> IF i = 0 THEN base ELSE AddChunk(f[i - 1], chunks[i])]
    <2>1. \A i \in 0 .. n : i = 0 \/ i \in 1 .. n
      BY <1>1
    <2> QED
      BY <1>7, <2>1
  <1>9. Placed = [i \in 0 .. n |-> IF i = 0 THEN base ELSE AddChunk(Placed[i - 1], chunks[i])]
    <2> HIDE DEF AddChunk
    <2> QED
      BY <1>8 DEF Placed, n, base
  <1>10. \A i \in 0 .. n : Placed[i] \in D
    <2> DEFINE P == {i \in Nat : i <= n => Placed[i] \in D}
    <2>1. 0 \in P
      BY <1>1, <1>2, <1>9
    <2>2. ASSUME NEW i \in Nat, i \in P PROVE i + 1 \in P
      <3>1. CASE i + 1 <= n
        <4>1. i + 1 \in 0 .. n /\ i + 1 # 0 /\ i + 1 \in 1 .. n /\ Placed[i] \in D /\ (i + 1) - 1 = i
          BY <1>1, <2>2, <3>1
        <4>2. Placed[i + 1] = AddChunk(Placed[i], chunks[i + 1])
          BY <1>9, <4>1
        <4> QED
          BY <1>1, <1>3, <4>1, <4>2
      <3> QED
        BY <3>1
    <2>3. Nat \subseteq P
      BY <2>1, <2>2, SetInduction
    <2> QED
      BY <1>1, <2>3
  <1>11. \A i \in 1 .. n : i \in 0 .. n /\ i # 0
    BY <1>1
  <1>12. Placed[0] = base /\ \A i \in 1 .. n : Placed[i] = AddChunk(Placed[i - 1], chunks[i])
    BY <1>1, <1>9, <1>11
  <1> QED
    BY <1>10, <1>12 DEF n, D, base

\* Where consecutive pieces of the chunks, from the first to chunk m, are cut.
Cuts(full, m) ==
    {cuts \in [1 .. Len(full) + 1 -> 0 .. Len(chunks)] :
        /\ cuts[1] = 0 /\ cuts[Len(full) + 1] = m
        /\ \A b \in 1 .. Len(full) :
            /\ cuts[b] <= cuts[b + 1]
            /\ full[b] = SubSeq(chunks, cuts[b] + 1, cuts[b + 1])}

\* The next piece may be added.
LEMMA CutsExtend ==
    ASSUME NEW C, chunks \in Seq(C), NEW full \in Seq(Seq(C)),
           NEW m \in 0 .. Len(chunks), NEW k \in 0 .. Len(chunks), m <= k, Cuts(full, m) # {}
    PROVE Cuts(Append(full, SubSeq(chunks, m + 1, k)), k) # {}
  <1> DEFINE piece == SubSeq(chunks, m + 1, k)
             longer == Append(full, piece)
             l == Len(full)
             n == Len(chunks)
  <1>1. PICK cuts \in Cuts(full, m) : TRUE
    OBVIOUS
  <1>2. /\ cuts \in [1 .. l + 1 -> 0 .. n]
        /\ cuts[1] = 0 /\ cuts[l + 1] = m
        /\ \A b \in 1 .. l : cuts[b] <= cuts[b + 1] /\ full[b] = SubSeq(chunks, cuts[b] + 1, cuts[b + 1])
    BY DEF Cuts
  <1>3. piece \in Seq(C)
    <2>1. \A i \in m + 1 .. k : chunks[i] \in C
      OBVIOUS
    <2> QED
      BY <2>1, SubSeqProperties
  <1>4. /\ Len(longer) = l + 1 /\ longer[l + 1] = piece
        /\ \A b \in 1 .. l : longer[b] = full[b]
    BY <1>3, AppendProperties
  <1>5. l \in Nat /\ n \in Nat /\ m \in 0 .. n /\ k \in 0 .. n
    OBVIOUS
  <1> DEFINE more == [b \in 1 .. l + 2 |-> IF b = l + 2 THEN k ELSE cuts[b]]
  <1> HIDE DEF l, n, longer
  <1>6. \A b \in 1 .. l + 2 : b = l + 2 \/ b \in 1 .. l + 1
    BY <1>5
  <1>7. more \in [1 .. l + 2 -> 0 .. n]
    BY <1>2, <1>5, <1>6
  <1>8. more[1] = 0 /\ more[l + 2] = k
    BY <1>2, <1>5
  <1>9. ASSUME NEW b \in 1 .. l + 1
        PROVE more[b] <= more[b + 1] /\ longer[b] = SubSeq(chunks, more[b] + 1, more[b + 1])
    <2>1. CASE b = l + 1
      <3>1. more[b] = m /\ more[b + 1] = k
        BY <1>2, <1>5, <2>1
      <3> QED
        BY <1>4, <2>1, <3>1
    <2>2. CASE b # l + 1
      <3>1. b \in 1 .. l /\ b + 1 \in 1 .. l + 1
        BY <1>5, <2>2
      <3>2. more[b] = cuts[b] /\ more[b + 1] = cuts[b + 1]
        BY <1>5, <3>1
      <3> QED
        BY <1>2, <1>4, <3>1, <3>2
    <2> QED
      BY <2>1, <2>2
  <1> HIDE DEF more
  <1>10. (l + 1) + 1 = l + 2
    BY <1>5
  <1>11. more \in Cuts(longer, k)
    BY <1>4, <1>7, <1>8, <1>9, <1>10 DEF Cuts, n
  <1> QED
    BY <1>11 DEF longer

\* The batches are consecutive pieces that make up the chunks.
LEMMA BatchesCoverChunks ==
    ASSUME NEW C, chunks \in Seq(C), \A c \in C : Tokens(c) \in Int
    PROVE TokenBatches \in Seq(Seq(C)) /\ Cuts(TokenBatches, Len(chunks)) # {}
  <1> DEFINE n == Len(chunks)
             Follows(i) == \E m \in 0 .. i : /\ Cuts(Placed[i].full, m) # {}
                                             /\ Placed[i].batch = SubSeq(chunks, m + 1, i)
             P == {i \in Nat : i <= n => Follows(i)}
  <1>1. n \in Nat /\ \A i \in 1 .. n : chunks[i] \in C
    OBVIOUS
  <1>2. /\ \A i \in 0 .. n : Placed[i] \in Batching(C)
        /\ Placed[0] = [full |-> <<>>, batch |-> <<>>, tokens |-> 0]
        /\ \A i \in 1 .. n : Placed[i] = AddChunk(Placed[i - 1], chunks[i])
    BY PlacedDefined
  <1>3. 0 \in P
    <2> DEFINE cuts == [b \in 1 .. 1 |-> 0]
    <2>1. cuts \in Cuts(<<>>, 0)
      <3>1. Len(<<>>) = 0 /\ (0 + 1) = 1
        BY EmptySeq
      <3> QED
        BY <1>1, <3>1 DEF Cuts
    <2>2. Placed[0].full = <<>> /\ Placed[0].batch = <<>> /\ SubSeq(chunks, 0 + 1, 0) = <<>>
      BY <1>2, SubSeqEmpty
    <2>3. 0 \in 0 .. 0
      OBVIOUS
    <2> HIDE DEF cuts
    <2> QED
      BY <2>1, <2>2, <2>3
  <1>4. ASSUME NEW i \in Nat, i \in P PROVE i + 1 \in P
    <2> SUFFICES ASSUME i + 1 <= n PROVE Follows(i + 1)
      <3> HIDE DEF Follows
      <3> QED
        OBVIOUS
    <2> DEFINE acc == Placed[i]
               c == chunks[i + 1]
    <2>1. i \in 0 .. n /\ i <= n /\ i + 1 \in 1 .. n /\ (i + 1) - 1 = i
      BY <1>1
    <2>2. PICK m \in 0 .. i : Cuts(acc.full, m) # {} /\ acc.batch = SubSeq(chunks, m + 1, i)
      BY <1>4, <2>1
    <2>3. Placed[i + 1] = AddChunk(acc, c) /\ c \in C
      BY <1>1, <1>2, <2>1
    <2>4. acc.full \in Seq(Seq(C)) /\ acc.batch \in Seq(C)
      BY <1>2, <2>1 DEF Batching
    <2>5. m \in 0 .. n /\ m <= i /\ m \in 0 .. i + 1 /\ i + 1 \in 0 .. n /\ i \in 0 .. i + 1 /\ i \in Nat
      BY <1>1, <2>1
    <2> HIDE DEF acc, c, n
    <2>6. CASE Placed[i + 1].full = Append(acc.full, acc.batch) /\ Placed[i + 1].batch = <<c>>
      <3>1. Cuts(Append(acc.full, SubSeq(chunks, m + 1, i)), i) # {}
        BY <2>1, <2>2, <2>4, <2>5, CutsExtend DEF n
      <3>2. SubSeq(chunks, i + 1, i + 1) = <<c>>
        <4>1. i + 1 \in i + 1 .. n
          BY <1>1, <2>1
        <4>2. SubSeq(chunks, i + 1, i + 1) = SubSeq(chunks, i + 1, (i + 1) - 1) \o <<chunks[i + 1]>>
          BY <2>1, <4>1, SubSeqRecursiveSecond DEF n
        <4>3. SubSeq(chunks, i + 1, i) = <<>> /\ <<c>> \in Seq(C)
          BY <2>1, <2>3, <2>5, SubSeqEmpty
        <4> QED
          BY <2>1, <4>2, <4>3, ConcatEmptySeq DEF c
      <3> QED
        BY <2>2, <2>5, <2>6, <3>1, <3>2
    <2>7. CASE Placed[i + 1].full = acc.full /\ Placed[i + 1].batch = Append(acc.batch, c)
      <3>1. SubSeq(chunks, m + 1, i + 1) = Append(SubSeq(chunks, m + 1, i), c)
        <4>1. m + 1 \in 1 .. n /\ i + 1 \in m + 1 .. n
          BY <1>1, <2>1, <2>5
        <4>2. SubSeq(chunks, m + 1, i + 1) = SubSeq(chunks, m + 1, (i + 1) - 1) \o <<chunks[i + 1]>>
          BY <4>1, SubSeqRecursiveSecond DEF n
        <4>3. Append(acc.batch, c) = acc.batch \o <<c>>
          BY <2>3, <2>4, AppendIsConcat
        <4> QED
          BY <2>1, <2>2, <4>2, <4>3 DEF c
      <3> QED
        BY <2>2, <2>5, <2>7, <3>1
    <2>8. \/ /\ Placed[i + 1].full = Append(acc.full, acc.batch)
             /\ Placed[i + 1].batch = <<c>>
          \/ /\ Placed[i + 1].full = acc.full
             /\ Placed[i + 1].batch = Append(acc.batch, c)
      BY <2>3 DEF AddChunk
    <2> QED
      BY <2>6, <2>7, <2>8
  <1>5. Nat \subseteq P
    BY <1>3, <1>4, SetInduction
  <1>6. Follows(n)
    <2> HIDE DEF Follows
    <2> QED
      BY <1>1, <1>5
  <1> DEFINE all == Placed[n]
  <1>7. PICK m \in 0 .. n : Cuts(all.full, m) # {} /\ all.batch = SubSeq(chunks, m + 1, n)
    BY <1>6
  <1>8. all.full \in Seq(Seq(C)) /\ all.batch \in Seq(C)
    BY <1>1, <1>2 DEF Batching
  <1>9. TokenBatches = IF all.batch = <<>> THEN all.full ELSE Append(all.full, all.batch)
    BY DEF TokenBatches
  <1> HIDE DEF all, n, P
  <1>10. CASE all.batch = <<>>
    <2>1. m = n
      <3>1. \A i \in m + 1 .. n : chunks[i] \in C
        BY <1>1
      <3>2. Len(SubSeq(chunks, m + 1, n)) = IF m + 1 <= n THEN n - (m + 1) + 1 ELSE 0
        BY <1>1, <3>1, SubSeqProperties
      <3>3. Len(SubSeq(chunks, m + 1, n)) = 0
        BY <1>7, <1>10, EmptySeq
      <3> QED
        BY <1>1, <3>2, <3>3
    <2> QED
      BY <1>7, <1>8, <1>9, <1>10, <2>1 DEF n
  <1>11. CASE all.batch # <<>>
    <2>1. Cuts(Append(all.full, SubSeq(chunks, m + 1, n)), n) # {}
      <3>1. n \in 0 .. n /\ m <= n
        BY <1>1
      <3> QED
        BY <1>7, <1>8, <3>1, CutsExtend DEF n
    <2>2. Append(all.full, all.batch) \in Seq(Seq(C))
      BY <1>8, AppendProperties
    <2> QED
      BY <1>7, <1>9, <1>11, <2>1, <2>2 DEF n
  <1> QED
    BY <1>10, <1>11

\* The vectors of the next batch follow those that have arrived.
LEMMA EmbedKeepsPieces ==
    ASSUME PreparationInv, EmbedBatch
    PROVE PreparationInv'
  <1> DEFINE n == Len(chunks)
             l == Len(batches)
  <1>1. /\ text \in Seq(STRING) /\ chunks \in Seq(Piece) /\ batches \in Seq(Seq(Piece))
        /\ phase = "embed" /\ batches # <<>>
    BY DEF EmbedBatch, PreparationInv, CutSoFar
  <1>2. PICK cuts \in [1 .. l + 1 -> 0 .. n] : BatchesFollow(cuts)
    BY <1>1 DEF PreparationInv
  <1>3. /\ vectors = SubSeq(chunks, 1, cuts[1])
        /\ cuts[l + 1] = n
        /\ \A b \in 1 .. l : cuts[b] <= cuts[b + 1] /\ batches[b] = SubSeq(chunks, cuts[b] + 1, cuts[b + 1])
    <2>1. DOMAIN batches = 1 .. l
      BY <1>1
    <2> QED
      BY <1>2, <2>1 DEF BatchesFollow
  <1>4. l \in Nat /\ l >= 1 /\ n \in Nat /\ \A i \in 1 .. n : chunks[i] \in Piece
    BY <1>1
  <1>5. /\ text' = text /\ chunks' = chunks /\ phase' = phase /\ start' = start
        /\ vectors' = vectors \o Head(batches) /\ batches' = Tail(batches)
    BY DEF EmbedBatch
  <1>6. Head(batches) = batches[1]
    BY <1>1
  <1>7. /\ batches' \in Seq(Seq(Piece)) /\ Len(batches') = l - 1
        /\ \A b \in 1 .. l - 1 : batches'[b] = batches[b + 1]
    BY <1>1, <1>5, HeadTailProperties
  <1> HIDE DEF n, l
  <1>0. PICK rest : rest = [b \in 1 .. l |-> cuts[b + 1]]
    OBVIOUS
  <1>8. 1 \in 1 .. l /\ 1 \in 1 .. l + 1 /\ 2 \in 1 .. l + 1 /\ l \in 1 .. l /\ 1 + 1 = 2
    BY <1>4
  <1>9. /\ cuts[1] \in 0 .. n /\ cuts[2] \in 0 .. n /\ cuts[1] <= cuts[2]
        /\ batches[1] = SubSeq(chunks, cuts[1] + 1, cuts[2])
    BY <1>2, <1>3, <1>8
  <1>10. SubSeq(chunks, 1, cuts[1]) \o SubSeq(chunks, cuts[1] + 1, cuts[2]) = SubSeq(chunks, 1, cuts[2])
    <2>1. PICK a \in 0 .. n, c \in 0 .. n : a = cuts[1] /\ c = cuts[2] /\ a <= c
      BY <1>9
    <2>2. 1 \in 1 .. n + 1 /\ a \in 1 - 1 .. n /\ c \in a .. n
      BY <1>4, <2>1
    <2>3. SubSeq(chunks, 1, a) \o SubSeq(chunks, a + 1, c) = SubSeq(chunks, 1, c)
      BY <1>1, <2>2, ConcatAdjacentSubSeq DEF n
    <2> QED
      BY <2>1, <2>3
  <1>11. rest \in [1 .. Len(batches') + 1 -> 0 .. n]
    <2>1. \A b \in 1 .. l : b + 1 \in 1 .. l + 1
      BY <1>4
    <2>2. (l - 1) + 1 = l
      BY <1>4
    <2> QED
      BY <1>0, <1>2, <1>7, <2>1, <2>2
  <1>12. BatchesFollow(rest)'
    <2>1. vectors' = SubSeq(chunks', 1, rest[1])
      BY <1>0, <1>3, <1>5, <1>6, <1>8, <1>9, <1>10
    <2>2. rest[Len(batches') + 1] = Len(chunks')
      <3>1. Len(batches') + 1 = l
        BY <1>4, <1>7
      <3> QED
        BY <1>0, <1>3, <1>5, <1>8, <3>1 DEF n
    <2>3. ASSUME NEW b \in 1 .. l - 1
          PROVE rest[b] <= rest[b + 1] /\ batches'[b] = SubSeq(chunks', rest[b] + 1, rest[b + 1])
      <3>1. b + 1 \in 1 .. l /\ b \in 1 .. l
        BY <1>4
      <3> QED
        BY <1>0, <1>3, <1>5, <1>7, <3>1
    <2>4. DOMAIN batches' = 1 .. l - 1
      BY <1>7
    <2> QED
      BY <2>1, <2>2, <2>3, <2>4 DEF BatchesFollow
  <1>13. Piece' = Piece /\ CutSoFar'
    BY <1>1, <1>5 DEF PreparationInv, CutSoFar, Piece, Tokens
  <1>14. \E c \in [1 .. Len(batches') + 1 -> 0 .. Len(chunks')] : BatchesFollow(c)'
    BY <1>5, <1>11, <1>12 DEF n
  <1>15. phase' = "embed" /\ text' \in Seq(STRING) /\ batches' \in Seq(Seq(Piece'))
    BY <1>1, <1>5, <1>7, <1>13
  <1> QED
    BY <1>13, <1>14, <1>15 DEF PreparationInv

LEMMA SplitKeepsPieces ==
    ASSUME PreparationInv, Split
    PROVE PreparationInv'
  <1>1. /\ text' = text /\ chunks' = chunks /\ start' = start /\ vectors' = vectors
        /\ phase = "batch" /\ phase' = "embed" /\ batches' = TokenBatches
    BY DEF Split
  <1>2. CutSoFar /\ chunks \in Seq(Piece) /\ vectors = <<>> /\ text \in Seq(STRING)
    BY <1>1 DEF PreparationInv, CutSoFar
  <1>3. \A c \in Piece : Tokens(c) \in Int
    BY DEF Piece, Tokens
  <1>4. TokenBatches \in Seq(Seq(Piece)) /\ Cuts(TokenBatches, Len(chunks)) # {}
    BY <1>2, <1>3, BatchesCoverChunks
  <1>5. PICK cuts : cuts \in Cuts(batches', Len(chunks))
    BY <1>1, <1>4
  <1>6. /\ cuts \in [1 .. Len(batches') + 1 -> 0 .. Len(chunks)]
        /\ cuts[1] = 0 /\ cuts[Len(batches') + 1] = Len(chunks)
        /\ \A b \in 1 .. Len(batches') :
            /\ cuts[b] <= cuts[b + 1]
            /\ batches'[b] = SubSeq(chunks, cuts[b] + 1, cuts[b + 1])
    BY <1>5 DEF Cuts
  <1>7. vectors' = SubSeq(chunks', 1, cuts[1])
    <2>1. SubSeq(chunks, 1, 0) = <<>>
      BY SubSeqEmpty
    <2> QED
      BY <1>1, <1>2, <1>6, <2>1
  <1>8. DOMAIN batches' = 1 .. Len(batches')
    BY <1>1, <1>4
  <1>9. BatchesFollow(cuts)'
    BY <1>1, <1>6, <1>7, <1>8 DEF BatchesFollow
  <1>10. Piece' = Piece /\ CutSoFar'
    BY <1>1, <1>2 DEF CutSoFar, Piece, Tokens
  <1>11. \E c \in [1 .. Len(batches') + 1 -> 0 .. Len(chunks')] : BatchesFollow(c)'
    BY <1>1, <1>6, <1>9
  <1>12. text' \in Seq(STRING) /\ batches' \in Seq(Seq(Piece'))
    BY <1>1, <1>2, <1>4, <1>10
  <1> QED
    BY <1>1, <1>10, <1>11, <1>12 DEF PreparationInv

LEMMA CountKeepsPieces ==
    ASSUME PreparationInv, CountVectors
    PROVE PreparationInv'
  <1>1. /\ text' = text /\ chunks' = chunks /\ start' = start
        /\ vectors' = vectors /\ batches' = batches
        /\ phase = "embed" /\ phase' \in {"publish", "failed"} /\ batches = <<>>
    BY DEF CountVectors, prepared
  <1>2. CutSoFar /\ chunks \in Seq(Piece) /\ text \in Seq(STRING)
    BY DEF PreparationInv, CutSoFar
  <1>3. PICK cuts \in [1 .. Len(batches) + 1 -> 0 .. Len(chunks)] : BatchesFollow(cuts)
    BY <1>1 DEF PreparationInv
  <1>4. vectors = chunks
    <2>1. Len(batches) + 1 = 1
      BY <1>1, EmptySeq
    <2>2. vectors = SubSeq(chunks, 1, Len(chunks))
      BY <1>3, <2>1 DEF BatchesFollow
    <2> QED
      BY <1>2, <2>2, SubSeqFull
  <1>5. CutSoFar'
    BY <1>1, <1>2 DEF CutSoFar, Piece, Tokens
  <1> QED
    BY <1>1, <1>2, <1>4, <1>5 DEF PreparationInv

LEMMA PreparationStep ==
    ASSUME PreparationInv, PreparationNext
    PROVE PreparationInv'
  <1>1. CASE Cut
    <2>1. text' = text /\ phase' \in {"chunk", "batch"} /\ text \in Seq(STRING) /\ CutSoFar
      BY <1>1 DEF Cut, PreparationInv
    <2>2. CutSoFar' /\ batches' = <<>> /\ vectors' = <<>>
      BY <1>1, <2>1, CutKeepsPieces
    <2> QED
      BY <2>1, <2>2 DEF PreparationInv
  <1>2. CASE /\ text' = text /\ UNCHANGED prepared
             /\ phase' \in {"failed", "raised"}
    <2>1. Piece' = Piece /\ chunks' = chunks
      BY <1>2 DEF prepared, Piece
    <2>2. CutSoFar'
      BY <1>2, <2>1 DEF PreparationInv, CutSoFar, prepared, Tokens
    <2> QED
      BY <1>2, <2>2 DEF PreparationInv
  <1>3. CASE NothingToCut \/ InputTooLong \/ EmbeddingRejected \/ GiveUp
    BY <1>2, <1>3 DEF NothingToCut, InputTooLong, EmbeddingRejected, GiveUp, Fail
  <1>4. CASE EmbeddingUnavailable \/ StorageFails
    BY <1>2, <1>4 DEF EmbeddingUnavailable, StorageFails
  <1>5. CASE Retry
    <2>1. /\ text' = text /\ phase' = "chunk" /\ start' = 0
          /\ chunks' = <<>> /\ batches' = <<>> /\ vectors' = <<>>
      BY <1>5 DEF Retry
    <2>2. text \in Seq(STRING) /\ Len(text) \in Nat /\ (text # <<>> => 0 < Len(text))
      <3>1. text \in Seq(STRING)
        BY DEF PreparationInv
      <3> QED
        BY <3>1, EmptySeq
    <2>3. chunks' \in Seq(Piece') /\ DOMAIN chunks' = {}
      BY <2>1, EmptySeq
    <2>4. \A o \in 0 .. start' - 1 : FALSE
      BY <2>1
    <2>5. CutSoFar'
      BY <2>1, <2>2, <2>3, <2>4 DEF CutSoFar
    <2> QED
      BY <2>1, <2>2, <2>5 DEF PreparationInv
  <1> QED
    BY <1>1, <1>3, <1>4, <1>5, SplitKeepsPieces, EmbedKeepsPieces, CountKeepsPieces
       DEF PreparationNext

LEMMA PreparationInvariant == Spec => []PreparationInv
  <1>1. Init => PreparationInv
    <2> SUFFICES ASSUME Init PROVE PreparationInv
      OBVIOUS
    <2>1. /\ phase = "chunk" /\ start = 0 /\ chunks = <<>> /\ batches = <<>> /\ vectors = <<>>
          /\ text \in Seq(STRING)
      <3>1. <<>> \in Seq(STRING)
        BY EmptySeq
      <3> QED
        BY <3>1, PreparationAssumption DEF Init, PreparationInit
    <2>2. Len(text) \in Nat /\ (text # <<>> => 0 < Len(text))
      BY <2>1, EmptySeq
    <2>3. chunks \in Seq(Piece) /\ DOMAIN chunks = {} /\ \A o \in 0 .. start - 1 : FALSE
      BY <2>1, EmptySeq
    <2> QED
      BY <2>1, <2>2, <2>3 DEF PreparationInv, CutSoFar
  <1>2. PreparationInv /\ [Next]_vars => PreparationInv'
    <2> SUFFICES ASSUME PreparationInv, [Next]_vars PROVE PreparationInv'
      OBVIOUS
    <2>1. PreparationNext \/ UNCHANGED preparationVars
      BY DEF Next, vars
    <2>2. CASE UNCHANGED preparationVars
      BY <2>2 DEF preparationVars, PreparationInv, CutSoFar, BatchesFollow, Piece, Tokens
    <2> QED
      BY <2>1, <2>2, PreparationStep
  <1> QED
    BY <1>1, <1>2, PTL DEF Spec

\* A chunk set that is published covers its text without a gap, in chunks no
\* longer than the maximum, each with its own vector, however they were batched
\* and however often the job started over; and cutting always moves forward.
THEOREM PublishedIsWhole == Spec => []PreparedWhole
  <1>1. PreparationInv => PreparedWhole
    BY DEF PreparationInv, CutSoFar, PreparedWhole
  <1> QED
    BY <1>1, PreparationInvariant, PTL

-----------------------------------------------------------------------------
(* Preparation: the budget of the delays.                                   *)

LEMMA PowerDefined ==
    /\ \A n \in Nat : PowerOfTwo[n] \in Nat
    /\ \A n \in Nat : PowerOfTwo[n + 1] = 2 * PowerOfTwo[n]
  <1> DEFINE step == [n \in Nat |-> [d \in Nat |-> 2 * d]]
             P == {n \in Nat : PowerOfTwo[n] \in Nat}
  <1>1. step \in [Nat -> [Nat -> Nat]] /\ \A n \in Nat : \A d \in Nat : step[n][d] = 2 * d
    OBVIOUS
  <1> HIDE DEF step
  <1>2. PICK f : IsLoop(f, Nat, 1, step)
    BY <1>1, LoopDefined
  <1>3. f \in [Nat -> Nat] /\ f[0] = 1 /\ \A n \in Nat : f[n + 1] = 2 * f[n]
    BY <1>1, <1>2 DEF IsLoop
  <1>4. f = [n \in Nat |-> IF n = 0 THEN 1 ELSE 2 * f[n - 1]]
    <2>1. ASSUME NEW n \in Nat, n # 0 PROVE f[n] = 2 * f[n - 1]
      <3>1. n - 1 \in Nat /\ (n - 1) + 1 = n
        BY <2>1
      <3> QED
        BY <1>3, <3>1
    <2> QED
      BY <1>3, <2>1
  <1>5. PowerOfTwo = [n \in Nat |-> IF n = 0 THEN 1 ELSE 2 * PowerOfTwo[n - 1]]
    BY <1>4 DEF PowerOfTwo
  <1>6. ASSUME NEW n \in Nat PROVE PowerOfTwo[n + 1] = 2 * PowerOfTwo[n]
    <2>1. n + 1 \in Nat /\ n + 1 # 0 /\ (n + 1) - 1 = n
      OBVIOUS
    <2> QED
      BY <1>5, <2>1
  <1>7. Nat \subseteq P
    <2>1. 0 \in P
      BY <1>5
    <2>2. \A n \in Nat : n \in P => n + 1 \in P
      BY <1>6
    <2> HIDE DEF P
    <2> QED
      BY <2>1, <2>2, SetInduction
  <1> QED
    BY <1>6, <1>7

LEMMA PriorDefined ==
    /\ PriorMaximum[0] = 0
    /\ \A n \in Nat : PriorMaximum[n] \in Nat
    /\ \A n \in Nat : PriorMaximum[n + 1] = PriorMaximum[n] + WithJitter(PowerOfTwo[n + 1])
  <1> DEFINE step == [n \in Nat |-> [d \in Nat |-> d + WithJitter(PowerOfTwo[n + 1])]]
             P == {n \in Nat : PriorMaximum[n] \in Nat}
  <1>1. \A n \in Nat : WithJitter(PowerOfTwo[n + 1]) \in Nat
    <2> TAKE n \in Nat
    <2>1. PICK d \in Nat : d = PowerOfTwo[n + 1]
      BY PowerDefined
    <2> QED
      BY <2>1 DEF WithJitter
  <1>2. /\ step \in [Nat -> [Nat -> Nat]]
        /\ \A n \in Nat : \A d \in Nat : step[n][d] = d + WithJitter(PowerOfTwo[n + 1])
    BY <1>1
  <1> HIDE DEF step
  <1>3. PICK f : IsLoop(f, Nat, 0, step)
    BY <1>2, LoopDefined
  <1>4. /\ f \in [Nat -> Nat] /\ f[0] = 0
        /\ \A n \in Nat : f[n + 1] = f[n] + WithJitter(PowerOfTwo[n + 1])
    BY <1>2, <1>3 DEF IsLoop
  <1>5. f = [n \in Nat |-> IF n = 0 THEN 0 ELSE f[n - 1] + WithJitter(PowerOfTwo[n])]
    <2>1. ASSUME NEW n \in Nat, n # 0 PROVE f[n] = f[n - 1] + WithJitter(PowerOfTwo[n])
      <3>1. n - 1 \in Nat /\ (n - 1) + 1 = n
        BY <2>1
      <3> QED
        BY <1>4, <3>1
    <2> QED
      BY <1>4, <2>1
  <1>6. PriorMaximum =
            [n \in Nat |-> IF n = 0 THEN 0 ELSE PriorMaximum[n - 1] + WithJitter(PowerOfTwo[n])]
    BY <1>5 DEF PriorMaximum
  <1>7. ASSUME NEW n \in Nat
        PROVE PriorMaximum[n + 1] = PriorMaximum[n] + WithJitter(PowerOfTwo[n + 1])
    <2>1. n + 1 \in Nat /\ n + 1 # 0 /\ (n + 1) - 1 = n
      OBVIOUS
    <2> QED
      BY <1>6, <2>1
  <1>8. PriorMaximum[0] = 0
    BY <1>6
  <1>9. Nat \subseteq P
    <2>1. 0 \in P
      BY <1>8
    <2>2. \A n \in Nat : n \in P => n + 1 \in P
      BY <1>1, <1>7
    <2> HIDE DEF P
    <2> QED
      BY <2>1, <2>2, SetInduction
  <1> QED
    BY <1>7, <1>8, <1>9

\* A delay without a Retry-After exceeds neither its greatest value nor what
\* remains of the budget.
LEMMA DelayBounded ==
    ASSUME NEW n \in Nat, NEW jitter \in 0 .. Base(n) \div 2, ~BudgetSpent, n = retries,
           hint \in Nat \cup {NoHint}
    PROVE /\ BoundedDelay(n, jitter) \in Nat
          /\ hint = NoHint =>
                /\ BoundedDelay(n, jitter) <= WithJitter(PowerOfTwo[n + 1])
                /\ BoundedDelay(n, jitter) <= RetryBudget - PriorMaximum[n]
  <1>1. PICK p \in Nat : p = PowerOfTwo[n + 1]
    BY PowerDefined
  <1>2. PICK prior \in Nat : prior = PriorMaximum[n]
    BY PriorDefined
  <1>3. MaxBase \in Nat /\ RetryBudget \in Nat /\ NoHint \notin Nat
    BY PreparationAssumption
  <1>4. PICK b \in Nat : b = Base(n) /\ b <= p
    <2>1. Base(n) = IF MaxBase <= p THEN MaxBase ELSE p
      BY <1>1, <1>3, MinOfTwo DEF Base
    <2> QED
      BY <1>3, <2>1
  <1>5. jitter \in Nat /\ jitter <= b \div 2
    BY <1>4
  <1>6. b + jitter <= p + p \div 2 /\ b + jitter \in Nat
    BY <1>4, <1>5
  <1>7. PICK left \in Int : left = Remaining(n) /\ left = RetryBudget - prior /\ left > 0
    BY <1>2, <1>3 DEF Remaining, BudgetSpent
  <1>8. CASE hint = NoHint
    <2>1. BoundedDelay(n, jitter) = IF b + jitter <= left THEN b + jitter ELSE left
      BY <1>4, <1>6, <1>7, <1>8, MinOfTwo DEF BoundedDelay
    <2> QED
      BY <1>1, <1>2, <1>6, <1>7, <2>1 DEF WithJitter
  <1>9. CASE hint # NoHint
    <2>1. PICK h \in Nat : h = hint
      BY <1>9
    <2>2. Max({b + jitter, h}) = IF b + jitter <= h THEN h ELSE b + jitter
      BY <1>6, <2>1, MaxOfTwo
    <2>3. PICK d \in Nat : d = Max({b + jitter, h})
      BY <1>6, <2>2
    <2>4. BoundedDelay(n, jitter) = Min({d, left})
      BY <1>4, <1>7, <1>9, <2>1, <2>3 DEF BoundedDelay
    <2>5. BoundedDelay(n, jitter) = IF d <= left THEN d ELSE left
      BY <2>4, MinOfTwo
    <2> QED
      BY <1>7, <1>9, <2>5
  <1> QED
    BY <1>8, <1>9

LEMMA BudgetStep ==
    ASSUME BudgetInv, PreparationNext
    PROVE BudgetInv'
  <1>1. CASE Retry
    <2>1. PICK jitter \in 0 .. Base(retries) \div 2 : waited' = waited + BoundedDelay(retries, jitter)
      BY <1>1 DEF Retry
    <2>2. /\ retries' = retries + 1 /\ hinted' = (hinted \/ hint # NoHint) /\ hint' = NoHint
          /\ ~BudgetSpent
      BY <1>1 DEF Retry
    <2>3. /\ retries \in Nat /\ waited \in Nat /\ hinted \in BOOLEAN
          /\ hint \in Nat \cup {NoHint}
          /\ ~hinted => waited <= PriorMaximum[retries] /\ waited <= RetryBudget
      BY DEF BudgetInv
    <2>4. PICK d : d = BoundedDelay(retries, jitter)
      OBVIOUS
    <2>5. /\ d \in Nat
          /\ hint = NoHint => /\ d <= WithJitter(PowerOfTwo[retries + 1])
                              /\ d <= RetryBudget - PriorMaximum[retries]
      BY <2>2, <2>3, <2>4, DelayBounded
    <2>6. PICK prior \in Nat, next \in Nat :
            prior = PriorMaximum[retries] /\ next = PriorMaximum[retries + 1]
      BY <2>3, PriorDefined
    <2>7. next = prior + WithJitter(PowerOfTwo[retries + 1])
      BY <2>3, <2>6, PriorDefined
    <2>8. WithJitter(PowerOfTwo[retries + 1]) \in Int
      <3>1. PICK p \in Nat : p = PowerOfTwo[retries + 1]
        BY <2>3, PowerDefined
      <3> QED
        BY <3>1 DEF WithJitter
    <2>9. RetryBudget \in Nat
      BY PreparationAssumption
    <2>10. ASSUME ~hinted' PROVE waited' <= PriorMaximum'[retries'] /\ waited' <= RetryBudget
      <3>1. hint = NoHint /\ ~hinted
        BY <2>2, <2>10
      <3>2. waited <= prior /\ d <= next - prior /\ d <= RetryBudget - prior
        BY <2>3, <2>5, <2>6, <2>7, <2>8, <3>1
      <3>3. waited + d <= next /\ waited + d <= RetryBudget
        BY <2>3, <2>5, <2>9, <3>2
      <3> QED
        BY <2>1, <2>2, <2>4, <2>6, <3>3
    <2> QED
      BY <2>1, <2>2, <2>3, <2>4, <2>5, <2>10 DEF BudgetInv
  <1>2. CASE UNCHANGED budget /\ (hint' = hint \/ hint' \in RetryAfters \cup {NoHint})
    BY <1>2, PreparationAssumption DEF BudgetInv, budget
  <1>3. CASE Cut \/ Split \/ EmbedBatch \/ CountVectors
    BY <1>2, <1>3 DEF Cut, Split, EmbedBatch, CountVectors
  <1>4. CASE NothingToCut \/ InputTooLong \/ EmbeddingRejected \/ GiveUp
    BY <1>2, <1>4 DEF NothingToCut, InputTooLong, EmbeddingRejected, GiveUp, Fail
  <1>5. CASE EmbeddingUnavailable \/ StorageFails
    BY <1>2, <1>5 DEF EmbeddingUnavailable, StorageFails
  <1> QED
    BY <1>1, <1>3, <1>4, <1>5 DEF PreparationNext

\* Without a Retry-After the delays of a job, however many and whatever their
\* jitter, add up to no more than the budget.
THEOREM WaitsAlwaysWithinBudget == Spec => []WaitsWithinBudget
  <1>1. Init => BudgetInv
    <2> SUFFICES ASSUME Init PROVE BudgetInv
      OBVIOUS
    <2>1. hint = NoHint /\ retries = 0 /\ waited = 0 /\ hinted = FALSE
      BY DEF Init, PreparationInit
    <2>2. waited <= RetryBudget
      BY <2>1, PreparationAssumption
    <2>3. PriorMaximum[retries] = 0
      BY <2>1, PriorDefined
    <2>4. hinted \in BOOLEAN
      BY <2>1
    <2>5. retries \in Nat /\ waited \in Nat
      BY <2>1
    <2>6. waited <= PriorMaximum[retries]
      <3>1. waited <= 0
        BY <2>1
      <3> QED
        BY <2>3, <3>1
    <2> QED
      BY <2>1, <2>2, <2>4, <2>5, <2>6 DEF BudgetInv
  <1>2. BudgetInv /\ [Next]_vars => BudgetInv'
    <2> SUFFICES ASSUME BudgetInv, [Next]_vars PROVE BudgetInv'
      OBVIOUS
    <2>1. PreparationNext \/ UNCHANGED preparationVars
      BY DEF Next, vars
    <2>2. CASE UNCHANGED preparationVars
      BY <2>2 DEF preparationVars, BudgetInv
    <2> QED
      BY <2>1, <2>2, BudgetStep
  <1>3. BudgetInv => WaitsWithinBudget
    BY DEF BudgetInv, WaitsWithinBudget
  <1> QED
    BY <1>1, <1>2, <1>3, PTL DEF Spec

-----------------------------------------------------------------------------
(* Rankings: lists of chunks without repetitions.                           *)

LEMMA EmptyRanking == IsRanking(<<>>) /\ ToSet(<<>>) = {} /\ Len(<<>>) = 0
  BY EmptySeq DEF IsRanking, Distinct, IsInjective, ToSet

\* What Top keeps has the same places, and loses nothing of a short list.
LEMMA TopOf ==
    ASSUME NEW list, IsRanking(list), NEW n \in Nat
    PROVE LET top == Top(list, n) IN
          /\ IsRanking(top)
          /\ Len(top) = Min({n, Len(list)})
          /\ Len(top) <= n /\ Len(top) <= Len(list)
          /\ n <= Len(list) => Len(top) = n
          /\ Len(list) <= n => top = list
          /\ \A i \in DOMAIN top : i \in DOMAIN list /\ top[i] = list[i]
          /\ ToSet(top) \subseteq ToSet(list)
  <1> DEFINE len == Len(list)
             k == IF n < len THEN n ELSE len
             top == SubSeq(list, 1, k)
  <1>1. list \in Seq(Chunks) /\ Distinct(list) /\ len \in Nat /\ DOMAIN list = 1 .. len
        /\ \A i \in 1 .. len : list[i] \in Chunks
    BY DEF IsRanking
  <1> HIDE DEF len
  <1>2. k \in Nat /\ k <= n /\ k <= len /\ (n <= len => k = n) /\ (len <= n => k = len)
    BY <1>1
  <1>3. k = Min({n, len})
    BY <1>1, MinOfTwo
  <1> HIDE DEF k
  <1>4. /\ top \in Seq(Chunks) /\ Len(top) = k /\ DOMAIN top = 1 .. k
        /\ \A i \in 1 .. k : i \in 1 .. len /\ top[i] = list[i]
    <2>1. \A i \in 1 .. k : i \in 1 .. len /\ list[i] \in Chunks
      BY <1>1, <1>2
    <2>2. /\ top \in Seq(Chunks) /\ Len(top) = IF 1 <= k THEN k - 1 + 1 ELSE 0
          /\ \A i \in 1 .. k - 1 + 1 : top[i] = list[1 + i - 1]
      BY <1>2, <2>1, SubSeqProperties
    <2> HIDE DEF top
    <2>3. Len(top) = k /\ k - 1 + 1 = k /\ \A i \in 1 .. k : 1 + i - 1 = i
      BY <1>2, <2>2
    <2> QED
      BY <2>1, <2>2, <2>3
  <1>5. k = len => top = list
    BY <1>1, SubSeqFull DEF len
  <1>6. Top(list, n) = top
    BY DEF Top, k, len
  <1> HIDE DEF top
  <1>7. Distinct(top)
    BY <1>1, <1>4 DEF Distinct, IsInjective
  <1>8. ToSet(top) \subseteq ToSet(list)
    BY <1>1, <1>4 DEF ToSet
  <1> QED
    BY <1>1, <1>2, <1>3, <1>4, <1>5, <1>6, <1>7, <1>8 DEF IsRanking, len

\* The place of a chunk.
LEMMA RankOf ==
    ASSUME NEW list, IsRanking(list)
    PROVE /\ Len(list) \in Nat /\ DOMAIN list = 1 .. Len(list)
          /\ ToSet(list) \subseteq Chunks
          /\ \A c : In(list, c) <=> c \in ToSet(list)
          /\ \A c \in ToSet(list) : RankIn(list, c) \in DOMAIN list /\ list[RankIn(list, c)] = c
          /\ \A i \in DOMAIN list : list[i] \in ToSet(list) /\ RankIn(list, list[i]) = i
          /\ \A c, d \in ToSet(list) : RankIn(list, c) = RankIn(list, d) => c = d
  <1>1. /\ Len(list) \in Nat /\ DOMAIN list = 1 .. Len(list)
        /\ \A i \in DOMAIN list : list[i] \in Chunks
    BY DEF IsRanking
  <1>2. ToSet(list) = {list[i] : i \in DOMAIN list}
    BY DEF ToSet
  <1>3. \A c : In(list, c) <=> c \in ToSet(list)
    BY <1>2 DEF In
  <1>4. \A c \in ToSet(list) : RankIn(list, c) \in DOMAIN list /\ list[RankIn(list, c)] = c
    BY <1>2 DEF RankIn
  <1>5. \A i, j \in DOMAIN list : list[i] = list[j] => i = j
    BY DEF IsRanking, Distinct, IsInjective
  <1>6. \A i \in DOMAIN list : list[i] \in ToSet(list) /\ RankIn(list, list[i]) = i
    BY <1>2, <1>4, <1>5
  <1> QED
    BY <1>1, <1>2, <1>3, <1>4, <1>6

LEMMA FiniteRankings ==
    ASSUME NEW S \in SUBSET Chunks
    PROVE IsFiniteSet(S) /\ Cardinality(S) \in Nat
  BY FS_Subset, FS_CardinalityType, RetrievalAssumption

\* A ranking has as many places as chunks.
LEMMA PlacesOfRanking ==
    ASSUME NEW list, IsRanking(list)
    PROVE IsFiniteSet(ToSet(list)) /\ Cardinality(ToSet(list)) = Len(list)
  <1>1. /\ Len(list) \in Nat /\ DOMAIN list = 1 .. Len(list) /\ ToSet(list) \subseteq Chunks
        /\ \A i \in DOMAIN list : list[i] \in ToSet(list)
        /\ \A c \in ToSet(list) : RankIn(list, c) \in DOMAIN list /\ list[RankIn(list, c)] = c
    BY RankOf
  <1>2. list \in [1 .. Len(list) -> ToSet(list)]
    <2>1. list = [i \in 1 .. Len(list) |-> list[i]]
      BY <1>1 DEF IsRanking
    <2> QED
      BY <1>1, <2>1
  <1>3. list \in Bijection(1 .. Len(list), ToSet(list))
    <2>1. IsInjective(list)
      BY DEF IsRanking, Distinct
    <2>2. \A c \in ToSet(list) : \E i \in 1 .. Len(list) : list[i] = c
      BY <1>1
    <2> QED
      BY <1>2, <2>1, <2>2 DEF Bijection, Injection, Surjection
  <1>4. IsFiniteSet(1 .. Len(list)) /\ Cardinality(1 .. Len(list)) = Len(list)
    <2> DEFINE len == Len(list)
    <2>1. len \in Nat
      BY <1>1
    <2> HIDE DEF len
    <2>2. IsFiniteSet(1 .. len) /\ Cardinality(1 .. len) = len
      BY <2>1, FS_Interval
    <2> QED
      BY <2>2 DEF len
  <1>5. ExistsBijection(1 .. Len(list), ToSet(list))
    BY <1>3 DEF ExistsBijection
  <1>6. IsFiniteSet(ToSet(list)) /\ Cardinality(ToSet(list)) = Cardinality(1 .. Len(list))
    BY <1>4, <1>5, FS_Bijection
  <1> QED
    BY <1>4, <1>6

\* The kept members, each once, in the order of the list.
LEMMA KeptOf ==
    ASSUME NEW list, IsRanking(list), NEW S \in SUBSET ToSet(list)
    PROVE LET kept == Kept(list, S) IN
          /\ IsStrictOrder(S, ListOrder(list, S))
          /\ IsRanking(kept) /\ ToSet(kept) = S
          /\ \A i, j \in DOMAIN kept : RankIn(list, kept[i]) < RankIn(list, kept[j]) <=> i < j
  <1> DEFINE key == [c \in S |-> RankIn(list, c)]
  <1>1. /\ ToSet(list) \subseteq Chunks
        /\ \A c \in S : RankIn(list, c) \in Int
        /\ \A c, d \in S : RankIn(list, c) = RankIn(list, d) => c = d
    BY RankOf
  <1>2. IsFiniteSet(S)
    BY <1>1, FiniteRankings
  <1>3. IsStrictOrder(S, By(S, key))
    BY <1>1, ByIsStrict
  <1>4. LET kept == InOrder(S, By(S, key)) IN
        /\ kept \in Seq(S) /\ IsInjective(kept) /\ ToSet(kept) = S
        /\ \A i, j \in DOMAIN kept : <<kept[i], kept[j]>> \in By(S, key) <=> i < j
    BY <1>2, <1>3, InOrderLists
  <1>5. \A c, d \in S : <<c, d>> \in By(S, key) <=> RankIn(list, c) < RankIn(list, d)
    BY DEF By
  <1> DEFINE kept == InOrder(S, By(S, key))
  <1>6. Kept(list, S) = kept /\ ListOrder(list, S) = By(S, key)
    BY DEF Kept, ListOrder
  <1> HIDE DEF kept, key
  <1>7. \A i \in DOMAIN kept : kept[i] \in S
    BY <1>4 DEF kept
  <1>8. kept \in Seq(Chunks)
    BY <1>1, <1>4, SeqMonotonic DEF kept
  <1> QED
    BY <1>3, <1>4, <1>5, <1>6, <1>7, <1>8 DEF kept, IsRanking, Distinct

\* Two rankings without a common chunk, one after the other.
LEMMA ConcatOf ==
    ASSUME NEW a, IsRanking(a), NEW b, IsRanking(b), ToSet(a) \cap ToSet(b) = {}
    PROVE LET ab == a \o b IN
          /\ IsRanking(ab) /\ ToSet(ab) = ToSet(a) \cup ToSet(b)
          /\ Len(ab) = Len(a) + Len(b)
          /\ \A i \in DOMAIN a : i \in DOMAIN ab /\ ab[i] = a[i]
          /\ \A i \in DOMAIN b : Len(a) + i \in DOMAIN ab /\ ab[Len(a) + i] = b[i]
  <1> DEFINE ab == a \o b
             m == Len(a)
             n == Len(b)
  <1>1. /\ m \in Nat /\ DOMAIN a = 1 .. m /\ n \in Nat /\ DOMAIN b = 1 .. n
        /\ ab \in Seq(Chunks) /\ Len(ab) = m + n /\ DOMAIN ab = 1 .. m + n
        /\ \A i \in 1 .. m + n : ab[i] = IF i <= m THEN a[i] ELSE b[i - m]
    BY ConcatProperties DEF IsRanking
  <1> HIDE DEF ab, m, n
  <1>2. \A i \in 1 .. m : i \in 1 .. m + n /\ ab[i] = a[i]
    BY <1>1
  <1>3. \A i \in 1 .. n : m + i \in 1 .. m + n /\ ab[m + i] = b[i]
    BY <1>1
  <1>4. \A i \in 1 .. m + n : i \in 1 .. m \/ (i - m \in 1 .. n /\ m + (i - m) = i)
    BY <1>1
  <1>5. /\ ToSet(a) = {a[i] : i \in 1 .. m} /\ ToSet(b) = {b[i] : i \in 1 .. n}
        /\ ToSet(ab) = {ab[i] : i \in 1 .. m + n}
    BY <1>1 DEF ToSet
  <1>6. ToSet(ab) = ToSet(a) \cup ToSet(b)
    <2>1. \A i \in 1 .. m + n : ab[i] \in ToSet(a) \cup ToSet(b)
      BY <1>2, <1>3, <1>4, <1>5
    <2>2. (\A i \in 1 .. m : a[i] \in ToSet(ab)) /\ (\A i \in 1 .. n : b[i] \in ToSet(ab))
      BY <1>2, <1>3, <1>5
    <2> QED
      BY <1>5, <2>1, <2>2
  <1>7. ASSUME NEW i \in 1 .. m + n, NEW j \in 1 .. m + n, ab[i] = ab[j] PROVE i = j
    <2>1. \A k \in 1 .. m + n : \/ k \in 1 .. m /\ ab[k] = a[k] /\ ab[k] \in ToSet(a)
                                \/ k - m \in 1 .. n /\ ab[k] = b[k - m] /\ ab[k] \in ToSet(b)
      <3>1. ASSUME NEW k \in 1 .. m + n, k - m \in 1 .. n, m + (k - m) = k
            PROVE ab[k] = b[k - m] /\ ab[k] \in ToSet(b)
        BY <1>3, <1>5, <3>1
      <3> QED
        BY <1>2, <1>4, <1>5, <3>1
    <2>2. \A k, l \in 1 .. m : a[k] = a[l] => k = l
      BY <1>1 DEF IsRanking, Distinct, IsInjective
    <2>3. \A k, l \in 1 .. n : b[k] = b[l] => k = l
      BY <1>1 DEF IsRanking, Distinct, IsInjective
    <2>4. CASE i \in 1 .. m /\ j \in 1 .. m
      BY <1>2, <1>7, <2>2, <2>4
    <2>5. CASE i - m \in 1 .. n /\ j - m \in 1 .. n /\ ab[i] = b[i - m] /\ ab[j] = b[j - m]
      <3>1. i - m = j - m
        BY <1>7, <2>3, <2>5
      <3> QED
        BY <1>1, <3>1
    <2> QED
      BY <1>7, <2>1, <2>4, <2>5
  <1>8. IsRanking(ab)
    BY <1>1, <1>7 DEF IsRanking, Distinct, IsInjective
  <1> QED
    BY <1>1, <1>2, <1>3, <1>6, <1>8 DEF ab, m, n

-----------------------------------------------------------------------------
(* Reciprocal rank fusion.                                                  *)

LEMMA ProductGrows ==
    ASSUME NEW a \in Int, NEW b \in Int, NEW c \in Int, c > 0
    PROVE a > b <=> a * c > b * c
  OBVIOUS

\* Fractions compared by their cross products.
LEMMA FractionsInOrder ==
    ASSUME NEW a \in Nat \ {0}, NEW b \in Nat \ {0}, NEW c \in Nat \ {0},
           NEW d \in Nat \ {0}, NEW e \in Nat \ {0}, NEW f \in Nat \ {0},
           ~(c * b > a * d), ~(e * d > c * f)
    PROVE /\ ~(e * b > a * f)
          /\ e * b = a * f => a * d = c * b /\ c * f = e * d
  <1>1. /\ a * d \in Int /\ c * b \in Int /\ c * f \in Int /\ e * d \in Int
        /\ a * f \in Int /\ e * b \in Int
        /\ (a * d) * f \in Int /\ (c * b) * f \in Int /\ (c * f) * b \in Int
        /\ (e * d) * b \in Int /\ (a * f) * d \in Int /\ (e * b) * d \in Int
    OBVIOUS
  <1>2. /\ (a * d) * f = (a * f) * d
        /\ (c * b) * f = (c * f) * b
        /\ (e * d) * b = (e * b) * d
    OBVIOUS
  <1>3. ~((c * b) * f > (a * d) * f)
    BY <1>1, ProductGrows
  <1>4. ~((e * d) * b > (c * f) * b)
    BY <1>1, ProductGrows
  <1>5. ~((e * b) * d > (a * f) * d)
    BY <1>1, <1>2, <1>3, <1>4
  <1>6. ~(e * b > a * f)
    BY <1>1, <1>5, ProductGrows
  <1>7. ASSUME e * b = a * f PROVE a * d = c * b /\ c * f = e * d
    <2>1. (e * b) * d = (a * f) * d
      BY <1>7
    <2>2. (c * b) * f = (a * d) * f /\ (e * d) * b = (c * f) * b
      BY <1>1, <1>2, <1>3, <1>4, <2>1
    <2>3. ~(a * d > c * b) /\ ~(c * f > e * d)
      BY <1>1, <2>2, ProductGrows
    <2> QED
      BY <1>1, <2>3
  <1> QED
    BY <1>6, <1>7

\* A chunk that both lists rank ahead of another has the higher score, whether
\* the other one is in both lists or in one.
LEMMA BothAheadScoresMore ==
    ASSUME NEW s \in Nat \ {0}, NEW k \in Nat \ {0}, NEW u \in Nat \ {0}, NEW v \in Nat \ {0}
    PROVE /\ s < u /\ k < v => (s + k) * (u * v) > (u + v) * (s * k)
          /\ s < u => (s + k) * u > 1 * (s * k)
          /\ k < v => (s + k) * v > 1 * (s * k)
  <1>1. ASSUME s < u PROVE k * u > k * s
    BY <1>1, ProductGrows
  <1>2. ASSUME k < v PROVE s * v > s * k
    BY <1>2, ProductGrows
  <1>3. s * u > 0 /\ k * v > 0 /\ s * k > 0
    OBVIOUS
  <1>4. ASSUME s < u, k < v PROVE (s + k) * (u * v) > (u + v) * (s * k)
    <2>1. (s + k) * (u * v) = (s * v) * u + (k * u) * v
      OBVIOUS
    <2>2. (u + v) * (s * k) = (s * k) * u + (k * s) * v
      OBVIOUS
    <2>3. (s * v) * u > (s * k) * u
      BY <1>2, <1>4, ProductGrows
    <2>4. (k * u) * v > (k * s) * v
      BY <1>1, <1>4, ProductGrows
    <2>5. /\ (s * v) * u \in Int /\ (k * u) * v \in Int
          /\ (s * k) * u \in Int /\ (k * s) * v \in Int
      OBVIOUS
    <2> QED
      BY <2>1, <2>2, <2>3, <2>4, <2>5
  <1>5. ASSUME s < u PROVE (s + k) * u > 1 * (s * k)
    <2>1. (s + k) * u = s * u + k * u /\ 1 * (s * k) = k * s
      OBVIOUS
    <2> QED
      BY <1>1, <1>3, <1>5, <2>1
  <1>6. ASSUME k < v PROVE (s + k) * v > 1 * (s * k)
    <2>1. (s + k) * v = s * v + k * v /\ 1 * (s * k) = s * k
      OBVIOUS
    <2> QED
      BY <1>2, <1>3, <1>6, <2>1
  <1> QED
    BY <1>4, <1>5, <1>6

LEMMA ScoreOf ==
    ASSUME NEW semantic, IsRanking(semantic), NEW keyword, IsRanking(keyword)
    PROVE LET s(c) == RrfK + RankIn(semantic, c)
              k(c) == RrfK + RankIn(keyword, c)
              score(c) == RrfScore(semantic, keyword, c)
          IN  /\ \A c \in ToSet(semantic) : s(c) \in Nat \ {0}
              /\ \A c \in ToSet(keyword) : k(c) \in Nat \ {0}
              /\ \A c \in ToSet(semantic) \cap ToSet(keyword) :
                    score(c).num = s(c) + k(c) /\ score(c).den = s(c) * k(c)
              /\ \A c \in ToSet(semantic) \ ToSet(keyword) : score(c).num = 1 /\ score(c).den = s(c)
              /\ \A c \in ToSet(keyword) \ ToSet(semantic) : score(c).num = 1 /\ score(c).den = k(c)
              /\ \A c \in ToSet(semantic) \cup ToSet(keyword) :
                    score(c).num \in Nat \ {0} /\ score(c).den \in Nat \ {0}
  <1> DEFINE s(c) == RrfK + RankIn(semantic, c)
             k(c) == RrfK + RankIn(keyword, c)
             score(c) == RrfScore(semantic, keyword, c)
  <1>1. /\ Len(semantic) \in Nat /\ DOMAIN semantic = 1 .. Len(semantic)
        /\ \A c : In(semantic, c) <=> c \in ToSet(semantic)
        /\ \A c \in ToSet(semantic) : RankIn(semantic, c) \in DOMAIN semantic
    BY RankOf
  <1>2. /\ Len(keyword) \in Nat /\ DOMAIN keyword = 1 .. Len(keyword)
        /\ \A c : In(keyword, c) <=> c \in ToSet(keyword)
        /\ \A c \in ToSet(keyword) : RankIn(keyword, c) \in DOMAIN keyword
    BY RankOf
  <1>3. RrfK \in Nat
    BY RetrievalAssumption
  <1>4. ASSUME NEW c \in ToSet(semantic) PROVE s(c) \in Nat \ {0}
    <2>1. RankIn(semantic, c) \in 1 .. Len(semantic)
      BY <1>1
    <2> QED
      BY <1>1, <1>3, <2>1
  <1>5. ASSUME NEW c \in ToSet(keyword) PROVE k(c) \in Nat \ {0}
    <2>1. RankIn(keyword, c) \in 1 .. Len(keyword)
      BY <1>2
    <2> QED
      BY <1>2, <1>3, <2>1
  <1>6. \A c : score(c) =
            CASE c \in ToSet(semantic) /\ c \in ToSet(keyword) -> [num |-> s(c) + k(c), den |-> s(c) * k(c)]
              [] c \in ToSet(semantic) /\ c \notin ToSet(keyword) -> [num |-> 1, den |-> s(c)]
              [] OTHER -> [num |-> 1, den |-> k(c)]
    BY <1>1, <1>2 DEF RrfScore
  <1> HIDE DEF s, k, score
  <1>7. \A c \in ToSet(semantic) \cap ToSet(keyword) :
            score(c).num = s(c) + k(c) /\ score(c).den = s(c) * k(c)
    BY <1>6
  <1>8. \A c \in ToSet(semantic) \ ToSet(keyword) : score(c).num = 1 /\ score(c).den = s(c)
    BY <1>6
  <1>9. \A c \in ToSet(keyword) \ ToSet(semantic) : score(c).num = 1 /\ score(c).den = k(c)
    BY <1>6
  <1>10. ASSUME NEW c \in ToSet(semantic) \cup ToSet(keyword)
         PROVE score(c).num \in Nat \ {0} /\ score(c).den \in Nat \ {0}
    <2>1. CASE c \in ToSet(semantic) \cap ToSet(keyword)
      <3>1. s(c) \in Nat \ {0} /\ k(c) \in Nat \ {0}
        BY <1>4, <1>5, <2>1
      <3>2. s(c) + k(c) \in Nat \ {0} /\ s(c) * k(c) \in Nat \ {0}
        BY <3>1
      <3> QED
        BY <1>7, <2>1, <3>2
    <2>2. CASE c \in ToSet(semantic) \ ToSet(keyword)
      BY <1>4, <1>8, <2>2
    <2>3. CASE c \in ToSet(keyword) \ ToSet(semantic)
      BY <1>5, <1>9, <2>3
    <2> QED
      BY <2>1, <2>2, <2>3
  <1> QED
    BY <1>4, <1>5, <1>7, <1>8, <1>9, <1>10 DEF s, k, score

\* The scores, with ties left to the ids, order what the lists hold.
LEMMA ScoresAreStrict ==
    ASSUME NEW semantic, IsRanking(semantic), NEW keyword, IsRanking(keyword)
    PROVE IsStrictOrder(ToSet(semantic) \cup ToSet(keyword), ByScore(semantic, keyword))
  <1> DEFINE S == ToSet(semantic) \cup ToSet(keyword)
             T == ByScore(semantic, keyword)
             N(c) == RrfScore(semantic, keyword, c).num
             D(c) == RrfScore(semantic, keyword, c).den
  <1>1. \A c \in S : N(c) \in Nat \ {0} /\ D(c) \in Nat \ {0}
    BY ScoreOf
  <1>2. \A c, d \in S : <<c, d>> \in T <=>
            \/ N(c) * D(d) > N(d) * D(c)
            \/ N(c) * D(d) = N(d) * D(c) /\ IdRank[c] < IdRank[d]
    BY DEF ByScore
  <1>3. S \subseteq Chunks
    BY RankOf
  <1>4. /\ \A c \in S : IdRank[c] \in Nat
        /\ \A c, d \in S : IdRank[c] = IdRank[d] => c = d
    BY <1>3, RetrievalAssumption
  <1>5. \A c, d \in S : N(c) * D(d) \in Int
    <2>1. \A a, b \in Nat \ {0} : a * b \in Int
      OBVIOUS
    <2> HIDE DEF S, N, D
    <2> QED
      BY <1>1, <2>1
  <1> HIDE DEF S, T, N, D
  <1>6. ASSUME NEW a \in S, NEW b \in S, NEW c \in S, <<a, b>> \in T, <<b, c>> \in T
        PROVE <<a, c>> \in T
    <2>1. ~(N(b) * D(a) > N(a) * D(b)) /\ ~(N(c) * D(b) > N(b) * D(c))
      BY <1>2, <1>5, <1>6
    <2>2. /\ ~(N(c) * D(a) > N(a) * D(c))
          /\ N(c) * D(a) = N(a) * D(c) =>
                N(a) * D(b) = N(b) * D(a) /\ N(b) * D(c) = N(c) * D(b)
      BY <1>1, <2>1, FractionsInOrder
    <2>3. CASE N(c) * D(a) = N(a) * D(c)
      <3>1. N(a) * D(b) = N(b) * D(a) /\ N(b) * D(c) = N(c) * D(b)
        BY <2>2, <2>3
      <3>2. IdRank[a] < IdRank[b] /\ IdRank[b] < IdRank[c]
        BY <1>2, <1>5, <1>6, <3>1
      <3>3. IdRank[a] < IdRank[c]
        BY <1>4, <3>2
      <3> QED
        BY <1>2, <2>3, <3>3
    <2>4. CASE N(c) * D(a) # N(a) * D(c)
      <3>1. N(a) * D(c) > N(c) * D(a)
        BY <1>5, <2>2, <2>4
      <3> QED
        BY <1>2, <3>1
    <2> QED
      BY <2>3, <2>4
  <1>7. ASSUME NEW a \in S, NEW b \in S PROVE a = b \/ <<a, b>> \in T \/ <<b, a>> \in T
    <2>1. N(a) * D(b) > N(b) * D(a) \/ N(b) * D(a) > N(a) * D(b) \/ N(a) * D(b) = N(b) * D(a)
      BY <1>5
    <2>2. IdRank[a] < IdRank[b] \/ IdRank[b] < IdRank[a] \/ a = b
      BY <1>4
    <2> QED
      BY <1>2, <2>1, <2>2
  <1>8. ASSUME NEW a \in S PROVE <<a, a>> \notin T
    <2>1. ~(N(a) * D(a) > N(a) * D(a)) /\ ~(IdRank[a] < IdRank[a])
      BY <1>4, <1>5
    <2> QED
      BY <1>2, <2>1
  <1> QED
    BY <1>6, <1>7, <1>8 DEF IsStrictOrder, S, T

\* A chunk that no list ranks behind another one, and that both lists rank,
\* comes before it.
LEMMA AheadScoresMore ==
    ASSUME NEW semantic, IsRanking(semantic), NEW keyword, IsRanking(keyword),
           NEW c \in ToSet(semantic) \cup ToSet(keyword), NEW d \in Chunks,
           Ahead(semantic, d, c), Ahead(keyword, d, c)
    PROVE /\ d \in ToSet(semantic) \cap ToSet(keyword)
          /\ <<d, c>> \in ByScore(semantic, keyword)
  <1> DEFINE s(x) == RrfK + RankIn(semantic, x)
             k(x) == RrfK + RankIn(keyword, x)
             N(x) == RrfScore(semantic, keyword, x).num
             D(x) == RrfScore(semantic, keyword, x).den
  <1>1. /\ d \in ToSet(semantic) /\ d \in ToSet(keyword)
        /\ c \in ToSet(semantic) => RankIn(semantic, d) < RankIn(semantic, c)
        /\ c \in ToSet(keyword) => RankIn(keyword, d) < RankIn(keyword, c)
    BY RankOf DEF Ahead
  <1>2. /\ \A x \in ToSet(semantic) : s(x) \in Nat \ {0}
        /\ \A x \in ToSet(keyword) : k(x) \in Nat \ {0}
        /\ N(d) = s(d) + k(d) /\ D(d) = s(d) * k(d)
        /\ c \in ToSet(semantic) /\ c \in ToSet(keyword) => N(c) = s(c) + k(c) /\ D(c) = s(c) * k(c)
        /\ c \in ToSet(semantic) /\ c \notin ToSet(keyword) => N(c) = 1 /\ D(c) = s(c)
        /\ c \notin ToSet(semantic) /\ c \in ToSet(keyword) => N(c) = 1 /\ D(c) = k(c)
    BY <1>1, ScoreOf
  <1>3. /\ \A x \in ToSet(semantic) : RankIn(semantic, x) \in Int
        /\ \A x \in ToSet(keyword) : RankIn(keyword, x) \in Int
    BY RankOf
  <1>4. RrfK \in Int
    BY RetrievalAssumption
  <1>5. c \in ToSet(semantic) => s(d) < s(c)
    BY <1>1, <1>3, <1>4
  <1>6. c \in ToSet(keyword) => k(d) < k(c)
    BY <1>1, <1>3, <1>4
  <1> HIDE DEF s, k, N, D
  <1>7. N(d) * D(c) > N(c) * D(d)
    <2>1. CASE c \in ToSet(semantic) /\ c \in ToSet(keyword)
      BY <1>1, <1>2, <1>5, <1>6, <2>1, BothAheadScoresMore
    <2>2. CASE c \in ToSet(semantic) /\ c \notin ToSet(keyword)
      BY <1>1, <1>2, <1>5, <2>2, BothAheadScoresMore
    <2>3. CASE c \notin ToSet(semantic) /\ c \in ToSet(keyword)
      BY <1>1, <1>2, <1>6, <2>3, BothAheadScoresMore
    <2> QED
      BY <2>1, <2>2, <2>3
  <1> QED
    BY <1>1, <1>7 DEF ByScore, N, D

\* The fused list holds the best of what the lists hold, in order.
LEMMA FusedOf ==
    ASSUME NEW semantic, IsRanking(semantic), NEW keyword, IsRanking(keyword), NEW n \in Nat
    PROVE LET S == ToSet(semantic) \cup ToSet(keyword)
              fused == ReciprocalRankFusion(semantic, keyword, n)
          IN  /\ IsRanking(fused) /\ ToSet(fused) \subseteq S
              /\ Cardinality(S) <= n => ToSet(fused) = S
              /\ n <= Cardinality(S) => Len(fused) = n
              /\ \A c \in ToSet(fused), d \in S :
                    <<d, c>> \in ByScore(semantic, keyword) =>
                        d \in ToSet(fused) /\ RankIn(fused, d) < RankIn(fused, c)
  <1> DEFINE S == ToSet(semantic) \cup ToSet(keyword)
             T == ByScore(semantic, keyword)
             list == InOrder(S, T)
             fused == Top(list, n)
  <1>1. S \in SUBSET Chunks /\ IsFiniteSet(S)
    <2>1. S \in SUBSET Chunks
      BY RankOf
    <2> QED
      BY <2>1, FiniteRankings
  <1>2. /\ list \in Seq(S) /\ IsInjective(list) /\ ToSet(list) = S
        /\ \A i, j \in DOMAIN list : <<list[i], list[j]>> \in T <=> i < j
    BY <1>1, ScoresAreStrict, InOrderLists
  <1>3. fused = ReciprocalRankFusion(semantic, keyword, n)
    BY DEF ReciprocalRankFusion
  <1> HIDE DEF S, T, list
  <1>4. IsRanking(list)
    <2>1. list \in Seq(Chunks)
      BY <1>1, <1>2, SeqMonotonic
    <2> QED
      BY <1>2, <2>1 DEF IsRanking, Distinct
  <1>5. /\ IsRanking(fused) /\ ToSet(fused) \subseteq S
        /\ n <= Len(list) => Len(fused) = n
        /\ Len(list) <= n => fused = list
        /\ \A i \in DOMAIN fused : i \in DOMAIN list /\ fused[i] = list[i]
        /\ Len(fused) <= Len(list)
    BY <1>2, <1>4, TopOf
  <1>6. Cardinality(S) = Len(list)
    BY <1>2, <1>4, PlacesOfRanking
  <1> HIDE DEF fused
  <1>7. ASSUME NEW c \in ToSet(fused), NEW d \in S, <<d, c>> \in T
        PROVE d \in ToSet(fused) /\ RankIn(fused, d) < RankIn(fused, c)
    <2>1. /\ RankIn(fused, c) \in DOMAIN fused /\ fused[RankIn(fused, c)] = c
          /\ Len(fused) \in Nat /\ DOMAIN fused = 1 .. Len(fused)
      BY <1>5, RankOf
    <2>2. PICK j \in DOMAIN fused : j = RankIn(fused, c)
      BY <2>1
    <2>3. PICK i \in DOMAIN list : list[i] = d
      <3>1. RankIn(list, d) \in DOMAIN list /\ list[RankIn(list, d)] = d
        BY <1>2, <1>4, RankOf
      <3> QED
        BY <3>1
    <2>4. j \in DOMAIN list /\ list[j] = c
      BY <1>5, <2>1, <2>2
    <2>5. i < j
      BY <1>2, <1>7, <2>3, <2>4
    <2>6. i \in DOMAIN fused
      <3>1. i \in Nat /\ i >= 1
        BY <1>4, <2>3, RankOf
      <3>2. j \in 1 .. Len(fused)
        BY <2>1, <2>2
      <3> QED
        BY <2>1, <2>5, <3>1, <3>2
    <2>7. fused[i] = d
      BY <1>5, <2>3, <2>6
    <2>8. d \in ToSet(fused) /\ RankIn(fused, d) = i
      BY <1>5, <2>6, <2>7, RankOf
    <2> QED
      BY <2>2, <2>5, <2>8
  <1> QED
    BY <1>3, <1>5, <1>6, <1>2, <1>7 DEF S, T

\* The pool: exact matches first, then the fused list without them, and no
\* longer than the limit.  It is sound for whatever the three queries found.
LEMMA InjectedPoolIsSound ==
    ASSUME NEW semantic, IsRanking(semantic), NEW keyword, IsRanking(keyword),
           NEW exact, IsRanking(exact),
           lists' = [semantic |-> semantic, keyword |-> keyword, exact |-> exact],
           ranking' = InjectIdentifierCandidates(
                ReciprocalRankFusion(semantic, keyword, RerankerCandidateLimit),
                exact, RerankerCandidateLimit)
    PROVE IsRanking(ranking') /\ PoolIsSound'
  <1> DEFINE L == RerankerCandidateLimit
             S == ToSet(semantic) \cup ToSet(keyword)
             X == ToSet(exact)
             fused == ReciprocalRankFusion(semantic, keyword, L)
             F == ToSet(fused)
             rest == Kept(fused, F \ X)
             whole == exact \o rest
             m == Len(exact)
  <1>1. L \in Nat
    BY EvidenceAssumption
  <1>2. /\ IsRanking(fused) /\ F \subseteq S
        /\ Cardinality(S) <= L => F = S
        /\ L <= Cardinality(S) => Len(fused) = L
        /\ \A c \in F, d \in S :
                <<d, c>> \in ByScore(semantic, keyword) =>
                    d \in F /\ RankIn(fused, d) < RankIn(fused, c)
    BY <1>1, FusedOf
  <1>3. ranking' = Top(whole, L)
    BY DEF InjectIdentifierCandidates
  <1>4. S \in SUBSET Chunks /\ X \in SUBSET Chunks
    BY RankOf
  <1> HIDE DEF L, fused, S
  <1>5. /\ IsRanking(rest) /\ ToSet(rest) = F \ X
        /\ \A i, j \in DOMAIN rest : RankIn(fused, rest[i]) < RankIn(fused, rest[j]) <=> i < j
    BY <1>2, KeptOf
  <1> HIDE DEF rest
  <1>6. /\ IsRanking(whole) /\ ToSet(whole) = X \cup F
        /\ \A i \in DOMAIN exact : i \in DOMAIN whole /\ whole[i] = exact[i]
        /\ \A i \in DOMAIN rest : m + i \in DOMAIN whole /\ whole[m + i] = rest[i]
    <2>1. X \cap ToSet(rest) = {}
      BY <1>5
    <2>2. /\ IsRanking(whole) /\ ToSet(whole) = X \cup ToSet(rest)
          /\ \A i \in DOMAIN exact : i \in DOMAIN whole /\ whole[i] = exact[i]
          /\ \A i \in DOMAIN rest : m + i \in DOMAIN whole /\ whole[m + i] = rest[i]
      BY <1>5, <2>1, ConcatOf
    <2> QED
      BY <1>5, <2>2
  <1>7. m \in Nat /\ DOMAIN exact = 1 .. m
    BY RankOf
  <1> HIDE DEF whole, X, F, m
  <1>8. /\ IsRanking(ranking')
        /\ Len(ranking') = Min({L, Len(whole)})
        /\ \A i \in DOMAIN ranking' : i \in DOMAIN whole /\ ranking'[i] = whole[i]
        /\ ToSet(ranking') \subseteq ToSet(whole)
    <2> DEFINE top == Top(whole, L)
    <2>1. /\ IsRanking(top)
          /\ Len(top) = Min({L, Len(whole)})
          /\ \A i \in DOMAIN top : i \in DOMAIN whole /\ top[i] = whole[i]
          /\ ToSet(top) \subseteq ToSet(whole)
      BY <1>1, <1>6, TopOf
    <2>2. ranking' = top
      BY <1>3
    <2> HIDE DEF top
    <2> QED
      BY <2>1, <2>2
  <1>9. /\ Len(ranking') \in Nat /\ DOMAIN ranking' = 1 .. Len(ranking')
        /\ \A c : In(ranking', c) <=> c \in ToSet(ranking')
        /\ \A c \in ToSet(ranking') : RankIn(ranking', c) \in DOMAIN ranking' /\ ranking'[RankIn(ranking', c)] = c
        /\ \A i \in DOMAIN ranking' : ranking'[i] \in ToSet(ranking') /\ RankIn(ranking', ranking'[i]) = i
    BY <1>8, RankOf
  <1>10. /\ Len(whole) \in Nat /\ DOMAIN whole = 1 .. Len(whole)
         /\ \A i \in DOMAIN whole : RankIn(whole, whole[i]) = i
    BY <1>6, RankOf
  <1>11. Len(ranking') = Min({L, Cardinality(S \cup X)})
    <2>1. /\ IsFiniteSet(S) /\ Cardinality(S) \in Nat
          /\ IsFiniteSet(X \cup F) /\ Cardinality(X \cup F) \in Nat
          /\ IsFiniteSet(S \cup X) /\ Cardinality(S \cup X) \in Nat
      <3>1. X \cup F \in SUBSET Chunks /\ S \cup X \in SUBSET Chunks
        BY <1>2, <1>4
      <3> QED
        BY <1>4, <3>1, FiniteRankings
    <2>2. Cardinality(X \cup F) = Len(whole)
      BY <1>6, PlacesOfRanking
    <2>3. CASE Cardinality(S) <= L
      <3>1. X \cup F = S \cup X
        BY <1>2, <2>3
      <3> QED
        BY <1>8, <2>2, <3>1
    <2>4. CASE ~(Cardinality(S) <= L)
      <3>1. Len(fused) = L
        BY <1>1, <1>2, <2>1, <2>4
      <3>2. Cardinality(F) = L
        BY <1>2, <3>1, PlacesOfRanking DEF F
      <3>3. Cardinality(F) <= Cardinality(X \cup F)
        BY <2>1, FS_Subset
      <3>4. Cardinality(S) <= Cardinality(S \cup X)
        BY <2>1, FS_Subset
      <3>5. L <= Len(whole) /\ L <= Cardinality(S \cup X)
        BY <1>1, <2>1, <2>2, <2>4, <3>2, <3>3, <3>4
      <3>6. Min({L, Len(whole)}) = L /\ Min({L, Cardinality(S \cup X)}) = L
        <4>1. PICK v \in Nat, w \in Nat : v = Len(whole) /\ w = Cardinality(S \cup X)
          BY <1>10, <2>1
        <4>2. L <= v /\ L <= w
          BY <3>5, <4>1
        <4>3. L \in Int /\ v \in Int /\ w \in Int
          BY <1>1
        <4>4. Min({L, v}) = L
          BY <4>2, <4>3, MinOfTwo
        <4>5. Min({L, w}) = L
          BY <4>2, <4>3, MinOfTwo
        <4> QED
          BY <4>1, <4>4, <4>5
      <3> QED
        BY <1>8, <3>6
    <2> QED
      BY <2>3, <2>4
  <1>12. \A c \in ToSet(ranking') \ X :
            \E i \in DOMAIN rest : rest[i] = c /\ c \in F /\ RankIn(ranking', c) = m + i
    <2> SUFFICES ASSUME NEW c \in ToSet(ranking') \ X
                 PROVE \E i \in DOMAIN rest : rest[i] = c /\ c \in F /\ RankIn(ranking', c) = m + i
      OBVIOUS
    <2>1. c \in F /\ c \in ToSet(rest)
      BY <1>5, <1>6, <1>8
    <2>2. PICK i \in DOMAIN rest : rest[i] = c
      BY <1>5, <2>1, RankOf
    <2>3. m + i \in DOMAIN whole /\ whole[m + i] = c
      BY <1>6, <2>2
    <2>4. RankIn(ranking', c) \in DOMAIN whole /\ whole[RankIn(ranking', c)] = c
      BY <1>8, <1>9
    <2>5. RankIn(whole, c) = m + i /\ RankIn(whole, c) = RankIn(ranking', c)
      BY <1>10, <2>3, <2>4
    <2> QED
      BY <2>1, <2>2, <2>5
  <1>13. DOMAIN rest \subseteq Nat \ {0}
    BY <1>5, RankOf
  <1>14. ASSUME NEW c \in ToSet(ranking') \ X PROVE X \subseteq ToSet(ranking')
    <2> SUFFICES ASSUME NEW e \in X PROVE e \in ToSet(ranking')
      OBVIOUS
    <2>1. PICK j \in 1 .. m : exact[j] = e
      BY <1>7, RankOf DEF X
    <2>2. PICK i \in DOMAIN rest : RankIn(ranking', c) = m + i
      BY <1>12
    <2>3. m + i \in 1 .. Len(ranking')
      BY <1>9, <2>2
    <2>4. j \in 1 .. Len(ranking')
      BY <1>7, <1>9, <1>13, <2>3
    <2>5. ranking'[j] = e
      BY <1>6, <1>7, <1>8, <1>9, <2>1, <2>4
    <2> QED
      BY <1>9, <2>4, <2>5
  <1>15. ASSUME NEW c \in ToSet(ranking') \ X, NEW d \in (S \cup X) \ X,
                Ahead(semantic, d, c), Ahead(keyword, d, c)
         PROVE In(ranking', d) /\ RankIn(ranking', d) < RankIn(ranking', c)
    <2>1. PICK j \in DOMAIN rest : rest[j] = c /\ c \in F /\ RankIn(ranking', c) = m + j
      BY <1>12
    <2>2. c \in S /\ d \in S /\ d \in Chunks
      BY <1>2, <1>4, <2>1
    <2>3. <<d, c>> \in ByScore(semantic, keyword)
      BY <1>15, <2>2, AheadScoresMore DEF S
    <2>4. d \in F /\ RankIn(fused, d) < RankIn(fused, c)
      BY <1>2, <2>1, <2>2, <2>3
    <2>5. PICK i \in DOMAIN rest : rest[i] = d
      <3>1. d \in ToSet(rest)
        BY <1>5, <1>15, <2>4
      <3> QED
        BY <1>5, <3>1, RankOf
    <2>6. i < j
      BY <1>5, <2>1, <2>4, <2>5
    <2>7. m + j \in 1 .. Len(ranking')
      BY <1>9, <2>1
    <2>8. PICK p \in Nat : p = m + i
      BY <1>7, <1>13
    <2>9. p \in 1 .. Len(ranking') /\ p < m + j
      BY <1>7, <1>9, <1>13, <2>6, <2>7, <2>8
    <2>10. ranking'[p] = d
      BY <1>6, <1>8, <1>9, <2>5, <2>8, <2>9
    <2>11. d \in ToSet(ranking') /\ RankIn(ranking', d) = p
      BY <1>9, <2>9, <2>10
    <2> QED
      BY <1>9, <2>1, <2>9, <2>11
  <1>16. lists'.semantic = semantic /\ lists'.keyword = keyword /\ lists'.exact = exact
    OBVIOUS
  <1>17. PoolIsSound'
    <2>1. Distinct(ranking')
      BY <1>8 DEF IsRanking
    <2> QED
      BY <1>11, <1>14, <1>15, <1>16, <2>1 DEF PoolIsSound, S, X, L
  <1> QED
    BY <1>8, <1>17

-----------------------------------------------------------------------------
(* Identifiers, reranking and the selection of candidates.                  *)

LEMMA StrictOnPart ==
    ASSUME NEW S, NEW order, IsStrictOrder(S, order), NEW P \in SUBSET S
    PROVE IsStrictOrder(P, order)
  BY DEF IsStrictOrder

\* The chunks of the units that name an identifier, each once.
LEMMA ByIdentifierOf ==
    ASSUME NEW S \in SUBSET Chunks, NEW names \in Seq(SUBSET Chunks),
           NEW order, IsStrictOrder(S, order)
    PROVE LET list == ByIdentifier(S, names, order) IN
          IsRanking(list) /\ ToSet(list) = Named(S, names)
  <1> DEFINE P == Named(S, names)
             key == [c \in P |-> Min(NamedAt(S, names, c))]
             list == InOrder(P, ThenBy(P, key, order))
  <1>1. P \subseteq S /\ IsFiniteSet(P)
    <2>1. P \subseteq S
      BY DEF Named
    <2> HIDE DEF P
    <2> QED
      BY <2>1, FiniteRankings
  <1>2. ASSUME NEW c \in P PROVE Min(NamedAt(S, names, c)) \in Int
    <2> DEFINE N == NamedAt(S, names, c)
    <2>1. N # {}
      BY DEF Named
    <2>2. DOMAIN names = 1 .. Len(names) /\ N \subseteq DOMAIN names
      BY DEF NamedAt
    <2>3. \A i \in N : i \in Int /\ 0 <= i
      BY <2>2
    <2> HIDE DEF N
    <2>4. N \in SUBSET Int
      BY <2>3
    <2>5. Min(N) \in N
      BY <2>1, <2>3, <2>4, MinBounded
    <2> QED
      BY <2>3, <2>5 DEF N
  <1>3. key \in [P -> Int]
    BY <1>2
  <1>4. IsStrictOrder(P, order)
    BY <1>1, StrictOnPart
  <1> HIDE DEF key
  <1>5. IsStrictOrder(P, ThenBy(P, key, order))
    BY <1>3, <1>4, ThenByIsStrict
  <1>6. list \in Seq(P) /\ IsInjective(list) /\ ToSet(list) = P
    BY <1>1, <1>5, InOrderLists
  <1>7. list = ByIdentifier(S, names, order)
    BY DEF ByIdentifier, key
  <1> HIDE DEF P, list
  <1>8. list \in Seq(Chunks)
    BY <1>1, <1>6, SeqMonotonic
  <1> QED
    BY <1>6, <1>7, <1>8 DEF IsRanking, Distinct, P

LEMMA ExactOf ==
    ASSUME NEW found, IsRanking(found), NEW names \in Seq(SUBSET Chunks)
    PROVE IsRanking(OrderedByIdentifier(found, names))
  <1>1. ToSet(found) \in SUBSET Chunks
    BY RankOf
  <1>2. IsStrictOrder(ToSet(found), ListOrder(found, ToSet(found)))
    BY KeptOf
  <1> QED
    BY <1>1, <1>2, ByIdentifierOf DEF OrderedByIdentifier

\* Reranking changes the order of the pool only.
LEMMA RerankedOf ==
    ASSUME NEW pool, IsRanking(pool), NEW score \in [ToSet(pool) -> Scores]
    PROVE LET list == Reranked(pool, score) IN IsRanking(list) /\ ToSet(list) = ToSet(pool)
  <1> DEFINE S == ToSet(pool)
             key == [c \in S |-> -score[c]]
             list == InOrder(S, ThenBy(S, key, ListOrder(pool, S)))
  <1>1. S \in SUBSET Chunks /\ IsFiniteSet(S)
    <2>1. S \in SUBSET Chunks
      BY RankOf
    <2> QED
      BY <2>1, FiniteRankings
  <1>2. key \in [S -> Int]
    <2>1. \A c \in S : score[c] \in Int
      BY EvidenceAssumption
    <2> HIDE DEF S
    <2>2. \A c \in S : -score[c] \in Int
      BY <2>1
    <2> QED
      BY <2>2
  <1>3. IsStrictOrder(S, ListOrder(pool, S))
    BY KeptOf
  <1>4. list = Reranked(pool, score)
    BY DEF Reranked
  <1> HIDE DEF key, S
  <1>5. IsStrictOrder(S, ThenBy(S, key, ListOrder(pool, S)))
    BY <1>2, <1>3, ThenByIsStrict
  <1>6. list \in Seq(S) /\ IsInjective(list) /\ ToSet(list) = S
    BY <1>1, <1>5, InOrderLists
  <1> HIDE DEF list
  <1>7. list \in Seq(Chunks)
    BY <1>1, <1>6, SeqMonotonic
  <1> QED
    BY <1>4, <1>6, <1>7 DEF IsRanking, Distinct, S

LEMMA PinnedOf ==
    ASSUME NEW ranked, IsRanking(ranked), NEW names \in Seq(SUBSET Chunks)
    PROVE /\ IsRanking(Pinned(ranked, names))
          /\ ToSet(Pinned(ranked, names)) = Named(ToSet(ranked), names)
  <1> DEFINE S == ToSet(ranked)
             id == [c \in S |-> IdRank[c]]
             from == [c \in S |-> StartOf[c]]
  <1>1. S \in SUBSET Chunks
    BY RankOf
  <1> HIDE DEF S
  <1>2. id \in [S -> Int] /\ from \in [S -> Int] /\ \A c, d \in S : id[c] = id[d] => c = d
    <2>1. /\ \A c \in Chunks : IdRank[c] \in Int /\ StartOf[c] \in Int
          /\ \A c, d \in Chunks : IdRank[c] = IdRank[d] => c = d
      BY RetrievalAssumption
    <2> QED
      BY <1>1, <2>1
  <1> HIDE DEF id, from
  <1>3. IsStrictOrder(S, By(S, id))
    BY <1>2, ByIsStrict
  <1>4. IsStrictOrder(S, ThenBy(S, from, By(S, id)))
    BY <1>2, <1>3, ThenByIsStrict
  <1>5. Pinned(ranked, names) = ByIdentifier(S, names, ThenBy(S, from, By(S, id)))
    BY DEF Pinned, InText, S, id, from
  <1> QED
    BY <1>1, <1>4, <1>5, ByIdentifierOf DEF S

\* The candidates are of the pool and begin with the pinned ones, so that a
\* chunk that names an identifier never follows one of a unit that names none.
LEMMA SelectedOf ==
    ASSUME NEW ranked, IsRanking(ranked), NEW names \in Seq(SUBSET Chunks),
           NEW compare, NEW n \in Nat
    PROVE LET candidates == SelectAnswerCandidates(ranked, names, compare, n) IN
          /\ IsRanking(candidates) /\ Len(candidates) <= n
          /\ \A i, j \in DOMAIN candidates :
                candidates[j] \in UNION ToSet(names) /\ i < j =>
                    candidates[i] \in Named(ToSet(ranked), names)
  <1> DEFINE R == ToSet(ranked)
             pinned == Pinned(ranked, names)
             Alike(c) == {d \in R : DocumentOf[d] = DocumentOf[c]}
             further == {c \in R :
                            /\ Alike(c) \cap ToSet(pinned) = {}
                            /\ \A d \in Alike(c) : RankIn(ranked, c) <= RankIn(ranked, d)}
             more == Kept(ranked, further)
             chosen == IF compare THEN Diversified(ranked, pinned) ELSE pinned
             rest == Kept(ranked, R \ ToSet(chosen))
             whole == chosen \o rest
             candidates == Top(whole, n)
  <1>1. IsRanking(pinned) /\ ToSet(pinned) = Named(R, names)
    BY PinnedOf
  <1>2. Named(R, names) \subseteq R
    BY DEF Named
  <1>3. Diversified(ranked, pinned) = pinned \o more
    BY DEF Diversified
  <1>4. candidates = SelectAnswerCandidates(ranked, names, compare, n)
    BY DEF SelectAnswerCandidates
  <1> HIDE DEF pinned
  <1>5. further \in SUBSET R /\ further \cap ToSet(pinned) = {}
    OBVIOUS
  <1> HIDE DEF further
  <1>6. IsRanking(more) /\ ToSet(more) = further
    BY <1>5, KeptOf
  <1> HIDE DEF more
  <1>7. /\ IsRanking(pinned \o more) /\ ToSet(pinned \o more) = ToSet(pinned) \cup further
        /\ \A i \in DOMAIN pinned : i \in DOMAIN (pinned \o more) /\ (pinned \o more)[i] = pinned[i]
    <2>1. ToSet(pinned) \cap ToSet(more) = {}
      BY <1>5, <1>6
    <2> QED
      BY <1>1, <1>6, <2>1, ConcatOf
  <1>8. /\ IsRanking(chosen) /\ ToSet(chosen) \subseteq R
        /\ \A i \in DOMAIN pinned : i \in DOMAIN chosen /\ chosen[i] = pinned[i]
    BY <1>1, <1>2, <1>3, <1>5, <1>7
  <1> HIDE DEF chosen
  <1>9. IsRanking(rest) /\ ToSet(rest) = R \ ToSet(chosen)
    BY KeptOf
  <1> HIDE DEF rest
  <1>10. /\ IsRanking(whole) /\ ToSet(whole) \subseteq R
         /\ \A i \in DOMAIN pinned : i \in DOMAIN whole /\ whole[i] = pinned[i]
    <2>1. ToSet(chosen) \cap ToSet(rest) = {}
      BY <1>9
    <2>2. /\ IsRanking(whole) /\ ToSet(whole) = ToSet(chosen) \cup ToSet(rest)
          /\ \A i \in DOMAIN chosen : i \in DOMAIN whole /\ whole[i] = chosen[i]
      BY <1>8, <1>9, <2>1, ConcatOf
    <2> QED
      BY <1>8, <1>9, <2>2
  <1> HIDE DEF whole
  <1>11. /\ IsRanking(candidates) /\ Len(candidates) <= n
         /\ \A i \in DOMAIN candidates : i \in DOMAIN whole /\ candidates[i] = whole[i]
    BY <1>10, TopOf
  <1> HIDE DEF candidates
  <1>12. ASSUME NEW i \in DOMAIN candidates, NEW j \in DOMAIN candidates,
                candidates[j] \in UNION ToSet(names), i < j
         PROVE candidates[i] \in Named(R, names)
    <2>1. i \in DOMAIN whole /\ j \in DOMAIN whole /\ candidates[i] = whole[i] /\ candidates[j] = whole[j]
      BY <1>11
    <2>2. whole[j] \in R
      BY <1>10, <2>1, RankOf
    <2>3. PICK k \in DOMAIN names : whole[j] \in names[k]
      BY <1>12, <2>1 DEF ToSet
    <2>4. k \in NamedAt(R, names, whole[j])
      BY <2>2, <2>3 DEF NamedAt
    <2>5. whole[j] \in ToSet(pinned)
      BY <1>1, <2>2, <2>4 DEF Named
    <2>6. PICK q \in DOMAIN pinned : pinned[q] = whole[j]
      BY <1>1, <2>5, RankOf
    <2>7. q = j
      <3>1. q \in DOMAIN whole /\ whole[q] = whole[j]
        BY <1>10, <2>6
      <3> QED
        BY <1>10, <2>1, <3>1 DEF IsRanking, Distinct, IsInjective
    <2>8. i \in DOMAIN pinned
      <3>1. DOMAIN pinned = 1 .. Len(pinned) /\ Len(pinned) \in Nat /\ DOMAIN whole = 1 .. Len(whole) /\ Len(whole) \in Nat
        BY <1>1, <1>10, RankOf
      <3>2. j \in 1 .. Len(pinned) /\ i \in 1 .. Len(whole)
        BY <2>1, <2>6, <2>7, <3>1
      <3> QED
        BY <1>12, <3>1, <3>2
    <2>9. candidates[i] = pinned[i]
      BY <1>10, <2>1, <2>8
    <2> QED
      BY <1>1, <2>8, <2>9, RankOf
  <1> QED
    BY <1>4, <1>11, <1>12

-----------------------------------------------------------------------------
(* The context of an answer.                                                *)

\* What a list takes, one chunk at a time.
LEMMA TotalDefined ==
    ASSUME NEW list \in Seq(Chunks), NEW weight \in [Chunks -> Nat]
    PROVE \E sum \in [0 .. Len(list) -> Nat] :
            /\ sum[0] = 0
            /\ \A i \in 1 .. Len(list) : sum[i] = sum[i - 1] + weight[list[i]]
            /\ Total(list, weight) = sum[Len(list)]
  <1> DEFINE n == Len(list)
             step == [i \in 1 .. n |-> [t \in Nat |-> t + weight[list[i]]]]
  <1>1. n \in Nat /\ \A i \in 1 .. n : weight[list[i]] \in Nat
    <2>1. n \in Nat /\ \A i \in 1 .. n : list[i] \in Chunks
      OBVIOUS
    <2> QED
      BY <2>1
  <1>2. Total(list, weight) = LET sum[i \in 0 .. n] == IF i = 0 THEN 0 ELSE sum[i - 1] + weight[list[i]]
                         IN  sum[n]
    BY DEF Total
  <1> HIDE DEF n
  <1>3. step \in [1 .. n -> [Nat -> Nat]]
    BY <1>1
  <1>4. \A i \in 1 .. n : \A t \in Nat : step[i][t] = t + weight[list[i]]
    OBVIOUS
  <1> HIDE DEF step
  <1>5. PICK f : IsListLoop(f, n, Nat, 0, step)
    BY <1>1, <1>3, ListLoopDefined
  <1>6. f \in [0 .. n -> Nat] /\ f[0] = 0 /\ \A i \in 1 .. n : f[i] = f[i - 1] + weight[list[i]]
    <2>1. f \in [0 .. n -> Nat] /\ f[0] = 0 /\ \A i \in 1 .. n : f[i] = step[i][f[i - 1]]
      BY <1>5 DEF IsListLoop
    <2>2. \A i \in 1 .. n : i - 1 \in 0 .. n
      BY <1>1
    <2> QED
      BY <1>4, <2>1, <2>2
  <1>7. f = [i \in 0 .. n |-> IF i = 0 THEN 0 ELSE f[i - 1] + weight[list[i]]]
    <2>1. \A i \in 0 .. n : i = 0 \/ i \in 1 .. n
      BY <1>1
    <2> QED
      BY <1>6, <2>1
  <1> DEFINE sum == CHOOSE g : g = [i \in 0 .. n |-> IF i = 0 THEN 0 ELSE g[i - 1] + weight[list[i]]]
  <1>8. sum = [i \in 0 .. n |-> IF i = 0 THEN 0 ELSE sum[i - 1] + weight[list[i]]]
    BY <1>7
  <1>9. Total(list, weight) = sum[n]
    BY <1>2
  <1> HIDE DEF sum
  <1>10. sum[0] = 0 /\ \A i \in 1 .. n : sum[i] = sum[i - 1] + weight[list[i]]
    <2>1. 0 \in 0 .. n /\ \A i \in 1 .. n : i \in 0 .. n /\ i # 0
      BY <1>1
    <2> QED
      BY <1>8, <2>1
  <1>11. sum \in [0 .. n -> Nat]
    <2> DEFINE P == {i \in 0 .. n : sum[i] \in Nat}
    <2>1. 0 \in P
      BY <1>1, <1>10
    <2>2. ASSUME NEW i \in 1 .. n, i - 1 \in P PROVE i \in P
      <3>1. sum[i - 1] \in Nat /\ weight[list[i]] \in Nat /\ i \in 0 .. n
        BY <1>1, <2>2
      <3> QED
        BY <1>10, <3>1
    <2>3. 0 .. n \subseteq P
      BY <1>1, <2>1, <2>2, ListInduction
    <2>4. \A i \in 0 .. n : sum[i] \in Nat
      BY <2>3
    <2> QED
      BY <1>8, <2>4
  <1> QED
    BY <1>9, <1>10, <1>11 DEF n

LEMMA TotalOfNone ==
    ASSUME NEW weight \in [Chunks -> Nat]
    PROVE Total(<<>>, weight) = 0
  <1>1. <<>> \in Seq(Chunks)
    BY EmptySeq
  <1>2. PICK list \in Seq(Chunks) : list = <<>>
    BY <1>1
  <1>3. PICK sum \in [0 .. Len(list) -> Nat] : sum[0] = 0 /\ Total(list, weight) = sum[Len(list)]
    BY TotalDefined
  <1> QED
    BY <1>2, <1>3

LEMMA TotalOfMore ==
    ASSUME NEW list \in Seq(Chunks), NEW c \in Chunks, NEW weight \in [Chunks -> Nat]
    PROVE /\ Total(list, weight) \in Nat /\ weight[c] \in Nat
          /\ Total(Append(list, c), weight) = Total(list, weight) + weight[c]
  <1> DEFINE n == Len(list)
             long == Append(list, c)
  <1>1. n \in Nat /\ weight[c] \in Nat
    BY LenProperties
  <1>2. long \in Seq(Chunks) /\ Len(long) = n + 1 /\ long[n + 1] = c /\ \A i \in 1 .. n : long[i] = list[i]
    BY AppendProperties
  <1>3. PICK f \in [0 .. n -> Nat] :
            /\ f[0] = 0 /\ \A i \in 1 .. n : f[i] = f[i - 1] + weight[list[i]]
            /\ Total(list, weight) = f[n]
    BY TotalDefined
  <1>4. PICK g \in [0 .. Len(long) -> Nat] :
            /\ g[0] = 0 /\ \A i \in 1 .. Len(long) : g[i] = g[i - 1] + weight[long[i]]
            /\ Total(long, weight) = g[Len(long)]
    BY <1>2, TotalDefined
  <1> HIDE DEF n, long
  <1>5. g[0] = 0 /\ (\A i \in 1 .. n + 1 : g[i] = g[i - 1] + weight[long[i]]) /\ Total(long, weight) = g[n + 1]
    BY <1>2, <1>4
  <1>6. 0 .. n \subseteq {i \in 0 .. n : f[i] = g[i]}
    <2> DEFINE P == {i \in 0 .. n : f[i] = g[i]}
    <2>1. 0 \in P
      BY <1>1, <1>3, <1>5
    <2>2. ASSUME NEW i \in 1 .. n, i - 1 \in P PROVE i \in P
      <3>1. i \in 1 .. n + 1 /\ i \in 0 .. n
        BY <1>1
      <3>2. long[i] = list[i] /\ f[i - 1] = g[i - 1]
        BY <1>2, <2>2
      <3> QED
        BY <1>3, <1>5, <3>1, <3>2
    <2>3. 0 .. n \subseteq P
      BY <1>1, <2>1, <2>2, ListInduction
    <2> QED
      BY <2>3
  <1>7. n \in 0 .. n /\ n + 1 \in 1 .. n + 1 /\ (n + 1) - 1 = n
    BY <1>1
  <1>8. f[n] = g[n] /\ f[n] \in Nat
    BY <1>3, <1>6, <1>7
  <1>9. g[n + 1] = g[n] + weight[c]
    BY <1>2, <1>5, <1>7
  <1> QED
    BY <1>1, <1>3, <1>5, <1>8, <1>9 DEF long

\* The two totals the context is held to.
LEMMA BlocksAreWeighed ==
    /\ SizeOf \in [Chunks -> Nat] /\ LengthOf \in [Chunks -> Nat]
    /\ TokensOf(<<>>) = 0 /\ CharactersOf(<<>>) = 0
    /\ \A list \in Seq(Chunks), c \in Chunks :
        /\ TokensOf(Append(list, c)) = TokensOf(list) + SizeOf[c]
        /\ CharactersOf(Append(list, c)) = CharactersOf(list) + LengthOf[c]
  <1>1. SizeOf \in [Chunks -> Nat] /\ LengthOf \in [Chunks -> Nat]
    BY RetrievalAssumption
  <1> HIDE DEF Total
  <1>2. TokensOf(<<>>) = 0 /\ CharactersOf(<<>>) = 0
    BY <1>1, TotalOfNone DEF TokensOf, CharactersOf
  <1>3. ASSUME NEW list \in Seq(Chunks), NEW c \in Chunks
        PROVE /\ TokensOf(Append(list, c)) = TokensOf(list) + SizeOf[c]
              /\ CharactersOf(Append(list, c)) = CharactersOf(list) + LengthOf[c]
    <2>1. /\ Total(Append(list, c), SizeOf) = Total(list, SizeOf) + SizeOf[c]
          /\ Total(Append(list, c), LengthOf) = Total(list, LengthOf) + LengthOf[c]
      BY <1>1, TotalOfMore
    <2> QED
      BY <2>1 DEF TokensOf, CharactersOf
  <1> QED
    BY <1>1, <1>2, <1>3

ContextType == [sources : Seq(Chunks), tokens : Nat, characters : Nat]

\* The context is built one candidate at a time.
LEMMA ContextDefined ==
    ASSUME NEW candidates \in Seq(Chunks)
    PROVE \E built :
            /\ \A i \in 0 .. Len(candidates) : built[i] \in ContextType
            /\ built[0] = NoSources
            /\ \A i \in 1 .. Len(candidates) : built[i] = AddSource(built[i - 1], candidates[i])
            /\ AnswerContext(candidates) = built[Len(candidates)].sources
  <1> DEFINE n == Len(candidates)
             base == NoSources
             step == [i \in 1 .. n |-> [t \in ContextType |-> AddSource(t, candidates[i])]]
             built == CHOOSE g : g = [i \in 0 .. n |-> IF i = 0 THEN base
                                                       ELSE AddSource(g[i - 1], candidates[i])]
  <1>1. n \in Nat /\ \A i \in 1 .. n : candidates[i] \in Chunks
    OBVIOUS
  <1>2. AnswerContext(candidates) = built[n].sources
    <2> HIDE DEF AddSource
    <2> QED
      BY DEF AnswerContext
  <1>3. base \in ContextType
    <2>1. PICK none \in Seq(Chunks) : none = <<>>
      BY EmptySeq
    <2>2. [sources |-> none, tokens |-> 0, characters |-> 0] \in ContextType
      BY DEF ContextType
    <2> QED
      BY <2>1, <2>2 DEF NoSources
  <1>4. ASSUME NEW t \in ContextType, NEW c \in Chunks PROVE AddSource(t, c) \in ContextType
    <2>1. /\ t.sources \in Seq(Chunks) /\ t.tokens \in Nat /\ t.characters \in Nat
          /\ SizeOf[c] \in Nat /\ LengthOf[c] \in Nat
      BY BlocksAreWeighed DEF ContextType
    <2>2. /\ Append(t.sources, c) \in Seq(Chunks)
          /\ t.tokens + SizeOf[c] \in Nat /\ t.characters + LengthOf[c] \in Nat
      BY <2>1, AppendProperties
    <2>3. [sources |-> Append(t.sources, c), tokens |-> t.tokens + SizeOf[c],
           characters |-> t.characters + LengthOf[c]] \in ContextType
      BY <2>2 DEF ContextType
    <2> QED
      BY <2>3 DEF AddSource
  <1> HIDE DEF n, base, ContextType
  <1>5. step \in [1 .. n -> [ContextType -> ContextType]]
    BY <1>1, <1>4
  <1>6. \A i \in 1 .. n : \A t \in ContextType : step[i][t] = AddSource(t, candidates[i])
    OBVIOUS
  <1> HIDE DEF step
  <1>7. PICK f : IsListLoop(f, n, ContextType, base, step)
    BY <1>1, <1>3, <1>5, ListLoopDefined
  <1>8. /\ f \in [0 .. n -> ContextType] /\ f[0] = base
        /\ \A i \in 1 .. n : f[i] = AddSource(f[i - 1], candidates[i])
    <2>1. f \in [0 .. n -> ContextType] /\ f[0] = base /\ \A i \in 1 .. n : f[i] = step[i][f[i - 1]]
      BY <1>7 DEF IsListLoop
    <2>2. \A i \in 1 .. n : i - 1 \in 0 .. n
      BY <1>1
    <2> QED
      BY <1>6, <2>1, <2>2
  <1>9. f = [i \in 0 .. n |-> IF i = 0 THEN base ELSE AddSource(f[i - 1], candidates[i])]
    <2>1. \A i \in 0 .. n : i = 0 \/ i \in 1 .. n
      BY <1>1
    <2> QED
      BY <1>8, <2>1
  <1>10. built = [i \in 0 .. n |-> IF i = 0 THEN base ELSE AddSource(built[i - 1], candidates[i])]
    <2> HIDE DEF AddSource
    <2> QED
      BY <1>9
  <1> HIDE DEF built
  <1>11. built[0] = base /\ \A i \in 1 .. n : built[i] = AddSource(built[i - 1], candidates[i])
    <2>1. 0 \in 0 .. n /\ \A i \in 1 .. n : i \in 0 .. n /\ i # 0
      BY <1>1
    <2> QED
      BY <1>10, <2>1
  <1>12. 0 .. n \subseteq {i \in 0 .. n : built[i] \in ContextType}
    <2> DEFINE P == {i \in 0 .. n : built[i] \in ContextType}
    <2>1. 0 \in P
      BY <1>1, <1>3, <1>11
    <2>2. ASSUME NEW i \in 1 .. n, i - 1 \in P PROVE i \in P
      <3>1. built[i - 1] \in ContextType /\ candidates[i] \in Chunks /\ i \in 0 .. n
        BY <1>1, <2>2
      <3> QED
        BY <1>4, <1>11, <3>1
    <2>3. 0 .. n \subseteq P
      BY <1>1, <2>1, <2>2, ListInduction
    <2> QED
      BY <2>3
  <1>13. \A i \in 0 .. n : built[i] \in ContextType
    BY <1>12
  <1> QED
    BY <1>2, <1>11, <1>13 DEF n, base

\* What a context built from the first i candidates is.
BuiltFrom(candidates, i, t) ==
    /\ IsRanking(t.sources)
    /\ Len(t.sources) <= i /\ Len(t.sources) <= MaxContextChunks
    /\ t.tokens = TokensOf(t.sources) /\ t.tokens <= MaxContextTokens
    /\ t.characters = CharactersOf(t.sources) /\ t.characters <= MaxContextChars
    /\ \A a \in DOMAIN t.sources :
        t.sources[a] \in ToSet(candidates) /\ RankIn(candidates, t.sources[a]) <= i
    /\ \A a, b \in DOMAIN t.sources :
        a < b => RankIn(candidates, t.sources[a]) < RankIn(candidates, t.sources[b])

LEMMA AddKeepsBuilt ==
    ASSUME NEW candidates, IsRanking(candidates), NEW i \in 1 .. Len(candidates),
           NEW t \in ContextType, BuiltFrom(candidates, i - 1, t)
    PROVE BuiltFrom(candidates, i, AddSource(t, candidates[i]))
  <1> DEFINE list == t.sources
             n == Len(list)
             c == candidates[i]
             longer == Append(list, c)
             new == [sources |-> longer, tokens |-> t.tokens + SizeOf[c],
                     characters |-> t.characters + LengthOf[c]]
             R(x) == RankIn(candidates, x)
  <1>1. /\ Len(candidates) \in Nat /\ DOMAIN candidates = 1 .. Len(candidates)
        /\ ToSet(candidates) \subseteq Chunks
        /\ \A x \in ToSet(candidates) : R(x) \in Nat
        /\ c \in ToSet(candidates) /\ R(c) = i
    BY RankOf
  <1>2. /\ list \in Seq(Chunks) /\ n \in Nat /\ DOMAIN list = 1 .. n
        /\ t.tokens \in Nat /\ t.characters \in Nat
        /\ c \in Chunks /\ i \in Nat
    BY <1>1 DEF ContextType
  <1>3. /\ IsRanking(list) /\ n <= i - 1 /\ n <= MaxContextChunks
        /\ t.tokens = TokensOf(list) /\ t.tokens <= MaxContextTokens
        /\ t.characters = CharactersOf(list) /\ t.characters <= MaxContextChars
        /\ \A a \in 1 .. n : list[a] \in ToSet(candidates) /\ R(list[a]) <= i - 1
        /\ \A a, b \in 1 .. n : a < b => R(list[a]) < R(list[b])
    BY <1>2 DEF BuiltFrom
  <1>4. MaxContextChunks \in Nat /\ MaxContextTokens \in Nat /\ MaxContextChars \in Nat
    BY RetrievalAssumption
  <1> HIDE DEF c, R
  <1>5. CASE AddSource(t, c) = t
    <2>1. n <= i /\ \A a \in 1 .. n : list[a] \in ToSet(candidates) /\ R(list[a]) <= i
      <3> HIDE DEF n, list
      <3>1. ASSUME NEW a \in 1 .. n PROVE R(list[a]) <= i
        BY <1>1, <1>2, <1>3
      <3> QED
        BY <1>2, <1>3, <3>1
    <2> QED
      BY <1>2, <1>3, <1>5, <2>1 DEF BuiltFrom, R, c
  <1>6. CASE AddSource(t, c) # t
    <2>1. /\ AddSource(t, c) = new
          /\ ~In(list, c) /\ n < MaxContextChunks
          /\ t.tokens + SizeOf[c] <= MaxContextTokens
          /\ t.characters + LengthOf[c] <= MaxContextChars
      BY <1>6 DEF AddSource, Fits
    <2>2. /\ longer \in Seq(Chunks) /\ Len(longer) = n + 1 /\ DOMAIN longer = 1 .. n + 1
          /\ longer[n + 1] = c /\ \A a \in 1 .. n : longer[a] = list[a]
      BY <1>2, AppendProperties
    <2>3. /\ TokensOf(longer) = TokensOf(list) + SizeOf[c]
          /\ CharactersOf(longer) = CharactersOf(list) + LengthOf[c]
      BY <1>2, BlocksAreWeighed
    <2>4. \A a \in 1 .. n : list[a] # c
      BY <1>2, <2>1 DEF In
    <2> HIDE DEF longer, n, list
    <2>5. \A a \in 1 .. n + 1 : a \in 1 .. n \/ a = n + 1
      BY <1>2
    <2>6. n + 1 <= i /\ n + 1 <= MaxContextChunks
      BY <1>2, <1>3, <1>4, <2>1
    <2>7. /\ t.tokens + SizeOf[c] = TokensOf(longer)
          /\ t.characters + LengthOf[c] = CharactersOf(longer)
      BY <1>3, <2>3
    <2>8. \A a \in 1 .. n + 1 : longer[a] \in ToSet(candidates) /\ R(longer[a]) <= i
      <3>1. ASSUME NEW a \in 1 .. n PROVE longer[a] \in ToSet(candidates) /\ R(longer[a]) <= i
        <4>1. R(list[a]) \in Nat /\ R(list[a]) <= i - 1
          BY <1>1, <1>3
        <4>2. R(list[a]) <= i
          BY <1>2, <4>1
        <4> QED
          BY <1>3, <2>2, <4>2
      <3>2. longer[n + 1] \in ToSet(candidates) /\ R(longer[n + 1]) <= i
        BY <1>1, <1>2, <2>2
      <3> QED
        BY <2>5, <3>1, <3>2
    <2>9. ASSUME NEW a \in 1 .. n + 1, NEW b \in 1 .. n + 1, a < b
          PROVE R(longer[a]) < R(longer[b])
      <3>1. CASE b \in 1 .. n
        <4>1. a \in 1 .. n
          BY <1>2, <2>9, <3>1
        <4> QED
          BY <1>3, <2>2, <2>9, <3>1, <4>1
      <3>2. CASE b = n + 1
        <4>1. a \in 1 .. n
          BY <1>2, <2>9, <3>2
        <4>2. R(list[a]) \in Nat /\ R(list[a]) <= i - 1
          BY <1>1, <1>3, <4>1
        <4>3. R(list[a]) < i
          BY <1>2, <4>2
        <4> QED
          BY <1>1, <2>2, <3>2, <4>1, <4>3
      <3> QED
        BY <2>5, <3>1, <3>2
    <2>10. IsRanking(longer)
      <3>1. ASSUME NEW a \in 1 .. n + 1, NEW b \in 1 .. n + 1, longer[a] = longer[b] PROVE a = b
        <4>1. R(longer[a]) \in Nat
          BY <1>1, <2>8
        <4>2. ~(R(longer[a]) < R(longer[b])) /\ ~(R(longer[b]) < R(longer[a]))
          BY <3>1, <4>1
        <4>3. ~(a < b) /\ ~(b < a)
          BY <2>9, <4>2
        <4> QED
          BY <1>2, <4>3
      <3> QED
        BY <2>2, <3>1 DEF IsRanking, Distinct, IsInjective
    <2>11. /\ new.sources = longer /\ new.tokens = t.tokens + SizeOf[c]
           /\ new.characters = t.characters + LengthOf[c]
      OBVIOUS
    <2> HIDE DEF new
    <2>12. BuiltFrom(candidates, i, new)
      BY <2>1, <2>2, <2>6, <2>7, <2>8, <2>9, <2>10, <2>11 DEF BuiltFrom, R
    <2> QED
      BY <2>1, <2>12 DEF c
  <1> QED
    BY <1>5, <1>6

\* The context is taken from the candidates in their order, within the bounds.
LEMMA ContextOf ==
    ASSUME NEW candidates, IsRanking(candidates)
    PROVE LET list == AnswerContext(candidates) IN
          /\ IsRanking(list)
          /\ Len(list) <= Len(candidates) /\ Len(list) <= MaxContextChunks
          /\ TokensOf(list) <= MaxContextTokens /\ CharactersOf(list) <= MaxContextChars
          /\ \A a \in DOMAIN list : list[a] \in ToSet(candidates)
          /\ \A a, b \in DOMAIN list :
                a < b => RankIn(candidates, list[a]) < RankIn(candidates, list[b])
  <1> DEFINE n == Len(candidates)
  <1>1. candidates \in Seq(Chunks) /\ n \in Nat
    BY DEF IsRanking
  <1>2. PICK built :
            /\ \A i \in 0 .. n : built[i] \in ContextType
            /\ built[0] = NoSources
            /\ \A i \in 1 .. n : built[i] = AddSource(built[i - 1], candidates[i])
            /\ AnswerContext(candidates) = built[n].sources
    BY <1>1, ContextDefined
  <1> DEFINE P == {i \in 0 .. n : BuiltFrom(candidates, i, built[i])}
  <1>3. 0 \in P
    <2>1. built[0].sources = <<>> /\ built[0].tokens = 0 /\ built[0].characters = 0
      BY <1>2 DEF NoSources
    <2>2. /\ IsRanking(<<>>) /\ Len(<<>>) = 0 /\ DOMAIN <<>> = {}
          /\ TokensOf(<<>>) = 0 /\ CharactersOf(<<>>) = 0
      BY EmptyRanking, BlocksAreWeighed
    <2>3. 0 <= MaxContextChunks /\ 0 <= MaxContextTokens /\ 0 <= MaxContextChars
      BY RetrievalAssumption
    <2>4. BuiltFrom(candidates, 0, built[0])
      BY <2>1, <2>2, <2>3 DEF BuiltFrom
    <2> HIDE DEF n
    <2> QED
      BY <1>1, <2>4
  <1>4. ASSUME NEW i \in 1 .. n, i - 1 \in P PROVE i \in P
    <2>1. built[i - 1] \in ContextType /\ BuiltFrom(candidates, i - 1, built[i - 1])
      BY <1>2, <1>4
    <2>2. BuiltFrom(candidates, i, AddSource(built[i - 1], candidates[i]))
      BY <2>1, AddKeepsBuilt
    <2>3. i \in 0 .. n /\ built[i] = AddSource(built[i - 1], candidates[i])
      <3> HIDE DEF n
      <3> QED
        BY <1>1, <1>2
    <2> QED
      BY <2>2, <2>3
  <1>5. 0 .. n \subseteq P
    <2> HIDE DEF n, P
    <2> QED
      BY <1>1, <1>3, <1>4, ListInduction
  <1>6. BuiltFrom(candidates, n, built[n])
    <2>1. n \in 0 .. n
      <3> HIDE DEF n
      <3> QED
        BY <1>1
    <2> QED
      BY <1>5, <2>1
  <1> QED
    BY <1>2, <1>6 DEF BuiltFrom

\* The context of a pool, in whatever order the reranker left it.
LEMMA SelectedContextIsSound ==
    ASSUME NEW ranked, IsRanking(ranked), mentions \in Seq(SUBSET Chunks),
           mentions' = mentions,
           ranking' = AnswerContext(SelectAnswerCandidates(ranked, mentions, comparison, TopK))
    PROVE IsRanking(ranking') /\ ContextIsSound'
  <1> DEFINE candidates == SelectAnswerCandidates(ranked, mentions, comparison, TopK)
             list == AnswerContext(candidates)
             named == UNION ToSet(mentions)
  <1>1. TopK \in Nat
    BY EvidenceAssumption
  <1>2. /\ IsRanking(candidates) /\ Len(candidates) <= TopK
        /\ \A i, j \in DOMAIN candidates :
                candidates[j] \in named /\ i < j =>
                    candidates[i] \in Named(ToSet(ranked), mentions)
    BY <1>1, SelectedOf
  <1>3. ranking' = list
    OBVIOUS
  <1> HIDE DEF candidates
  <1>4. /\ IsRanking(list)
        /\ Len(list) <= Len(candidates) /\ Len(list) <= MaxContextChunks
        /\ TokensOf(list) <= MaxContextTokens /\ CharactersOf(list) <= MaxContextChars
        /\ \A a \in DOMAIN list : list[a] \in ToSet(candidates)
        /\ \A a, b \in DOMAIN list :
                a < b => RankIn(candidates, list[a]) < RankIn(candidates, list[b])
    BY <1>2, ContextOf
  <1> HIDE DEF list
  <1>5. Len(list) <= Min({TopK, MaxContextChunks})
    <2>1. Len(list) \in Nat /\ Len(candidates) \in Nat
      BY <1>2, <1>4, RankOf
    <2>2. TopK \in Int /\ MaxContextChunks \in Int
      BY <1>1, RetrievalAssumption
    <2>3. Len(list) <= TopK
      BY <1>1, <1>2, <1>4, <2>1
    <2>4. Min({TopK, MaxContextChunks}) = IF TopK <= MaxContextChunks THEN TopK ELSE MaxContextChunks
      BY <2>2, MinOfTwo
    <2> QED
      BY <1>4, <2>3, <2>4
  <1>6. ASSUME NEW i \in DOMAIN list, NEW j \in DOMAIN list, list[j] \in named, i < j
        PROVE \E c \in named : UnitOf[c] = UnitOf[list[i]]
    <2>1. RankIn(candidates, list[i]) < RankIn(candidates, list[j])
      BY <1>4, <1>6
    <2>2. /\ RankIn(candidates, list[i]) \in DOMAIN candidates
          /\ RankIn(candidates, list[j]) \in DOMAIN candidates
          /\ candidates[RankIn(candidates, list[i])] = list[i]
          /\ candidates[RankIn(candidates, list[j])] = list[j]
      BY <1>2, <1>4, RankOf
    <2>3. list[i] \in Named(ToSet(ranked), mentions)
      BY <1>2, <1>6, <2>1, <2>2
    <2>4. PICK k \in DOMAIN mentions : \E d \in mentions[k] : UnitOf[d] = UnitOf[list[i]]
      BY <2>3 DEF Named, NamedAt
    <2>5. mentions[k] \in ToSet(mentions)
      BY DEF ToSet
    <2> QED
      BY <2>4, <2>5
  <1>7. UNION ToSet(mentions') = named
    OBVIOUS
  <1> QED
    BY <1>3, <1>4, <1>5, <1>6, <1>7 DEF ContextIsSound, IsRanking

-----------------------------------------------------------------------------
(* One request keeps its evidence sound.                                    *)

\* What a query returns: rows in any order, each once, and no more than asked.
LEMMA RowsOf ==
    ASSUME NEW S \in SUBSET Chunks, NEW found \in SetToSeqs(S), NEW n \in Nat
    PROVE IsRanking(found) /\ IsRanking(Top(found, n))
  <1>1. IsFiniteSet(S) /\ Cardinality(S) \in Nat
    BY FiniteRankings
  <1>2. /\ found \in [1 .. Cardinality(S) -> S]
        /\ \A i, j \in 1 .. Cardinality(S) : i # j => found[i] # found[j]
    BY DEF SetToSeqs
  <1>3. found \in Seq(S)
    BY <1>1, <1>2
  <1>4. found \in Seq(Chunks)
    BY <1>3, SeqMonotonic
  <1>5. IsRanking(found)
    BY <1>2, <1>4 DEF IsRanking, Distinct, IsInjective
  <1> QED
    BY <1>5, TopOf

LEMMA DepthType == Depth \in Nat /\ TopK \in Nat
  <1>1. /\ TopK \in Nat /\ RerankerCandidateLimit \in Nat
        /\ CandidateMultiplier \in Nat /\ MaxCandidatesPerBranch \in Nat
    BY EvidenceAssumption
  <1>2. PoolSize \in Nat
    BY <1>1 DEF PoolSize
  <1>3. PoolSize * CandidateMultiplier \in Nat
    BY <1>1, <1>2
  <1>4. CandidateDepth(PoolSize) \in Nat
    BY <1>1, <1>3, MinOfTwo DEF CandidateDepth
  <1> QED
    BY <1>1, <1>4 DEF Depth

\* Stages in which nothing has to be sound yet, or any more.
LEMMA LooseStage ==
    ASSUME stage' \notin {"pooled", "evidence", "generate", "validate"}
    PROVE EvidenceIsSound'
  BY DEF EvidenceIsSound

ListsOk ==
    /\ lists \in [semantic : Seq(Chunks), keyword : Seq(Chunks), exact : Seq(Chunks)]
    /\ IsRanking(lists.semantic) /\ IsRanking(lists.keyword) /\ IsRanking(lists.exact)

LEMMA NoListsOk == lists' = NoLists => ListsOk'
  <1>1. PICK none \in Seq(Chunks) : none = <<>>
    BY EmptySeq
  <1>2. NoLists = [semantic |-> none, keyword |-> none, exact |-> none]
    BY <1>1 DEF NoLists
  <1>3. IsRanking(none)
    BY <1>1, EmptyRanking
  <1> QED
    BY <1>2, <1>3 DEF ListsOk

LEMMA FinishKeeps ==
    ASSUME EvidenceInv, UNCHANGED mentions, NEW list, IsRanking(list), NEW kind, Finish(list, kind)
    PROVE EvidenceInv'
  <1>1. stage' = "done" /\ ranking' = list /\ lists' = NoLists
    BY DEF Finish
  <1>2. ListsOk' /\ EvidenceIsSound'
    BY <1>1, NoListsOk, LooseStage
  <1> QED
    BY <1>1, <1>2 DEF EvidenceInv, ListsOk

LEMMA SearchStep ==
    ASSUME EvidenceInv,
           BeginRequest \/ EmbedQuery \/ ScanSemantic \/ CountScoped \/ ScanExactly \/ SearchKeyword
    PROVE EvidenceInv'
  <1>1. Searchable \in SUBSET Chunks
    BY DEF Searchable
  <1>2. /\ mentions \in Seq(SUBSET Chunks)
        /\ lists \in [semantic : Seq(Chunks), keyword : Seq(Chunks), exact : Seq(Chunks)]
        /\ IsRanking(lists.semantic) /\ IsRanking(lists.keyword) /\ IsRanking(lists.exact)
        /\ IsRanking(ranking)
    BY DEF EvidenceInv
  <1>3. ASSUME stage' \in {"embed", "scan", "count", "exact", "keyword", "identify"},
               mentions' \in Seq(SUBSET Chunks), ListsOk', UNCHANGED ranking
        PROVE EvidenceInv'
    BY <1>2, <1>3, LooseStage DEF EvidenceInv, ListsOk
  <1>4. UNCHANGED lists => ListsOk'
    BY <1>2 DEF ListsOk
  <1>5. CASE BeginRequest
    <2>1. PICK q \in Questions : mentions' = q
      BY <1>5 DEF BeginRequest
    <2>2. mentions' \in Seq(SUBSET Chunks)
      BY <2>1, EvidenceAssumption
    <2>3. stage' \in {"keyword", "embed"} /\ UNCHANGED <<lists, ranking>>
      BY <1>5 DEF BeginRequest
    <2> QED
      BY <1>3, <1>4, <2>2, <2>3
  <1>6. CASE EmbedQuery
    <2>1. UNCHANGED mentions
      BY <1>6 DEF EmbedQuery, request
    <2>2. CASE Unchanged("scan") /\ UNCHANGED lists
      BY <1>2, <1>3, <1>4, <2>1, <2>2 DEF Unchanged
    <2>3. CASE Finish(<<>>, "unavailable")
      BY <2>1, <2>3, EmptyRanking, FinishKeeps
    <2> QED
      BY <1>6, <2>2, <2>3 DEF EmbedQuery
  <1>7. CASE ScanSemantic
    <2>1. PICK S \in SUBSET Searchable : \E found \in SetToSeqs(S) :
                lists' = [lists EXCEPT !.semantic = Top(found, Depth)]
      BY <1>7 DEF ScanSemantic
    <2>2. PICK found \in SetToSeqs(S) : lists' = [lists EXCEPT !.semantic = Top(found, Depth)]
      BY <2>1
    <2>3. PICK top : top = Top(found, Depth)
      OBVIOUS
    <2>4. IsRanking(top)
      BY <1>1, <2>3, DepthType, RowsOf
    <2>5. ListsOk'
      BY <1>2, <2>2, <2>3, <2>4 DEF ListsOk, IsRanking
    <2> QED
      BY <1>2, <1>3, <1>7, <2>5 DEF ScanSemantic, Unchanged, request
  <1>8. CASE CountScoped
    <2>1. UNCHANGED mentions
      BY <1>8 DEF CountScoped, request
    <2>2. \/ Unchanged("exact") /\ UNCHANGED lists
          \/ Unchanged("keyword") /\ UNCHANGED lists
          \/ Finish(lists.semantic, "results")
      BY <1>8 DEF CountScoped
    <2>3. CASE Finish(lists.semantic, "results")
      BY <1>2, <2>1, <2>3, FinishKeeps
    <2>4. CASE (Unchanged("exact") \/ Unchanged("keyword")) /\ UNCHANGED lists
      BY <1>2, <1>3, <1>4, <2>1, <2>4 DEF Unchanged
    <2> QED
      BY <2>2, <2>3, <2>4
  <1>9. CASE ScanExactly
    <2>1. UNCHANGED mentions
      BY <1>9 DEF ScanExactly, request
    <2>2. PICK found \in SetToSeqs(Searchable) :
            IF mode = "semantic" THEN Finish(Top(found, Depth), "results")
            ELSE lists' = [lists EXCEPT !.semantic = Top(found, Depth)] /\ Unchanged("keyword")
      BY <1>9 DEF ScanExactly
    <2>3. PICK top : top = Top(found, Depth)
      OBVIOUS
    <2>4. IsRanking(top)
      BY <1>1, <2>3, DepthType, RowsOf
    <2>5. CASE Finish(top, "results")
      BY <2>1, <2>4, <2>5, FinishKeeps
    <2>6. CASE lists' = [lists EXCEPT !.semantic = top] /\ Unchanged("keyword")
      <3>1. ListsOk'
        BY <1>2, <2>4, <2>6 DEF ListsOk, IsRanking
      <3> QED
        BY <1>2, <1>3, <2>1, <2>6, <3>1 DEF Unchanged
    <2> QED
      BY <2>2, <2>3, <2>5, <2>6
  <1>10. CASE SearchKeyword
    <2>1. UNCHANGED mentions
      BY <1>10 DEF SearchKeyword, request
    <2>2. PICK S \in SUBSET Searchable : \E found \in SetToSeqs(S) :
            LET keyword == Top(found, Depth)
            IN  CASE mode = "keyword" -> Finish(keyword, "results")
                  [] mode = "hybrid" ->
                        Finish(ReciprocalRankFusion(lists.semantic, keyword, TopK), "results")
                  [] OTHER -> /\ lists' = [lists EXCEPT !.keyword = keyword]
                              /\ Unchanged("identify")
      BY <1>10 DEF SearchKeyword
    <2>3. PICK found \in SetToSeqs(S) :
            \/ Finish(Top(found, Depth), "results")
            \/ Finish(ReciprocalRankFusion(lists.semantic, Top(found, Depth), TopK), "results")
            \/ /\ lists' = [lists EXCEPT !.keyword = Top(found, Depth)]
               /\ Unchanged("identify")
      BY <2>2
    <2>4. PICK top, semantic : top = Top(found, Depth) /\ semantic = lists.semantic
      OBVIOUS
    <2>5. IsRanking(top) /\ IsRanking(semantic)
      BY <1>1, <1>2, <2>4, DepthType, RowsOf
    <2>6. CASE Finish(top, "results")
      BY <2>1, <2>5, <2>6, FinishKeeps
    <2>7. CASE Finish(ReciprocalRankFusion(semantic, top, TopK), "results")
      <3>1. IsRanking(ReciprocalRankFusion(semantic, top, TopK))
        BY <2>5, DepthType, FusedOf
      <3> QED
        BY <2>1, <2>7, <3>1, FinishKeeps
    <2>8. CASE lists' = [lists EXCEPT !.keyword = top] /\ Unchanged("identify")
      <3>1. ListsOk'
        BY <1>2, <2>5, <2>8 DEF ListsOk, IsRanking
      <3> QED
        BY <1>2, <1>3, <2>1, <2>8, <3>1 DEF Unchanged
    <2> QED
      BY <2>3, <2>4, <2>6, <2>7, <2>8
  <1> QED
    BY <1>5, <1>6, <1>7, <1>8, <1>9, <1>10

LEMMA PoolStep ==
    ASSUME EvidenceInv, SearchIdentifiers
    PROVE EvidenceInv'
  <1>1. /\ mentions \in Seq(SUBSET Chunks)
        /\ lists \in [semantic : Seq(Chunks), keyword : Seq(Chunks), exact : Seq(Chunks)]
        /\ IsRanking(lists.semantic) /\ IsRanking(lists.keyword)
    BY DEF EvidenceInv
  <1>2. PICK units, semantic, keyword, exact :
            /\ semantic = lists.semantic /\ keyword = lists.keyword
            /\ exact = IdentifierCandidates(units)
            /\ lists' = [lists EXCEPT !.exact = exact]
            /\ ranking' = InjectIdentifierCandidates(
                    ReciprocalRankFusion(semantic, keyword, RerankerCandidateLimit),
                    exact, RerankerCandidateLimit)
    BY DEF SearchIdentifiers
  <1>3. UNCHANGED mentions /\ stage' = "pooled"
    BY DEF SearchIdentifiers, request
  <1>4. IsRanking(exact)
    <2> DEFINE members == {c \in Searchable : UnitOf[c] \in units}
               key == [c \in members |-> FileOrder[c]]
               list == InOrder(members, By(members, key))
    <2>1. members \in SUBSET Chunks
      BY DEF Searchable
    <2>2. exact = OrderedByIdentifier(Top(list, MaxIdentifierCandidates), mentions)
      BY <1>2 DEF IdentifierCandidates
    <2> HIDE DEF members
    <2>3. IsFiniteSet(members)
      BY <2>1, FiniteRankings
    <2>4. key \in [members -> Int] /\ \A c, d \in members : key[c] = key[d] => c = d
      <3>1. /\ \A c \in Chunks : FileOrder[c] \in Int
            /\ \A c, d \in Chunks : FileOrder[c] = FileOrder[d] => c = d
        BY EvidenceAssumption
      <3> QED
        BY <2>1, <3>1
    <2> HIDE DEF key
    <2>5. IsStrictOrder(members, By(members, key))
      BY <2>4, ByIsStrict
    <2>6. list \in Seq(members) /\ IsInjective(list)
      BY <2>3, <2>5, InOrderLists
    <2> HIDE DEF list
    <2>7. list \in Seq(Chunks)
      BY <2>1, <2>6, SeqMonotonic
    <2>8. IsRanking(list)
      BY <2>6, <2>7 DEF IsRanking, Distinct
    <2>9. MaxIdentifierCandidates \in Nat
      BY EvidenceAssumption
    <2>10. IsRanking(Top(list, MaxIdentifierCandidates))
      BY <2>8, <2>9, TopOf
    <2>11. PICK names \in Seq(SUBSET Chunks) : names = mentions
      BY <1>1
    <2> QED
      BY <2>2, <2>10, <2>11, ExactOf
  <1>5. IsRanking(semantic) /\ IsRanking(keyword)
    BY <1>1, <1>2
  <1>6. lists' = [semantic |-> semantic, keyword |-> keyword, exact |-> exact]
    BY <1>1, <1>2
  <1>7. IsRanking(ranking') /\ PoolIsSound'
    BY <1>2, <1>4, <1>5, <1>6, InjectedPoolIsSound
  <1>8. EvidenceIsSound'
    BY <1>3, <1>7 DEF EvidenceIsSound
  <1>9. semantic \in Seq(Chunks) /\ keyword \in Seq(Chunks) /\ exact \in Seq(Chunks)
    BY <1>4, <1>5 DEF IsRanking
  <1> QED
    BY <1>1, <1>3, <1>4, <1>5, <1>6, <1>7, <1>8, <1>9 DEF EvidenceInv

LEMMA RerankStep ==
    ASSUME EvidenceInv, Rerank
    PROVE EvidenceInv'
  <1>1. mentions \in Seq(SUBSET Chunks) /\ IsRanking(ranking)
    BY DEF EvidenceInv
  <1>2. UNCHANGED <<mentions, comparison>>
    BY DEF Rerank, request
  <1>3. PICK ranked \in {ranking} \cup
            {Reranked(ranking, score) : score \in [ToSet(ranking) -> Scores]} :
        IF mode = "reranked" THEN Finish(Top(ranked, TopK), "results")
        ELSE /\ ranking' = AnswerContext(
                    SelectAnswerCandidates(ranked, mentions, comparison, TopK))
             /\ stage' = "evidence" /\ lists' = NoLists
    BY DEF Rerank
  <1>4. IsRanking(ranked)
    BY <1>1, <1>3, RerankedOf
  <1>5. CASE Finish(Top(ranked, TopK), "results")
    <2>1. IsRanking(Top(ranked, TopK))
      BY <1>4, DepthType, TopOf
    <2> QED
      BY <1>2, <1>5, <2>1, FinishKeeps
  <1>6. CASE /\ ranking' = AnswerContext(
                    SelectAnswerCandidates(ranked, mentions, comparison, TopK))
             /\ stage' = "evidence" /\ lists' = NoLists
    <2>1. IsRanking(ranking') /\ ContextIsSound'
      BY <1>1, <1>2, <1>4, <1>6, SelectedContextIsSound
    <2>2. ListsOk'
      BY <1>6, NoListsOk
    <2>3. EvidenceIsSound'
      BY <1>6, <2>1 DEF EvidenceIsSound
    <2> QED
      BY <1>1, <1>2, <2>1, <2>2, <2>3 DEF EvidenceInv, ListsOk
  <1> QED
    BY <1>3, <1>5, <1>6

LEMMA AnswerStep ==
    ASSUME EvidenceInv, JudgeEvidence \/ Generate \/ Validate
    PROVE EvidenceInv'
  <1>1. UNCHANGED mentions
    BY DEF JudgeEvidence, Generate, Validate, request
  <1>2. stage \in {"evidence", "generate", "validate"}
    BY DEF JudgeEvidence, Generate, Validate
  <1>3. IsRanking(ranking) /\ ContextIsSound
    BY <1>2 DEF EvidenceInv, EvidenceIsSound
  <1>4. ASSUME stage' \in {"generate", "validate"}, UNCHANGED <<lists, ranking>> PROVE EvidenceInv'
    <2>1. ContextIsSound'
      BY <1>1, <1>3, <1>4 DEF ContextIsSound
    <2>2. EvidenceIsSound'
      BY <1>4, <2>1 DEF EvidenceIsSound
    <2> QED
      BY <1>1, <1>4, <2>2 DEF EvidenceInv
  <1>5. \/ stage' \in {"generate", "validate"} /\ UNCHANGED <<lists, ranking>>
        \/ \E list \in {ranking, <<>>} : \E kind : Finish(list, kind)
    BY DEF JudgeEvidence, Generate, Validate, Unchanged
  <1>6. ASSUME NEW list \in {ranking, <<>>}, NEW kind, Finish(list, kind) PROVE EvidenceInv'
    <2>1. IsRanking(list)
      BY <1>3, EmptyRanking
    <2> QED
      BY <1>1, <1>6, <2>1, FinishKeeps
  <1> QED
    BY <1>4, <1>5, <1>6

\* What reaches the reranker and the answer generator is sound, whatever the
\* queries found, whichever scores the reranker gave or failed to give, and
\* whatever was published or withdrawn meanwhile.
THEOREM EvidenceAlwaysSound == Spec => []EvidenceIsSound
  <1>1. Init => EvidenceInv
    <2> SUFFICES ASSUME Init PROVE EvidenceInv
      OBVIOUS
    <2>1. stage = "idle" /\ mentions = <<>> /\ lists = NoLists /\ ranking = <<>>
      BY DEF Init, EvidenceInit
    <2>2. PICK none \in Seq(Chunks) : none = <<>>
      BY EmptySeq
    <2>3. <<>> \in Seq(SUBSET Chunks)
      BY EmptySeq
    <2>4. IsRanking(none)
      BY <2>2, EmptyRanking
    <2>5. lists = [semantic |-> none, keyword |-> none, exact |-> none]
      BY <2>1, <2>2 DEF NoLists
    <2>6. EvidenceIsSound
      BY <2>1 DEF EvidenceIsSound
    <2> QED
      BY <2>1, <2>2, <2>3, <2>4, <2>5, <2>6 DEF EvidenceInv
  <1>2. EvidenceInv /\ [Next]_vars => EvidenceInv'
    <2> SUFFICES ASSUME EvidenceInv, [Next]_vars PROVE EvidenceInv'
      OBVIOUS
    <2>1. ASSUME UNCHANGED <<stage, mentions, lists, ranking>> PROVE EvidenceInv'
      BY <2>1 DEF EvidenceInv, EvidenceIsSound, PoolIsSound, ContextIsSound
    <2>2. CASE EvidenceNext
      <3>1. CASE \E d \in Documents : Publish(d) \/ Withdraw(d)
        BY <2>1, <3>1 DEF Publish, Withdraw, request
      <3> QED
        BY <2>2, <3>1, SearchStep, PoolStep, RerankStep, AnswerStep DEF EvidenceNext
    <2>3. CASE UNCHANGED evidenceVars
      BY <2>1, <2>3 DEF evidenceVars
    <2> QED
      BY <2>2, <2>3 DEF Next, vars
  <1>3. EvidenceInv => EvidenceIsSound
    BY DEF EvidenceInv
  <1> QED
    BY <1>1, <1>2, <1>3, PTL DEF Spec

-----------------------------------------------------------------------------
(* The editions an answer cites.                                            *)

\* Only a request that is done has answered, and then for one edition of each
\* document.
EditionInv ==
    /\ outcome \in {"answered", "conflicting"} => stage = "done"
    /\ OneEditionPerAnswer

\* A step of the request or of the environment keeps it: Validate reads the
\* active pointers of everything it accepts in one snapshot.
LEMMA EvidenceKeepsEdition ==
    ASSUME EditionInv, EvidenceNext
    PROVE EditionInv'
  <1>1. ASSUME outcome' \notin {"answered", "conflicting"} PROVE EditionInv'
    BY <1>1 DEF EditionInv, OneEditionPerAnswer
  <1>2. ASSUME stage # "done", UNCHANGED outcome PROVE EditionInv'
    BY <1>2, <1>1 DEF EditionInv
  <1>3. CASE BeginRequest
    BY <1>2, <1>3 DEF BeginRequest
  <1>4. CASE EmbedQuery
    BY <1>1, <1>2, <1>4 DEF EmbedQuery, Unchanged, Finish
  <1>5. CASE ScanSemantic
    BY <1>2, <1>5 DEF ScanSemantic, Unchanged
  <1>6. CASE CountScoped
    BY <1>1, <1>2, <1>6 DEF CountScoped, Unchanged, Finish
  <1>7. CASE ScanExactly
    BY <1>1, <1>2, <1>7 DEF ScanExactly, Unchanged, Finish
  <1>8. CASE SearchKeyword
    BY <1>1, <1>2, <1>8 DEF SearchKeyword, Unchanged, Finish
  <1>9. CASE SearchIdentifiers
    BY <1>2, <1>9 DEF SearchIdentifiers
  <1>10. CASE Rerank
    BY <1>1, <1>2, <1>10 DEF Rerank, Finish
  <1>11. CASE JudgeEvidence
    BY <1>1, <1>2, <1>11 DEF JudgeEvidence, Unchanged, Finish
  <1>12. CASE Generate
    BY <1>1, <1>2, <1>12 DEF Generate, Unchanged, Finish
  <1>13. CASE Validate
    <2>1. CASE /\ Valid(cited)
               /\ \E kind \in {"answered", "conflicting", "insufficient"} :
                     WellFormed(kind, cited) /\ Finish(ranking, kind)
               /\ UNCHANGED cited
      <3>1. stage' = "done" /\ ranking' = ranking /\ cited' = cited
        BY <2>1 DEF Finish
      <3>2. cited \subseteq ToSet(ranking)
        BY <2>1 DEF Valid
      <3>3. \A c \in cited : EditionOf[c] = served[DocumentOf[c]]
        BY <2>1 DEF Valid, Searchable
      <3>4. \A c, d \in cited : DocumentOf[c] = DocumentOf[d] => EditionOf[c] = EditionOf[d]
        BY <3>3
      <3> QED
        BY <3>1, <3>2, <3>4 DEF EditionInv, OneEditionPerAnswer
    <2>2. CASE IF LastAttempt THEN Finish(<<>>, "insufficient") /\ cited' = {}
               ELSE Unchanged("generate") /\ UNCHANGED <<lists, cited>>
      BY <1>1, <1>2, <1>13, <2>2 DEF Validate, Unchanged, Finish
    <2> QED
      BY <1>13, <2>1, <2>2 DEF Validate
  <1>14. CASE \E d \in Documents : Publish(d) \/ Withdraw(d)
    <2>1. UNCHANGED <<stage, ranking, cited, outcome>>
      BY <1>14 DEF Publish, Withdraw
    <2> QED
      BY <2>1 DEF EditionInv, OneEditionPerAnswer
  <1> QED
    BY <1>3, <1>4, <1>5, <1>6, <1>7, <1>8, <1>9, <1>10, <1>11, <1>12, <1>13, <1>14
       DEF EvidenceNext

\* An answer, whichever publications and deletions it raced with, cites chunks
\* of its context only, and never two editions of one document.
THEOREM AnswersCiteOneEdition == Spec => []OneEditionPerAnswer
  <1>1. Init => EditionInv
    BY DEF Init, EvidenceInit, EditionInv, OneEditionPerAnswer
  <1>2. EditionInv /\ [Next]_vars => EditionInv'
    <2> SUFFICES ASSUME EditionInv, [Next]_vars PROVE EditionInv'
      OBVIOUS
    <2>1. CASE EvidenceNext
      BY <2>1, EvidenceKeepsEdition
    <2>2. CASE UNCHANGED evidenceVars
      BY <2>2 DEF evidenceVars, EditionInv, OneEditionPerAnswer
    <2> QED
      BY <2>1, <2>2 DEF Next, vars
  <1>3. EditionInv => OneEditionPerAnswer
    BY DEF EditionInv
  <1> QED
    BY <1>1, <1>2, <1>3, PTL DEF Spec
=================================================================================
