------------------------------ MODULE OrderingProofs ------------------------------
(***************************************************************************)
(* Lemmas on the data the models are built from: induction over sets of    *)
(* natural numbers, least and greatest members, the order of InOrder and   *)
(* functions that are defined along a list.                                *)
(***************************************************************************)
EXTENDS Ordering, SequencesExt, FiniteSetTheorems, SequenceTheorems, WellFoundedInduction, TLAPS

-----------------------------------------------------------------------------
(* Sets of numbers.                                                         *)

\* A set of natural numbers that is not empty has a least member.
LEMMA LeastNatural ==
    ASSUME NEW S \in SUBSET Nat, S # {}
    PROVE \E n \in S : \A m \in S : n <= m
  <1> DEFINE Less == {p \in Nat \X Nat : p[1] < p[2]}
  <1>1. IsWellFoundedOn(Less, Nat)
    BY NatLessThanWellFounded DEF OpToRel
  <1>2. PICK n \in S : \A m \in S : <<m, n>> \notin Less
    BY <1>1, WFMin
  <1>3. ASSUME NEW m \in S PROVE n <= m
    <2>1. m \in Nat /\ n \in Nat /\ <<m, n>> \notin Less
      BY <1>2
    <2>2. ~(m < n)
      BY <2>1
    <2> QED
      BY <2>1, <2>2
  <1> QED
    BY <1>3

\* A set that holds 0 and the successor of every number in it holds them all.
LEMMA SetInduction ==
    ASSUME NEW S, 0 \in S, \A n \in Nat : n \in S => n + 1 \in S
    PROVE Nat \subseteq S
  <1> DEFINE Rest == Nat \ S
  <1>1. SUFFICES ASSUME Rest # {} PROVE FALSE
    OBVIOUS
  <1>2. PICK n \in Rest : \A m \in Rest : n <= m
    BY <1>1, LeastNatural
  <1>3. n # 0 /\ n - 1 \in Nat /\ n - 1 \notin Rest
    BY <1>2
  <1>4. (n - 1) + 1 \in S
    BY <1>3
  <1> QED
    BY <1>4

\* Induction along the positions of a list.
LEMMA ListInduction ==
    ASSUME NEW n \in Nat, NEW S, 0 \in S, \A i \in 1 .. n : i - 1 \in S => i \in S
    PROVE 0 .. n \subseteq S
  <1> DEFINE T == {i \in Nat : i <= n => i \in S}
  <1>1. 0 \in T
    OBVIOUS
  <1>2. ASSUME NEW i \in Nat, i \in T PROVE i + 1 \in T
    <2>1. CASE i + 1 <= n
      <3>1. i + 1 \in 1 .. n /\ (i + 1) - 1 \in S
        BY <1>2, <2>1
      <3> QED
        BY <3>1
    <2> QED
      BY <2>1
  <1>3. Nat \subseteq T
    BY <1>1, <1>2, SetInduction
  <1> QED
    BY <1>3

\* Min of a set of integers that is bounded from below.
LEMMA MinBounded ==
    ASSUME NEW S \in SUBSET Int, S # {}, NEW b \in Int, \A s \in S : b <= s
    PROVE /\ Min(S) \in S
          /\ \A s \in S : Min(S) <= s
  <1> DEFINE D == {s - b : s \in S}
  <1>0. \A s \in S : s \in Int /\ s - b \in Nat
    OBVIOUS
  <1>1. D \in SUBSET Nat /\ D # {}
    BY <1>0
  <1>2. PICK n \in D : \A m \in D : n <= m
    BY <1>1, LeastNatural
  <1>3. PICK x \in S : n = x - b
    OBVIOUS
  <1>4. \A s \in S : x <= s
    BY <1>0, <1>2, <1>3
  <1> QED
    BY <1>0, <1>4 DEF Min

\* Max of a set of integers that is bounded from above.
LEMMA MaxBounded ==
    ASSUME NEW S \in SUBSET Int, S # {}, NEW b \in Int, \A s \in S : s <= b
    PROVE /\ Max(S) \in S
          /\ \A s \in S : s <= Max(S)
  <1> DEFINE D == {b - s : s \in S}
  <1>0. \A s \in S : s \in Int /\ b - s \in Nat
    OBVIOUS
  <1>1. D \in SUBSET Nat /\ D # {}
    BY <1>0
  <1>2. PICK n \in D : \A m \in D : n <= m
    BY <1>1, LeastNatural
  <1>3. PICK x \in S : n = b - x
    OBVIOUS
  <1>4. \A s \in S : s <= x
    BY <1>0, <1>2, <1>3
  <1> QED
    BY <1>0, <1>4 DEF Max

\* Of two integers.
LEMMA MinOfTwo ==
    ASSUME NEW a \in Int, NEW b \in Int
    PROVE Min({a, b}) = IF a <= b THEN a ELSE b
  BY DEF Min

LEMMA MaxOfTwo ==
    ASSUME NEW a \in Int, NEW b \in Int
    PROVE Max({a, b}) = IF a <= b THEN b ELSE a
  BY DEF Max

-----------------------------------------------------------------------------
(* Orders.                                                                  *)

\* The number of members before another one grows along the order.
LEMMA BeforeGrows ==
    ASSUME NEW S, IsFiniteSet(S), NEW order, IsStrictOrder(S, order),
           NEW a \in S, NEW b \in S, <<a, b>> \in order
    PROVE Cardinality(Before(S, order, a)) < Cardinality(Before(S, order, b))
  <1> DEFINE A == Before(S, order, a)
             B == Before(S, order, b)
  <1>1. A \subseteq B /\ a \in B /\ a \notin A /\ B \subseteq S
    BY DEF Before, IsStrictOrder
  <1>2. IsFiniteSet(B)
    BY <1>1, FS_Subset
  <1>3. IsFiniteSet(A) /\ Cardinality(A) <= Cardinality(B) /\ Cardinality(A) # Cardinality(B)
    BY <1>1, <1>2, FS_Subset
  <1>4. Cardinality(A) \in Nat /\ Cardinality(B) \in Nat
    BY <1>2, <1>3, FS_CardinalityType
  <1> HIDE DEF A, B
  <1>5. Cardinality(A) < Cardinality(B)
    BY <1>3, <1>4
  <1> QED
    BY <1>5 DEF A, B

\* Every position is taken by exactly one member.
LEMMA PositionsTaken ==
    ASSUME NEW S, IsFiniteSet(S), NEW order, IsStrictOrder(S, order)
    PROVE LET n == Cardinality(S) IN
          /\ n \in Nat
          /\ \A a \in S : Cardinality(Before(S, order, a)) \in 0 .. n - 1
          /\ \A i \in 1 .. n : \E a \in S : Cardinality(Before(S, order, a)) = i - 1
  <1> DEFINE n == Cardinality(S)
             R == 0 .. n - 1
             rank == [a \in S |-> Cardinality(Before(S, order, a))]
  <1>1. n \in Nat
    BY FS_CardinalityType
  <1>2. ASSUME NEW a \in S PROVE Cardinality(Before(S, order, a)) \in R
    <2> DEFINE A == Before(S, order, a)
    <2>1. A \subseteq S /\ A # S
      BY DEF Before, IsStrictOrder
    <2>2. IsFiniteSet(A) /\ Cardinality(A) <= n /\ Cardinality(A) # n
      BY <2>1, FS_Subset
    <2>3. Cardinality(A) \in Nat
      BY <2>2, FS_CardinalityType
    <2> HIDE DEF A, n
    <2>4. Cardinality(A) \in R
      BY <1>1, <2>2, <2>3
    <2> QED
      BY <2>4 DEF A
  <1>3. ASSUME NEW a \in S, NEW b \in S, rank[a] = rank[b] PROVE a = b
    <2>1. CASE <<a, b>> \in order
      <3>1. rank[a] < rank[b]
        BY <2>1, BeforeGrows
      <3>2. rank[a] \in R /\ rank[b] \in R
        BY <1>2
      <3> HIDE DEF rank
      <3> QED
        BY <1>1, <1>3, <3>1, <3>2
    <2>2. CASE <<b, a>> \in order
      <3>1. rank[b] < rank[a]
        BY <2>2, BeforeGrows
      <3>2. rank[a] \in R /\ rank[b] \in R
        BY <1>2
      <3> HIDE DEF rank
      <3> QED
        BY <1>1, <1>3, <3>1, <3>2
    <2> QED
      BY <2>1, <2>2 DEF IsStrictOrder
  <1>4. rank \in Injection(S, R)
    <2>1. rank \in [S -> R]
      BY <1>2
    <2>2. IsInjective(rank)
      BY <1>3, <2>1 DEF IsInjective
    <2> QED
      BY <2>1, <2>2 DEF Injection
  <1>5. IsFiniteSet(R) /\ Cardinality(R) = n
    <2> HIDE DEF n
    <2> QED
      BY <1>1, FS_Interval
  <1>6. rank \in Surjection(S, R)
    BY <1>4, <1>5, FS_Injection
  <1>7. \A i \in 1 .. n : i - 1 \in R
    <2> HIDE DEF n
    <2> QED
      BY <1>1
  <1>8. \A i \in 1 .. n : \E a \in S : rank[a] = i - 1
    BY <1>6, <1>7 DEF Surjection
  <1> QED
    BY <1>1, <1>2, <1>8

\* InOrder lists the members of the set, each once, in the order.
LEMMA InOrderSorts ==
    ASSUME NEW S, IsFiniteSet(S), NEW order, IsStrictOrder(S, order)
    PROVE LET list == InOrder(S, order) IN
          /\ list \in Seq(S)
          /\ Len(list) = Cardinality(S)
          /\ DOMAIN list = 1 .. Cardinality(S)
          /\ \A a \in S : \E i \in DOMAIN list : list[i] = a
          /\ \A i, j \in DOMAIN list : i < j => <<list[i], list[j]>> \in order
  <1> DEFINE n == Cardinality(S)
             rank(a) == Cardinality(Before(S, order, a))
             list == InOrder(S, order)
  <1>1. /\ n \in Nat
        /\ \A a \in S : rank(a) \in 0 .. n - 1
        /\ \A i \in 1 .. n : \E a \in S : rank(a) = i - 1
    BY PositionsTaken
  <1>2. \A a, b \in S : <<a, b>> \in order => rank(a) < rank(b)
    BY BeforeGrows
  <1>3. /\ DOMAIN list = 1 .. n
        /\ \A i \in 1 .. n : list[i] = CHOOSE a \in S : rank(a) = i - 1
        /\ list = [i \in 1 .. n |-> list[i]]
    BY DEF InOrder
  <1> HIDE DEF list, n, rank
  <1>4. \A i \in 1 .. n : list[i] \in S /\ rank(list[i]) = i - 1
    BY <1>1, <1>3
  <1>5. list \in Seq(S) /\ Len(list) = n
    <2>1. list \in [1 .. n -> S]
      BY <1>3, <1>4
    <2> QED
      BY <1>1, <2>1
  <1>6. ASSUME NEW a \in S PROVE \E i \in 1 .. n : list[i] = a
    <2>1. rank(a) + 1 \in 1 .. n
      BY <1>1
    <2>2. PICK i \in 1 .. n : i = rank(a) + 1
      BY <2>1
    <2>3. list[i] \in S /\ rank(list[i]) = rank(a) /\ rank(a) \in Int
      BY <1>1, <1>4, <2>2
    <2>4. ~(rank(list[i]) < rank(a)) /\ ~(rank(a) < rank(list[i]))
      BY <2>3
    <2>5. list[i] = a
      BY <1>2, <2>3, <2>4 DEF IsStrictOrder
    <2> QED
      BY <2>5
  <1>7. ASSUME NEW i \in 1 .. n, NEW j \in 1 .. n, i < j
        PROVE <<list[i], list[j]>> \in order
    <2>1. /\ list[i] \in S /\ list[j] \in S
          /\ rank(list[i]) = i - 1 /\ rank(list[j]) = j - 1
      BY <1>4
    <2>2. ~(<<list[j], list[i]>> \in order) /\ list[i] # list[j]
      BY <1>1, <1>2, <1>7, <2>1
    <2> QED
      BY <2>1, <2>2 DEF IsStrictOrder
  <1> QED
    BY <1>3, <1>5, <1>6, <1>7 DEF list, n

\* An order by a key, with ties left to another order.
LEMMA ByIsStrict ==
    ASSUME NEW S, NEW key \in [S -> Int], \A a, b \in S : key[a] = key[b] => a = b
    PROVE IsStrictOrder(S, By(S, key))
  <1>1. \A a, b \in S : <<a, b>> \in By(S, key) <=> key[a] < key[b]
    BY DEF By
  <1>2. \A a \in S : key[a] \in Int
    OBVIOUS
  <1> QED
    BY <1>1, <1>2 DEF IsStrictOrder

LEMMA ThenByIsStrict ==
    ASSUME NEW S, NEW key \in [S -> Int], NEW order, IsStrictOrder(S, order)
    PROVE IsStrictOrder(S, ThenBy(S, key, order))
  <1> DEFINE T == ThenBy(S, key, order)
  <1>1. \A a, b \in S : <<a, b>> \in T <=>
            \/ key[a] < key[b]
            \/ key[a] = key[b] /\ <<a, b>> \in order
    BY DEF ThenBy
  <1>2. \A a \in S : key[a] \in Int
    OBVIOUS
  <1> HIDE DEF T
  <1>3. ASSUME NEW a \in S, NEW b \in S, NEW c \in S, <<a, b>> \in T, <<b, c>> \in T
        PROVE <<a, c>> \in T
    <2>1. CASE key[a] = key[b] /\ key[b] = key[c]
      BY <1>1, <1>2, <1>3, <2>1 DEF IsStrictOrder
    <2>2. CASE ~(key[a] = key[b] /\ key[b] = key[c])
      <3>1. key[a] < key[c]
        BY <1>1, <1>2, <1>3, <2>2
      <3> QED
        BY <1>1, <3>1
    <2> QED
      BY <2>1, <2>2
  <1>4. ASSUME NEW a \in S, NEW b \in S PROVE a = b \/ <<a, b>> \in T \/ <<b, a>> \in T
    <2>1. key[a] < key[b] \/ key[b] < key[a] \/ key[a] = key[b]
      BY <1>2
    <2> QED
      BY <1>1, <2>1 DEF IsStrictOrder
  <1>5. ASSUME NEW a \in S PROVE <<a, a>> \notin T
    <2>1. ~(key[a] < key[a])
      BY <1>2
    <2> QED
      BY <1>1, <2>1 DEF IsStrictOrder
  <1> QED
    BY <1>3, <1>4, <1>5 DEF IsStrictOrder, T

\* The list is without repetitions and holds exactly the set.
LEMMA InOrderLists ==
    ASSUME NEW S, IsFiniteSet(S), NEW order, IsStrictOrder(S, order)
    PROVE LET list == InOrder(S, order) IN
          /\ list \in Seq(S)
          /\ IsInjective(list)
          /\ ToSet(list) = S
          /\ \A i, j \in DOMAIN list : <<list[i], list[j]>> \in order <=> i < j
  <1> DEFINE list == InOrder(S, order)
  <1>1. /\ list \in Seq(S)
        /\ DOMAIN list = 1 .. Cardinality(S)
        /\ \A a \in S : \E i \in DOMAIN list : list[i] = a
        /\ \A i, j \in DOMAIN list : i < j => <<list[i], list[j]>> \in order
    BY InOrderSorts
  <1>2. Cardinality(S) \in Nat
    BY FS_CardinalityType
  <1> HIDE DEF list
  <1>3. \A i \in DOMAIN list : i \in Nat /\ list[i] \in S
    BY <1>1, <1>2
  <1>4. ASSUME NEW i \in DOMAIN list, NEW j \in DOMAIN list
        PROVE <<list[i], list[j]>> \in order <=> i < j
    <2>1. i < j \/ i = j \/ j < i
      BY <1>3
    <2>2. CASE i < j
      BY <1>1, <2>2
    <2>3. CASE i = j
      BY <1>3, <2>3 DEF IsStrictOrder
    <2>4. CASE j < i
      <3>1. <<list[j], list[i]>> \in order /\ ~(i < j)
        BY <1>1, <1>3, <2>4
      <3> QED
        BY <1>3, <3>1 DEF IsStrictOrder
    <2> QED
      BY <2>1, <2>2, <2>3, <2>4
  <1>5. IsInjective(list)
    <2>1. ASSUME NEW i \in DOMAIN list, NEW j \in DOMAIN list, list[i] = list[j] PROVE i = j
      <3>1. ~(i < j) /\ ~(j < i)
        BY <1>3, <1>4, <2>1 DEF IsStrictOrder
      <3> QED
        BY <1>3, <3>1
    <2> QED
      BY <2>1 DEF IsInjective
  <1>6. ToSet(list) = S
    <2>1. ToSet(list) = {list[i] : i \in DOMAIN list}
      BY DEF ToSet
    <2> QED
      BY <1>1, <1>3, <2>1
  <1> QED
    BY <1>1, <1>4, <1>5, <1>6 DEF list

-----------------------------------------------------------------------------
(* Functions defined along the natural numbers, and along a list.           *)

IsLoop(f, D, base, step) ==
    /\ f \in [Nat -> D]
    /\ f[0] = base
    /\ \A n \in Nat : f[n + 1] = step[n][f[n]]

\* A first value and a step define a function on the natural numbers.
LEMMA LoopDefined ==
    ASSUME NEW D, NEW base \in D, NEW step \in [Nat -> [D -> D]]
    PROVE \E f : IsLoop(f, D, base, step)
  <1> DEFINE Runs(n) == {g \in [0 .. n -> D] :
                           g[0] = base /\ \A i \in 0 .. n - 1 : g[i + 1] = step[i][g[i]]}
             Reached == {n \in Nat : Runs(n) # {}}
  <1>1. 0 \in Reached
    <2>1. [i \in 0 .. 0 |-> base] \in Runs(0)
      OBVIOUS
    <2> QED
      BY <2>1
  <1>2. ASSUME NEW n \in Nat, n \in Reached PROVE n + 1 \in Reached
    <2>1. PICK g \in Runs(n) : TRUE
      BY <1>2
    <2> DEFINE h == [i \in 0 .. n + 1 |-> IF i = n + 1 THEN step[n][g[n]] ELSE g[i]]
    <2>2. \A i \in 0 .. n : g[i] \in D /\ step[i][g[i]] \in D
      BY <2>1
    <2>3. \A i \in 0 .. n + 1 : i = n + 1 \/ i \in 0 .. n
      OBVIOUS
    <2>4. h \in [0 .. n + 1 -> D]
      BY <2>2, <2>3
    <2>5. h[0] = base
      BY <2>1
    <2>6. ASSUME NEW i \in 0 .. (n + 1) - 1 PROVE h[i + 1] = step[i][h[i]]
      <3>1. h[i] = g[i] /\ i \in 0 .. n
        OBVIOUS
      <3>2. CASE i = n
        BY <3>1, <3>2
      <3>3. CASE i # n
        <4>1. i \in 0 .. n - 1 /\ i + 1 \in 0 .. n + 1 /\ i + 1 # n + 1
          BY <3>3
        <4> QED
          BY <2>1, <3>1, <4>1
      <3> QED
        BY <3>2, <3>3
    <2>7. h \in Runs(n + 1)
      BY <2>4, <2>5, <2>6
    <2> HIDE DEF h, Runs
    <2> QED
      BY <2>7
  <1>3. Nat \subseteq Reached
    BY <1>1, <1>2, SetInduction
  <1>4. ASSUME NEW n \in Nat, NEW m \in Nat, NEW g \in Runs(n), NEW h \in Runs(m)
        PROVE \A i \in Nat : i <= n /\ i <= m => g[i] = h[i]
    <2> DEFINE Same == {i \in Nat : i <= n /\ i <= m => g[i] = h[i]}
    <2>1. 0 \in Same
      OBVIOUS
    <2>2. ASSUME NEW i \in Nat, i \in Same PROVE i + 1 \in Same
      <3>1. ASSUME i + 1 <= n, i + 1 <= m PROVE g[i + 1] = h[i + 1]
        <4>1. i \in 0 .. n - 1 /\ i \in 0 .. m - 1 /\ g[i] = h[i]
          BY <2>2, <3>1
        <4> QED
          BY <4>1
      <3> QED
        BY <3>1
    <2>3. Nat \subseteq Same
      BY <2>1, <2>2, SetInduction
    <2> QED
      BY <2>3
  <1> DEFINE run(n) == CHOOSE g : g \in Runs(n)
             f == [n \in Nat |-> run(n)[n]]
  <1>5. \A n \in Nat : run(n) \in Runs(n)
    BY <1>3
  <1> HIDE DEF run
  <1>6. f \in [Nat -> D]
    <2>1. \A n \in Nat : run(n)[n] \in D
      BY <1>5
    <2> QED
      BY <2>1
  <1>7. f[0] = base
    BY <1>5
  <1>8. ASSUME NEW n \in Nat PROVE f[n + 1] = step[n][f[n]]
    <2>1. run(n) \in Runs(n) /\ run(n + 1) \in Runs(n + 1)
      BY <1>5
    <2>2. run(n)[n] = run(n + 1)[n]
      <3> HIDE DEF Runs
      <3>1. n + 1 \in Nat /\ n <= n /\ n <= n + 1
        OBVIOUS
      <3> QED
        BY <1>4, <2>1, <3>1
    <2>3. run(n + 1)[n + 1] = step[n][run(n + 1)[n]]
      <3>1. n \in 0 .. (n + 1) - 1
        OBVIOUS
      <3> QED
        BY <2>1, <3>1
    <2>4. f[n] = run(n)[n] /\ f[n + 1] = run(n + 1)[n + 1]
      OBVIOUS
    <2> QED
      BY <2>2, <2>3, <2>4
  <1> HIDE DEF f
  <1>9. IsLoop(f, D, base, step)
    BY <1>6, <1>7, <1>8 DEF IsLoop
  <1> QED
    BY <1>9

IsListLoop(f, n, D, base, step) ==
    /\ f \in [0 .. n -> D]
    /\ f[0] = base
    /\ \A i \in 1 .. n : f[i] = step[i][f[i - 1]]

\* So they do on the positions of a list.
LEMMA ListLoopDefined ==
    ASSUME NEW n \in Nat, NEW D, NEW base \in D, NEW step \in [1 .. n -> [D -> D]]
    PROVE \E f : IsListLoop(f, n, D, base, step)
  <1> DEFINE next == [i \in Nat |-> [d \in D |-> IF i < n THEN step[i + 1][d] ELSE d]]
  <1>1. next \in [Nat -> [D -> D]]
    <2>1. ASSUME NEW i \in Nat, NEW d \in D PROVE (IF i < n THEN step[i + 1][d] ELSE d) \in D
      <3>1. i < n => i + 1 \in 1 .. n
        OBVIOUS
      <3> QED
        BY <3>1
    <2> QED
      BY <2>1
  <1>2. \A i \in Nat, d \in D : i < n => next[i][d] = step[i + 1][d]
    OBVIOUS
  <1> HIDE DEF next
  <1>3. PICK f : IsLoop(f, D, base, next)
    BY <1>1, LoopDefined
  <1> DEFINE g == [i \in 0 .. n |-> f[i]]
  <1>4. g \in [0 .. n -> D] /\ g[0] = base
    BY <1>3 DEF IsLoop
  <1>5. ASSUME NEW i \in 1 .. n PROVE g[i] = step[i][g[i - 1]]
    <2>1. i - 1 \in Nat /\ (i - 1) + 1 = i /\ i - 1 < n /\ i \in 0 .. n /\ i - 1 \in 0 .. n
      OBVIOUS
    <2>2. f[i] = next[i - 1][f[i - 1]] /\ f[i - 1] \in D
      BY <1>3, <2>1 DEF IsLoop
    <2>3. next[i - 1][f[i - 1]] = step[i][f[i - 1]]
      BY <1>2, <2>1, <2>2
    <2> QED
      BY <2>1, <2>2, <2>3
  <1> HIDE DEF g
  <1>6. IsListLoop(g, n, D, base, step)
    BY <1>4, <1>5 DEF IsListLoop
  <1> QED
    BY <1>6

-----------------------------------------------------------------------------
(* Lists in the order of a number, and what becomes of them when a member   *)
(* with the highest number comes in or any member goes.                     *)

IsSortedList(list, V, key) ==
    /\ list \in Seq(V)
    /\ \A v \in V : \E i \in 1 .. Len(list) : list[i] = v
    /\ \A i, j \in 1 .. Len(list) : i < j => key[list[i]] < key[list[j]]

\* Of two such lists of one set, the first is a prefix of the second.
LEMMA SortedIsPrefix ==
    ASSUME NEW V, NEW key \in [V -> Int], NEW p, NEW q,
           IsSortedList(p, V, key), IsSortedList(q, V, key)
    PROVE /\ Len(p) <= Len(q)
          /\ \A m \in 1 .. Len(p) : p[m] = q[m]
  <1> PICK n \in Nat : n = Len(p)
    BY LenProperties DEF IsSortedList
  <1> PICK o \in Nat : o = Len(q)
    BY LenProperties DEF IsSortedList
  <1>1. /\ \A m \in 1 .. n : p[m] \in V /\ key[p[m]] \in Int
        /\ \A m \in 1 .. o : q[m] \in V /\ key[q[m]] \in Int
    <2>1. /\ \A m \in 1 .. n : p[m] \in V
          /\ \A m \in 1 .. o : q[m] \in V
      BY ElementOfSeq DEF IsSortedList
    <2> QED
      BY <2>1
  <1>2. /\ \A v \in V : (\E i \in 1 .. n : p[i] = v) /\ (\E i \in 1 .. o : q[i] = v)
        /\ \A i, j \in 1 .. n : i < j => key[p[i]] < key[p[j]]
        /\ \A i, j \in 1 .. o : i < j => key[q[i]] < key[q[j]]
    BY DEF IsSortedList
  <1> DEFINE S == {i \in 0 .. n : i <= o /\ \A m \in 1 .. i : p[m] = q[m]}
  <1>3. 0 \in S
    OBVIOUS
  <1>4. ASSUME NEW i \in 1 .. n, i - 1 \in S PROVE i \in S
    <2>1. \A m \in 1 .. i - 1 : p[m] = q[m] /\ m \in 1 .. n /\ m \in 1 .. o
      BY <1>4
    <2>2. PICK j \in 1 .. o : q[j] = p[i]
      BY <1>1, <1>2
    <2>3. i <= j
      <3>1. SUFFICES ASSUME j < i PROVE FALSE
        OBVIOUS
      <3>2. p[j] = q[j] /\ j \in 1 .. n
        BY <2>1, <3>1
      <3>3. key[p[j]] < key[p[i]]
        BY <1>2, <3>1, <3>2
      <3> QED
        BY <1>1, <2>2, <3>2, <3>3
    <2>4. i \in 1 .. o
      BY <2>3
    <2>5. PICK l \in 1 .. n : p[l] = q[i]
      BY <1>1, <1>2, <2>4
    <2>6. i <= l
      <3>1. SUFFICES ASSUME l < i PROVE FALSE
        OBVIOUS
      <3>2. q[l] = q[i] /\ l \in 1 .. o
        BY <2>1, <2>5, <3>1
      <3>3. key[q[l]] < key[q[i]]
        BY <1>2, <2>4, <3>1, <3>2
      <3> QED
        BY <1>1, <2>4, <3>2, <3>3
    <2>7. i = j
      <3>1. SUFFICES ASSUME i < j PROVE FALSE
        BY <2>3
      <3>2. key[q[i]] < key[q[j]]
        BY <1>2, <2>4, <3>1
      <3>3. key[q[i]] < key[p[i]]
        BY <2>2, <3>2
      <3>4. i = l \/ i < l
        BY <2>6
      <3>5. i = l \/ key[p[i]] < key[q[i]]
        BY <1>2, <2>5, <3>4
      <3>6. p[i] = q[i] \/ key[p[i]] < key[q[i]]
        BY <2>5, <3>5
      <3> QED
        BY <1>1, <2>4, <3>3, <3>6
    <2>8. p[i] = q[i] /\ \A m \in 1 .. i : m = i \/ m \in 1 .. i - 1
      BY <2>2, <2>7
    <2>9. \A m \in 1 .. i : p[m] = q[m]
      BY <2>1, <2>8
    <2> QED
      BY <2>4, <2>9
  <1> HIDE DEF S
  <1>5. 0 .. n \subseteq S
    BY <1>3, <1>4, ListInduction
  <1> QED
    BY <1>5 DEF S

\* There is only one such list.
LEMMA SortedOnce ==
    ASSUME NEW V, NEW key \in [V -> Int], NEW p, NEW q,
           IsSortedList(p, V, key), IsSortedList(q, V, key)
    PROVE p = q
  <1>1. Len(p) \in Nat /\ Len(q) \in Nat /\ p \in Seq(V) /\ q \in Seq(V)
    BY LenProperties DEF IsSortedList
  <1>2. Len(p) <= Len(q) /\ \A m \in 1 .. Len(p) : p[m] = q[m]
    BY SortedIsPrefix
  <1>3. Len(q) <= Len(p)
    BY SortedIsPrefix
  <1>4. Len(p) = Len(q)
    BY <1>1, <1>2, <1>3
  <1> QED
    BY <1>1, <1>2, <1>4, SeqEqual

\* InOrder makes it.
LEMMA InOrderIsSorted ==
    ASSUME NEW V, IsFiniteSet(V), NEW key \in [V -> Int],
           \A a, b \in V : key[a] = key[b] => a = b
    PROVE IsSortedList(InOrder(V, By(V, key)), V, key)
  <1> DEFINE list == InOrder(V, By(V, key))
  <1>1. /\ list \in Seq(V)
        /\ ToSet(list) = V
        /\ \A i, j \in DOMAIN list : <<list[i], list[j]>> \in By(V, key) <=> i < j
    BY ByIsStrict, InOrderLists
  <1>2. DOMAIN list = 1 .. Len(list)
    BY <1>1, LenProperties
  <1> HIDE DEF list
  <1>3. \A v \in V : \E i \in 1 .. Len(list) : list[i] = v
    BY <1>1, <1>2 DEF ToSet
  <1>4. \A i, j \in 1 .. Len(list) : i < j => key[list[i]] < key[list[j]]
    BY <1>1, <1>2 DEF By
  <1> QED
    BY <1>1, <1>3, <1>4 DEF IsSortedList, list

\* A member with the highest number is appended.
LEMMA AppendSorts ==
    ASSUME NEW V, NEW key \in [V -> Int], NEW k, k \notin V,
           NEW next \in [V \cup {k} -> Int], \A v \in V : next[v] = key[v] /\ key[v] < next[k],
           NEW list, IsSortedList(list, V, key)
    PROVE IsSortedList(Append(list, k), V \cup {k}, next)
  <1> DEFINE W == V \cup {k}
             new == Append(list, k)
  <1> PICK n \in Nat : n = Len(list)
    BY LenProperties DEF IsSortedList
  <1>1. list \in Seq(W) /\ k \in W
    BY SeqMonotonic DEF IsSortedList
  <1>2. /\ new \in Seq(W) /\ Len(new) = n + 1
        /\ \A i \in 1 .. n : new[i] = list[i]
        /\ new[n + 1] = k
    BY <1>1, AppendProperties
  <1> HIDE DEF new
  <1>3. \A i \in 1 .. n : list[i] \in V
    BY ElementOfSeq DEF IsSortedList
  <1>4. ASSUME NEW v \in W PROVE \E i \in 1 .. n + 1 : new[i] = v
    <2>1. CASE v = k
      BY <1>2, <2>1
    <2>2. CASE v \in V
      <3>1. PICK i \in 1 .. n : list[i] = v
        BY <2>2 DEF IsSortedList
      <3>2. i \in 1 .. n + 1 /\ new[i] = v
        BY <1>2, <3>1
      <3> QED
        BY <3>2
    <2> QED
      BY <2>1, <2>2
  <1>5. ASSUME NEW i \in 1 .. n + 1, NEW j \in 1 .. n + 1, i < j
        PROVE next[new[i]] < next[new[j]]
    <2>1. i \in 1 .. n /\ new[i] = list[i] /\ list[i] \in V
      BY <1>2, <1>3, <1>5
    <2>2. CASE j = n + 1
      BY <1>2, <2>1, <2>2
    <2>3. CASE j \in 1 .. n
      <3>1. new[j] = list[j] /\ list[j] \in V
        BY <1>2, <1>3, <2>3
      <3>2. key[list[i]] < key[list[j]]
        BY <1>5, <2>1, <2>3 DEF IsSortedList
      <3> QED
        BY <2>1, <3>1, <3>2
    <2> QED
      BY <2>2, <2>3
  <1> QED
    BY <1>2, <1>4, <1>5 DEF IsSortedList, new

\* What is left when one position is taken out.
LEMMA RemoveAtProperties ==
    ASSUME NEW S, NEW list \in Seq(S), NEW i \in 1 .. Len(list)
    PROVE /\ RemoveAt(list, i) \in Seq(S)
          /\ Len(RemoveAt(list, i)) = Len(list) - 1
          /\ \A m \in 1 .. Len(list) - 1 :
                RemoveAt(list, i)[m] = IF m < i THEN list[m] ELSE list[m + 1]
  <1> DEFINE left == SubSeq(list, 1, i - 1)
             right == SubSeq(list, i + 1, Len(list))
  <1> PICK n \in Nat : n = Len(list)
    BY LenProperties
  <1>0. i \in Int /\ i - 1 \in Int /\ i + 1 \in Int /\ i <= n /\ 1 <= i
    OBVIOUS
  <1>1. \A m \in 1 .. n : list[m] \in S
    BY ElementOfSeq
  <1>2. (\A m \in 1 .. i - 1 : list[m] \in S) /\ (\A m \in i + 1 .. n : list[m] \in S)
    BY <1>0, <1>1
  <1>3. /\ left \in Seq(S) /\ Len(left) = (IF 1 <= i - 1 THEN i - 1 - 1 + 1 ELSE 0)
        /\ \A m \in 1 .. i - 1 - 1 + 1 : left[m] = list[1 + m - 1]
    BY <1>0, <1>2, SubSeqProperties
  <1>4. /\ right \in Seq(S) /\ Len(right) = (IF i + 1 <= n THEN n - (i + 1) + 1 ELSE 0)
        /\ \A m \in 1 .. n - (i + 1) + 1 : right[m] = list[(i + 1) + m - 1]
    BY <1>0, <1>2, SubSeqProperties
  <1> HIDE DEF left, right
  <1>5. /\ Len(left) = i - 1 /\ \A m \in 1 .. i - 1 : left[m] = list[m]
    BY <1>0, <1>3
  <1>6. /\ Len(right) = n - i /\ \A m \in 1 .. n - i : right[m] = list[i + m]
    BY <1>0, <1>4
  <1>7. /\ left \o right \in Seq(S)
        /\ Len(left \o right) = Len(left) + Len(right)
        /\ \A m \in 1 .. Len(left) + Len(right) : (left \o right)[m] =
              IF m <= Len(left) THEN left[m] ELSE right[m - Len(left)]
    BY <1>3, <1>4, ConcatProperties
  <1> DEFINE all == left \o right
  <1> HIDE DEF all
  <1>8. /\ all \in Seq(S) /\ Len(all) = n - 1
        /\ \A m \in 1 .. n - 1 : all[m] = IF m <= i - 1 THEN left[m] ELSE right[m - (i - 1)]
    <2>1. Len(left) + Len(right) = n - 1
      BY <1>0, <1>5, <1>6
    <2> QED
      BY <1>5, <1>7, <2>1 DEF all
  <1>9. ASSUME NEW m \in 1 .. n - 1
        PROVE all[m] = IF m < i THEN list[m] ELSE list[m + 1]
    <2>1. CASE m < i
      <3>1. m \in 1 .. i - 1 /\ m <= i - 1
        BY <1>0, <2>1
      <3> QED
        BY <1>5, <1>8, <2>1, <3>1
    <2>2. CASE ~(m < i)
      <3>1. m - (i - 1) \in 1 .. n - i /\ i + (m - (i - 1)) = m + 1 /\ ~(m <= i - 1)
        BY <1>0, <2>2
      <3>2. right[m - (i - 1)] = list[m + 1]
        BY <1>6, <3>1
      <3> QED
        BY <1>8, <2>2, <3>1, <3>2
    <2> QED
      BY <2>1, <2>2
  <1> QED
    BY <1>8, <1>9 DEF RemoveAt, all, left, right

\* A member that goes leaves the others in their order.
LEMMA RemoveSorts ==
    ASSUME NEW V, NEW key \in [V -> Int], NEW list, IsSortedList(list, V, key),
           NEW i \in 1 .. Len(list),
           NEW next \in [V \ {list[i]} -> Int], \A v \in V \ {list[i]} : next[v] = key[v]
    PROVE IsSortedList(RemoveAt(list, i), V \ {list[i]}, next)
  <1> DEFINE W == V \ {list[i]}
             new == RemoveAt(list, i)
  <1> PICK n \in Nat : n = Len(list)
    BY LenProperties DEF IsSortedList
  <1>0. n \in Nat /\ i \in 1 .. n /\ n - 1 \in Nat
    OBVIOUS
  <1>1. \A m \in 1 .. n : list[m] \in V /\ key[list[m]] \in Int
    <2>1. \A m \in 1 .. n : list[m] \in V
      BY ElementOfSeq DEF IsSortedList
    <2> QED
      BY <2>1
  <1>2. /\ new \in Seq(V) /\ Len(new) = n - 1
        /\ \A m \in 1 .. n - 1 : new[m] = IF m < i THEN list[m] ELSE list[m + 1]
    <2>1. list \in Seq(V)
      BY DEF IsSortedList
    <2>2. /\ RemoveAt(list, i) \in Seq(V)
          /\ Len(RemoveAt(list, i)) = Len(list) - 1
          /\ \A m \in 1 .. Len(list) - 1 :
                RemoveAt(list, i)[m] = IF m < i THEN list[m] ELSE list[m + 1]
      BY <2>1, RemoveAtProperties
    <2> QED
      BY <2>2
  <1> HIDE DEF new
  <1>3. \A l, m \in 1 .. n : l < m => key[list[l]] < key[list[m]]
    BY DEF IsSortedList
  <1>4. \A l, m \in 1 .. n : list[l] = list[m] => l = m
    <2> SUFFICES ASSUME NEW l \in 1 .. n, NEW m \in 1 .. n, list[l] = list[m], l # m PROVE FALSE
      OBVIOUS
    <2>1. l < m \/ m < l
      OBVIOUS
    <2>2. key[list[l]] < key[list[m]] \/ key[list[m]] < key[list[l]]
      BY <1>3, <2>1
    <2> QED
      BY <1>1, <2>2
  <1>5. \A m \in 1 .. n - 1 : new[m] \in W
    <2> SUFFICES ASSUME NEW m \in 1 .. n - 1 PROVE new[m] \in W
      OBVIOUS
    <2>1. PICK l \in 1 .. n : new[m] = list[l] /\ l # i
      <3>1. CASE m < i
        BY <1>0, <1>2, <3>1
      <3>2. CASE ~(m < i)
        <4>1. m + 1 \in 1 .. n /\ m + 1 # i
          BY <1>0, <3>2
        <4> QED
          BY <1>2, <3>2, <4>1
      <3> QED
        BY <3>1, <3>2
    <2> QED
      BY <1>0, <1>1, <1>4, <2>1
  <1>6. new \in Seq(W)
    <2>1. Len(new) = n - 1 /\ n - 1 \in Nat
      BY <1>0, <1>2
    <2>2. new = [m \in 1 .. Len(new) |-> new[m]]
      BY <1>2, LenProperties
    <2>3. new \in [1 .. n - 1 -> W]
      BY <1>5, <2>1, <2>2
    <2> QED
      BY <1>0, <2>3, SeqDef
  <1>7. ASSUME NEW v \in W PROVE \E m \in 1 .. n - 1 : new[m] = v
    <2>1. PICK l \in 1 .. n : list[l] = v
      BY DEF IsSortedList
    <2>2. l # i
      BY <2>1
    <2>3. CASE l < i
      <3>1. l \in 1 .. n - 1 /\ new[l] = v
        BY <1>0, <1>2, <2>1, <2>3
      <3> QED
        BY <3>1
    <2>4. CASE i < l
      <3>1. l - 1 \in 1 .. n - 1 /\ ~(l - 1 < i) /\ (l - 1) + 1 = l
        BY <1>0, <2>4
      <3>2. new[l - 1] = v
        BY <1>2, <2>1, <3>1
      <3> QED
        BY <3>1, <3>2
    <2> QED
      BY <1>0, <2>2, <2>3, <2>4
  <1>8. ASSUME NEW l \in 1 .. n - 1, NEW m \in 1 .. n - 1, l < m
        PROVE next[new[l]] < next[new[m]]
    <2>1. PICK a \in 1 .. n : new[l] = list[a] /\ a = IF l < i THEN l ELSE l + 1
      BY <1>0, <1>2
    <2>2. PICK b \in 1 .. n : new[m] = list[b] /\ b = IF m < i THEN m ELSE m + 1
      BY <1>0, <1>2
    <2>3. a < b
      BY <1>0, <1>8, <2>1, <2>2
    <2>4. key[list[a]] < key[list[b]]
      BY <1>3, <2>3
    <2>5. next[new[l]] = key[list[a]] /\ next[new[m]] = key[list[b]]
      BY <1>5, <1>1, <2>1, <2>2
    <2> QED
      BY <2>4, <2>5
  <1> QED
    BY <1>2, <1>6, <1>7, <1>8 DEF IsSortedList, new
=================================================================================
