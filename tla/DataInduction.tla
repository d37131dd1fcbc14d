--------------------------- MODULE DataInduction ---------------------------
(***************************************************************************)
(* Induction for the proofs of this project, with a set in the place of    *)
(* the predicate: the induction theorems of the library take an operator   *)
(* as a parameter, which SMT and Zenon do not instantiate, and a set they  *)
(* do.  With it: functions defined step by step, sorted sequences (the     *)
(* element at each position is the one with that many before it), and      *)
(* remainders.                                                             *)
(***************************************************************************)
EXTENDS Integers, Orders, FiniteSetTheorems, FunctionTheorems, WellFoundedInduction, TLAPS

\* A set of natural numbers that is not empty has a least element.
LEMMA LeastNatural ==
    ASSUME NEW S \in SUBSET Nat, S # {}
    PROVE  \E x \in S : \A y \in S : x <= y
<1> DEFINE Less == OpToRel(<, Nat)
<1>1. IsWellFoundedOn(Less, Nat)
  BY NatLessThanWellFounded, Zenon
<1>2. \A x, y \in Nat : x < y => <<x, y>> \in Less
  BY DEF OpToRel
<1> HIDE DEF Less
<1>3. PICK x \in S : \A y \in S : ~ (<<y, x>> \in Less)
  BY <1>1, WFMin, Zenon
<1>4. ASSUME NEW y \in S PROVE x <= y
  <2>1. x \in Nat /\ y \in Nat
    OBVIOUS
  <2>2. ~(y < x)
    BY <1>2, <1>3, <2>1
  <2> QED
    BY <2>1, <2>2
<1> QED
  BY <1>4

\* A set that holds 0, and with every natural number the next one, holds all
\* of them: the least number outside of it would have a predecessor inside.
LEMMA NatSetInduction ==
    ASSUME NEW S, 0 \in S, \A n \in Nat : n \in S => n + 1 \in S
    PROVE  \A n \in Nat : n \in S
<1> DEFINE Outside == Nat \ S
<1> SUFFICES ASSUME Outside # {} PROVE FALSE
  OBVIOUS
<1>1. PICK x \in Outside : \A y \in Outside : x <= y
  <2>1. Outside \in SUBSET Nat
    OBVIOUS
  <2> HIDE DEF Outside
  <2> QED
    BY <2>1, LeastNatural, Zenon
<1>2. x # 0
  OBVIOUS
<1>3. x - 1 \in Nat /\ ~(x <= x - 1) /\ x = (x - 1) + 1
  BY <1>2
<1>4. x - 1 \in S
  BY <1>1, <1>3
<1> QED
  BY <1>3, <1>4

\* The same up to a bound.
LEMMA BoundedInduction ==
    ASSUME NEW S, NEW m \in Nat, 0 \in S,
           \A n \in Nat : n < m /\ n \in S => n + 1 \in S
    PROVE  \A n \in 0 .. m : n \in S
<1> DEFINE B == {n \in Nat : n <= m => n \in S}
<1>1. 0 \in B
  OBVIOUS
<1>2. \A n \in Nat : n \in B => n + 1 \in B
  OBVIOUS
<1> HIDE DEF B
<1>3. \A n \in Nat : n \in B
  BY <1>1, <1>2, NatSetInduction, Zenon
<1> QED
  BY <1>3 DEF B

\* f repeats step m times from c, inside T.
Iterates(f, T, c, m, step) ==
    /\ f \in [0 .. m -> T]
    /\ f[0] = c
    /\ \A n \in 1 .. m : f[n] = step[<<f[n - 1], n>>]

\* A step that stays in T can be repeated from any element of T: the function
\* that a recursive definition over 0 .. m asks for exists.
LEMMA IterationExists ==
    ASSUME NEW T, NEW c \in T, NEW m \in Nat, NEW step \in [T \X (1 .. m) -> T]
    PROVE  \E f : Iterates(f, T, c, m, step)
<1> DEFINE Upto(k, f) == f[0] = c /\ \A n \in 1 .. k : f[n] = step[<<f[n - 1], n>>]
           S == {k \in Nat : \E f \in [0 .. k -> T] : Upto(k, f)}
<1>1. 0 \in S
  <2> DEFINE f == [n \in 0 .. 0 |-> c]
  <2>1. f \in [0 .. 0 -> T] /\ Upto(0, f)
    OBVIOUS
  <2> QED
    BY <2>1
<1>2. \A k \in Nat : k < m /\ k \in S => k + 1 \in S
  <2> TAKE k \in Nat
  <2> HAVE k < m /\ k \in S
  <2>1. PICK f \in [0 .. k -> T] : Upto(k, f)
    OBVIOUS
  <2> DEFINE g == [n \in 0 .. k + 1 |-> IF n <= k THEN f[n] ELSE step[<<f[k], k + 1>>]]
  <2>2. f[k] \in T /\ <<f[k], k + 1>> \in T \X (1 .. m)
    BY <2>1
  <2>3. step[<<f[k], k + 1>>] \in T
    BY <2>2
  <2>4. g \in [0 .. k + 1 -> T]
    BY <2>1, <2>3
  <2>5. \A n \in 0 .. k : g[n] = f[n]
    OBVIOUS
  <2>6. g[k + 1] = step[<<g[k], k + 1>>]
    <3>1. g[k + 1] = step[<<f[k], k + 1>>]
      OBVIOUS
    <3>2. g[k] = f[k]
      BY <2>5
    <3> HIDE DEF g
    <3> QED
      BY <3>1, <3>2
  <2>7. g[0] = c
    BY <2>1, <2>5
  <2>8. ASSUME NEW n \in 1 .. k + 1 PROVE g[n] = step[<<g[n - 1], n>>]
    <3>1. CASE n = k + 1
      BY <3>1, <2>6
    <3>2. CASE n # k + 1
      <4>1. n \in 1 .. k /\ n - 1 \in 0 .. k /\ n \in 0 .. k
        BY <3>2
      <4> QED
        BY <4>1, <2>1, <2>5
    <3> QED
      BY <3>1, <3>2
  <2>9. Upto(k + 1, g)
    BY <2>7, <2>8
  <2> HIDE DEF g, Upto
  <2>10. k + 1 \in Nat
    OBVIOUS
  <2> QED
    BY <2>4, <2>9, <2>10
<1> HIDE DEF S
<1>3. \A k \in 0 .. m : k \in S
  BY <1>1, <1>2, BoundedInduction, Zenon
<1>4. m \in S
  BY <1>3
<1> QED
  BY <1>4 DEF S, Iterates

-----------------------------------------------------------------------------
(* Sorting.                                                                *)

\* The rank of an element is below the number of elements, and follows the
\* order.
LEMMA RankProperties ==
    ASSUME NEW S, IsFiniteSet(S), NEW R, StrictOrder(S, R)
    PROVE  /\ \A x \in S : Rank(S, R, x) \in 0 .. Cardinality(S) - 1
           /\ \A x, y \in S : <<x, y>> \in R => Rank(S, R, x) < Rank(S, R, y)
<1> DEFINE Before(x) == {y \in S : <<y, x>> \in R}
<1>1. Cardinality(S) \in Nat
  BY FS_CardinalityType
<1>2. ASSUME NEW x \in S
      PROVE  /\ IsFiniteSet(Before(x)) /\ Cardinality(Before(x)) \in Nat
             /\ Cardinality(Before(x)) <= Cardinality(S) - 1
  <2>1. Before(x) \in SUBSET (S \ {x})
    BY DEF StrictOrder
  <2>2. IsFiniteSet(S \ {x}) /\ Cardinality(S \ {x}) = Cardinality(S) - 1
    BY FS_RemoveElement
  <2>3. IsFiniteSet(Before(x)) /\ Cardinality(Before(x)) <= Cardinality(S \ {x})
    BY <2>1, <2>2, FS_Subset
  <2>4. Cardinality(Before(x)) \in Nat
    BY <2>3, FS_CardinalityType
  <2> QED
    BY <2>2, <2>3, <2>4
<1>3. ASSUME NEW x \in S, NEW y \in S, <<x, y>> \in R
      PROVE  Cardinality(Before(x)) < Cardinality(Before(y))
  <2>1. Before(x) \in SUBSET Before(y) /\ x \in Before(y) /\ x \notin Before(x)
    BY <1>3 DEF StrictOrder
  <2>2. IsFiniteSet(Before(y)) /\ Before(x) # Before(y)
    BY <1>2, <2>1
  <2> HIDE DEF Before
  <2>3. Cardinality(Before(x)) <= Cardinality(Before(y)) /\ Cardinality(Before(x)) # Cardinality(Before(y))
    BY <2>1, <2>2, FS_Subset
  <2> QED
    BY <1>2, <2>3
<1>4. \A x \in S : Rank(S, R, x) = Cardinality(Before(x))
  BY DEF Rank
<1> HIDE DEF Before
<1> QED
  BY <1>1, <1>2, <1>3, <1>4

\* Sorted lists every element of S once, in the order of R.
LEMMA SortedProperties ==
    ASSUME NEW S, IsFiniteSet(S), NEW R, StrictOrder(S, R)
    PROVE  /\ Sorted(S, R) \in [1 .. Cardinality(S) -> S]
           /\ \A x \in S : \E n \in 1 .. Cardinality(S) : Sorted(S, R)[n] = x
           /\ \A m, n \in 1 .. Cardinality(S) :
                m < n => <<Sorted(S, R)[m], Sorted(S, R)[n]>> \in R
           /\ \A m, n \in 1 .. Cardinality(S) : Sorted(S, R)[m] = Sorted(S, R)[n] => m = n
<1> DEFINE c == Cardinality(S)
           rank == [x \in S |-> Rank(S, R, x) + 1]
<1>1. c \in Nat
  BY FS_CardinalityType
<1>2. rank \in [S -> 1 .. c] /\ \A x \in S : rank[x] = Rank(S, R, x) + 1
  BY <1>1, RankProperties
<1> HIDE DEF rank, c
<1>3. \A x, y \in S : <<x, y>> \in R => rank[x] < rank[y]
  BY <1>1, <1>2, RankProperties DEF c
<1>4. ASSUME NEW x \in S, NEW y \in S, rank[x] = rank[y] PROVE x = y
  <2>1. rank[x] \in Nat /\ ~(rank[x] < rank[y]) /\ ~(rank[y] < rank[x])
    BY <1>1, <1>2, <1>4
  <2> QED
    BY <1>3, <2>1 DEF StrictOrder
<1>5. rank \in Injection(S, 1 .. c)
  BY <1>2, <1>4, Fun_IsInj
<1>6. IsFiniteSet(1 .. c) /\ Cardinality(1 .. c) = c
  BY <1>1, FS_Interval
<1>7. rank \in Surjection(S, 1 .. c)
  BY <1>5, <1>6, FS_Injection DEF c
<1>8. \A n \in 1 .. c : \E x \in S : rank[x] = n
  BY <1>7, Fun_SurjectionProperties
<1>9. ASSUME NEW n \in 1 .. c PROVE Sorted(S, R)[n] \in S /\ rank[Sorted(S, R)[n]] = n
  <2>1. Sorted(S, R)[n] = CHOOSE x \in S : Rank(S, R, x) = n - 1
    BY DEF Sorted, c
  <2>2. \E x \in S : Rank(S, R, x) = n - 1
    <3>1. PICK x \in S : rank[x] = n
      BY <1>8
    <3>2. Rank(S, R, x) \in 0 .. c - 1 /\ rank[x] = Rank(S, R, x) + 1
      BY <1>2, RankProperties DEF c
    <3> QED
      BY <1>1, <3>1, <3>2
  <2>3. Sorted(S, R)[n] \in S /\ Rank(S, R, Sorted(S, R)[n]) = n - 1
    BY <2>1, <2>2
  <2> QED
    BY <1>1, <1>2, <2>3
<1>10. DOMAIN Sorted(S, R) = 1 .. c /\ Sorted(S, R) = [n \in 1 .. c |-> Sorted(S, R)[n]]
  BY DEF Sorted, c
<1> DEFINE s == Sorted(S, R)
<1> HIDE DEF s
<1>11. s \in [1 .. c -> S]
  BY <1>9, <1>10 DEF s
<1>12. \A x \in S : \E n \in 1 .. c : s[n] = x
  BY <1>2, <1>4, <1>9 DEF s
<1>13. ASSUME NEW m \in 1 .. c, NEW n \in 1 .. c, m < n PROVE <<s[m], s[n]>> \in R
  <2>1. s[m] \in S /\ s[n] \in S /\ rank[s[m]] = m /\ rank[s[n]] = n
    BY <1>9 DEF s
  <2>2. s[m] # s[n] /\ ~(<<s[n], s[m]>> \in R)
    BY <1>1, <1>3, <1>13, <2>1
  <2> QED
    BY <2>1, <2>2 DEF StrictOrder
<1>14. \A m, n \in 1 .. c : s[m] = s[n] => m = n
  BY <1>9 DEF s
<1> QED
  BY <1>11, <1>12, <1>13, <1>14 DEF s, c

\* t is what s has at the positions I, each position read once.
Picks(t, s, I) ==
    \E o \in [1 .. Len(t) -> I] :
        /\ \A n \in 1 .. Len(t) : t[n] = s[o[n]]
        /\ \A i \in I : \E n \in 1 .. Len(t) : o[n] = i
        /\ \A m, n \in 1 .. Len(t) : o[m] = o[n] => m = n

\* Arranged reads the whole of a sequence.
LEMMA ArrangedProperties ==
    ASSUME NEW T, NEW s \in Seq(T), NEW R, StrictOrder(DOMAIN s, R)
    PROVE  /\ Arranged(s, R) \in Seq(T) /\ Len(Arranged(s, R)) = Len(s)
           /\ Picks(Arranged(s, R), s, DOMAIN s)
<1> DEFINE o == Sorted(DOMAIN s, R)
<1>1. DOMAIN s = 1 .. Len(s) /\ Len(s) \in Nat
  OBVIOUS
<1>2. IsFiniteSet(DOMAIN s) /\ Cardinality(DOMAIN s) = Len(s)
  BY <1>1, FS_Interval
<1>3. /\ o \in [DOMAIN s -> DOMAIN s]
      /\ \A i \in DOMAIN s : \E n \in DOMAIN s : o[n] = i
      /\ \A m, n \in DOMAIN s : o[m] = o[n] => m = n
  <2> DEFINE D == DOMAIN s
  <2>1. D = 1 .. Cardinality(D) /\ IsFiniteSet(D) /\ StrictOrder(D, R)
    BY <1>1, <1>2
  <2> HIDE DEF D
  <2>2. /\ Sorted(D, R) \in [1 .. Cardinality(D) -> D]
        /\ \A i \in D : \E n \in 1 .. Cardinality(D) : Sorted(D, R)[n] = i
        /\ \A m, n \in 1 .. Cardinality(D) : Sorted(D, R)[m] = Sorted(D, R)[n] => m = n
    BY <2>1, SortedProperties, Zenon
  <2> QED
    BY <2>1, <2>2 DEF D
<1>4. Arranged(s, R) = [n \in DOMAIN s |-> s[o[n]]]
  BY DEF Arranged
<1> HIDE DEF o
<1>5. Arranged(s, R) = [n \in 1 .. Len(s) |-> s[o[n]]] /\ \A n \in 1 .. Len(s) : s[o[n]] \in T
  BY <1>1, <1>3, <1>4
<1>6. Arranged(s, R) \in Seq(T) /\ Len(Arranged(s, R)) = Len(s)
  BY <1>1, <1>5
<1>7. \A n \in DOMAIN s : Arranged(s, R)[n] = s[o[n]]
  BY <1>4
<1>8. Picks(Arranged(s, R), s, DOMAIN s)
  <2> DEFINE t == Arranged(s, R)
             D == DOMAIN s
  <2>1. D = 1 .. Len(t)
    BY <1>1, <1>6
  <2>2. /\ o \in [D -> D] /\ \A n \in D : t[n] = s[o[n]]
        /\ \A i \in D : \E n \in D : o[n] = i
        /\ \A m, n \in D : o[m] = o[n] => m = n
    BY <1>3, <1>7
  <2> HIDE DEF t, D
  <2>3. /\ o \in [1 .. Len(t) -> D] /\ \A n \in 1 .. Len(t) : t[n] = s[o[n]]
        /\ \A i \in D : \E n \in 1 .. Len(t) : o[n] = i
        /\ \A m, n \in 1 .. Len(t) : o[m] = o[n] => m = n
    BY <2>1, <2>2
  <2>4. Picks(t, s, D)
    BY <2>3, Zenon DEF Picks
  <2> QED
    BY <2>4 DEF t, D
<1> QED
  BY <1>6, <1>8

\* AtPositions reads the positions it is given.
LEMMA AtPositionsProperties ==
    ASSUME NEW T, NEW s \in Seq(T), NEW I \in SUBSET DOMAIN s
    PROVE  AtPositions(s, I) \in Seq(T) /\ Picks(AtPositions(s, I), s, I)
<1> DEFINE o == Sorted(I, Ascending(I))
           c == Cardinality(I)
<1>1. DOMAIN s = 1 .. Len(s) /\ Len(s) \in Nat /\ I \subseteq Nat
  OBVIOUS
<1>2. IsFiniteSet(I) /\ c \in Nat
  <2>1. IsFiniteSet(DOMAIN s)
    BY <1>1, FS_Interval
  <2>2. IsFiniteSet(I)
    BY <2>1, FS_Subset, Zenon
  <2> QED
    BY <2>2, FS_CardinalityType, Zenon
<1>3. StrictOrder(I, Ascending(I))
  BY <1>1 DEF StrictOrder, Ascending
<1>4. /\ o \in [1 .. c -> I]
      /\ \A i \in I : \E n \in 1 .. c : o[n] = i
      /\ \A m, n \in 1 .. c : o[m] = o[n] => m = n
  BY <1>2, <1>3, SortedProperties
<1>5. AtPositions(s, I) = [n \in 1 .. c |-> s[o[n]]]
  BY DEF AtPositions
<1> HIDE DEF o, c
<1>6. \A n \in 1 .. c : s[o[n]] \in T
  BY <1>1, <1>4
<1>7. AtPositions(s, I) \in Seq(T) /\ Len(AtPositions(s, I)) = c
  BY <1>2, <1>5, <1>6
<1>8. \A n \in 1 .. c : AtPositions(s, I)[n] = s[o[n]]
  BY <1>5
<1> QED
  BY <1>2, <1>4, <1>7, <1>8 DEF Picks

-----------------------------------------------------------------------------
(* Remainders.                                                             *)

\* Division with remainder.
LEMMA RemainderSplit ==
    ASSUME NEW x \in Nat, NEW t \in Nat \ {0}
    PROVE  x \div t \in Nat /\ x % t \in 0 .. t - 1 /\ x = t * (x \div t) + (x % t)
  OBVIOUS

\* There is one remainder below the divisor.
LEMMA RemainderUnique ==
    ASSUME NEW t \in Nat \ {0}, NEW q \in Nat, NEW s \in 0 .. t - 1, NEW x \in Nat, x = t * q + s
    PROVE  x % t = s
<1> DEFINE d == x \div t
           m == x % t
<1>1. d \in Nat /\ m \in 0 .. t - 1 /\ x = t * d + m
  BY RemainderSplit
<1> HIDE DEF d, m
<1>2. t * d \in Nat /\ t * q \in Nat /\ t * (d + 1) = t * d + t /\ t * (q + 1) = t * q + t
  BY <1>1
<1>3. CASE d < q
  <2>1. t * (d + 1) <= t * q
    BY <1>1, <1>3
  <2> QED
    BY <1>1, <1>2, <2>1
<1>4. CASE q < d
  <2>1. t * (q + 1) <= t * d
    BY <1>1, <1>4
  <2> QED
    BY <1>1, <1>2, <2>1
<1>5. CASE q = d
  BY <1>1, <1>2, <1>5 DEF m
<1> QED
  BY <1>1, <1>3, <1>4, <1>5

\* A rotation may start from the remainder.
LEMMA RemainderShift ==
    ASSUME NEW x \in Nat, NEW k \in Nat, NEW t \in Nat \ {0}
    PROVE  (x + k) % t = ((x % t) + k) % t
<1> DEFINE d == x \div t
           m == x % t
           y == m + k
           e == y \div t
           n == y % t
           z == x + k
           w == d + e
<1>1. d \in Nat /\ m \in 0 .. t - 1 /\ x = t * d + m
  BY RemainderSplit
<1>2. y \in Nat
  BY <1>1
<1>3. e \in Nat /\ n \in 0 .. t - 1 /\ y = t * e + n
  <2> HIDE DEF y
  <2> QED
    BY <1>2, RemainderSplit
<1> HIDE DEF d, e, n, m
<1>4. z = t * w + n
  BY <1>1, <1>3
<1>5. z \in Nat /\ w \in Nat
  BY <1>1, <1>3
<1> HIDE DEF z, w, y
<1>6. z % t = n
  BY <1>3, <1>4, <1>5, RemainderUnique
<1> QED
  BY <1>6 DEF n, m, z, y

\* One turn of a rotation by c.
LEMMA RemainderTurn ==
    ASSUME NEW t \in Nat \ {0}, NEW c \in 0 .. t - 1, NEW k \in 0 .. t - 1
    PROVE  (c + k) % t = IF c + k < t THEN c + k ELSE c + k - t
  OBVIOUS
=============================================================================
