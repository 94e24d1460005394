----------------------------- MODULE Orders_proofs -----------------------------
(***************************************************************************)
(* What Listed and StableSort return, for finite sets of any size.  There  *)
(* is no induction in it: the place of an element grows with the element,  *)
(* and a one-to-one function between finite sets of one size is onto.      *)
(***************************************************************************)
EXTENDS Orders, Sequences, FunctionTheorems, FiniteSetTheorems, TLAPS

IsOrder(S, R) ==
    /\ \A x \in S : <<x, x>> \in R
    /\ \A x, y \in S : <<x, y>> \in R \/ <<y, x>> \in R
    /\ \A x, y \in S : <<x, y>> \in R /\ <<y, x>> \in R => x = y
    /\ \A x, y, z \in S : <<x, y>> \in R /\ <<y, z>> \in R => <<x, z>> \in R

(* L lists the n elements of S, each once, in the order R.                 *)
Lists(L, n, S, R) ==
    /\ L \in [1..n -> S]
    /\ \A p, q \in 1..n : L[p] = L[q] => p = q
    /\ \A x \in S : \E p \in 1..n : L[p] = x
    /\ \A p, q \in 1..n : p <= q => <<L[p], L[q]>> \in R

UpTo(S, R, x) == {y \in S : <<y, x>> \in R}

LEMMA PlaceInRange ==
    ASSUME NEW S, IsFiniteSet(S), NEW R, IsOrder(S, R), NEW x \in S
    PROVE  /\ Place(S, R, x) \in 1..Cardinality(S)
           /\ IsFiniteSet(UpTo(S, R, x))
           /\ Place(S, R, x) = Cardinality(UpTo(S, R, x))
<1>1. Place(S, R, x) = Cardinality(UpTo(S, R, x))
  BY DEF Place, UpTo
<1>2. UpTo(S, R, x) \in SUBSET S /\ x \in UpTo(S, R, x)
  BY DEF UpTo, IsOrder
<1>3. /\ IsFiniteSet(UpTo(S, R, x))
      /\ Cardinality(UpTo(S, R, x)) <= Cardinality(S)
  BY <1>2, FS_Subset
<1>4. Cardinality(UpTo(S, R, x)) \in Nat /\ Cardinality(UpTo(S, R, x)) # 0
  BY <1>2, <1>3, FS_CardinalityType, FS_EmptySet
<1>5. Cardinality(S) \in Nat
  BY FS_CardinalityType
<1> QED BY <1>1, <1>3, <1>4, <1>5

LEMMA PlaceGrows ==
    ASSUME NEW S, IsFiniteSet(S), NEW R, IsOrder(S, R),
           NEW x \in S, NEW y \in S, x # y, <<x, y>> \in R
    PROVE  Place(S, R, x) < Place(S, R, y)
<1>1. UpTo(S, R, x) \in SUBSET UpTo(S, R, y)
  BY DEF UpTo, IsOrder
<1>2. y \in UpTo(S, R, y) /\ y \notin UpTo(S, R, x)
  BY DEF UpTo, IsOrder
<1>3. Cardinality(UpTo(S, R, x)) <= Cardinality(UpTo(S, R, y))
  BY <1>1, PlaceInRange, FS_Subset
<1>4. Cardinality(UpTo(S, R, x)) # Cardinality(UpTo(S, R, y))
  BY <1>1, <1>2, PlaceInRange, FS_Subset
<1>5. Cardinality(S) \in Nat
  BY FS_CardinalityType
<1> QED BY <1>3, <1>4, <1>5, PlaceInRange

LEMMA PlaceIsOnto ==
    ASSUME NEW S, IsFiniteSet(S), NEW R, IsOrder(S, R), NEW p \in 1..Cardinality(S)
    PROVE  \E x \in S : Place(S, R, x) = p
<1> DEFINE n == Cardinality(S)
           f == [x \in S |-> Place(S, R, x)]
<1>1. n \in Nat
  BY FS_CardinalityType
<1>2. f \in [S -> 1..n]
  BY PlaceInRange
<1>3. ASSUME NEW x \in S, NEW y \in S, f[x] = f[y] PROVE x = y
  <2>1. Place(S, R, x) = Place(S, R, y)
    BY <1>3
  <2>2. Place(S, R, x) \in Int
    BY <1>1, PlaceInRange
  <2>3. <<x, y>> \in R \/ <<y, x>> \in R
    BY DEF IsOrder
  <2> QED BY <2>1, <2>2, <2>3, PlaceGrows
<1>4. IsFiniteSet(1..n) /\ Cardinality(1..n) = n
  BY <1>1, FS_Interval
<1> HIDE DEF f
<1>5. f \in Injection(S, 1..n)
  BY <1>2, <1>3, Fun_IsInj
<1>6. f \in Surjection(S, 1..n)
  <2> DEFINE T == 1..n
  <2>1. IsFiniteSet(T) /\ Cardinality(S) = Cardinality(T) /\ f \in Injection(S, T)
    BY <1>4, <1>5
  <2> HIDE DEF T
  <2>2. f \in Surjection(S, T)
    BY <2>1, FS_Injection
  <2> QED BY <2>2 DEF T
<1>7. \E x \in S : f[x] = p
  BY <1>6 DEF Surjection
<1> QED BY <1>7 DEF f

(* Listed lists.                                                           *)
LEMMA ListedLists ==
    ASSUME NEW S, IsFiniteSet(S), NEW R, IsOrder(S, R)
    PROVE  Lists(Listed(S, R), Cardinality(S), S, R)
<1> DEFINE n == Cardinality(S)
           L == Listed(S, R)
<1>1. n \in Nat
  BY FS_CardinalityType
<1>2. ASSUME NEW p \in 1..n PROVE L[p] \in S /\ Place(S, R, L[p]) = p
  <2>1. L[p] = CHOOSE x \in S : Place(S, R, x) = p
    BY DEF Listed
  <2>2. \E x \in S : Place(S, R, x) = p
    BY PlaceIsOnto
  <2> QED BY <2>1, <2>2
<1>3. L = [p \in 1..n |-> CHOOSE x \in S : Place(S, R, x) = p]
  BY DEF Listed
<1>4. L \in [1..n -> S]
  <2> HIDE DEF L, n
  <2>1. DOMAIN L = 1..n /\ L = [p \in 1..n |-> L[p]]
    BY <1>3
  <2> QED BY <1>2, <2>1
<1> HIDE DEF L, n
<1>5. ASSUME NEW p \in 1..n, NEW q \in 1..n, L[p] = L[q] PROVE p = q
  BY <1>2, <1>5
<1>6. ASSUME NEW x \in S, NEW y \in S, Place(S, R, x) = Place(S, R, y) PROVE x = y
  <2>1. Place(S, R, x) \in Int
    BY <1>1, PlaceInRange
  <2>2. <<x, y>> \in R \/ <<y, x>> \in R
    BY DEF IsOrder
  <2> QED BY <1>6, <2>1, <2>2, PlaceGrows
<1>7. ASSUME NEW x \in S PROVE \E p \in 1..n : L[p] = x
  <2>1. PICK p \in 1..n : p = Place(S, R, x)
    BY PlaceInRange DEF n
  <2>2. L[p] = x
    BY <1>2, <1>6, <2>1
  <2> QED BY <2>2
<1>8. ASSUME NEW p \in 1..n, NEW q \in 1..n, p <= q PROVE <<L[p], L[q]>> \in R
  <2> SUFFICES ASSUME <<L[p], L[q]>> \notin R PROVE FALSE
    OBVIOUS
  <2>1. L[p] \in S /\ L[q] \in S /\ Place(S, R, L[p]) = p /\ Place(S, R, L[q]) = q
    BY <1>2
  <2>2. <<L[q], L[p]>> \in R /\ L[p] # L[q]
    BY <2>1 DEF IsOrder
  <2>3. q < p
    BY <2>1, <2>2, PlaceGrows
  <2> QED BY <1>8, <2>3, <1>1
<1>9. Lists(L, n, S, R)
  BY <1>4, <1>5, <1>7, <1>8 DEF Lists
<1> QED BY <1>9 DEF L, n

-------------------------------------------------------------------------------
(* Sorting positions by keys.                                              *)

(* order rearranges 1..n...                                                *)
Permutes(order, n) ==
    /\ order \in [1..n -> 1..n]
    /\ \A p, q \in 1..n : order[p] = order[q] => p = q
    /\ \A i \in 1..n : \E p \in 1..n : order[p] = i

(* ... by keys, and by position where keys are equal.                      *)
Sorts(order, n, key) ==
    /\ Permutes(order, n)
    /\ \A p, q \in 1..n : p < q =>
          \/ key[order[p]] < key[order[q]]
          \/ key[order[p]] = key[order[q]] /\ order[p] < order[q]

LEMMA SortOrderSorts ==
    ASSUME NEW n \in Nat, NEW key \in [1..n -> Int]
    PROVE  Sorts(SortOrder(key), n, key)
<1>1. DOMAIN key = 1..n /\ IsFiniteSet(1..n) /\ Cardinality(1..n) = n
  BY FS_Interval
<1> DEFINE R == ByKey(key)
<1>2. \A i, k \in 1..n : <<i, k>> \in R <=> key[i] < key[k] \/ (key[i] = key[k] /\ i <= k)
  BY <1>1 DEF ByKey
<1> HIDE DEF R
<1>3. \A i \in 1..n : key[i] \in Int /\ i \in Int
  OBVIOUS
<1>4. IsOrder(1..n, R)
  BY <1>2, <1>3 DEF IsOrder
<1>5. Lists(SortOrder(key), n, 1..n, R)
  BY <1>1, <1>4, ListedLists DEF SortOrder, R
<1> DEFINE L == SortOrder(key)
<1> HIDE DEF L
<1>6. Lists(L, n, 1..n, R)
  BY <1>5 DEF L
<1>7. ASSUME NEW p \in 1..n, NEW q \in 1..n, p < q
      PROVE  key[L[p]] < key[L[q]] \/ (key[L[p]] = key[L[q]] /\ L[p] < L[q])
  <2>1. L[p] \in 1..n /\ L[q] \in 1..n /\ L[p] # L[q] /\ <<L[p], L[q]>> \in R
    BY <1>6, <1>7 DEF Lists
  <2> QED BY <2>1, <1>2, <1>3
<1>8. Sorts(L, n, key)
  BY <1>6, <1>7 DEF Sorts, Permutes, Lists
<1> QED BY <1>8 DEF L

(* Rearranging a list loses and doubles nothing.                           *)
LEMMA RearrangedList ==
    ASSUME NEW T, NEW s \in Seq(T), NEW order, Permutes(order, Len(s))
    PROVE  /\ Rearranged(s, order) \in Seq(T)
           /\ Len(Rearranged(s, order)) = Len(s)
           /\ \A p \in 1..Len(s) : Rearranged(s, order)[p] = s[order[p]]
           /\ \A i \in 1..Len(s) : \E p \in 1..Len(s) : Rearranged(s, order)[p] = s[i]
<1>1. PICK n \in Nat : n = Len(s)
  OBVIOUS
<1> DEFINE t == Rearranged(s, order)
<1>2. DOMAIN s = 1..n /\ \A i \in 1..n : s[i] \in T
  BY <1>1
<1>3. order \in [1..n -> 1..n] /\ \A i \in 1..n : \E p \in 1..n : order[p] = i
  BY <1>1 DEF Permutes
<1>4. t = [p \in 1..n |-> s[order[p]]]
  BY <1>3 DEF Rearranged
<1> HIDE DEF t
<1>5. t \in [1..n -> T]
  BY <1>2, <1>3, <1>4
<1>6. t \in Seq(T) /\ Len(t) = n /\ DOMAIN t = 1..n
  BY <1>1, <1>5
<1>7. \A p \in 1..n : t[p] = s[order[p]]
  BY <1>4
<1>8. \A i \in 1..n : \E p \in 1..n : t[p] = s[i]
  <2> TAKE i \in 1..n
  <2>1. PICK p \in 1..n : order[p] = i
    BY <1>3
  <2> QED BY <1>7, <2>1
<1> QED BY <1>1, <1>6, <1>7, <1>8 DEF t

(* The first of some of the positions up to n.                             *)
LEMMA FirstIsFirst ==
    ASSUME NEW n \in Nat, NEW S \in SUBSET (1..n), S # {}
    PROVE  First(S) \in S /\ \A k \in S : First(S) <= k
<1> DEFINE R == {e \in S \X S : e[1] <= e[2]}
<1>1. \A i, k \in S : <<i, k>> \in R <=> i <= k
  OBVIOUS
<1> HIDE DEF R
<1>2. \A i \in S : i \in Int
  OBVIOUS
<1>3. IsOrder(S, R)
  BY <1>1, <1>2 DEF IsOrder
<1>4. IsFiniteSet(S)
  <2> DEFINE T == 1..n
  <2>1. IsFiniteSet(T) /\ S \in SUBSET T
    BY FS_Interval
  <2> HIDE DEF T
  <2> QED BY <2>1, FS_Subset
<1>5. Lists(Listed(S, R), Cardinality(S), S, R)
  BY <1>3, <1>4, ListedLists
<1>6. PICK m \in Nat : m = Cardinality(S)
  BY <1>4, FS_CardinalityType
<1> DEFINE L == Listed(S, R)
<1> HIDE DEF L
<1>7. Lists(L, m, S, R)
  BY <1>5, <1>6 DEF L
<1>8. \E p \in 1..m : L[p] \in S
  <2>1. PICK x \in S : TRUE
    OBVIOUS
  <2> QED BY <1>7, <2>1 DEF Lists
<1>9. 1 \in 1..m
  BY <1>8
<1>10. L[1] \in S /\ \A k \in S : L[1] <= k
  <2>1. ASSUME NEW k \in S PROVE L[1] <= k
    <3>1. PICK q \in 1..m : L[q] = k
      BY <1>7 DEF Lists
    <3>2. <<L[1], L[q]>> \in R
      BY <1>7, <1>9, <3>1 DEF Lists
    <3> QED BY <1>1, <1>7, <1>9, <3>1, <3>2 DEF Lists
  <2> QED BY <2>1, <1>7, <1>9 DEF Lists
<1> QED BY <1>10 DEF First
===============================================================================
