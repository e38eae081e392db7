---------------------------- MODULE BrowseProofs ----------------------------
(***************************************************************************)
(* The tree that browsing builds, for any servers, entries, contexts and   *)
(* base DNs, and any jumps: what it lists is what the server has (Names,   *)
(* Browse).                                                                *)
(***************************************************************************)
EXTENDS Browse, FiniteSetTheorems, SequenceTheorems, WellFoundedInduction, TLAPS

-----------------------------------------------------------------------------
(* Sequences put together from the places their elements have.             *)
Rank(D, R, x) == Cardinality({y \in D : <<y, x>> \in R}) + 1

StrictlyOrders(R, D) ==
    /\ R \subseteq D \X D
    /\ \A x \in D : <<x, x>> \notin R
    /\ \A x, y, z \in D : <<x, y>> \in R /\ <<y, z>> \in R => <<x, z>> \in R
    /\ \A x, y \in D : x = y \/ <<x, y>> \in R \/ <<y, x>> \in R

LEMMA RankGrows ==
    ASSUME NEW D, IsFiniteSet(D), NEW R, StrictlyOrders(R, D)
    PROVE  /\ \A x \in D : Rank(D, R, x) \in 1 .. Cardinality(D)
           /\ \A x, y \in D : <<x, y>> \in R => Rank(D, R, x) < Rank(D, R, y)
<1> DEFINE below(x) == {y \in D : <<y, x>> \in R}
<1>1. Cardinality(D) \in Nat
    BY FS_CardinalityType
<1>2. ASSUME NEW x \in D
      PROVE  /\ IsFiniteSet(below(x)) /\ Cardinality(below(x)) \in Nat
             /\ Cardinality(below(x)) < Cardinality(D)
  <2>1. below(x) \in SUBSET D /\ x \notin below(x)
    BY DEF StrictlyOrders
  <2> HIDE DEF below
  <2>2. /\ IsFiniteSet(below(x)) /\ Cardinality(below(x)) <= Cardinality(D)
        /\ Cardinality(below(x)) # Cardinality(D)
    BY <2>1, FS_Subset
  <2>3. Cardinality(below(x)) \in Nat
    BY <2>2, FS_CardinalityType
  <2> QED
    BY <1>1, <2>2, <2>3
<1>3. ASSUME NEW x \in D, NEW y \in D, <<x, y>> \in R
      PROVE  Cardinality(below(x)) < Cardinality(below(y))
  <2>1. below(x) \in SUBSET below(y) /\ x \in below(y) /\ x \notin below(x)
    BY <1>3 DEF StrictlyOrders
  <2>2. IsFiniteSet(below(y)) /\ Cardinality(below(y)) \in Nat /\ Cardinality(below(x)) \in Nat
    BY <1>2
  <2> HIDE DEF below
  <2>3. /\ Cardinality(below(x)) <= Cardinality(below(y))
        /\ Cardinality(below(x)) # Cardinality(below(y))
    BY <2>1, <2>2, FS_Subset
  <2> QED
    BY <2>2, <2>3
<1>4. \A x \in D : Rank(D, R, x) = Cardinality(below(x)) + 1
    BY DEF Rank
<1> HIDE DEF below
<1> QED
    BY <1>1, <1>2, <1>3, <1>4

LEMMA RanksAreTaken ==
    ASSUME NEW D, IsFiniteSet(D), NEW R, StrictlyOrders(R, D), NEW k \in 1 .. Cardinality(D)
    PROVE  \E x \in D : Rank(D, R, x) = k
<1> DEFINE rank == [x \in D |-> Rank(D, R, x)]
<1>1. Cardinality(D) \in Nat
    BY FS_CardinalityType
<1>2. rank \in Injection(D, 1 .. Cardinality(D))
  <2>1. \A x \in D : Rank(D, R, x) \in 1 .. Cardinality(D)
    BY RankGrows
  <2>2. \A x, y \in D : Rank(D, R, x) = Rank(D, R, y) => x = y
    <3> SUFFICES ASSUME NEW x \in D, NEW y \in D, x # y
                 PROVE  Rank(D, R, x) # Rank(D, R, y)
      OBVIOUS
    <3>1. <<x, y>> \in R \/ <<y, x>> \in R
      BY DEF StrictlyOrders
    <3>2. Rank(D, R, x) < Rank(D, R, y) \/ Rank(D, R, y) < Rank(D, R, x)
      BY <3>1, RankGrows
    <3> QED
      BY <1>1, <2>1, <3>2
  <2>3. rank \in [D -> 1 .. Cardinality(D)]
    BY <2>1
  <2> QED
    BY <2>2, <2>3 DEF Injection, IsInjective
<1>3. IsFiniteSet(1 .. Cardinality(D)) /\ Cardinality(1 .. Cardinality(D)) = Cardinality(D)
    BY <1>1, FS_Interval
<1>4. rank \in Surjection(D, 1 .. Cardinality(D))
    BY <1>2, <1>3, FS_Injection
<1> QED
    BY <1>4 DEF Surjection

(* What is put together has every element, each in its place.              *)
LEMMA ByRank ==
    ASSUME NEW D, IsFiniteSet(D), NEW R, StrictlyOrders(R, D)
    PROVE  /\ Cardinality(D) \in Nat
           /\ \A k \in 1 .. Cardinality(D) :
                 LET x == CHOOSE y \in D : Rank(D, R, y) = k
                 IN  x \in D /\ Rank(D, R, x) = k
           /\ \A x \in D : /\ Rank(D, R, x) \in 1 .. Cardinality(D)
                           /\ x = CHOOSE y \in D : Rank(D, R, y) = Rank(D, R, x)
<1>1. Cardinality(D) \in Nat
    BY FS_CardinalityType
<1>2. ASSUME NEW k \in 1 .. Cardinality(D)
      PROVE  LET x == CHOOSE y \in D : Rank(D, R, y) = k
             IN  x \in D /\ Rank(D, R, x) = k
    BY RanksAreTaken
<1>3. ASSUME NEW x \in D
      PROVE  /\ Rank(D, R, x) \in 1 .. Cardinality(D)
             /\ x = CHOOSE y \in D : Rank(D, R, y) = Rank(D, R, x)
  <2>1. Rank(D, R, x) \in 1 .. Cardinality(D)
    BY RankGrows
  <2>2. ASSUME NEW y \in D, Rank(D, R, y) = Rank(D, R, x)
        PROVE  y = x
    <3>1. ~(<<x, y>> \in R) /\ ~(<<y, x>> \in R)
      BY <1>1, <2>1, <2>2, RankGrows
    <3> QED
      BY <3>1 DEF StrictlyOrders
  <2> DEFINE z == CHOOSE y \in D : Rank(D, R, y) = Rank(D, R, x)
  <2>3. z \in D /\ Rank(D, R, z) = Rank(D, R, x)
    OBVIOUS
  <2> QED
    BY <2>1, <2>2, <2>3
<1> QED
    BY <1>1, <1>2, <1>3

LEMMA SelectedElements ==
    ASSUME NEW X, NEW s \in Seq(X), NEW S \in SUBSET DOMAIN s, NEW t, t = Selected(s, S)
    PROVE  /\ t \in Seq(X)
           /\ \A k \in DOMAIN t : \E x \in S : t[k] = s[x]
           /\ \A x \in S : \E k \in DOMAIN t : t[k] = s[x]
           /\ \A k, l \in DOMAIN t : k # l =>
                 \E x, y \in S : x # y /\ t[k] = s[x] /\ t[l] = s[y]
<1> DEFINE R == {p \in S \X S : p[1] < p[2]}
           at(k) == CHOOSE x \in S : Rank(S, R, x) = k
<1>1. Len(s) \in Nat /\ DOMAIN s = 1 .. Len(s) /\ S \subseteq 1 .. Len(s)
    OBVIOUS
<1>2. IsFiniteSet(S)
  <2>1. IsFiniteSet(1 .. Len(s))
    BY <1>1, FS_Interval
  <2> QED
    BY <1>1, <2>1, FS_Subset
<1>3. \A x, y \in S : <<x, y>> \in R <=> x < y
    OBVIOUS
<1>4. StrictlyOrders(R, S)
    BY <1>1, <1>3 DEF StrictlyOrders
<1>5. t = [k \in 1 .. Cardinality(S) |-> s[at(k)]]
  <2>1. \A x \in S : {y \in S : y < x} = {y \in S : <<y, x>> \in R}
    BY <1>3
  <2>2. \A x \in S : Cardinality({y \in S : y < x}) + 1 = Rank(S, R, x)
    BY <2>1 DEF Rank
  <2>3. \A k : (CHOOSE x \in S : Cardinality({y \in S : y < x}) + 1 = k) = at(k)
    BY <2>2
  <2>4. t = [k \in 1 .. Cardinality(S) |->
            s[CHOOSE x \in S : Cardinality({y \in S : y < x}) + 1 = k]]
    BY DEF Selected
  <2> HIDE DEF at
  <2> QED
    BY <2>3, <2>4
<1> HIDE DEF R
<1>6. /\ Cardinality(S) \in Nat
      /\ \A k \in 1 .. Cardinality(S) : at(k) \in S /\ Rank(S, R, at(k)) = k
      /\ \A x \in S : Rank(S, R, x) \in 1 .. Cardinality(S) /\ x = at(Rank(S, R, x))
    BY <1>2, <1>4, ByRank
<1> HIDE DEF at
<1>7. t \in Seq(X)
    BY <1>1, <1>5, <1>6
<1>8. DOMAIN t = 1 .. Cardinality(S)
    BY <1>5
<1>9. \A x \in S : \E k \in 1 .. Cardinality(S) : t[k] = s[x]
    BY <1>5, <1>6
<1>10. ASSUME NEW k \in 1 .. Cardinality(S), NEW l \in 1 .. Cardinality(S), k # l
       PROVE  /\ at(k) # at(l) /\ at(k) \in S /\ at(l) \in S
              /\ t[k] = s[at(k)] /\ t[l] = s[at(l)]
    BY <1>5, <1>6, <1>10
<1>11. \A k \in 1 .. Cardinality(S) : \E x \in S : t[k] = s[x]
    BY <1>5, <1>6
<1>12. \A k, l \in DOMAIN t : k # l =>
           \E x, y \in S : x # y /\ t[k] = s[x] /\ t[l] = s[y]
  <2> SUFFICES ASSUME NEW k \in 1 .. Cardinality(S), NEW l \in 1 .. Cardinality(S), k # l
               PROVE  \E x, y \in S : /\ x # y
                                      /\ t[k] = s[x] /\ t[l] = s[y]
    BY <1>8
  <2>1. /\ at(k) # at(l) /\ at(k) \in S /\ at(l) \in S
        /\ t[k] = s[at(k)] /\ t[l] = s[at(l)]
    BY <1>10
  <2> QED
    BY <2>1
<1>13. \A k \in DOMAIN t : \E x \in S : t[k] = s[x]
    BY <1>8, <1>11
<1>14. \A x \in S : \E k \in DOMAIN t : t[k] = s[x]
    BY <1>8, <1>9
<1> QED
    BY <1>7, <1>12, <1>13, <1>14

(* A stable sort orders the places of what it sorts.                       *)
Ahead(W, x, y) == <<x, y>> \in W \/ (<<y, x>> \notin W /\ x < y)

LEMMA AheadOrders ==
    ASSUME NEW n \in Nat, NEW W,
           \A x, y \in 1 .. n : <<x, y>> \in W => <<y, x>> \notin W,
           \A x, y, z \in 1 .. n :
              <<x, y>> \in W /\ <<z, y>> \notin W => <<x, z>> \in W,
           NEW R \in SUBSET ((1 .. n) \X (1 .. n)),
           \A x, y \in 1 .. n : <<x, y>> \in R <=> Ahead(W, x, y)
    PROVE  StrictlyOrders(R, 1 .. n)
<1> DEFINE w(x, y) == <<x, y>> \in W
<1>1. /\ \A x, y \in 1 .. n : w(x, y) => ~w(y, x)
      /\ \A x, y, z \in 1 .. n : w(x, y) /\ ~w(z, y) => w(x, z)
    OBVIOUS
<1>0. /\ \A x, y \in 1 .. n : Ahead(W, x, y) <=> w(x, y) \/ (~w(y, x) /\ x < y)
      /\ \A x, y, z \in 1 .. n : x < y /\ y < z => x < z
      /\ \A x, y \in 1 .. n : ~(x < x) /\ (x = y \/ x < y \/ y < x)
  <2>1. \A x, y \in 1 .. n : Ahead(W, x, y) <=> w(x, y) \/ (~w(y, x) /\ x < y)
    BY DEF Ahead
  <2> QED
    BY <2>1
<1> HIDE DEF w
<1>2. \A x \in 1 .. n : ~Ahead(W, x, x)
    BY <1>0, <1>1
<1>3. \A x, y \in 1 .. n : x = y \/ Ahead(W, x, y) \/ Ahead(W, y, x)
    BY <1>0, <1>1
<1>4. ASSUME NEW x \in 1 .. n, NEW y \in 1 .. n, NEW z \in 1 .. n,
             Ahead(W, x, y), Ahead(W, y, z)
      PROVE  Ahead(W, x, z)
  <2>1. ~w(y, x) /\ ~w(z, y) /\ (w(x, y) \/ x < y) /\ (w(y, z) \/ y < z)
    BY <1>0, <1>1, <1>4
  <2>2. ~w(z, x)
    BY <1>1, <2>1
  <2>3. w(x, y) \/ w(y, z) => w(x, z)
    BY <1>1, <2>1
  <2>4. CASE w(x, y) \/ w(y, z)
    BY <1>0, <2>3, <2>4
  <2>5. CASE x < y /\ y < z
    BY <1>0, <2>2, <2>5
  <2> QED
    BY <2>1, <2>4, <2>5
<1> HIDE DEF Ahead
<1> QED
    BY <1>2, <1>3, <1>4 DEF StrictlyOrders

(* W compares the places of a sequence as a strict weak order does.        *)
Compares(W, D) ==
    /\ \A x, y \in D : <<x, y>> \in W => <<y, x>> \notin W
    /\ \A x, y, z \in D : <<x, y>> \in W /\ <<z, y>> \notin W => <<x, z>> \in W

(* The k-th of sorted is what was at the place at[k]; nothing comes before *)
(* what is less.                                                           *)
Arranges(at, list, W, sorted) ==
    /\ at \in [DOMAIN list -> DOMAIN list]
    /\ \A x \in DOMAIN list : \E k \in DOMAIN list : at[k] = x
    /\ \A k, l \in DOMAIN list : k # l => at[k] # at[l]
    /\ \A k, l \in DOMAIN list : k < l => <<at[l], at[k]>> \notin W
    /\ sorted = [k \in DOMAIN list |-> list[at[k]]]

LEMMA SortedStably ==
    ASSUME NEW X, NEW list \in Seq(X), NEW W, Compares(W, DOMAIN list),
           NEW sorted, sorted = SliceStable(list, W)
    PROVE  \E at : Arranges(at, list, W, sorted)
<1> DEFINE D == DOMAIN list
           n == Len(list)
           R == {p \in D \X D : Ahead(W, p[1], p[2])}
           at(k) == CHOOSE x \in D : Rank(D, R, x) = k
<1>1. n \in Nat /\ D = 1 .. n /\ \A x \in D : list[x] \in X
    OBVIOUS
<1>3. /\ \A x, y \in D : <<x, y>> \in W => <<y, x>> \notin W
      /\ \A x, y, z \in D :
            <<x, y>> \in W /\ <<z, y>> \notin W => <<x, z>> \in W
    BY DEF Compares
<1>4. /\ \A x, y \in D : <<x, y>> \in R <=> Ahead(W, x, y)
      /\ R \in SUBSET (D \X D)
    OBVIOUS
<1> HIDE DEF R
<1>5. sorted = [k \in D |-> list[at(k)]]
  <2> DEFINE ahead(x, y) == <<x, y>> \in W \/ (<<y, x>> \notin W /\ x < y)
  <2>1. sorted = [k \in D |-> list[CHOOSE x \in D :
                    Cardinality({y \in D : ahead(y, x)}) + 1 = k]]
    BY DEF SliceStable
  <2> HIDE DEF D
  <2>2. \A x, y \in D : ahead(y, x) <=> <<y, x>> \in R
    BY <1>4 DEF Ahead
  <2> HIDE DEF ahead
  <2>3. \A x \in D : {y \in D : ahead(y, x)} = {y \in D : <<y, x>> \in R}
    BY <2>2
  <2>4. \A x \in D : Cardinality({y \in D : ahead(y, x)}) + 1 = Rank(D, R, x)
    BY <2>3 DEF Rank
  <2>5. \A k : (CHOOSE x \in D : Cardinality({y \in D : ahead(y, x)}) + 1 = k) = at(k)
    BY <2>4
  <2> HIDE DEF at
  <2> QED
    BY <2>1, <2>5
<1> HIDE DEF D, n
<1>6. StrictlyOrders(R, D)
    BY <1>1, <1>3, <1>4, AheadOrders
<1>7. IsFiniteSet(D) /\ Cardinality(D) = n
  <2>1. n \in Int /\ 1 \in Int
    BY <1>1
  <2> QED
    BY <1>1, <2>1, FS_Interval
<1>8. /\ \A k \in D : at(k) \in D /\ Rank(D, R, at(k)) = k
      /\ \A x \in D : Rank(D, R, x) \in D /\ x = at(Rank(D, R, x))
  <2>1. /\ \A k \in 1 .. Cardinality(D) :
              LET x == CHOOSE y \in D : Rank(D, R, y) = k
              IN  x \in D /\ Rank(D, R, x) = k
        /\ \A x \in D : /\ Rank(D, R, x) \in 1 .. Cardinality(D)
                        /\ x = CHOOSE y \in D : Rank(D, R, y) = Rank(D, R, x)
    <3> HIDE DEF at
    <3> QED
      BY <1>6, <1>7, ByRank
  <2>2. D = 1 .. Cardinality(D)
    BY <1>1, <1>7
  <2> QED
    BY <2>1, <2>2
<1> HIDE DEF at
<1>9. ASSUME NEW k \in D, NEW l \in D, k < l
      PROVE  <<at(l), at(k)>> \notin W
  <2>1. /\ at(l) \in D /\ at(k) \in D
        /\ Rank(D, R, at(l)) = l /\ Rank(D, R, at(k)) = k
    BY <1>8
  <2>2. <<at(l), at(k)>> \in R => l < k
    BY <1>6, <1>7, <2>1, RankGrows
  <2>3. ~Ahead(W, at(l), at(k))
    BY <1>1, <1>4, <1>9, <2>1, <2>2
  <2> QED
    BY <2>3 DEF Ahead
<1> DEFINE f == [k \in D |-> at(k)]
<1>10. f \in [D -> D] /\ \A k \in D : f[k] = at(k)
    BY <1>8
<1>11. sorted = [k \in D |-> list[f[k]]]
    BY <1>5, <1>10
<1>12. \A x \in D : \E k \in D : f[k] = x
    BY <1>8, <1>10
<1>13. \A k, l \in D : k # l => f[k] # f[l]
    BY <1>8, <1>10
<1>14. \A k, l \in D : k < l => <<f[l], f[k]>> \notin W
    BY <1>9, <1>10
<1> HIDE DEF f
<1>15. Arranges(f, list, W, sorted)
    BY <1>10, <1>11, <1>12, <1>13, <1>14 DEF Arranges, D
<1> QED
    BY <1>15

OrdersRows(containers, X) ==
    /\ \A a, b \in X : Before(containers, a, b) => ~Before(containers, b, a)
    /\ \A a, b, c \in X :
          Before(containers, a, b) /\ ~Before(containers, c, b) => Before(containers, a, c)

LEMMA SortedRows ==
    ASSUME NEW X, NEW rows \in Seq(X), NEW containers,
           OrdersRows(containers, X),
           NEW sorted, sorted = SortEntries(containers, rows)
    PROVE  /\ sorted \in Seq(X) /\ Len(sorted) = Len(rows)
           /\ \A k \in DOMAIN sorted : \E x \in DOMAIN rows : sorted[k] = rows[x]
           /\ \A x \in DOMAIN rows : \E k \in DOMAIN sorted : sorted[k] = rows[x]
           /\ \A k, l \in DOMAIN sorted : k # l =>
                 \E x, y \in DOMAIN rows : x # y /\ sorted[k] = rows[x] /\ sorted[l] = rows[y]
           /\ \A k, l \in DOMAIN sorted :
                 k < l => ~Before(containers, sorted[l], sorted[k])
<1> DEFINE D == DOMAIN rows
           W == {p \in D \X D : Before(containers, rows[p[1]], rows[p[2]])}
<1>1. \A x \in D : rows[x] \in X
    OBVIOUS
<1>2. \A x, y \in D : <<x, y>> \in W <=> Before(containers, rows[x], rows[y])
    OBVIOUS
<1>3. sorted = SliceStable(rows, W)
    BY DEF SortEntries
<1> HIDE DEF W
<1>4. Compares(W, D)
    BY <1>1, <1>2 DEF OrdersRows, Compares
<1>5. PICK at : Arranges(at, rows, W, sorted)
    BY <1>3, <1>4, SortedStably
<1>6. /\ at \in [D -> D] /\ sorted = [k \in D |-> rows[at[k]]]
      /\ \A x \in D : \E k \in D : at[k] = x
      /\ \A k, l \in D : k # l => at[k] # at[l]
      /\ \A k, l \in D : k < l => <<at[l], at[k]>> \notin W
    BY <1>5 DEF Arranges
<1>7. sorted \in Seq(X) /\ Len(sorted) = Len(rows) /\ DOMAIN sorted = D
  <2>1. D = 1 .. Len(rows) /\ Len(rows) \in Nat
    OBVIOUS
  <2> HIDE DEF D
  <2>2. sorted \in [D -> X]
    BY <1>1, <1>6
  <2> QED
    BY <2>1, <2>2
<1> HIDE DEF D
<1>8. \A k \in D : sorted[k] = rows[at[k]] /\ at[k] \in D
    BY <1>6
<1>9. \A k, l \in D : k < l => ~Before(containers, sorted[l], sorted[k])
    BY <1>2, <1>6, <1>8
<1>10. \A k, l \in D : k # l =>
          \E x, y \in D : x # y /\ sorted[k] = rows[x] /\ sorted[l] = rows[y]
    BY <1>6, <1>8
<1>11. \A x \in D : \E k \in D : sorted[k] = rows[x]
    BY <1>6, <1>8
<1>12. \A k \in D : \E x \in D : sorted[k] = rows[x]
    BY <1>8
<1> QED
    BY <1>7, <1>9, <1>10, <1>11, <1>12 DEF D

-----------------------------------------------------------------------------
(* Names.                                                                  *)

(* b is a or what a lies under.                                            *)
Above(b, a) ==
    /\ Len(b) <= Len(a)
    /\ \A i \in 1 .. Len(b) : Fold(b)[i] = Fold(a)[Len(a) - Len(b) + i]

LEMMA FoldTyped ==
    ASSUME NEW a \in DNs
    PROVE  /\ Len(a) \in Nat /\ DOMAIN a = 1 .. Len(a)
           /\ DOMAIN Fold(a) = 1 .. Len(a) /\ Len(Fold(a)) = Len(a) /\ Fold(a) \in Seq(Int)
           /\ \A i \in 1 .. Len(a) : Fold(a)[i] \in Int
<1>1. Len(a) \in Nat /\ DOMAIN a = 1 .. Len(a) /\ \A i \in 1 .. Len(a) : a[i] \in Int \X STRING
    BY DEF DNs
<1>2. \A i \in 1 .. Len(a) : a[i][1] \in Int
    BY <1>1
<1>3. Fold(a) \in [1 .. Len(a) -> Int]
    BY <1>1, <1>2 DEF Fold
<1>4. \A n \in Nat : \A f \in [1 .. n -> Int] :
          f \in Seq(Int) /\ Len(f) = n /\ DOMAIN f = 1 .. n
    OBVIOUS
<1>5. Fold(a) \in Seq(Int) /\ Len(Fold(a)) = Len(a) /\ DOMAIN Fold(a) = 1 .. Len(a)
    BY <1>1, <1>3, <1>4
<1>6. \A i \in 1 .. Len(a) : Fold(a)[i] \in Int
    BY <1>3
<1> QED
    BY <1>1, <1>5, <1>6

LEMMA DepthIs ==
    ASSUME NEW a \in DNs, NEW b \in DNs
    PROVE  DepthUnder(a, b) = IF Above(b, a) THEN Len(a) - Len(b) ELSE -1
<1> DEFINE s == Fold(b)
           t == Fold(a)
           m == Len(b)
           n == Len(a)
<1>1. /\ m \in Nat /\ n \in Nat /\ Len(s) = m /\ Len(t) = n
      /\ s \in [1 .. m -> Int] /\ t \in [1 .. n -> Int]
      /\ s \in Seq(Int) /\ t \in Seq(Int)
    BY FoldTyped
<1>2. Above(b, a) <=> m <= n /\ \A i \in 1 .. m : s[i] = t[n - m + i]
    BY DEF Above
<1>3. IsSuffix(s, t) <=> m <= n /\ \A i \in 1 .. m : Reverse(s)[i] = Reverse(t)[i]
  <2> HIDE DEF s, t, m, n
  <2>1. /\ Reverse(s) = [i \in 1 .. m |-> s[(m - i) + 1]]
        /\ Reverse(t) = [i \in 1 .. n |-> t[(n - i) + 1]]
    BY <1>1 DEF Reverse
  <2>2. /\ Reverse(s) \in Seq(Int) /\ Len(Reverse(s)) = m
        /\ Reverse(t) \in Seq(Int) /\ Len(Reverse(t)) = n
    BY <1>1, <2>1
  <2> DEFINE rs == Reverse(s)
             rt == Reverse(t)
  <2>3. IsSuffix(s, t) <=> m <= n /\ SubSeq(rs, 1, m) = SubSeq(rt, 1, m)
    BY <2>2 DEF IsSuffix, IsPrefix
  <2> HIDE DEF rs, rt
  <2>4. ASSUME m <= n
        PROVE  SubSeq(rs, 1, m) = SubSeq(rt, 1, m) <=> \A i \in 1 .. m : rs[i] = rt[i]
    <3>1. /\ SubSeq(rs, 1, m) = [i \in 1 .. m |-> rs[i]]
          /\ SubSeq(rt, 1, m) = [i \in 1 .. m |-> rt[i]]
      BY <1>1, <2>2, <2>4 DEF rs, rt
    <3> QED
      BY <3>1
  <2> QED
    BY <2>3, <2>4 DEF rs, rt
<1>4. ASSUME m <= n
      PROVE  (\A i \in 1 .. m : Reverse(s)[i] = Reverse(t)[i])
                <=> \A i \in 1 .. m : s[i] = t[n - m + i]
  <2> HIDE DEF s, t, m, n
  <2>1. \A i \in 1 .. m : /\ Reverse(s)[i] = s[(m - i) + 1]
                          /\ Reverse(t)[i] = t[(n - i) + 1]
    BY <1>1, <1>4 DEF Reverse
  <2>2. ASSUME \A i \in 1 .. m : Reverse(s)[i] = Reverse(t)[i], NEW i \in 1 .. m
        PROVE  s[i] = t[n - m + i]
    <3>1. /\ m - i + 1 \in 1 .. m /\ (m - (m - i + 1)) + 1 = i
          /\ (n - (m - i + 1)) + 1 = n - m + i
      BY <1>1
    <3> QED
      BY <2>1, <2>2, <3>1
  <2>3. ASSUME \A i \in 1 .. m : s[i] = t[n - m + i], NEW i \in 1 .. m
        PROVE  Reverse(s)[i] = Reverse(t)[i]
    <3>1. m - i + 1 \in 1 .. m /\ n - m + (m - i + 1) = (n - i) + 1
      BY <1>1
    <3> QED
      BY <2>1, <2>3, <3>1
  <2> QED
    BY <2>2, <2>3
<1>5. IsSuffix(Fold(b), Fold(a)) <=> Above(b, a)
    BY <1>2, <1>3, <1>4
<1> QED
    BY <1>5 DEF DepthUnder

LEMMA EqualIs ==
    ASSUME NEW a \in DNs, NEW b \in DNs
    PROVE  EqualDN(a, b) <=> Len(a) = Len(b) /\ Above(b, a)
<1>1. /\ Len(a) \in Nat /\ Len(b) \in Nat
      /\ Fold(a) \in [1 .. Len(a) -> Int] /\ Fold(b) \in [1 .. Len(b) -> Int]
      /\ Len(Fold(a)) = Len(a) /\ Len(Fold(b)) = Len(b)
    BY FoldTyped
<1>2. Len(a) = Len(b) =>
         (Above(b, a) <=> \A i \in 1 .. Len(a) : Fold(b)[i] = Fold(a)[i])
    BY <1>1 DEF Above
<1>3. Len(a) = Len(b) =>
         (Fold(a) = Fold(b) <=> \A i \in 1 .. Len(a) : Fold(b)[i] = Fold(a)[i])
    BY <1>1
<1> QED
    BY <1>1, <1>2, <1>3 DEF EqualDN

LEMMA AboveIsTransitive ==
    ASSUME NEW a \in DNs, NEW b \in DNs, NEW c \in DNs, Above(a, b), Above(b, c)
    PROVE  Above(a, c)
<1>1. Len(a) \in Nat /\ Len(b) \in Nat /\ Len(c) \in Nat
    BY FoldTyped
<1>2. Len(a) <= Len(b) /\ Len(b) <= Len(c)
    BY DEF Above
<1>3. ASSUME NEW i \in 1 .. Len(a)
      PROVE  Fold(a)[i] = Fold(c)[Len(c) - Len(a) + i]
  <2>1. /\ Len(b) - Len(a) + i \in 1 .. Len(b)
        /\ Len(c) - Len(b) + (Len(b) - Len(a) + i) = Len(c) - Len(a) + i
    BY <1>1, <1>2
  <2>2. Fold(a)[i] = Fold(b)[Len(b) - Len(a) + i]
    BY DEF Above
  <2>3. Fold(b)[Len(b) - Len(a) + i] = Fold(c)[Len(c) - Len(b) + (Len(b) - Len(a) + i)]
    BY <2>1 DEF Above
  <2> QED
    BY <2>1, <2>2, <2>3
<1> QED
    BY <1>1, <1>2, <1>3 DEF Above

(* What is above one DN is in line.                                        *)
LEMMA AboveIsALine ==
    ASSUME NEW a \in DNs, NEW b \in DNs, NEW c \in DNs,
           Above(a, c), Above(b, c), Len(a) <= Len(b)
    PROVE  Above(a, b)
<1>1. Len(a) \in Nat /\ Len(b) \in Nat /\ Len(c) \in Nat /\ Len(b) <= Len(c)
    BY FoldTyped DEF Above
<1>2. ASSUME NEW i \in 1 .. Len(a)
      PROVE  Fold(a)[i] = Fold(b)[Len(b) - Len(a) + i]
  <2>1. /\ Len(b) - Len(a) + i \in 1 .. Len(b)
        /\ Len(c) - Len(b) + (Len(b) - Len(a) + i) = Len(c) - Len(a) + i
    BY <1>1
  <2>2. Fold(a)[i] = Fold(c)[Len(c) - Len(a) + i]
    BY DEF Above
  <2>3. Fold(b)[Len(b) - Len(a) + i] = Fold(c)[Len(c) - Len(b) + (Len(b) - Len(a) + i)]
    BY <2>1 DEF Above
  <2> QED
    BY <2>1, <2>2, <2>3
<1> QED
    BY <1>2 DEF Above

LEMMA EndsAreAbove ==
    ASSUME NEW a \in DNs, NEW j \in 1 .. Len(a) + 1
    PROVE  /\ SubSeq(a, j, Len(a)) \in DNs
           /\ Len(SubSeq(a, j, Len(a))) = Len(a) - j + 1
           /\ Above(SubSeq(a, j, Len(a)), a)
<1> DEFINE s == SubSeq(a, j, Len(a))
           n == Len(a)
<1>1. n \in Nat /\ a \in Seq(Int \X STRING) /\ DOMAIN a = 1 .. n
    BY FoldTyped DEF DNs
<1>2. s \in DNs /\ Len(s) = n - j + 1 /\ \A i \in 1 .. n - j + 1 : s[i] = a[j + i - 1]
  <2>1. s \in Seq(Int \X STRING)
    BY <1>1
  <2>2. Len(s) = n - j + 1
    BY <1>1
  <2>3. \A i \in 1 .. n - j + 1 : s[i] = a[j + i - 1]
    BY <1>1
  <2> QED
    BY <2>1, <2>2, <2>3 DEF DNs
<1> HIDE DEF s
<1>3. ASSUME NEW i \in 1 .. Len(s)
      PROVE  Fold(s)[i] = Fold(a)[n - Len(s) + i]
  <2>1. n - Len(s) + i = j + i - 1 /\ j + i - 1 \in 1 .. n /\ i \in 1 .. n - j + 1
    BY <1>1, <1>2
  <2>2. Fold(s)[i] = s[i][1] /\ Fold(a)[j + i - 1] = a[j + i - 1][1]
    BY <1>1, <1>2, <2>1, FoldTyped DEF Fold
  <2> QED
    BY <1>2, <2>1, <2>2
<1> QED
    BY <1>1, <1>2, <1>3 DEF Above, s

(* All of it together, for names that are not looked into further.         *)
LEMMA InLine ==
    /\ \A a \in DNs : Len(a) \in Nat /\ Above(a, a)
    /\ \A a, b \in DNs : /\ DepthUnder(a, b) = IF Above(b, a) THEN Len(a) - Len(b) ELSE -1
                         /\ Above(b, a) => Len(b) <= Len(a)
                         /\ EqualDN(a, b) <=> Len(a) = Len(b) /\ Above(b, a)
                         /\ EqualDN(a, b) <=> EqualDN(b, a)
    /\ \A a, b, c \in DNs : Above(a, b) /\ Above(b, c) => Above(a, c)
    /\ \A a, b, c \in DNs : Above(a, c) /\ Above(b, c) /\ Len(a) <= Len(b) => Above(a, b)
<1>1. \A a \in DNs : Len(a) \in Nat /\ Above(a, a)
  <2> SUFFICES ASSUME NEW a \in DNs
               PROVE  Len(a) \in Nat /\ Above(a, a)
    OBVIOUS
  <2>1. EqualDN(a, a)
    BY DEF EqualDN
  <2> QED
    BY <2>1, EqualIs, FoldTyped
<1>2. \A a, b \in DNs : /\ DepthUnder(a, b) = IF Above(b, a) THEN Len(a) - Len(b) ELSE -1
                        /\ Above(b, a) => Len(b) <= Len(a)
                        /\ EqualDN(a, b) <=> Len(a) = Len(b) /\ Above(b, a)
                        /\ EqualDN(a, b) <=> EqualDN(b, a)
  <2> SUFFICES ASSUME NEW a \in DNs, NEW b \in DNs
               PROVE  /\ DepthUnder(a, b) = IF Above(b, a) THEN Len(a) - Len(b) ELSE -1
                      /\ Above(b, a) => Len(b) <= Len(a)
                      /\ EqualDN(a, b) <=> Len(a) = Len(b) /\ Above(b, a)
                      /\ EqualDN(a, b) <=> EqualDN(b, a)
    OBVIOUS
  <2>1. DepthUnder(a, b) = IF Above(b, a) THEN Len(a) - Len(b) ELSE -1
    BY DepthIs
  <2>2. Above(b, a) => Len(b) <= Len(a)
    BY DEF Above
  <2>3. EqualDN(a, b) <=> Len(a) = Len(b) /\ Above(b, a)
    BY EqualIs
  <2>4. EqualDN(a, b) <=> EqualDN(b, a)
    BY DEF EqualDN
  <2> QED
    BY <2>1, <2>2, <2>3, <2>4
<1>3. \A a, b, c \in DNs : Above(a, b) /\ Above(b, c) => Above(a, c)
    BY AboveIsTransitive
<1>4. \A a, b, c \in DNs : Above(a, c) /\ Above(b, c) /\ Len(a) <= Len(b) => Above(a, b)
    BY AboveIsALine
<1> QED
    BY <1>1, <1>2, <1>3, <1>4

LEMMA LeastOf ==
    ASSUME NEW T \in SUBSET Nat, T # {}
    PROVE  \E x \in T : \A y \in T : x <= y
<1>1. PICK x \in T : \A y \in T : ~(<<y, x>> \in OpToRel(<, Nat))
    BY NatLessThanWellFounded, WFMin
<1>2. \A y \in T : ~(y < x)
    BY <1>1 DEF OpToRel
<1> QED
    BY <1>2

LEMMA GreatestOf ==
    ASSUME NEW n \in Nat, NEW T \in SUBSET (0 .. n), T # {}
    PROVE  \E x \in T : \A y \in T : y <= x
<1> DEFINE U == {n - y : y \in T}
<1>1. U \in SUBSET Nat /\ U # {}
  <2>1. \A y \in T : n - y \in Nat
    OBVIOUS
  <2> QED
    BY <2>1
<1>2. PICK u \in U : \A y \in U : u <= y
    BY <1>1, LeastOf
<1>3. PICK x \in T : u = n - x
    OBVIOUS
<1>4. ASSUME NEW y \in T PROVE y <= x
  <2>1. n - y \in U
    OBVIOUS
  <2>2. n - x <= n - y
    BY <1>2, <1>3, <2>1
  <2>3. x \in 0 .. n /\ y \in 0 .. n
    OBVIOUS
  <2> QED
    BY <2>2, <2>3
<1> QED
    BY <1>4

ProperBases == Seq(DNs \ {<<>>})

(* The base of a DN is the longest of those it lies under.                 *)
LEMMA BaseIsBest ==
    ASSUME NEW dn \in DNs, NEW bases \in ProperBases
    PROVE  /\ BestBase(dn, bases) = <<>> <=> \A b \in Range(bases) : ~Above(b, dn)
           /\ BestBase(dn, bases) # <<>> =>
                 /\ BestBase(dn, bases) \in Range(bases) /\ BestBase(dn, bases) \in DNs
                 /\ Above(BestBase(dn, bases), dn)
                 /\ \A b \in Range(bases) :
                       Above(b, dn) => Len(b) <= Len(BestBase(dn, bases))
<1> DEFINE S == Containing(dn, bases)
<1>0. dn = <<>> => \A b \in Range(bases) : ~Above(b, dn)
  <2> SUFFICES ASSUME dn = <<>>, NEW b \in Range(bases), Above(b, dn)
               PROVE  FALSE
    OBVIOUS
  <2>1. b \in DNs /\ b # <<>>
    BY DEF ProperBases, Range
  <2>2. Len(b) <= Len(dn) /\ Len(b) \in Nat /\ Len(dn) = 0
    BY <2>1, InLine
  <2>3. b = <<>>
    BY <2>1, <2>2, EmptySeq DEF DNs
  <2> QED
    BY <2>1, <2>3
<1>1. \A i \in DOMAIN bases : /\ bases[i] \in DNs /\ bases[i] # <<>> /\ Len(bases[i]) \in Nat
                              /\ bases[i] \in Range(bases)
    BY InLine DEF ProperBases, Range
<1>2. S = {i \in DOMAIN bases : Above(bases[i], dn)}
  <2>1. \A i \in DOMAIN bases : DepthUnder(dn, bases[i]) >= 0 <=> Above(bases[i], dn)
    <3> SUFFICES ASSUME NEW i \in DOMAIN bases
                 PROVE  DepthUnder(dn, bases[i]) >= 0 <=> Above(bases[i], dn)
      OBVIOUS
    <3>1. /\ bases[i] \in DNs /\ Len(bases[i]) \in Nat /\ Len(dn) \in Nat
          /\ DepthUnder(dn, bases[i])
                = IF Above(bases[i], dn) THEN Len(dn) - Len(bases[i]) ELSE -1
          /\ Above(bases[i], dn) => Len(bases[i]) <= Len(dn)
      BY <1>1, InLine
    <3> QED
      BY <3>1
  <2> QED
    BY <2>1 DEF Containing
<1>3. CASE S = {}
  <2>1. BestBase(dn, bases) = <<>>
    BY <1>3 DEF BestBase
  <2>2. \A b \in Range(bases) : ~Above(b, dn)
    BY <1>2, <1>3 DEF Range
  <2> QED
    BY <2>1, <2>2
<1>5. CASE dn = <<>>
  <2>1. BestBase(dn, bases) = <<>>
    BY <1>5 DEF BestBase, IsDN
  <2> QED
    BY <1>0, <1>5, <2>1
<1>4. CASE S # {} /\ dn # <<>>
  <2> HIDE DEF S
  <2> DEFINE L == Longest(bases, S)
  <2>1. S \subseteq DOMAIN bases /\ DOMAIN bases \in SUBSET Nat
        /\ \A i \in S : Above(bases[i], dn) /\ Len(bases[i]) \in 0 .. Len(dn)
    <3>1. S \subseteq DOMAIN bases /\ DOMAIN bases \in SUBSET Nat
      BY <1>2 DEF ProperBases
    <3>2. ASSUME NEW i \in S
          PROVE  Above(bases[i], dn) /\ Len(bases[i]) \in 0 .. Len(dn)
      <4>1. Above(bases[i], dn) /\ bases[i] \in DNs /\ Len(bases[i]) \in Nat
        BY <1>1, <1>2
      <4>2. Len(bases[i]) <= Len(dn) /\ Len(dn) \in Nat
        BY <4>1, InLine
      <4> QED
        BY <4>1, <4>2
    <3> QED
      BY <3>1, <3>2
  <2>2. L # {}
    <3> DEFINE T == {Len(bases[i]) : i \in S}
    <3>0. Len(dn) \in Nat
      BY InLine
    <3>1. T \in SUBSET (0 .. Len(dn)) /\ T # {}
      BY <1>4, <2>1
    <3>2. PICK m \in T : \A y \in T : y <= m
      BY <3>0, <3>1, GreatestOf
    <3>3. PICK i \in S : m = Len(bases[i])
      OBVIOUS
    <3>4. \A j \in S : Len(bases[j]) <= Len(bases[i])
      BY <3>2, <3>3
    <3> QED
      BY <3>4 DEF Longest
  <2>3. L \in SUBSET Nat
    BY <2>1 DEF Longest
  <2>4. \E i \in L : \A j \in L : i <= j
    BY <2>2, <2>3, LeastOf
  <2>5. First(L) \in L
    BY <2>4 DEF First
  <2>6. PICK f \in L : f = First(L)
    BY <2>5
  <2>7. f \in S /\ \A j \in S : Len(bases[j]) <= Len(bases[f])
    BY DEF Longest
  <2>8. BestBase(dn, bases) = bases[f]
    BY <1>4, <2>6 DEF BestBase, IsDN, S
  <2>9. /\ bases[f] \in Range(bases) /\ bases[f] \in DNs /\ bases[f] # <<>>
        /\ Above(bases[f], dn)
    BY <1>1, <2>1, <2>7
  <2>10. \A b \in Range(bases) : Above(b, dn) => Len(b) <= Len(bases[f])
    BY <1>2, <2>7 DEF Range
  <2> QED
    BY <2>8, <2>9, <2>10
<1> QED
    BY <1>3, <1>4, <1>5

LEMMA SameBase ==
    ASSUME NEW x \in DNs, NEW y \in DNs, NEW bases \in ProperBases,
           \A b \in Range(bases) : Above(b, x) <=> Above(b, y)
    PROVE  BestBase(x, bases) = BestBase(y, bases)
<1>1. ASSUME NEW i \in DOMAIN bases
      PROVE  DepthUnder(x, bases[i]) >= 0 <=> DepthUnder(y, bases[i]) >= 0
  <2>1. bases[i] \in DNs /\ bases[i] \in Range(bases)
    BY DEF ProperBases, Range
  <2>2. Above(bases[i], x) <=> Above(bases[i], y)
    BY <2>1
  <2>3. /\ Len(bases[i]) \in Nat /\ Len(x) \in Nat /\ Len(y) \in Nat
        /\ DepthUnder(x, bases[i])
              = IF Above(bases[i], x) THEN Len(x) - Len(bases[i]) ELSE -1
        /\ DepthUnder(y, bases[i])
              = IF Above(bases[i], y) THEN Len(y) - Len(bases[i]) ELSE -1
        /\ Above(bases[i], x) => Len(bases[i]) <= Len(x)
        /\ Above(bases[i], y) => Len(bases[i]) <= Len(y)
    BY <2>1, InLine
  <2> QED
    BY <2>2, <2>3
<1>2. Containing(x, bases) = Containing(y, bases)
    BY <1>1 DEF Containing
<1>3. BestBase(x, bases) = <<>> <=> BestBase(y, bases) = <<>>
    BY BaseIsBest
<1>4. CASE BestBase(x, bases) # <<>>
  <2>1. IsDN(x) /\ IsDN(y)
    BY <1>3, <1>4 DEF BestBase
  <2> QED
    BY <1>2, <2>1 DEF BestBase
<1> QED
    BY <1>3, <1>4

(* What lies between two DNs of one context is of that context.            *)
LEMMA BaseOfWhatIsBetween ==
    ASSUME NEW dn \in DNs, NEW x \in DNs, NEW e \in DNs, NEW bases \in ProperBases,
           Above(dn, x), Above(x, e), BestBase(e, bases) = BestBase(dn, bases)
    PROVE  BestBase(x, bases) = BestBase(dn, bases)
<1>1. ASSUME NEW b \in Range(bases)
      PROVE  Above(b, x) <=> Above(b, e)
  <2>1. b \in DNs
    BY DEF ProperBases, Range
  <2>2. Above(b, x) => Above(b, e)
    BY <2>1, InLine
  <2>3. ASSUME Above(b, e)
        PROVE  Above(b, x)
    <3>1. /\ BestBase(e, bases) # <<>> /\ BestBase(e, bases) \in DNs
          /\ Len(b) <= Len(BestBase(e, bases))
      BY <2>3, BaseIsBest
    <3>2. Above(BestBase(e, bases), dn)
      BY <3>1, BaseIsBest
    <3>3. Len(b) <= Len(x)
      BY <2>1, <3>1, <3>2, InLine
    <3> QED
      BY <2>1, <2>3, <3>3, InLine
  <2> QED
    BY <2>2, <2>3
<1> QED
    BY <1>1, SameBase

LEMMA NoTwins ==
    ASSUME NEW s \in Seq(DNs), NEW t, t = WithoutTwins(s)
    PROVE  /\ t \in Seq(DNs)
           /\ \A k \in DOMAIN t : \E i \in DOMAIN s : t[k] = s[i]
           /\ \A i \in DOMAIN s : \E k \in DOMAIN t : EqualDN(t[k], s[i])
           /\ \A k, l \in DOMAIN t : EqualDN(t[k], t[l]) => k = l
<1> DEFINE S == {i \in DOMAIN s : \A j \in 1 .. i - 1 : ~EqualDN(s[j], s[i])}
<1>1. t = Selected(s, S)
    BY DEF WithoutTwins
<1>2. S \in SUBSET DOMAIN s /\ DOMAIN s = 1 .. Len(s) /\ Len(s) \in Nat
    OBVIOUS
<1>3. /\ t \in Seq(DNs)
      /\ \A k \in DOMAIN t : \E x \in S : t[k] = s[x]
      /\ \A x \in S : \E k \in DOMAIN t : t[k] = s[x]
      /\ \A k, l \in DOMAIN t : k # l => \E x, y \in S : x # y /\ t[k] = s[x] /\ t[l] = s[y]
  <2> HIDE DEF S
  <2>1. S \in SUBSET DOMAIN s
    BY <1>2
  <2>2. t \in Seq(DNs)
    BY <1>1, <2>1, SelectedElements
  <2>3. \A k \in DOMAIN t : \E x \in S : t[k] = s[x]
    BY <1>1, <2>1, SelectedElements
  <2>4. \A x \in S : \E k \in DOMAIN t : t[k] = s[x]
    BY <1>1, <2>1, SelectedElements
  <2>5. \A k, l \in DOMAIN t : k # l =>
           \E x, y \in S : x # y /\ t[k] = s[x] /\ t[l] = s[y]
    BY <1>1, <2>1, SelectedElements
  <2> QED
    BY <2>2, <2>3, <2>4, <2>5
<1>4. ASSUME NEW x \in S, NEW y \in S, x # y
      PROVE  ~EqualDN(s[x], s[y])
  <2>1. CASE x < y
    BY <2>1
  <2>2. CASE y < x
    BY <2>2 DEF EqualDN
  <2> QED
    BY <1>4, <2>1, <2>2
<1>5. ASSUME NEW i \in DOMAIN s
      PROVE  \E k \in DOMAIN t : EqualDN(t[k], s[i])
  <2> DEFINE T == {j \in DOMAIN s : EqualDN(s[j], s[i])}
  <2>1. T \in SUBSET Nat /\ i \in T
    BY DEF EqualDN
  <2>2. PICK m \in T : \A j \in T : m <= j
    BY <2>1, LeastOf
  <2>3. ASSUME NEW j \in 1 .. m - 1, EqualDN(s[j], s[m])
        PROVE  FALSE
    <3>1. j \in DOMAIN s /\ j < m
      OBVIOUS
    <3>2. j \in T
      BY <2>3, <3>1 DEF EqualDN
    <3> QED
      BY <2>2, <3>1, <3>2
  <2>4. m \in S
    BY <2>3
  <2> QED
    BY <1>3, <2>4
<1> HIDE DEF S
<1>6. ASSUME NEW k \in DOMAIN t, NEW l \in DOMAIN t, k # l
      PROVE  ~EqualDN(t[k], t[l])
  <2>1. PICK x \in S, y \in S : x # y /\ t[k] = s[x] /\ t[l] = s[y]
    BY <1>3, <1>6
  <2>2. ~EqualDN(s[x], s[y])
    BY <1>4, <2>1
  <2> QED
    BY <2>1, <2>2
<1>7. \A k \in DOMAIN t : \E i \in DOMAIN s : t[k] = s[i]
    BY <1>2, <1>3
<1>8. \A k, l \in DOMAIN t : EqualDN(t[k], t[l]) => k = l
    BY <1>6
<1> QED
    BY <1>3, <1>5, <1>7, <1>8

(* The entries of an answer at a depth.                                    *)
LEMMA ThoseAtDepth ==
    ASSUME NEW p \in DNs, NEW answer \in Seq(DNs), NEW depths, NEW t,
           t = AtDepth(p, answer, depths)
    PROVE  /\ t \in Seq(DNs)
           /\ \A k \in DOMAIN t : \E i \in DOMAIN answer :
                 t[k] = answer[i] /\ DepthUnder(answer[i], p) \in depths
           /\ \A i \in DOMAIN answer :
                 DepthUnder(answer[i], p) \in depths => \E k \in DOMAIN t : t[k] = answer[i]
<1> DEFINE S == {i \in DOMAIN answer : DepthUnder(answer[i], p) \in depths}
<1>1. t = Selected(answer, S) /\ S \in SUBSET DOMAIN answer
    BY DEF AtDepth
<1>2. \A i \in DOMAIN answer : i \in S <=> DepthUnder(answer[i], p) \in depths
    OBVIOUS
<1> HIDE DEF S
<1>3. t \in Seq(DNs)
    BY <1>1, SelectedElements
<1>4. \A k \in DOMAIN t : \E i \in S : t[k] = answer[i]
    BY <1>1, SelectedElements
<1>5. \A i \in S : \E k \in DOMAIN t : t[k] = answer[i]
    BY <1>1, SelectedElements
<1>6. \A k \in DOMAIN t : \E i \in DOMAIN answer :
          t[k] = answer[i] /\ DepthUnder(answer[i], p) \in depths
    BY <1>1, <1>2, <1>4
<1>7. \A i \in DOMAIN answer :
          DepthUnder(answer[i], p) \in depths => \E k \in DOMAIN t : t[k] = answer[i]
    BY <1>2, <1>5
<1> QED
    BY <1>3, <1>6, <1>7

(* The ancestor right under p of what is deeper.                           *)
LEMMA AncestorIsBetween ==
    ASSUME NEW p \in DNs, NEW e \in DNs, DepthUnder(e, p) \in Nat \ {0}
    PROVE  /\ AncestorUnder(e, p) \in DNs
           /\ Above(AncestorUnder(e, p), e)
           /\ DepthUnder(AncestorUnder(e, p), p) = 1
<1>1. /\ Len(e) \in Nat /\ Len(p) \in Nat /\ Above(p, e)
      /\ DepthUnder(e, p) = Len(e) - Len(p) /\ Len(p) < Len(e)
  <2>1. /\ Len(e) \in Nat /\ Len(p) \in Nat
        /\ DepthUnder(e, p) = IF Above(p, e) THEN Len(e) - Len(p) ELSE -1
    BY InLine
  <2>2. Above(p, e)
    BY <2>1
  <2> QED
    BY <2>1, <2>2
<1> DEFINE d == DepthUnder(e, p)
           a == AncestorUnder(e, p)
<1>2. a = SubSeq(e, d, Len(e))
    BY DEF AncestorUnder
<1>3. d \in 1 .. Len(e) + 1
    BY <1>1
<1>4. a \in DNs /\ Len(a) = Len(e) - d + 1 /\ Above(a, e)
    BY <1>2, <1>3, EndsAreAbove
<1>5. Len(a) = Len(p) + 1
    BY <1>1, <1>4
<1> HIDE DEF a, d
<1>6. Above(p, a)
    BY <1>1, <1>4, <1>5, InLine
<1>7. DepthUnder(a, p) = 1
  <2>1. DepthUnder(a, p) = Len(a) - Len(p)
    BY <1>4, <1>6, InLine
  <2> QED
    BY <1>1, <1>5, <2>1
<1> QED
    BY <1>4, <1>7 DEF a

RowType == [dn : DNs, synthesized : BOOLEAN]

(* Client.Children on an answer: the rows are what is one level down, each *)
(* once; those that stand in for others are not in the answer; and nothing *)
(* of the answer is without a row.                                         *)
RowsOf(p, answer, rows) ==
    /\ rows \in Seq(RowType)
    /\ \A k \in DOMAIN rows : LET r == rows[k] IN
          /\ DepthUnder(r.dn, p) = 1
          /\ r.synthesized => \A i \in DOMAIN answer : ~EqualDN(answer[i], r.dn)
          /\ \E i \in DOMAIN answer : Above(r.dn, answer[i])
    /\ \A k, l \in DOMAIN rows : EqualDN(rows[k].dn, rows[l].dn) => k = l
    /\ \A i \in DOMAIN answer : DepthUnder(answer[i], p) \in Nat \ {0} =>
          \E k \in DOMAIN rows : Above(rows[k].dn, answer[i])

LEMMA DirectChildren ==
    ASSUME NEW p \in DNs, NEW answer \in Seq(DNs), NEW rows,
           rows = directChildren(p, answer)
    PROVE  RowsOf(p, answer, rows)
<1> DEFINE level   == AtDepth(p, answer, {1})
           real    == WithoutTwins(level)
           deeper  == AtDepth(p, answer, Nat \ {0, 1})
           above   == [i \in DOMAIN deeper |-> AncestorUnder(deeper[i], p)]
           implied == WithoutTwins(above)
           S       == {i \in DOMAIN implied :
                         \A j \in DOMAIN real : ~EqualDN(real[j], implied[i])}
           missing == Selected(implied, S)
           R1 == [i \in DOMAIN real |-> Row(real[i], FALSE)]
           R2 == [i \in DOMAIN missing |-> Row(missing[i], TRUE)]
<1>1. rows = R1 \o R2
    BY DEF directChildren
<1>2. /\ \A i \in DOMAIN above : above[i] = AncestorUnder(deeper[i], p)
      /\ DOMAIN above = DOMAIN deeper
    OBVIOUS
<1>3. S \in SUBSET DOMAIN implied
    OBVIOUS
<1>4. \A i \in DOMAIN implied :
          i \in S <=> \A j \in DOMAIN real : ~EqualDN(real[j], implied[i])
    OBVIOUS
<1>0. level = AtDepth(p, answer, {1}) /\ deeper = AtDepth(p, answer, Nat \ {0, 1})
    OBVIOUS
<1> HIDE DEF level, deeper
<1>5. level \in Seq(DNs) /\ deeper \in Seq(DNs)
    BY <1>0, ThoseAtDepth
<1>6. /\ \A k \in DOMAIN level : \E i \in DOMAIN answer :
            level[k] = answer[i] /\ DepthUnder(answer[i], p) = 1
      /\ \A i \in DOMAIN answer :
            DepthUnder(answer[i], p) = 1 => \E k \in DOMAIN level : level[k] = answer[i]
  <2> DEFINE D == {1}
  <2>0. level = AtDepth(p, answer, D)
    BY <1>0
  <2> HIDE DEF D
  <2>1. \A k \in DOMAIN level : \E i \in DOMAIN answer :
            level[k] = answer[i] /\ DepthUnder(answer[i], p) \in D
    BY <2>0, ThoseAtDepth
  <2>2. \A i \in DOMAIN answer :
            DepthUnder(answer[i], p) \in D => \E k \in DOMAIN level : level[k] = answer[i]
    BY <2>0, ThoseAtDepth
  <2> USE DEF D
  <2>3. \A k \in DOMAIN level : \E i \in DOMAIN answer :
            level[k] = answer[i] /\ DepthUnder(answer[i], p) = 1
    BY <2>1
  <2>4. \A i \in DOMAIN answer :
            DepthUnder(answer[i], p) = 1 => \E k \in DOMAIN level : level[k] = answer[i]
    BY <2>2
  <2> QED
    BY <2>3, <2>4
<1>7. /\ \A k \in DOMAIN deeper : \E i \in DOMAIN answer :
            deeper[k] = answer[i] /\ DepthUnder(answer[i], p) \in Nat \ {0, 1}
      /\ \A i \in DOMAIN answer :
            DepthUnder(answer[i], p) \in Nat \ {0, 1} =>
                \E k \in DOMAIN deeper : deeper[k] = answer[i]
  <2>1. \A k \in DOMAIN deeper : \E i \in DOMAIN answer :
            deeper[k] = answer[i] /\ DepthUnder(answer[i], p) \in Nat \ {0, 1}
    BY <1>0, ThoseAtDepth
  <2> DEFINE depths == Nat \ {0, 1}
  <2>2. deeper = AtDepth(p, answer, depths)
    BY <1>0
  <2> HIDE DEF depths
  <2>3. \A i \in DOMAIN answer :
            DepthUnder(answer[i], p) \in depths =>
                \E k \in DOMAIN deeper : deeper[k] = answer[i]
    BY <2>2, ThoseAtDepth
  <2> QED
    BY <2>1, <2>3 DEF depths
<1>8. ASSUME NEW k \in DOMAIN deeper
      PROVE  /\ above[k] \in DNs /\ Above(above[k], deeper[k])
             /\ DepthUnder(above[k], p) = 1
  <2>1. PICK i \in DOMAIN answer :
            deeper[k] = answer[i] /\ DepthUnder(answer[i], p) \in Nat \ {0, 1}
    BY <1>7
  <2>2. deeper[k] \in DNs /\ DepthUnder(deeper[k], p) \in Nat \ {0}
    BY <2>1
  <2> QED
    BY <1>2, <2>2, AncestorIsBetween
<1>9. above \in Seq(DNs)
    BY <1>5, <1>8
<1> HIDE DEF above
<1>10. /\ real \in Seq(DNs)
       /\ \A k \in DOMAIN real : \E i \in DOMAIN level : real[k] = level[i]
       /\ \A i \in DOMAIN level : \E k \in DOMAIN real : EqualDN(real[k], level[i])
       /\ \A k, l \in DOMAIN real : EqualDN(real[k], real[l]) => k = l
    BY <1>5, NoTwins
<1>11. /\ implied \in Seq(DNs)
       /\ \A k \in DOMAIN implied : \E i \in DOMAIN above : implied[k] = above[i]
       /\ \A i \in DOMAIN above : \E k \in DOMAIN implied : EqualDN(implied[k], above[i])
       /\ \A k, l \in DOMAIN implied : EqualDN(implied[k], implied[l]) => k = l
    BY <1>9, NoTwins
<1> HIDE DEF real, implied, S
<1>12. missing \in Seq(DNs)
    BY <1>3, <1>11, SelectedElements
<1>13. \A k \in DOMAIN missing : \E x \in S : missing[k] = implied[x]
    BY <1>3, <1>11, SelectedElements
<1>14. \A x \in S : \E k \in DOMAIN missing : missing[k] = implied[x]
    BY <1>3, <1>11, SelectedElements
<1>15. \A k, l \in DOMAIN missing : k # l =>
           \E x, y \in S : x # y /\ missing[k] = implied[x] /\ missing[l] = implied[y]
    BY <1>3, <1>11, SelectedElements
<1> HIDE DEF missing
<1>16. ASSUME NEW k \in DOMAIN missing, NEW l \in DOMAIN missing,
              EqualDN(missing[k], missing[l])
       PROVE  k = l
  <2> SUFFICES ASSUME k # l PROVE FALSE
    OBVIOUS
  <2>1. PICK x \in S, y \in S : x # y /\ missing[k] = implied[x] /\ missing[l] = implied[y]
    BY <1>15
  <2>2. x \in DOMAIN implied /\ y \in DOMAIN implied /\ EqualDN(implied[x], implied[y])
    BY <1>3, <1>16, <2>1
  <2> QED
    BY <1>11, <2>1, <2>2
<1>17. ASSUME NEW k \in DOMAIN real
       PROVE  /\ real[k] \in DNs
              /\ \E i \in DOMAIN answer : real[k] = answer[i]
              /\ DepthUnder(real[k], p) = 1
  <2>1. PICK i \in DOMAIN level : real[k] = level[i]
    BY <1>10
  <2>2. PICK j \in DOMAIN answer : level[i] = answer[j] /\ DepthUnder(answer[j], p) = 1
    BY <1>6
  <2> QED
    BY <1>10, <2>1, <2>2
<1>18. ASSUME NEW k \in DOMAIN missing
       PROVE  /\ missing[k] \in DNs
              /\ \E i \in DOMAIN answer : Above(missing[k], answer[i])
              /\ DepthUnder(missing[k], p) = 1
              /\ \A j \in DOMAIN real : ~EqualDN(real[j], missing[k])
  <2>1. PICK x \in S : missing[k] = implied[x]
    BY <1>13
  <2>2. x \in DOMAIN implied /\ \A j \in DOMAIN real : ~EqualDN(real[j], implied[x])
    BY <1>3, <1>4
  <2>3. PICK i \in DOMAIN above : implied[x] = above[i]
    BY <1>11, <2>2
  <2>4. PICK j \in DOMAIN answer : deeper[i] = answer[j]
    BY <1>2, <1>7, <2>3
  <2>5. Above(above[i], answer[j]) /\ DepthUnder(above[i], p) = 1
    BY <1>2, <1>8, <2>3, <2>4
  <2> QED
    BY <1>12, <2>1, <2>2, <2>3, <2>5
<1>19. ASSUME NEW i \in DOMAIN answer, DepthUnder(answer[i], p) = 1
       PROVE  \E k \in DOMAIN real : EqualDN(real[k], answer[i])
    BY <1>6, <1>10, <1>19
<1>20. ASSUME NEW k \in DOMAIN missing, NEW i \in DOMAIN answer
       PROVE  ~EqualDN(answer[i], missing[k])
  <2> SUFFICES ASSUME EqualDN(answer[i], missing[k]) PROVE FALSE
    OBVIOUS
  <2>1. DepthUnder(answer[i], p) = 1
    <3>1. missing[k] \in DNs /\ answer[i] \in DNs /\ DepthUnder(missing[k], p) = 1
      BY <1>18
    <3>2. Fold(answer[i]) = Fold(missing[k]) /\ Len(answer[i]) = Len(missing[k])
      BY <3>1, InLine DEF EqualDN
    <3> QED
      BY <3>1, <3>2 DEF DepthUnder
  <2>2. PICK j \in DOMAIN real : EqualDN(real[j], answer[i])
    BY <1>19, <2>1
  <2>3. EqualDN(real[j], missing[k])
    BY <2>2 DEF EqualDN
  <2> QED
    BY <1>18, <2>3
<1>21. ASSUME NEW i \in DOMAIN answer, DepthUnder(answer[i], p) \in Nat \ {0}
       PROVE  \/ \E k \in DOMAIN real : Above(real[k], answer[i])
              \/ \E k \in DOMAIN missing : Above(missing[k], answer[i])
  <2>1. CASE DepthUnder(answer[i], p) = 1
    <3>1. PICK k \in DOMAIN real : EqualDN(real[k], answer[i])
      BY <1>19, <2>1
    <3>2. Above(real[k], answer[i])
      BY <1>10, <3>1, InLine
    <3> QED
      BY <3>2
  <2>2. CASE DepthUnder(answer[i], p) # 1
    <3>1. DepthUnder(answer[i], p) \in Nat \ {0, 1}
      BY <1>21, <2>2
    <3>2. PICK m \in DOMAIN deeper : deeper[m] = answer[i]
      BY <1>7, <3>1
    <3>3. above[m] \in DNs /\ Above(above[m], answer[i])
      BY <1>8, <3>2
    <3>4. PICK x \in DOMAIN implied : EqualDN(implied[x], above[m])
      BY <1>2, <1>11, <3>2
    <3>5. implied[x] \in DNs /\ answer[i] \in DNs
      BY <1>11
    <3>6. Above(implied[x], above[m])
      BY <3>3, <3>4, <3>5, InLine
    <3>7. Above(implied[x], answer[i])
      BY <3>3, <3>5, <3>6, InLine
    <3>8. CASE x \in S
      <4>1. PICK k \in DOMAIN missing : missing[k] = implied[x]
        BY <1>14, <3>8
      <4> QED
        BY <3>7, <4>1
    <3>9. CASE x \notin S
      <4>1. PICK j \in DOMAIN real : EqualDN(real[j], implied[x])
        BY <1>4, <3>9
      <4>2. real[j] \in DNs
        BY <1>10
      <4>3. Above(real[j], implied[x])
        BY <3>5, <4>1, <4>2, InLine
      <4>4. Above(real[j], answer[i])
        BY <3>5, <3>7, <4>2, <4>3, InLine
      <4> QED
        BY <4>4
    <3> QED
      BY <3>8, <3>9
  <2> QED
    BY <2>1, <2>2
<1> DEFINE n == Len(real)
           m == Len(missing)
<1>22. n \in Nat /\ m \in Nat /\ DOMAIN real = 1 .. n /\ DOMAIN missing = 1 .. m
    BY <1>10, <1>12
<1>23. /\ R1 \in Seq(RowType) /\ Len(R1) = n
       /\ R2 \in Seq(RowType) /\ Len(R2) = m
       /\ \A k \in 1 .. n : R1[k].dn = real[k] /\ R1[k].synthesized = FALSE
       /\ \A k \in 1 .. m : R2[k].dn = missing[k] /\ R2[k].synthesized = TRUE
  <2>1. \A k \in DOMAIN real : Row(real[k], FALSE) \in RowType
    BY <1>17 DEF Row, RowType
  <2>2. \A k \in DOMAIN missing : Row(missing[k], TRUE) \in RowType
    BY <1>18 DEF Row, RowType
  <2> HIDE DEF n, m
  <2>3. R1 \in [1 .. n -> RowType] /\ R2 \in [1 .. m -> RowType]
    BY <1>22, <2>1, <2>2
  <2>4. \A l \in Nat : \A f \in [1 .. l -> RowType] : f \in Seq(RowType) /\ Len(f) = l
    OBVIOUS
  <2>5. R1 \in Seq(RowType) /\ Len(R1) = n /\ R2 \in Seq(RowType) /\ Len(R2) = m
    <3> HIDE DEF R1, R2
    <3> QED
      BY <1>22, <2>3, <2>4
  <2>6. \A k \in 1 .. n : R1[k].dn = real[k] /\ R1[k].synthesized = FALSE
    BY <1>22 DEF Row
  <2>7. \A k \in 1 .. m : R2[k].dn = missing[k] /\ R2[k].synthesized = TRUE
    BY <1>22 DEF Row
  <2> QED
    BY <2>5, <2>6, <2>7
<1> HIDE DEF R1, R2, n, m
<1>24. /\ rows \in Seq(RowType) /\ DOMAIN rows = 1 .. n + m
       /\ \A k \in 1 .. n : rows[k] = R1[k]
       /\ \A k \in 1 .. m : rows[n + k] = R2[k]
  <2>0. /\ R1 \o R2 \in Seq(RowType) /\ Len(R1 \o R2) = Len(R1) + Len(R2)
        /\ \A i \in 1 .. Len(R1) + Len(R2) :
              (R1 \o R2)[i] = IF i <= Len(R1) THEN R1[i] ELSE R2[i - Len(R1)]
    BY <1>23, ConcatProperties
  <2>1. /\ rows \in Seq(RowType) /\ Len(rows) = n + m
        /\ \A i \in 1 .. n + m : rows[i] = IF i <= n THEN R1[i] ELSE R2[i - n]
    BY <1>1, <1>23, <2>0
  <2>2. \A k \in 1 .. n : k \in 1 .. n + m /\ k <= n
    BY <1>22
  <2>3. \A k \in 1 .. m : n + k \in 1 .. n + m /\ ~(n + k <= n) /\ (n + k) - n = k
    BY <1>22
  <2>4. \A k \in 1 .. m : rows[n + k] = R2[k]
    BY <2>1, <2>3
  <2> QED
    BY <2>1, <2>2, <2>4
<1>25. ASSUME NEW k \in DOMAIN rows
       PROVE  \/ /\ k \in DOMAIN real
                 /\ rows[k].dn = real[k] /\ rows[k].synthesized = FALSE
              \/ /\ k - n \in DOMAIN missing
                 /\ rows[k].dn = missing[k - n] /\ rows[k].synthesized = TRUE
  <2>1. CASE k \in 1 .. n
    BY <1>22, <1>23, <1>24, <2>1
  <2>2. CASE k \notin 1 .. n
    <3>1. k - n \in 1 .. m /\ n + (k - n) = k
      BY <1>22, <1>24, <2>2
    <3> QED
      BY <1>22, <1>23, <1>24, <3>1
  <2> QED
    BY <2>1, <2>2
<1>26. ASSUME NEW k \in DOMAIN rows
       PROVE  /\ DepthUnder(rows[k].dn, p) = 1
              /\ rows[k].synthesized =>
                    \A i \in DOMAIN answer : ~EqualDN(answer[i], rows[k].dn)
              /\ \E i \in DOMAIN answer : Above(rows[k].dn, answer[i])
  <2>1. CASE /\ k \in DOMAIN real
             /\ rows[k].dn = real[k] /\ rows[k].synthesized = FALSE
    <3>1. PICK i \in DOMAIN answer : real[k] = answer[i]
      BY <1>17, <2>1
    <3>2. Above(real[k], answer[i])
      BY <1>17, <2>1, <3>1, InLine
    <3> QED
      BY <1>17, <2>1, <3>2
  <2>2. CASE /\ k - n \in DOMAIN missing
             /\ rows[k].dn = missing[k - n] /\ rows[k].synthesized = TRUE
    BY <1>18, <1>20, <2>2
  <2> QED
    BY <1>25, <2>1, <2>2
<1>27. ASSUME NEW k \in DOMAIN rows, NEW l \in DOMAIN rows,
              EqualDN(rows[k].dn, rows[l].dn)
       PROVE  k = l
  <2>1. CASE /\ k \in DOMAIN real /\ rows[k].dn = real[k]
             /\ l \in DOMAIN real /\ rows[l].dn = real[l]
    BY <1>10, <1>27, <2>1
  <2>2. CASE /\ k \in DOMAIN real /\ rows[k].dn = real[k]
             /\ l - n \in DOMAIN missing /\ rows[l].dn = missing[l - n]
    BY <1>18, <1>27, <2>2
  <2>3. CASE /\ k - n \in DOMAIN missing /\ rows[k].dn = missing[k - n]
             /\ l \in DOMAIN real /\ rows[l].dn = real[l]
    <3>1. EqualDN(real[l], missing[k - n])
      BY <1>27, <2>3 DEF EqualDN
    <3> QED
      BY <1>18, <2>3, <3>1
  <2>4. CASE /\ k - n \in DOMAIN missing /\ rows[k].dn = missing[k - n]
             /\ l - n \in DOMAIN missing /\ rows[l].dn = missing[l - n]
    <3>1. k - n = l - n
      BY <1>16, <1>27, <2>4
    <3> QED
      BY <1>22, <1>24, <3>1
  <2> QED
    BY <1>25, <2>1, <2>2, <2>3, <2>4
<1>28. ASSUME NEW i \in DOMAIN answer, DepthUnder(answer[i], p) \in Nat \ {0}
       PROVE  \E k \in DOMAIN rows : Above(rows[k].dn, answer[i])
  <2>1. CASE \E k \in DOMAIN real : Above(real[k], answer[i])
    <3>1. PICK k \in DOMAIN real : Above(real[k], answer[i])
      BY <2>1
    <3>2. k \in DOMAIN rows /\ rows[k].dn = real[k]
      BY <1>22, <1>23, <1>24, <3>1
    <3> QED
      BY <3>1, <3>2
  <2>2. CASE \E k \in DOMAIN missing : Above(missing[k], answer[i])
    <3>1. PICK k \in DOMAIN missing : Above(missing[k], answer[i])
      BY <2>2
    <3>2. n + k \in DOMAIN rows /\ rows[n + k].dn = missing[k]
      BY <1>22, <1>23, <1>24, <3>1
    <3> QED
      BY <3>1, <3>2
  <2> QED
    BY <1>21, <1>28, <2>1, <2>2
<1> QED
    BY <1>24, <1>26, <1>27, <1>28 DEF RowsOf

NamedRows == {r \in RowType : r.dn # <<>>}

LEMMA RowsAreOrdered ==
    ASSUME NEW containers
    PROVE  OrdersRows(containers, NamedRows)
<1> DEFINE holds(r) == r.synthesized \/ Fold(r.dn) \in containers
           rdn(r)   == Fold(r.dn)[1]
<1>1. \A a, b : Before(containers, a, b) <=>
          \/ holds(a) /\ ~holds(b)
          \/ (holds(a) <=> holds(b)) /\ rdn(a) < rdn(b)
    BY DEF Before
<1>2. \A a \in NamedRows : rdn(a) \in Int
  <2> SUFFICES ASSUME NEW a \in NamedRows
               PROVE  rdn(a) \in Int
    OBVIOUS
  <2>1. a.dn \in DNs /\ a.dn # <<>>
    BY DEF NamedRows, RowType
  <2>2. Len(a.dn) \in Nat \ {0}
    <3>1. a.dn \in Seq(Int \X STRING) /\ a.dn # <<>>
      BY <2>1 DEF DNs
    <3> QED
      BY <3>1, EmptySeq
  <2>3. 1 \in 1 .. Len(a.dn)
    BY <2>2
  <2> QED
    BY <2>1, <2>3, FoldTyped
<1> HIDE DEF holds, rdn
<1>3. \A a, b \in NamedRows : Before(containers, a, b) => ~Before(containers, b, a)
    BY <1>1, <1>2
<1>4. \A a, b, c \in NamedRows :
          Before(containers, a, b) /\ ~Before(containers, c, b) => Before(containers, a, c)
  <2> SUFFICES ASSUME NEW a \in NamedRows, NEW b \in NamedRows, NEW c \in NamedRows,
                      Before(containers, a, b), ~Before(containers, c, b)
               PROVE  Before(containers, a, c)
    OBVIOUS
  <2>1. rdn(a) \in Int /\ rdn(b) \in Int /\ rdn(c) \in Int
    BY <1>2
  <2>2. /\ (holds(a) /\ ~holds(b)) \/ ((holds(a) <=> holds(b)) /\ rdn(a) < rdn(b))
        /\ ~((holds(c) /\ ~holds(b)) \/ ((holds(c) <=> holds(b)) /\ rdn(c) < rdn(b)))
    BY <1>1
  <2>3. (holds(a) /\ ~holds(c)) \/ ((holds(a) <=> holds(c)) /\ rdn(a) < rdn(c))
    BY <2>1, <2>2
  <2> QED
    BY <1>1, <2>3
<1> QED
    BY <1>3, <1>4 DEF OrdersRows

-----------------------------------------------------------------------------
(* The order of texts.                                                     *)

LEMMA OneIsAhead ==
    ASSUME NEW x \in Seq(Int), NEW y \in Seq(Int), x # y
    PROVE  \E k \in Nat : LessAt(x, y, k) \/ LessAt(y, x, k)
<1> DEFINE n == Len(x)
           m == Len(y)
           S == {k \in (1 .. n) \cup (1 .. m) : ~(k \in 1 .. n /\ k \in 1 .. m /\ x[k] = y[k])}
<1>1. /\ n \in Nat /\ m \in Nat /\ DOMAIN x = 1 .. n /\ DOMAIN y = 1 .. m
      /\ \A i \in 1 .. n : x[i] \in Int
      /\ \A i \in 1 .. m : y[i] \in Int
    OBVIOUS
<1>2. S # {}
  <2> SUFFICES ASSUME S = {}
               PROVE  FALSE
    OBVIOUS
  <2>1. \A k \in (1 .. n) \cup (1 .. m) : k \in 1 .. n /\ k \in 1 .. m /\ x[k] = y[k]
    OBVIOUS
  <2> HIDE DEF S
  <2>2. n = m
    <3> HIDE DEF n, m
    <3>1. n <= m
      BY <1>1, <2>1
    <3>2. m <= n
      BY <1>1, <2>1
    <3> QED
      BY <1>1, <3>1, <3>2
  <2>3. x = y
    BY <1>1, <2>1, <2>2
  <2> QED
    BY <2>3
<1>3. S \in SUBSET Nat
    BY <1>1
<1>4. PICK k \in S : \A j \in S : k <= j
    BY <1>2, <1>3, LeastOf
<1>5. \A i \in 1 .. k - 1 : i \in 1 .. n /\ i \in 1 .. m /\ x[i] = y[i]
  <2> SUFFICES ASSUME NEW i \in 1 .. k - 1
               PROVE  i \in 1 .. n /\ i \in 1 .. m /\ x[i] = y[i]
    OBVIOUS
  <2>1. i < k /\ i \in (1 .. n) \cup (1 .. m)
    BY <1>1, <1>4
  <2>2. i \notin S
    BY <1>1, <1>3, <1>4, <2>1
  <2> QED
    BY <2>1, <2>2
<1>6. /\ k \in Nat /\ k \in (1 .. n) \cup (1 .. m)
      /\ ~(k \in 1 .. n /\ k \in 1 .. m /\ x[k] = y[k])
    BY <1>3, <1>4
<1> HIDE DEF S
<1>7. CASE k \in 1 .. m /\ (k \in 1 .. n => x[k] < y[k])
    BY <1>1, <1>5, <1>6, <1>7 DEF LessAt
<1>8. CASE k \in 1 .. n /\ (k \in 1 .. m => y[k] < x[k])
    BY <1>1, <1>5, <1>6, <1>8 DEF LessAt
<1> QED
    BY <1>1, <1>6, <1>7, <1>8

LEMMA NotBothAhead ==
    ASSUME NEW x \in Seq(Int), NEW y \in Seq(Int), NEW k \in Nat, NEW l \in Nat,
           LessAt(x, y, k), LessAt(y, x, l)
    PROVE  FALSE
<1>5. k \in DOMAIN y /\ l \in DOMAIN x
    BY DEF LessAt
<1>6. ASSUME NEW q \in Seq(Int)
      PROVE  Len(q) \in Nat /\ DOMAIN q = 1 .. Len(q) /\ \A i \in 1 .. Len(q) : q[i] \in Int
    OBVIOUS
<1>1. /\ k \in 1 .. Len(y) /\ l \in 1 .. Len(x) /\ Len(x) \in Nat /\ Len(y) \in Nat
      /\ DOMAIN x = 1 .. Len(x) /\ DOMAIN y = 1 .. Len(y)
      /\ \A i \in 1 .. Len(x) : x[i] \in Int
      /\ \A i \in 1 .. Len(y) : y[i] \in Int
    BY <1>5, <1>6
<1>2. CASE k < l
  <2>1. k \in 1 .. l - 1
    BY <1>1, <1>2
  <2>2. y[k] = x[k] /\ k \in DOMAIN x /\ x[k] < y[k]
    BY <2>1 DEF LessAt
  <2> QED
    BY <1>1, <2>2
<1>3. CASE l < k
  <2>1. l \in 1 .. k - 1
    BY <1>1, <1>3
  <2>2. x[l] = y[l] /\ l \in DOMAIN y /\ y[l] < x[l]
    BY <2>1 DEF LessAt
  <2> QED
    BY <1>1, <2>2
<1>4. CASE k = l
  <2>1. x[k] < y[k] /\ y[k] < x[k]
    BY <1>1, <1>4 DEF LessAt
  <2> QED
    BY <1>1, <1>4, <2>1
<1> QED
    BY <1>1, <1>2, <1>3, <1>4

LEMMA AheadOfThird ==
    ASSUME NEW x \in Seq(Int), NEW y \in Seq(Int), NEW z \in Seq(Int),
           NEW k \in Nat, NEW l \in Nat, LessAt(x, y, k), LessAt(y, z, l)
    PROVE  \E j \in Nat : LessAt(x, z, j)
<1>5. k \in DOMAIN y /\ l \in DOMAIN z
    BY DEF LessAt
<1>6. ASSUME NEW q \in Seq(Int)
      PROVE  Len(q) \in Nat /\ DOMAIN q = 1 .. Len(q) /\ \A i \in 1 .. Len(q) : q[i] \in Int
    OBVIOUS
<1>1. /\ k \in 1 .. Len(y) /\ l \in 1 .. Len(z)
      /\ Len(x) \in Nat /\ Len(y) \in Nat /\ Len(z) \in Nat
      /\ DOMAIN x = 1 .. Len(x) /\ DOMAIN y = 1 .. Len(y) /\ DOMAIN z = 1 .. Len(z)
      /\ \A i \in 1 .. Len(x) : x[i] \in Int
      /\ \A i \in 1 .. Len(y) : y[i] \in Int
      /\ \A i \in 1 .. Len(z) : z[i] \in Int
    BY <1>5, <1>6
<1>2. /\ \A i \in 1 .. k - 1 : i \in 1 .. Len(x) /\ x[i] = y[i]
      /\ k \in 1 .. Len(x) => x[k] < y[k]
      /\ \A i \in 1 .. l - 1 : i \in 1 .. Len(y) /\ y[i] = z[i]
      /\ l \in 1 .. Len(y) => y[l] < z[l]
    BY <1>1 DEF LessAt
<1>3. CASE k < l
  <2>1. k \in 1 .. l - 1 /\ k \in 1 .. Len(z)
        /\ \A i \in 1 .. k - 1 : i \in 1 .. l - 1
    BY <1>1, <1>3
  <2>2. /\ \A i \in 1 .. k - 1 : i \in 1 .. Len(x) /\ x[i] = z[i]
        /\ k \in 1 .. Len(x) => x[k] < z[k]
    BY <1>2, <2>1
  <2> QED
    BY <1>1, <2>1, <2>2 DEF LessAt
<1>4. CASE ~(k < l)
  <2>1. /\ l \in 1 .. Len(y)
        /\ \A i \in 1 .. l - 1 : i \in 1 .. k - 1
        /\ l = k \/ l \in 1 .. k - 1
    BY <1>1, <1>4
  <2>2. \A i \in 1 .. l - 1 : i \in 1 .. Len(x) /\ x[i] = z[i]
    BY <1>2, <2>1
  <2>3. l \in 1 .. Len(x) => x[l] < z[l]
    BY <1>1, <1>2, <2>1
  <2> QED
    BY <1>1, <2>2, <2>3 DEF LessAt
<1> QED
    BY <1>3, <1>4

LEMMA PrecedesCompares ==
    ASSUME NEW list \in Seq(DNs), NEW D, D = DOMAIN list,
           NEW W, W = {p \in D \X D : Precedes(list[p[1]], list[p[2]])}
    PROVE  Compares(W, D)
<1> DEFINE f(i) == Fold(list[i])
           w(x, y) == \E k \in Nat : LessAt(x, y, k)
<1>1. \A i \in D : f(i) \in Seq(Int)
    BY FoldTyped
<1>2. \A i, j \in D : <<i, j>> \in W <=> w(f(i), f(j))
  <2> SUFFICES ASSUME NEW i \in D, NEW j \in D
               PROVE  <<i, j>> \in W <=> w(f(i), f(j))
    OBVIOUS
  <2>1. <<i, j>> \in W <=> Precedes(list[i], list[j])
    OBVIOUS
  <2>2. list[j] \in DNs /\ DOMAIN list[j] = DOMAIN f(j) /\ DOMAIN f(j) \in SUBSET Nat
    BY FoldTyped
  <2>3. Precedes(list[i], list[j]) <=> \E k \in DOMAIN f(j) : LessAt(f(i), f(j), k)
    BY <2>2 DEF Precedes
  <2>4. \A k : LessAt(f(i), f(j), k) => k \in DOMAIN f(j)
    BY DEF LessAt
  <2> QED
    BY <2>1, <2>2, <2>3, <2>4
<1> HIDE DEF f
<1>3. \A i, j \in D : w(f(i), f(j)) => ~w(f(j), f(i))
    BY <1>1, NotBothAhead
<1>4. \A i, j \in D : f(i) = f(j) \/ w(f(i), f(j)) \/ w(f(j), f(i))
    BY <1>1, OneIsAhead
<1>5. \A i, j, l \in D : w(f(i), f(j)) /\ w(f(j), f(l)) => w(f(i), f(l))
    BY <1>1, AheadOfThird
<1> HIDE DEF w
<1>6. \A i, j, l \in D : w(f(i), f(j)) /\ ~w(f(l), f(j)) => w(f(i), f(l))
  <2> SUFFICES ASSUME NEW i \in D, NEW j \in D, NEW l \in D,
                      w(f(i), f(j)), ~w(f(l), f(j))
               PROVE  w(f(i), f(l))
    OBVIOUS
  <2>1. CASE f(l) = f(j)
    BY <2>1
  <2>2. CASE w(f(j), f(l))
    BY <1>5, <2>2
  <2> QED
    BY <1>4, <2>1, <2>2
<1> QED
    BY <1>2, <1>3, <1>6 DEF Compares

(* Sorting the contexts keeps them all.                                    *)
LEMMA SortedContexts ==
    ASSUME NEW contexts \in ProperBases, NEW rest, rest = SortContexts(contexts)
    PROVE  /\ rest \in ProperBases
           /\ \A k \in DOMAIN rest : rest[k] \in Range(contexts)
           /\ \A c \in Range(contexts) : \E k \in DOMAIN rest : rest[k] = c
<1> DEFINE D == DOMAIN contexts
           W == {p \in D \X D : Precedes(contexts[p[1]], contexts[p[2]])}
           named == DNs \ {<<>>}
<1>1. contexts \in Seq(named) /\ contexts \in Seq(DNs)
    BY DEF ProperBases
<1>2. Compares(W, D)
    BY <1>1, PrecedesCompares
<1>3. rest = SliceStable(contexts, W)
    BY DEF SortContexts
<1> HIDE DEF W, named
<1>4. /\ rest \in Seq(named)
      /\ \A k \in DOMAIN rest : \E x \in D : rest[k] = contexts[x]
      /\ \A x \in D : \E k \in DOMAIN rest : rest[k] = contexts[x]
  <2>1. PICK at : Arranges(at, contexts, W, rest)
    BY <1>1, <1>2, <1>3, SortedStably
  <2>2. /\ at \in [D -> D] /\ rest = [k \in D |-> contexts[at[k]]]
        /\ \A x \in D : \E k \in D : at[k] = x
    BY <2>1 DEF Arranges
  <2>5. D = 1 .. Len(contexts) /\ Len(contexts) \in Nat /\ \A x \in D : contexts[x] \in named
    BY <1>1
  <2> HIDE DEF D
  <2>3. rest \in [D -> named]
    BY <2>2, <2>5
  <2>4. \A k \in D : rest[k] = contexts[at[k]] /\ at[k] \in D
    BY <2>2
  <2>6. \A k \in D : \E x \in D : rest[k] = contexts[x]
    BY <2>4
  <2>7. \A x \in D : \E k \in D : rest[k] = contexts[x]
    BY <2>2, <2>4
  <2>8. rest \in Seq(named) /\ DOMAIN rest = D
    BY <2>3, <2>5
  <2> QED
    BY <2>6, <2>7, <2>8
<1>5. rest \in ProperBases
    BY <1>4 DEF ProperBases, named
<1> QED
    BY <1>4, <1>5 DEF Range

-----------------------------------------------------------------------------
(* Browse.                                                                 *)

LEMMA ServersAre ==
    ASSUME server \in Servers
    PROVE  /\ server.entries \in Seq(DNs) /\ server.overrides \subseteq DNs
           /\ server.wholeSubtree \in BOOLEAN
           /\ Contexts \in ProperBases
           /\ server.root.default \in DNs /\ server.root.partitions \subseteq DNs
BY BrowseAssumption DEF Contexts, ProperBases

LEMMA PartitionsAre ==
    ASSUME server \in Servers
    PROVE  /\ \A p \in server.root.partitions :
                 \E c \in Range(Contexts) : EqualDN(c, p)
           /\ \A c \in Range(Contexts) :
                 Hidden(c) => \E p \in server.root.partitions : EqualDN(p, c)
           /\ ~Hidden(server.root.default)
BY BrowseAssumption DEF Contexts, Hidden

Listed(e, dn) ==
    /\ BestBase(e, Contexts) = BestBase(dn, Contexts)
    /\ DepthUnder(e, dn) = 1 \/ (server.wholeSubtree /\ DepthUnder(e, dn) >= 0)

LEMMA AnswersAre ==
    ASSUME server \in Servers, NEW dn \in DNs
    PROVE  /\ Answer(dn) \in Seq(DNs)
           /\ \A i \in DOMAIN Answer(dn) :
                 Answer(dn)[i] \in Range(server.entries) /\ Listed(Answer(dn)[i], dn)
           /\ \A e \in Range(server.entries) : Listed(e, dn) =>
                 \E i \in DOMAIN Answer(dn) : Answer(dn)[i] = e
<1> DEFINE entries == server.entries
           S == {i \in DOMAIN entries : Listed(entries[i], dn)}
           a == Answer(dn)
<1>1. entries \in Seq(DNs)
    BY ServersAre
<1>2. a = Selected(entries, S)
    BY DEF Answer, Listed
<1>3. S \in SUBSET DOMAIN entries /\ \A i \in DOMAIN entries : i \in S <=> Listed(entries[i], dn)
    OBVIOUS
<1> HIDE DEF S, a, entries
<1>4. a \in Seq(DNs)
    BY <1>1, <1>2, <1>3, SelectedElements
<1>5. \A k \in DOMAIN a : \E x \in S : a[k] = entries[x]
    BY <1>1, <1>2, <1>3, SelectedElements
<1>6. \A x \in S : \E k \in DOMAIN a : a[k] = entries[x]
    BY <1>1, <1>2, <1>3, SelectedElements
<1>7. \A i \in DOMAIN a : a[i] \in Range(entries) /\ Listed(a[i], dn)
    BY <1>3, <1>5 DEF Range
<1>8. \A e \in Range(entries) : Listed(e, dn) => \E i \in DOMAIN a : a[i] = e
    BY <1>3, <1>6 DEF Range
<1> QED
    BY <1>4, <1>7, <1>8 DEF a, entries

LEMMA ChildrenAre ==
    ASSUME server \in Servers, NEW dn \in DNs
    PROVE  /\ RowsOf(dn, Answer(dn), Children(dn))
           /\ \A k, l \in DOMAIN Children(dn) : k < l =>
                 ~Before(server.containers, Children(dn)[l], Children(dn)[k])
<1> DEFINE answer == Answer(dn)
           rows   == directChildren(dn, answer)
           sorted == Children(dn)
<1>1. answer \in Seq(DNs)
    BY AnswersAre
<1>2. sorted = SortEntries(server.containers, rows)
    BY DEF Children
<1> HIDE DEF answer, sorted
<1>3. RowsOf(dn, answer, rows)
    BY <1>1, DirectChildren
<1> HIDE DEF rows
<1>4. rows \in Seq(RowType)
    BY <1>3 DEF RowsOf
<1>5. ASSUME NEW k \in DOMAIN rows
      PROVE  rows[k] \in NamedRows
  <2>0. rows[k] \in RowType /\ DepthUnder(rows[k].dn, dn) = 1
    BY <1>3, <1>4 DEF RowsOf
  <2>1. rows[k] \in RowType /\ rows[k].dn \in DNs /\ DepthUnder(rows[k].dn, dn) = 1
    BY <2>0 DEF RowType
  <2>2. Len(rows[k].dn) # 0
    <3>1. /\ Len(rows[k].dn) \in Nat /\ Len(dn) \in Nat
          /\ DepthUnder(rows[k].dn, dn)
                = IF Above(dn, rows[k].dn) THEN Len(rows[k].dn) - Len(dn) ELSE -1
      BY <2>1, InLine
    <3> QED
      BY <2>1, <3>1
  <2>3. rows[k].dn # <<>>
    <3>1. Len(<<>>) = 0
      OBVIOUS
    <3> QED
      BY <2>2, <3>1
  <2> QED
    BY <2>1, <2>3 DEF NamedRows
<1>6. rows \in Seq(NamedRows)
    BY <1>4, <1>5
<1>7. OrdersRows(server.containers, NamedRows)
    BY RowsAreOrdered
<1>8. sorted \in Seq(NamedRows)
    BY <1>2, <1>6, <1>7, SortedRows
<1>9. \A k \in DOMAIN sorted : \E x \in DOMAIN rows : sorted[k] = rows[x]
    BY <1>2, <1>6, <1>7, SortedRows
<1>10. \A x \in DOMAIN rows : \E k \in DOMAIN sorted : sorted[k] = rows[x]
    BY <1>2, <1>6, <1>7, SortedRows
<1>11. \A k, l \in DOMAIN sorted : k # l =>
           \E x, y \in DOMAIN rows : x # y /\ sorted[k] = rows[x] /\ sorted[l] = rows[y]
    BY <1>2, <1>6, <1>7, SortedRows
<1>12. \A k, l \in DOMAIN sorted :
           k < l => ~Before(server.containers, sorted[l], sorted[k])
    BY <1>2, <1>6, <1>7, SortedRows
<1>13. sorted \in Seq(RowType)
  <2>1. \A k \in DOMAIN sorted : sorted[k] \in RowType
    BY <1>8 DEF NamedRows
  <2> QED
    BY <1>8, <2>1
<1>14. ASSUME NEW k \in DOMAIN sorted
       PROVE  /\ DepthUnder(sorted[k].dn, dn) = 1
              /\ sorted[k].synthesized =>
                    \A i \in DOMAIN answer : ~EqualDN(answer[i], sorted[k].dn)
              /\ \E i \in DOMAIN answer : Above(sorted[k].dn, answer[i])
  <2>1. PICK x \in DOMAIN rows : sorted[k] = rows[x]
    BY <1>9
  <2> QED
    BY <1>3, <2>1 DEF RowsOf
<1>15. ASSUME NEW k \in DOMAIN sorted, NEW l \in DOMAIN sorted,
              EqualDN(sorted[k].dn, sorted[l].dn)
       PROVE  k = l
  <2> SUFFICES ASSUME k # l PROVE FALSE
    OBVIOUS
  <2>1. PICK x \in DOMAIN rows, y \in DOMAIN rows :
            x # y /\ sorted[k] = rows[x] /\ sorted[l] = rows[y]
    BY <1>11
  <2>2. EqualDN(rows[x].dn, rows[y].dn)
    BY <1>15, <2>1
  <2> QED
    BY <1>3, <2>1, <2>2 DEF RowsOf
<1>16. ASSUME NEW i \in DOMAIN answer, DepthUnder(answer[i], dn) \in Nat \ {0}
       PROVE  \E k \in DOMAIN sorted : Above(sorted[k].dn, answer[i])
  <2>1. PICK x \in DOMAIN rows : Above(rows[x].dn, answer[i])
    BY <1>3, <1>16 DEF RowsOf
  <2>2. PICK k \in DOMAIN sorted : sorted[k] = rows[x]
    BY <1>10
  <2> QED
    BY <2>1, <2>2
<1>17. RowsOf(dn, answer, sorted)
    BY <1>13, <1>14, <1>15, <1>16 DEF RowsOf
<1> QED
    BY <1>12, <1>17 DEF answer, sorted

(* What is under p is at some depth, and no deeper than it is long.        *)
LEMMA DepthOne ==
    ASSUME NEW a \in DNs, NEW p \in DNs
    PROVE  /\ DepthUnder(a, p) = 1 <=> Above(p, a) /\ Len(a) = Len(p) + 1
           /\ DepthUnder(a, p) >= 0 <=> Above(p, a)
           /\ DepthUnder(a, p) > 0 <=> Above(p, a) /\ Len(p) < Len(a)
           /\ DepthUnder(a, p) \in Nat \ {0} <=> Above(p, a) /\ Len(p) < Len(a)
<1>1. /\ Len(a) \in Nat /\ Len(p) \in Nat
      /\ DepthUnder(a, p) = IF Above(p, a) THEN Len(a) - Len(p) ELSE -1
      /\ Above(p, a) => Len(p) <= Len(a)
    BY InLine
<1> QED
    BY <1>1

LEMMA ShownAre ==
    ASSUME server \in Servers, override \in server.overrides
    PROVE  /\ Shown \in ProperBases
           /\ override # <<>> => Shown = <<override>>
           /\ \A k, l \in DOMAIN Shown : EqualDN(Shown[k], Shown[l]) => k = l
           /\ override = <<>> => \A c \in Range(Contexts) :
                 (showAll \/ ~\E h \in server.root.partitions : EqualDN(h, c)) =>
                    \E k \in DOMAIN Shown : EqualDN(Shown[k], c)
           /\ override = <<>> /\ ~showAll => \A k \in DOMAIN Shown : ~Hidden(Shown[k])
<1>1. CASE override # <<>>
  <2>1. Shown = <<override>> /\ override \in DNs \ {<<>>}
    BY <1>1, ServersAre DEF Shown, Bases
  <2>2. Shown \in ProperBases
    BY <2>1 DEF ProperBases
  <2> QED
    BY <1>1, <2>1, <2>2
<1>2. CASE override = <<>>
  <2> DEFINE root == server.root
             hidden(dn) == \E h \in root.partitions : EqualDN(h, dn)
             rest == SortContexts(root.contexts)
             S == {i \in DOMAIN rest : showAll \/ ~hidden(rest[i])}
             published == Selected(rest, S)
             default == IF root.default = <<>> THEN <<>> ELSE <<root.default>>
             list == default \o published
  <2>1. Shown = WithoutTwins(list)
    BY <1>2 DEF Shown, Bases
  <2>2. root.contexts \in ProperBases /\ Contexts = root.contexts /\ root.default \in DNs
    BY ServersAre DEF Contexts
  <2>17. /\ rest \in ProperBases
         /\ \A k \in DOMAIN rest : rest[k] \in Range(Contexts)
         /\ \A c \in Range(Contexts) : \E k \in DOMAIN rest : rest[k] = c
    BY <2>2, SortedContexts
  <2> HIDE DEF rest
  <2>3. /\ S \in SUBSET DOMAIN rest
        /\ \A i \in DOMAIN rest : i \in S <=> showAll \/ ~hidden(rest[i])
    OBVIOUS
  <2> HIDE DEF S
  <2> DEFINE named    == DNs \ {<<>>}
  <2>0. rest \in Seq(named) /\ published = Selected(rest, S)
    BY <2>17 DEF ProperBases
  <2> HIDE DEF published
  <2>4. published \in ProperBases
    <3> HIDE DEF named
    <3>1. published \in Seq(named)
      BY <2>0, <2>3, SelectedElements
    <3> QED
      BY <3>1 DEF ProperBases, named
  <2>5. \A k \in DOMAIN published : \E x \in S : published[k] = rest[x]
    <3> HIDE DEF named
    <3> QED
      BY <2>0, <2>3, SelectedElements
  <2>6. \A x \in S : \E k \in DOMAIN published : published[k] = rest[x]
    <3> HIDE DEF named
    <3> QED
      BY <2>0, <2>3, SelectedElements
  <2>7. /\ default \in ProperBases
        /\ \A k \in DOMAIN default : default[k] = root.default
    <3>1. CASE root.default = <<>>
      BY <3>1 DEF ProperBases
    <3>2. CASE root.default # <<>>
      <4>1. default = <<root.default>> /\ root.default \in named
        BY <2>2, <3>2
      <4>2. \A d \in named : /\ <<d>> \in Seq(named)
                             /\ \A k \in DOMAIN <<d>> : <<d>>[k] = d
        OBVIOUS
      <4> HIDE DEF default, named
      <4>3. default \in Seq(named) /\ \A k \in DOMAIN default : default[k] = root.default
        BY <4>1, <4>2
      <4> QED
        BY <4>3 DEF ProperBases, named
    <3> QED
      BY <3>1, <3>2
  <2> HIDE DEF default
  <2> DEFINE n == Len(default)
             m == Len(published)
  <2>8. /\ n \in Nat /\ m \in Nat /\ DOMAIN default = 1 .. n /\ DOMAIN published = 1 .. m
    BY <2>4, <2>7 DEF ProperBases
  <2>9. /\ list \in ProperBases /\ Len(list) = n + m
        /\ \A i \in 1 .. n + m : list[i] = IF i <= n THEN default[i] ELSE published[i - n]
    BY <2>4, <2>7, ConcatProperties DEF ProperBases
  <2> HIDE DEF list, n, m
  <2>10. ASSUME NEW i \in DOMAIN list
         PROVE  list[i] = root.default \/ \E x \in S : list[i] = rest[x]
    <3>1. i \in 1 .. n + m
      BY <2>8, <2>9 DEF ProperBases
    <3>2. CASE i <= n
      BY <2>7, <2>8, <2>9, <3>1, <3>2
    <3>3. CASE ~(i <= n)
      <4>1. i - n \in DOMAIN published /\ list[i] = published[i - n]
        BY <2>8, <2>9, <3>1, <3>3
      <4> QED
        BY <2>5, <4>1
    <3> QED
      BY <3>2, <3>3
  <2>11. ASSUME NEW x \in S
         PROVE  \E i \in DOMAIN list : list[i] = rest[x]
    <3>1. PICK k \in DOMAIN published : published[k] = rest[x]
      BY <2>6
    <3>2. n + k \in 1 .. n + m /\ ~(n + k <= n) /\ (n + k) - n = k
      BY <2>8, <3>1
    <3>3. n + k \in DOMAIN list /\ list[n + k] = published[k]
      BY <2>8, <2>9, <3>2 DEF ProperBases
    <3> QED
      BY <3>1, <3>3
  <2>12. list \in Seq(DNs)
    BY <2>9 DEF ProperBases
  <2>13. /\ Shown \in Seq(DNs)
         /\ \A k \in DOMAIN Shown : \E i \in DOMAIN list : Shown[k] = list[i]
         /\ \A i \in DOMAIN list : \E k \in DOMAIN Shown : EqualDN(Shown[k], list[i])
         /\ \A k, l \in DOMAIN Shown : EqualDN(Shown[k], Shown[l]) => k = l
    BY <2>1, <2>12, NoTwins
  <2>14. Shown \in ProperBases
    <3>1. \A k \in DOMAIN Shown : Shown[k] \in DNs \ {<<>>}
      BY <2>9, <2>13 DEF ProperBases
    <3> QED
      BY <2>13, <3>1 DEF ProperBases
  <2>15. ASSUME NEW c \in Range(Contexts),
                showAll \/ ~\E h \in server.root.partitions : EqualDN(h, c)
         PROVE  \E k \in DOMAIN Shown : EqualDN(Shown[k], c)
    <3>1. PICK x \in DOMAIN rest : c = rest[x]
      BY <2>17
    <3>2. x \in S
      BY <2>3, <2>15, <3>1
    <3> QED
      BY <2>11, <2>13, <3>1, <3>2
  <2>16. ASSUME ~showAll, NEW k \in DOMAIN Shown
         PROVE  ~Hidden(Shown[k])
    <3>1. PICK i \in DOMAIN list : Shown[k] = list[i]
      BY <2>13
    <3>2. CASE list[i] = root.default
      BY <3>1, <3>2, PartitionsAre
    <3>3. ASSUME NEW x \in S, list[i] = rest[x]
          PROVE  ~Hidden(Shown[k])
      <4>1. x \in DOMAIN rest /\ ~hidden(rest[x])
        BY <2>3, <2>16
      <4>2. rest[x] \in Range(Contexts)
        BY <2>17, <4>1
      <4> QED
        BY <3>1, <3>3, <4>1, <4>2, PartitionsAre
    <3> QED
      BY <2>10, <3>2, <3>3
  <2> QED
    BY <1>2, <2>13, <2>14, <2>15, <2>16
<1> QED
    BY <1>1, <1>2

(* A row under dn is of dn's context.                                      *)
LEMMA RowsKeepToTheContext ==
    ASSUME server \in Servers, NEW dn \in DNs, NEW k \in DOMAIN Children(dn)
    PROVE  LET x == Children(dn)[k].dn
           IN  /\ x \in DNs /\ Above(dn, x) /\ Len(x) = Len(dn) + 1
               /\ BestBase(x, Contexts) = BestBase(dn, Contexts)
               /\ \E e \in Range(Answer(dn)) : Above(x, e)
<1> DEFINE x == Children(dn)[k].dn
<1>1. RowsOf(dn, Answer(dn), Children(dn))
    BY ChildrenAre
<1>2. x \in DNs /\ DepthUnder(x, dn) = 1
  <2>1. Children(dn)[k] \in RowType /\ DepthUnder(x, dn) = 1
    BY <1>1 DEF RowsOf
  <2> QED
    BY <2>1 DEF RowType
<1>3. PICK i \in DOMAIN Answer(dn) : Above(x, Answer(dn)[i])
    BY <1>1 DEF RowsOf
<1> DEFINE e == Answer(dn)[i]
<1>4. e \in DNs /\ BestBase(e, Contexts) = BestBase(dn, Contexts)
  <2>1. Answer(dn) \in Seq(DNs) /\ Listed(e, dn)
    BY AnswersAre
  <2> QED
    BY <2>1 DEF Listed
<1>5. e \in Range(Answer(dn)) /\ Above(x, e)
    BY <1>3 DEF Range
<1> HIDE DEF x, e
<1>6. Above(dn, x) /\ Len(x) = Len(dn) + 1
    BY <1>2, DepthOne
<1>7. Contexts \in ProperBases
    BY ServersAre
<1>8. BestBase(x, Contexts) = BestBase(dn, Contexts)
    BY <1>2, <1>4, <1>5, <1>6, <1>7, BaseOfWhatIsBetween
<1> QED
    BY <1>2, <1>5, <1>6, <1>8 DEF x

-----------------------------------------------------------------------------
(* What each listing shows, whatever the DN and the server.                *)
LEMMA ListingIsSound ==
    ASSUME server \in Servers, NEW dn \in DNs, NEW rows, rows = Children(dn)
    PROVE  /\ \A i \in DOMAIN rows :
                 /\ DepthUnder(rows[i].dn, dn) = 1
                 /\ rows[i].synthesized =>
                       \A e \in Range(server.entries) : ~EqualDN(e, rows[i].dn)
                 /\ \A j \in DOMAIN rows : EqualDN(rows[i].dn, rows[j].dn) => i = j
           /\ \A i \in 2 .. Len(rows) :
                 ~Before(server.containers, rows[i], rows[i - 1])
<1>1. RowsOf(dn, Answer(dn), rows)
    BY ChildrenAre
<1>2. \A k, l \in DOMAIN rows : k < l =>
          ~Before(server.containers, rows[l], rows[k])
    BY ChildrenAre
<1>3. ASSUME NEW i \in DOMAIN rows, rows[i].synthesized, NEW e \in Range(server.entries),
             EqualDN(e, rows[i].dn)
      PROVE  FALSE
  <2> DEFINE x == rows[i].dn
  <2>1. /\ x \in DNs /\ Above(dn, x) /\ Len(x) = Len(dn) + 1
        /\ BestBase(x, Contexts) = BestBase(dn, Contexts)
    BY RowsKeepToTheContext
  <2>2. e \in DNs
    BY ServersAre DEF Range
  <2>3. EqualDN(e, x)
    BY <1>3
  <2> HIDE DEF x
  <2>4. Above(e, x) /\ Above(x, e) /\ Len(e) = Len(x)
    BY <2>1, <2>2, <2>3, InLine
  <2>5. Contexts \in ProperBases /\ \A b \in Range(Contexts) : b \in DNs
    BY ServersAre DEF ProperBases, Range
  <2>6. BestBase(e, Contexts) = BestBase(x, Contexts)
    <3>1. \A b \in Range(Contexts) : Above(b, e) <=> Above(b, x)
      BY <2>1, <2>2, <2>4, <2>5, InLine
    <3> QED
      BY <2>1, <2>2, <2>5, <3>1, SameBase
  <2>7. DepthUnder(e, dn) = 1
    <3>1. Above(dn, e)
      BY <2>1, <2>2, <2>4, InLine
    <3> QED
      BY <2>1, <2>2, <2>4, <3>1, DepthOne
  <2>8. Listed(e, dn)
    BY <2>1, <2>6, <2>7 DEF Listed
  <2>9. PICK m \in DOMAIN Answer(dn) : Answer(dn)[m] = e
    BY <2>8, AnswersAre
  <2> QED
    BY <1>1, <1>3, <2>9 DEF RowsOf
<1>4. \A i \in 2 .. Len(rows) : i - 1 \in DOMAIN rows /\ i \in DOMAIN rows /\ i - 1 < i
    BY <1>1 DEF RowsOf
<1>5. \A i \in DOMAIN rows : DepthUnder(rows[i].dn, dn) = 1
    BY <1>1 DEF RowsOf
<1>6. \A i, j \in DOMAIN rows : EqualDN(rows[i].dn, rows[j].dn) => i = j
    BY <1>1 DEF RowsOf
<1>7. \A i \in 2 .. Len(rows) : ~Before(server.containers, rows[i], rows[i - 1])
    BY <1>2, <1>4
<1> QED
    BY <1>3, <1>5, <1>6, <1>7

LEMMA NothingIsLost ==
    ASSUME server \in Servers, NEW dn \in DNs, NEW e \in Range(Answer(dn)), ~EqualDN(e, dn)
    PROVE  \E k \in DOMAIN Children(dn) : Above(Children(dn)[k].dn, e)
<1>1. RowsOf(dn, Answer(dn), Children(dn))
    BY ChildrenAre
<1>2. PICK i \in DOMAIN Answer(dn) : e = Answer(dn)[i]
    BY DEF Range
<1>3. e \in DNs /\ Listed(e, dn)
    BY <1>2, AnswersAre
<1>4. DepthUnder(e, dn) = 1 \/ DepthUnder(e, dn) >= 0
    BY <1>3 DEF Listed
<1>5. Above(dn, e) /\ Len(dn) <= Len(e)
  <2>1. Above(dn, e)
    BY <1>3, <1>4, DepthOne
  <2> QED
    BY <1>3, <2>1, InLine
<1>6. Len(dn) # Len(e)
    BY <1>3, <1>5, InLine
<1>7. DepthUnder(e, dn) \in Nat \ {0}
  <2>1. Len(dn) \in Nat /\ Len(e) \in Nat
    BY <1>3, InLine
  <2> QED
    BY <1>3, <1>5, <1>6, <2>1, DepthOne
<1> QED
    BY <1>1, <1>2, <1>7 DEF RowsOf

(* A row in a partition is one whose parent is.                            *)
LEMMA HiddenComesFromAbove ==
    ASSUME server \in Servers, NEW dn \in DNs, NEW k \in DOMAIN Children(dn),
           Hidden(Children(dn)[k].dn)
    PROVE  Hidden(dn)
<1> DEFINE x == Children(dn)[k].dn
<1>1. /\ x \in DNs /\ Above(dn, x) /\ Len(x) = Len(dn) + 1
      /\ \E e \in Range(Answer(dn)) : Above(x, e)
    BY RowsKeepToTheContext
<1>2. PICK e \in Range(Answer(dn)) : Above(x, e)
    BY <1>1
<1>3. e \in DNs /\ BestBase(e, Contexts) = BestBase(dn, Contexts)
  <2>1. PICK i \in DOMAIN Answer(dn) : e = Answer(dn)[i]
    BY DEF Range
  <2>2. e \in DNs /\ Listed(e, dn)
    BY <2>1, AnswersAre
  <2> QED
    BY <2>2 DEF Listed
<1>4. Hidden(x)
    OBVIOUS
<1> HIDE DEF x
<1>5. PICK p \in server.root.partitions : DepthUnder(x, p) >= 0
    BY <1>4 DEF Hidden
<1>6. p \in DNs /\ Above(p, x)
  <2>1. p \in DNs
    BY ServersAre
  <2> QED
    BY <1>1, <1>5, <2>1, DepthOne
<1>7. /\ Len(p) \in Nat /\ Len(dn) \in Nat /\ Len(p) <= Len(x)
    BY <1>1, <1>6, InLine
<1>8. CASE Len(p) <= Len(dn)
  <2>1. Above(p, dn)
    BY <1>1, <1>6, <1>8, InLine
  <2>2. DepthUnder(dn, p) >= 0
    BY <1>6, <2>1, DepthOne
  <2> QED
    BY <2>2 DEF Hidden
<1>9. CASE Len(p) = Len(x)
  <2>1. PICK c \in Range(Contexts) : EqualDN(c, p)
    BY PartitionsAre
  <2>2. Contexts \in ProperBases /\ c \in DNs
    BY ServersAre DEF ProperBases, Range
  <2>3. Above(c, p) /\ Len(c) = Len(p)
    BY <1>6, <2>1, <2>2, InLine
  <2>4. Above(c, e)
    BY <1>1, <1>2, <1>3, <1>6, <2>2, <2>3, InLine
  <2>5. /\ BestBase(e, Contexts) # <<>> /\ BestBase(e, Contexts) \in DNs
        /\ Len(c) <= Len(BestBase(e, Contexts))
    BY <1>3, <2>2, <2>4, BaseIsBest
  <2>6. Above(BestBase(e, Contexts), dn)
    BY <1>3, <2>2, <2>5, BaseIsBest
  <2>7. Len(BestBase(e, Contexts)) <= Len(dn) /\ Len(BestBase(e, Contexts)) \in Nat
    BY <2>5, <2>6, InLine
  <2> QED
    BY <1>1, <1>7, <1>9, <2>3, <2>5, <2>7
<1> QED
    BY <1>1, <1>7, <1>8, <1>9

-----------------------------------------------------------------------------
LEMMA RowsAre ==
    ASSUME server \in Servers, override \in server.overrides, opened \subseteq DNs
    PROVE  /\ \A k \in DOMAIN Shown : Shown[k] \in Rows
           /\ \A dn \in opened : \A k \in DOMAIN Children(dn) : Children(dn)[k].dn \in Rows
           /\ \A r \in Rows :
                 \/ \E k \in DOMAIN Shown : r = Shown[k]
                 \/ \E dn \in opened : \E k \in DOMAIN Children(dn) : r = Children(dn)[k].dn
           /\ Rows \subseteq DNs \ {<<>>}
<1>1. \A k \in DOMAIN Shown : Shown[k] \in Rows
    BY DEF Rows, Range
<1>2. \A dn \in opened : \A k \in DOMAIN Children(dn) : Children(dn)[k].dn \in Rows
  <2> SUFFICES ASSUME NEW dn \in opened, NEW k \in DOMAIN Children(dn)
               PROVE  Children(dn)[k].dn \in Rows
    OBVIOUS
  <2>1. Children(dn)[k].dn \in {r.dn : r \in Range(Children(dn))}
    BY DEF Range
  <2> QED
    BY <2>1 DEF Rows
<1>3. ASSUME NEW r \in Rows
      PROVE  \/ \E k \in DOMAIN Shown : r = Shown[k]
             \/ \E dn \in opened : \E k \in DOMAIN Children(dn) : r = Children(dn)[k].dn
  <2>1. r \in Range(Shown) \/ \E dn \in opened : r \in {q.dn : q \in Range(Children(dn))}
    BY DEF Rows
  <2>2. CASE r \in Range(Shown)
    BY <2>2 DEF Range
  <2>3. ASSUME NEW dn \in opened, r \in {q.dn : q \in Range(Children(dn))}
        PROVE  \E k \in DOMAIN Children(dn) : r = Children(dn)[k].dn
    BY <2>3 DEF Range
  <2> QED
    BY <2>1, <2>2, <2>3
<1>4. ASSUME NEW r \in Rows
      PROVE  r \in DNs \ {<<>>}
  <2>1. ASSUME NEW k \in DOMAIN Shown
        PROVE  Shown[k] \in DNs \ {<<>>}
    BY ShownAre DEF ProperBases
  <2>2. ASSUME NEW dn \in opened, NEW k \in DOMAIN Children(dn)
        PROVE  Children(dn)[k].dn \in DNs \ {<<>>}
    <3>1. /\ Children(dn)[k].dn \in DNs /\ dn \in DNs
          /\ Len(Children(dn)[k].dn) = Len(dn) + 1
      BY RowsKeepToTheContext
    <3>2. Len(dn) \in Nat /\ Len(<<>>) = 0
      BY <3>1, InLine
    <3> QED
      BY <3>1, <3>2
  <2> QED
    BY <1>3, <2>1, <2>2
<1> QED
    BY <1>1, <1>2, <1>3, <1>4

(* Each step of a path after the first is an ending of the DN at its end. *)
Descends(p, dn) == \A k \in 2 .. Len(p) : p[k] = SubSeq(dn, Len(p) - k + 1, Len(dn))

LEMMA PathsAre ==
    ASSUME NEW base \in DNs, NEW dn \in DNs, Above(base, dn), NEW p, p = PathFrom(base, dn)
    PROVE  /\ p # <<>> /\ Len(p) \in Nat \ {0} /\ DOMAIN p = 1 .. Len(p) /\ p[1] = base
           /\ \A k \in 1 .. Len(p) :
                 /\ p[k] \in DNs /\ Above(base, p[k]) /\ Above(p[k], dn)
                 /\ Len(p[k]) = Len(base) + k - 1
           /\ Descends(p, dn)
           /\ \A k \in 2 .. Len(p) : Len(p) - k + 1 <= Len(dn)
<1> DEFINE d == DepthUnder(dn, base)
           rest == [k \in 1 .. d |-> SubSeq(dn, d - k + 1, Len(dn))]
<1>1. /\ Len(dn) \in Nat /\ Len(base) \in Nat /\ Len(base) <= Len(dn)
      /\ d = Len(dn) - Len(base)
    BY InLine
<1>2. p = <<base>> \o rest
    BY <1>1 DEF PathFrom
<1>3. d \in Nat /\ d <= Len(dn)
    BY <1>1
<1> HIDE DEF d
<1>4. ASSUME NEW k \in 1 .. d
      PROVE  /\ SubSeq(dn, d - k + 1, Len(dn)) \in DNs
             /\ Len(SubSeq(dn, d - k + 1, Len(dn))) = Len(base) + k
             /\ Above(SubSeq(dn, d - k + 1, Len(dn)), dn)
             /\ Above(base, SubSeq(dn, d - k + 1, Len(dn)))
  <2> DEFINE j == d - k + 1
             x == SubSeq(dn, j, Len(dn))
  <2>1. j \in 1 .. Len(dn) + 1 /\ Len(dn) - j + 1 = Len(base) + k
    BY <1>1, <1>3
  <2> HIDE DEF j
  <2>2. x \in DNs /\ Len(x) = Len(base) + k /\ Above(x, dn)
    BY <2>1, EndsAreAbove
  <2> HIDE DEF x
  <2>3. Above(base, x)
    <3>1. Len(base) <= Len(x)
      BY <1>1, <2>2
    <3> QED
      BY <2>2, <3>1, InLine
  <2> QED
    BY <2>2, <2>3 DEF x, j
<1>5. /\ rest \in Seq(DNs) /\ Len(rest) = d
      /\ \A k \in 1 .. d : rest[k] = SubSeq(dn, d - k + 1, Len(dn))
  <2>1. rest \in [1 .. d -> DNs]
    BY <1>4
  <2>2. \A n \in Nat : \A f \in [1 .. n -> DNs] : f \in Seq(DNs) /\ Len(f) = n
    OBVIOUS
  <2>3. \A k \in 1 .. d : rest[k] = SubSeq(dn, d - k + 1, Len(dn))
    OBVIOUS
  <2> HIDE DEF rest
  <2> QED
    BY <1>3, <2>1, <2>2, <2>3
<1> HIDE DEF rest
<1>6. <<base>> \in Seq(DNs) /\ Len(<<base>>) = 1 /\ <<base>>[1] = base
    OBVIOUS
<1> DEFINE one == <<base>>
<1> HIDE DEF one
<1>7. /\ one \in Seq(DNs) /\ Len(one) = 1 /\ one[1] = base /\ p = one \o rest
    BY <1>2, <1>6 DEF one
<1>8. /\ one \o rest \in Seq(DNs) /\ Len(one \o rest) = Len(one) + Len(rest)
      /\ \A i \in 1 .. Len(one) + Len(rest) :
            (one \o rest)[i] = IF i <= Len(one) THEN one[i] ELSE rest[i - Len(one)]
    BY <1>5, <1>7, ConcatProperties
<1>9. /\ p \in Seq(DNs) /\ Len(p) = d + 1
      /\ \A i \in 1 .. d + 1 : p[i] = IF i <= 1 THEN one[i] ELSE rest[i - 1]
  <2>1. p \in Seq(DNs) /\ Len(p) = 1 + d
    BY <1>5, <1>7, <1>8
  <2>2. \A i \in 1 .. 1 + d : p[i] = IF i <= 1 THEN one[i] ELSE rest[i - 1]
    BY <1>5, <1>7, <1>8
  <2> QED
    BY <1>3, <2>1, <2>2
<1>10. p[1] = base
    BY <1>3, <1>7, <1>9
<1>11. ASSUME NEW k \in 2 .. d + 1
       PROVE  /\ p[k] = SubSeq(dn, d + 1 - k + 1, Len(dn)) /\ d + 1 - k + 1 <= Len(dn)
              /\ p[k] \in DNs /\ Above(base, p[k]) /\ Above(p[k], dn)
              /\ Len(p[k]) = Len(base) + k - 1
  <2>1. k - 1 \in 1 .. d /\ d - (k - 1) + 1 = d + 1 - k + 1 /\ k \in 1 .. d + 1 /\ ~(k <= 1)
    BY <1>3
  <2>2. p[k] = SubSeq(dn, d - (k - 1) + 1, Len(dn))
    BY <1>5, <1>9, <2>1
  <2>3. /\ p[k] \in DNs /\ Len(p[k]) = Len(base) + (k - 1)
        /\ Above(p[k], dn) /\ Above(base, p[k])
    BY <1>4, <2>1, <2>2
  <2>4. Len(base) + (k - 1) = Len(base) + k - 1 /\ d + 1 - k + 1 <= Len(dn)
    BY <1>1, <1>3
  <2> QED
    BY <2>1, <2>2, <2>3, <2>4
<1>12. ASSUME NEW k \in 1 .. d + 1
       PROVE  /\ p[k] \in DNs /\ Above(base, p[k]) /\ Above(p[k], dn)
              /\ Len(p[k]) = Len(base) + k - 1
  <2>1. CASE k = 1
    BY <1>1, <1>10, <2>1, InLine
  <2>2. CASE k # 1
    <3>1. k \in 2 .. d + 1
      BY <1>3, <2>2
    <3> QED
      BY <1>11, <3>1
  <2> QED
    BY <2>1, <2>2
<1>13. Descends(p, dn)
  <2>1. \A k \in 2 .. Len(p) : p[k] = SubSeq(dn, Len(p) - k + 1, Len(dn))
    BY <1>3, <1>9, <1>11
  <2> QED
    BY <2>1 DEF Descends
<1>14. p # <<>> /\ Len(p) \in Nat \ {0} /\ DOMAIN p = 1 .. Len(p)
    BY <1>3, <1>9
<1>15. \A k \in 1 .. Len(p) :
          /\ p[k] \in DNs /\ Above(base, p[k]) /\ Above(p[k], dn)
          /\ Len(p[k]) = Len(base) + k - 1
    BY <1>9, <1>12
<1>16. \A k \in 2 .. Len(p) : Len(p) - k + 1 <= Len(dn)
    BY <1>1, <1>3, <1>9
<1> QED
    BY <1>10, <1>13, <1>14, <1>15, <1>16

(* Without a base DN, what is set apart is in a partition that is hidden.  *)
LEMMA HiddenAreSetApart ==
    ASSUME server \in Servers, override \in server.overrides, override = <<>>,
           NEW g \in DNs, BestBase(g, Shown) # <<>>, SetApart(g)
    PROVE  ~showAll /\ Hidden(g)
<1> DEFINE base == BestBase(g, Shown)
<1>1. Shown \in ProperBases /\ Contexts \in ProperBases
    BY ServersAre, ShownAre
<1>2. PICK c \in Range(Contexts) : DepthUnder(c, base) > 0 /\ DepthUnder(g, c) >= 0
    BY DEF SetApart
<1>3. c \in DNs
    BY <1>1 DEF ProperBases, Range
<1>4. /\ base \in DNs /\ \A b \in Range(Shown) : Above(b, g) => Len(b) <= Len(base)
    BY <1>1, BaseIsBest
<1> HIDE DEF base
<1>5. Above(c, g) /\ Above(base, c)
    BY <1>2, <1>3, <1>4, DepthOne
<1>6. Len(c) \in Nat /\ Len(base) \in Nat /\ Len(base) < Len(c)
  <2>1. DepthUnder(c, base) = Len(c) - Len(base) /\ Len(c) \in Nat /\ Len(base) \in Nat
    BY <1>3, <1>4, <1>5, InLine
  <2> QED
    BY <1>2, <2>1
<1>7. ASSUME NEW k \in DOMAIN Shown, EqualDN(Shown[k], c)
      PROVE  FALSE
  <2>1. Shown[k] \in DNs /\ Shown[k] \in Range(Shown)
    BY <1>1 DEF ProperBases, Range
  <2>2. Above(Shown[k], c) /\ Len(Shown[k]) = Len(c)
    BY <1>3, <1>7, <2>1, InLine
  <2>3. Above(Shown[k], g)
    BY <1>3, <1>5, <2>1, <2>2, InLine
  <2> QED
    BY <1>4, <1>6, <2>1, <2>2, <2>3
<1>8. ~showAll /\ \E h \in server.root.partitions : EqualDN(h, c)
    BY <1>7, ShownAre
<1>9. PICK h \in server.root.partitions : EqualDN(h, c)
    BY <1>8
<1>10. h \in DNs
    BY ServersAre
<1>11. Above(h, c)
    BY <1>3, <1>9, <1>10, InLine
<1>12. Above(h, g)
    BY <1>3, <1>5, <1>10, <1>11, InLine
<1>13. DepthUnder(g, h) >= 0
    BY <1>10, <1>12, DepthOne
<1> QED
    BY <1>8, <1>13 DEF Hidden

(* From the base of a jump down to a goal that is not set apart, all is of *)
(* one context.                                                            *)
LEMMA JumpsStayInAContext ==
    ASSUME server \in Servers, override \in server.overrides,
           NEW g \in DNs, ~SetApart(g), NEW base, base = BestBase(g, Shown), base # <<>>,
           NEW y \in DNs, Above(base, y), Above(y, g)
    PROVE  BestBase(y, Contexts) = BestBase(base, Contexts)
<1>1. Shown \in ProperBases /\ Contexts \in ProperBases
    BY ServersAre, ShownAre
<1>2. base \in DNs /\ Above(base, g)
    BY <1>1, BaseIsBest
<1>3. ASSUME NEW c \in Range(Contexts)
      PROVE  Above(c, y) <=> Above(c, base)
  <2>1. c \in DNs
    BY <1>1 DEF ProperBases, Range
  <2>2. Above(c, base) => Above(c, y)
    BY <1>2, <2>1, InLine
  <2>3. ASSUME Above(c, y), ~(Len(c) <= Len(base))
        PROVE  FALSE
    <3>1. Len(c) \in Nat /\ Len(base) \in Nat /\ Len(base) < Len(c) /\ Above(c, g)
      BY <1>2, <2>1, <2>3, InLine
    <3>2. Above(base, c)
      BY <1>2, <2>1, <2>3, <3>1, InLine
    <3>3. DepthUnder(c, base) > 0
      BY <1>2, <2>1, <3>1, <3>2, DepthOne
    <3>4. DepthUnder(g, c) >= 0
      BY <2>1, <3>1, DepthOne
    <3> QED
      BY <3>3, <3>4 DEF SetApart
  <2>4. ASSUME Above(c, y)
        PROVE  Above(c, base)
    <3>1. Len(c) <= Len(base)
      BY <2>3, <2>4
    <3> QED
      BY <1>2, <2>1, <2>4, <3>1, InLine
  <2> QED
    BY <2>2, <2>4
<1> QED
    BY <1>1, <1>2, <1>3, SameBase

(* Opening a row lists the next step on the way to an entry.               *)
LEMMA NextStepIsListed ==
    ASSUME server \in Servers, NEW r \in DNs, NEW x \in DNs,
           Above(r, x), Len(x) = Len(r) + 1,
           NEW e \in Range(server.entries), Above(x, e),
           EqualDN(e, x) \/ server.wholeSubtree,
           BestBase(e, Contexts) = BestBase(r, Contexts)
    PROVE  \E k \in DOMAIN Children(r) : EqualDN(Children(r)[k].dn, x)
<1>1. e \in DNs
    BY ServersAre DEF Range
<1>2. /\ Len(r) \in Nat /\ Len(x) \in Nat /\ Len(e) \in Nat /\ Len(x) <= Len(e)
      /\ Above(r, e)
    BY <1>1, InLine
<1>3. Listed(e, r)
  <2>1. CASE server.wholeSubtree
    <3>1. DepthUnder(e, r) >= 0
      BY <1>1, <1>2, DepthOne
    <3> QED
      BY <2>1, <3>1 DEF Listed
  <2>2. CASE EqualDN(e, x)
    <3>1. Len(e) = Len(r) + 1
      BY <1>1, <2>2, InLine
    <3>2. DepthUnder(e, r) = 1
      BY <1>1, <1>2, <3>1, DepthOne
    <3> QED
      BY <3>2 DEF Listed
  <2> QED
    BY <2>1, <2>2
<1>4. e \in Range(Answer(r))
  <2>1. PICK i \in DOMAIN Answer(r) : Answer(r)[i] = e
    BY <1>3, AnswersAre
  <2> QED
    BY <2>1 DEF Range
<1>5. ~EqualDN(e, r)
  <2>1. Len(e) # Len(r)
    BY <1>2
  <2> QED
    BY <1>1, <2>1, InLine
<1>6. PICK k \in DOMAIN Children(r) : Above(Children(r)[k].dn, e)
    BY <1>4, <1>5, NothingIsLost
<1> DEFINE z == Children(r)[k].dn
<1>7. z \in DNs /\ Len(z) = Len(r) + 1 /\ Above(z, e)
    BY <1>6, RowsKeepToTheContext
<1> HIDE DEF z
<1>8. Above(x, z)
  <2>1. Len(x) <= Len(z)
    BY <1>2, <1>7
  <2> QED
    BY <1>1, <1>7, <2>1, InLine
<1>9. EqualDN(z, x)
    BY <1>7, <1>8, InLine
<1> QED
    BY <1>9 DEF z

-----------------------------------------------------------------------------
(* A jump under way is on the path to its goal, from a context that is     *)
(* shown, and has opened a row for each step behind it.                    *)
OnItsPath ==
    path # <<>> =>
        /\ goal \in DNs /\ BestBase(goal, Shown) # <<>>
        /\ path = PathFrom(BestBase(goal, Shown), goal)
        /\ \A k \in 1 .. step - 1 : \E r \in opened : EqualDN(r, path[k])

IInvBrowse ==
    /\ TypeOKBrowse
    /\ opened \subseteq DNs
    /\ ~showAll /\ override = <<>> => \A dn \in opened : ~Hidden(dn)
    /\ OnItsPath
    /\ ListedEntriesAreReached

LEMMA OnlyGapsStopAJump ==
    ASSUME server \in Servers, override \in server.overrides, opened \subseteq DNs,
           OnItsPath, path # <<>>, step \in 1 .. Len(path), Found(path[step]) = {},
           NEW e0 \in Range(server.entries), EqualDN(e0, goal), ~SetApart(goal)
    PROVE  /\ ~server.wholeSubtree
           /\ \E k \in 2 .. Len(goal) :
                 LET above == SubSeq(goal, k, Len(goal))
                 IN  /\ DepthUnder(above, BestBase(goal, Shown)) > 0
                     /\ \A e \in Range(server.entries) : ~EqualDN(e, above)
<1> DEFINE base == BestBase(goal, Shown)
           x == path[step]
           w == path[step - 1]
<1>1. /\ goal \in DNs /\ base # <<>> /\ path = PathFrom(base, goal)
      /\ \A k \in 1 .. step - 1 : \E r \in opened : EqualDN(r, path[k])
    BY DEF OnItsPath
<1>2. Shown \in ProperBases
    BY ShownAre
<1>3. base \in Range(Shown) /\ base \in DNs /\ Above(base, goal)
    BY <1>1, <1>2, BaseIsBest
<1>4. base = BestBase(goal, Shown)
    OBVIOUS
<1> HIDE DEF base
<1> DEFINE p == path
<1>0. p = PathFrom(base, goal)
    BY <1>1
<1> HIDE DEF p
<1>5. /\ Len(p) \in Nat \ {0} /\ p[1] = base
      /\ \A k \in 1 .. Len(p) :
            /\ p[k] \in DNs /\ Above(base, p[k]) /\ Above(p[k], goal)
            /\ Len(p[k]) = Len(base) + k - 1
      /\ \A k \in 2 .. Len(p) :
            p[k] = SubSeq(goal, Len(p) - k + 1, Len(goal)) /\ Len(p) - k + 1 <= Len(goal)
  <2>1. Len(p) \in Nat \ {0} /\ p[1] = base
    BY <1>0, <1>1, <1>3, PathsAre
  <2>2. \A k \in 1 .. Len(p) :
            /\ p[k] \in DNs /\ Above(base, p[k]) /\ Above(p[k], goal)
            /\ Len(p[k]) = Len(base) + k - 1
    BY <1>0, <1>1, <1>3, PathsAre
  <2>3. \A k \in 2 .. Len(p) : p[k] = SubSeq(goal, Len(p) - k + 1, Len(goal))
    <3>1. Descends(p, goal)
      BY <1>0, <1>1, <1>3, PathsAre
    <3> QED
      BY <3>1 DEF Descends
  <2>4. \A k \in 2 .. Len(p) : Len(p) - k + 1 <= Len(goal)
    BY <1>0, <1>1, <1>3, PathsAre
  <2> QED
    BY <2>1, <2>2, <2>3, <2>4
<1> USE DEF p
<1>6. \A r \in Rows : ~EqualDN(r, x)
    BY DEF Found
<1>7. step # 1
  <2>1. base \in Rows
    BY <1>3, RowsAre DEF Range
  <2>2. EqualDN(base, base)
    BY DEF EqualDN
  <2> QED
    BY <1>5, <1>6, <2>1, <2>2
<1>8. step \in 2 .. Len(path) /\ step - 1 \in 1 .. Len(path) /\ step - 1 \in 1 .. step - 1
    BY <1>5, <1>7
<1>9. /\ x \in DNs /\ Above(base, x) /\ Above(x, goal) /\ Len(x) = Len(base) + step - 1
      /\ w \in DNs /\ Above(base, w) /\ Above(w, goal)
      /\ Len(w) = Len(base) + (step - 1) - 1
    BY <1>5, <1>8
<1>10. x = SubSeq(goal, Len(path) - step + 1, Len(goal)) /\ Len(path) - step + 1 <= Len(goal)
    BY <1>5, <1>8
<1>11. PICK r \in opened : EqualDN(r, w)
    BY <1>1, <1>8
<1> HIDE DEF x, w
<1>12. r \in DNs
    OBVIOUS
<1>13. /\ Above(r, w) /\ Above(w, r) /\ Len(r) = Len(w)
    BY <1>9, <1>11, <1>12, InLine
<1>14. /\ Len(base) \in Nat /\ Len(r) \in Nat /\ Len(x) \in Nat /\ Len(goal) \in Nat
    BY <1>1, <1>3, <1>9, <1>12, InLine
<1>15. Len(x) = Len(r) + 1
    BY <1>8, <1>9, <1>13, <1>14
<1>16. Above(r, goal) /\ Above(base, r)
    BY <1>1, <1>3, <1>9, <1>12, <1>13, InLine
<1>17. Above(r, x)
  <2>1. Len(r) <= Len(x)
    BY <1>14, <1>15
  <2> QED
    BY <1>1, <1>9, <1>12, <1>16, <2>1, InLine
<1>18. ASSUME NEW e \in Range(server.entries), Above(x, e), Above(e, goal),
              EqualDN(e, x) \/ server.wholeSubtree
       PROVE  FALSE
  <2>1. e \in DNs
    BY ServersAre DEF Range
  <2>2. Above(base, e)
    BY <1>3, <1>9, <1>18, <2>1, InLine
  <2>3. /\ BestBase(e, Contexts) = BestBase(base, Contexts)
        /\ BestBase(r, Contexts) = BestBase(base, Contexts)
    <3>1. BestBase(e, Contexts) = BestBase(base, Contexts)
      BY <1>1, <1>4, <1>18, <2>1, <2>2, JumpsStayInAContext
    <3>2. BestBase(r, Contexts) = BestBase(base, Contexts)
      BY <1>1, <1>4, <1>12, <1>16, JumpsStayInAContext
    <3> QED
      BY <3>1, <3>2
  <2>4. PICK k \in DOMAIN Children(r) : EqualDN(Children(r)[k].dn, x)
    BY <1>9, <1>12, <1>15, <1>17, <1>18, <2>3, NextStepIsListed
  <2>5. Children(r)[k].dn \in Rows
    BY RowsAre
  <2> QED
    BY <1>6, <2>4, <2>5 DEF x
<1>19. /\ e0 \in DNs /\ Len(e0) = Len(goal) /\ Above(goal, e0) /\ Above(e0, goal)
  <2>1. e0 \in DNs
    BY ServersAre DEF Range
  <2> QED
    BY <1>1, <2>1, InLine
<1>20. Above(x, e0)
    BY <1>1, <1>9, <1>19, InLine
<1>21. ~server.wholeSubtree /\ ~EqualDN(e0, x)
    BY <1>18, <1>19, <1>20
<1> DEFINE k == Len(path) - step + 1
<1>22. k \in 1 .. Len(goal)
    BY <1>5, <1>8, <1>10, <1>14
<1>23. k # 1
  <2> SUFFICES ASSUME k = 1 PROVE FALSE
    OBVIOUS
  <2>1. x = SubSeq(goal, 1, Len(goal))
    BY <1>10
  <2>2. 1 \in 1 .. Len(goal) + 1
    BY <1>14
  <2>3. Len(x) = Len(goal) - 1 + 1
    BY <1>1, <2>1, <2>2, EndsAreAbove
  <2>4. Len(x) = Len(e0)
    BY <1>14, <1>19, <2>3
  <2> QED
    BY <1>9, <1>19, <1>20, <1>21, <2>4, InLine
<1>24. DepthUnder(x, base) > 0
  <2>1. Len(base) < Len(x)
    BY <1>8, <1>9, <1>14
  <2> QED
    BY <1>3, <1>9, <2>1, DepthOne
<1>25. ASSUME NEW e \in Range(server.entries)
       PROVE  ~EqualDN(e, x)
  <2> SUFFICES ASSUME EqualDN(e, x) PROVE FALSE
    OBVIOUS
  <2>1. e \in DNs
    BY ServersAre DEF Range
  <2>2. Above(x, e) /\ Above(e, x)
    BY <1>9, <2>1, InLine
  <2>3. Above(e, goal)
    BY <1>1, <1>9, <2>1, <2>2, InLine
  <2> QED
    BY <1>18, <2>2, <2>3
<1>26. k \in 2 .. Len(goal) /\ x = SubSeq(goal, k, Len(goal))
    BY <1>10, <1>22, <1>23
<1> HIDE DEF k
<1> QED
    BY <1>4, <1>21, <1>24, <1>25, <1>26

LEMMA NothingHiddenIsShown ==
    ASSUME IInvBrowse, ~showAll, override = <<>>, NEW r \in Rows
    PROVE  ~Hidden(r)
<1>1. /\ server \in Servers /\ override \in server.overrides /\ opened \subseteq DNs
      /\ \A dn \in opened : ~Hidden(dn)
    BY DEF IInvBrowse, TypeOKBrowse
<1>2. CASE \E k \in DOMAIN Shown : r = Shown[k]
    BY <1>1, <1>2, ShownAre
<1>3. ASSUME NEW dn \in opened, NEW k \in DOMAIN Children(dn), r = Children(dn)[k].dn
      PROVE  ~Hidden(r)
  <2>1. dn \in DNs
    BY <1>1
  <2> QED
    BY <1>1, <1>3, <2>1, HiddenComesFromAbove
<1> QED
    BY <1>1, <1>2, <1>3, RowsAre

Browsing == server \in Servers /\ override \in server.overrides /\ opened \subseteq DNs
RowsHaveNames == <<>> \notin Rows

LEMMA NoRowIsNameless == Browsing => RowsHaveNames
BY RowsAre DEF Browsing, RowsHaveNames

LEMMA NoRowIsNamelessNext == Browsing' => RowsHaveNames'
BY NoRowIsNameless, PTL

(* What a step that keeps the contexts keeps.                              *)
LEMMA SameTree ==
    ASSUME server' = server, override' = override, showAll' = showAll
    PROVE  /\ Shown' = Shown
           /\ \A dn : Children(dn)' = Children(dn)
           /\ \A dn : Hidden(dn)' = Hidden(dn)
           /\ opened \subseteq opened' => Rows \subseteq Rows'
<1>1. Shown' = Shown
    BY DEF Shown
<1>2. Contexts' = Contexts
    BY DEF Contexts
<1>3. \A dn : Answer(dn)' = Answer(dn)
    BY <1>2 DEF Answer
<1>4. \A dn : Children(dn)' = Children(dn)
    BY <1>3 DEF Children
<1>5. \A dn : Hidden(dn)' = Hidden(dn)
    BY DEF Hidden
<1>6. opened \subseteq opened' => Rows \subseteq Rows'
    BY <1>1, <1>4 DEF Rows
<1> QED
    BY <1>1, <1>4, <1>5, <1>6

LEMMA StillReached ==
    ASSUME ListedEntriesAreReached, server' = server, override' = override,
           showAll' = showAll, goal' = goal, outcome' = outcome
    PROVE  ListedEntriesAreReached'
<1>1. Shown' = Shown
    BY SameTree
<1>2. (Hidden(goal)' <=> Hidden(goal)) /\ (SetApart(goal)' <=> SetApart(goal))
    BY <1>1 DEF Hidden, SetApart, Contexts
<1> QED
    BY <1>1, <1>2 DEF ListedEntriesAreReached

LEMMA OpeningARow ==
    ASSUME IInvBrowse, server' = server, override' = override, showAll' = showAll,
           NEW r \in Rows, opened' = opened \cup {r}
    PROVE  /\ opened' \subseteq Rows' /\ <<>> \notin Rows' /\ opened' \subseteq DNs
           /\ ~showAll' /\ override' = <<>> => \A dn \in opened' : ~Hidden(dn)'
<1>1. /\ server \in Servers /\ override \in server.overrides /\ opened \subseteq DNs
      /\ opened \subseteq Rows
    BY DEF IInvBrowse, TypeOKBrowse
<1>2. r \in DNs
    BY <1>1, RowsAre
<1>3. opened' \subseteq DNs
    BY <1>1, <1>2
<1>4. Rows \subseteq Rows' /\ \A dn : Hidden(dn)' = Hidden(dn)
    BY SameTree
<1>5. <<>> \notin Rows'
    BY <1>1, <1>3, NoRowIsNamelessNext DEF Browsing, RowsHaveNames
<1>6. opened' \subseteq Rows'
    BY <1>1, <1>4
<1>7. ~showAll' /\ override' = <<>> => \A dn \in opened' : ~Hidden(dn)'
  <2> SUFFICES ASSUME ~showAll, override = <<>>, NEW dn \in opened'
               PROVE  ~Hidden(dn)'
    OBVIOUS
  <2>1. ~Hidden(dn)
    BY NothingHiddenIsShown DEF IInvBrowse
  <2> QED
    BY <1>4, <2>1
<1> QED
    BY <1>3, <1>5, <1>6, <1>7

LEMMA InitBrowsing ==
    ASSUME InitBrowse
    PROVE  IInvBrowse
<1>1. Browsing
    BY DEF InitBrowse, Browsing
<1>2. <<>> \notin Rows
    BY <1>1, NoRowIsNameless DEF RowsHaveNames
<1>3. TypeOKBrowse
  <2>1. Len(<<>>) = 0 /\ 0 \in 0 .. 0
    OBVIOUS
  <2>2. path = <<>> /\ step = 0 /\ step \in 0 .. Len(path)
    BY <2>1 DEF InitBrowse
  <2> QED
    BY <1>2, <2>2 DEF InitBrowse, TypeOKBrowse
<1> QED
    BY <1>3 DEF InitBrowse, IInvBrowse, OnItsPath, ListedEntriesAreReached

LEMMA NavigatesFromAContext ==
    ASSUME IInvBrowse, NEW dn \in DNs, NavigateTo(dn)
    PROVE  IInvBrowse'
<1>1. /\ server' = server /\ override' = override /\ showAll' = showAll /\ opened' = opened
      /\ goal' = dn
    BY DEF NavigateTo
<1>2. /\ Shown' = Shown /\ Rows' = Rows /\ \A x : Hidden(x)' = Hidden(x)
  <2>1. Shown' = Shown /\ \A x : Children(x)' = Children(x) /\ Hidden(x)' = Hidden(x)
    BY <1>1, SameTree
  <2>2. Rows' = Rows
    BY <1>1, <2>1 DEF Rows
  <2> QED
    BY <2>1, <2>2
<1>3. server \in Servers /\ override \in server.overrides /\ Shown \in ProperBases
    BY ShownAre DEF IInvBrowse, TypeOKBrowse
<1>4. ListedEntriesAreReached'
  <2>1. outcome' # "missed"
    BY DEF NavigateTo
  <2> QED
    BY <2>1 DEF ListedEntriesAreReached
<1> DEFINE base == BestBase(dn, Shown)
<1>5. CASE base = <<>>
  <2>1. path' = <<>> /\ step' = 0 /\ outcome' = "refused"
    BY <1>5 DEF NavigateTo, NoJump
  <2>2. TypeOKBrowse'
    BY <1>1, <1>2, <2>1 DEF IInvBrowse, TypeOKBrowse
  <2>3. OnItsPath'
    BY <2>1 DEF OnItsPath
  <2> QED
    BY <1>1, <1>2, <1>4, <2>2, <2>3 DEF IInvBrowse
<1>6. CASE base # <<>>
  <2>1. path' = PathFrom(base, dn) /\ step' = 1 /\ outcome' = "none"
    BY <1>6 DEF NavigateTo
  <2>2. base \in DNs /\ Above(base, dn)
    BY <1>3, <1>6, BaseIsBest
  <2>3. path' # <<>> /\ Len(path') \in Nat \ {0}
    BY <2>1, <2>2, PathsAre
  <2>4. TypeOKBrowse'
    BY <1>1, <1>2, <2>1, <2>3 DEF IInvBrowse, TypeOKBrowse
  <2>5. OnItsPath'
    BY <1>1, <1>2, <1>6, <2>1 DEF OnItsPath
  <2> QED
    BY <1>1, <1>2, <1>4, <2>4, <2>5 DEF IInvBrowse
<1> QED
    BY <1>5, <1>6

LEMMA WalksOnItsPath ==
    ASSUME IInvBrowse, WalkTo
    PROVE  IInvBrowse'
<1>1. /\ server' = server /\ override' = override /\ showAll' = showAll /\ goal' = goal
      /\ path # <<>>
    BY DEF WalkTo
<1>2. /\ server \in Servers /\ override \in server.overrides /\ opened \subseteq DNs
      /\ OnItsPath /\ step \in 1 .. Len(path) /\ Len(path) \in Nat /\ opened \subseteq Rows
      /\ ListedEntriesAreReached
  <2>1. step \in 0 .. Len(path) /\ step # 0
    BY <1>1 DEF IInvBrowse, TypeOKBrowse
  <2>2. Len(path) \in Nat
    <3>1. /\ goal \in DNs /\ BestBase(goal, Shown) # <<>>
          /\ path = PathFrom(BestBase(goal, Shown), goal)
      BY <1>1 DEF IInvBrowse, OnItsPath
    <3>2. Shown \in ProperBases
      BY ShownAre DEF IInvBrowse, TypeOKBrowse
    <3>3. BestBase(goal, Shown) \in DNs /\ Above(BestBase(goal, Shown), goal)
      BY <3>1, <3>2, BaseIsBest
    <3> QED
      BY <3>1, <3>3, PathsAre
  <2> QED
    BY <2>1, <2>2 DEF IInvBrowse, TypeOKBrowse
<1>3. Shown' = Shown /\ \A x : Children(x)' = Children(x) /\ Hidden(x)' = Hidden(x)
    BY <1>1, SameTree
<1>4. ASSUME path' = <<>>, step' = 0, opened' = opened, outcome' \in {"missed", "arrived"},
             ListedEntriesAreReached'
      PROVE  IInvBrowse'
  <2>1. Rows' = Rows
    BY <1>3, <1>4 DEF Rows
  <2>2. TypeOKBrowse'
    BY <1>1, <1>4, <2>1 DEF IInvBrowse, TypeOKBrowse
  <2>3. OnItsPath'
    BY <1>4 DEF OnItsPath
  <2> QED
    BY <1>1, <1>3, <1>4, <2>2, <2>3 DEF IInvBrowse
<1>5. CASE /\ Found(path[step]) = {}
           /\ NoJump /\ outcome' = "missed"
           /\ UNCHANGED opened
  <2>1. ASSUME NEW e0 \in Range(server.entries), EqualDN(e0, goal), ~SetApart(goal)
        PROVE  /\ ~server.wholeSubtree
               /\ \E k \in 2 .. Len(goal) :
                     LET above == SubSeq(goal, k, Len(goal))
                     IN  /\ DepthUnder(above, BestBase(goal, Shown)) > 0
                         /\ \A e \in Range(server.entries) : ~EqualDN(e, above)
    BY <1>1, <1>2, <1>5, <2>1, OnlyGapsStopAJump
  <2>2. (Hidden(goal)' <=> Hidden(goal)) /\ (SetApart(goal)' <=> SetApart(goal))
    BY <1>1, <1>3 DEF Hidden, SetApart, Contexts
  <2>3. SetApart(goal) => override # <<>> \/ (~showAll /\ Hidden(goal))
    BY <1>1, <1>2, HiddenAreSetApart DEF OnItsPath
  <2>4. ListedEntriesAreReached'
    BY <1>1, <1>3, <2>1, <2>2, <2>3 DEF ListedEntriesAreReached
  <2> QED
    BY <1>4, <1>5, <2>4 DEF NoJump
<1>6. CASE /\ Found(path[step]) # {} /\ step = Len(path)
           /\ NoJump /\ outcome' = "arrived"
           /\ UNCHANGED opened
  <2>1. ListedEntriesAreReached'
    BY <1>6 DEF ListedEntriesAreReached
  <2> QED
    BY <1>4, <1>6, <2>1 DEF NoJump
<1>7. CASE /\ step < Len(path)
           /\ \E r \in Found(path[step]) : WithOpened(r)
           /\ step' = step + 1
           /\ UNCHANGED <<path, outcome>>
  <2>1. PICK r \in Found(path[step]) : opened' = opened \cup {r}
    BY <1>7 DEF WithOpened
  <2>2. r \in Rows /\ EqualDN(r, path[step])
    BY DEF Found
  <2>3. /\ opened' \subseteq Rows' /\ <<>> \notin Rows' /\ opened' \subseteq DNs
        /\ ~showAll' /\ override' = <<>> => \A dn \in opened' : ~Hidden(dn)'
    BY <1>1, <2>1, <2>2, OpeningARow
  <2>4. TypeOKBrowse'
    BY <1>1, <1>2, <1>7, <2>3 DEF IInvBrowse, TypeOKBrowse
  <2>5. ListedEntriesAreReached'
    BY <1>1, <1>2, <1>7, StillReached
  <2>6. ASSUME NEW k \in 1 .. step' - 1
        PROVE  \E q \in opened' : EqualDN(q, path[k])
    <3>1. CASE k = step
      BY <2>1, <2>2, <3>1
    <3>2. CASE k # step
      <4>1. k \in 1 .. step - 1
        BY <1>2, <1>7, <3>2
      <4>2. \E q \in opened : EqualDN(q, path[k])
        BY <1>1, <1>2, <4>1 DEF OnItsPath
      <4> QED
        BY <2>1, <4>2
    <3> QED
      BY <3>1, <3>2
  <2>7. OnItsPath'
    BY <1>1, <1>2, <1>3, <1>7, <2>6 DEF OnItsPath
  <2> QED
    BY <2>3, <2>4, <2>5, <2>7 DEF IInvBrowse
<1> QED
    BY <1>5, <1>6, <1>7 DEF WalkTo

LEMMA BrowseStep ==
    ASSUME IInvBrowse, [NextBrowse]_browseVars
    PROVE  IInvBrowse'
<1>1. CASE Expand
  <2>1. PICK r \in Rows : opened' = opened \cup {r}
    BY <1>1 DEF Expand, WithOpened
  <2>2. /\ server' = server /\ override' = override /\ showAll' = showAll
        /\ path' = path /\ step' = step /\ goal' = goal /\ outcome' = outcome
    BY <1>1 DEF Expand, jumpVars
  <2>3. /\ opened' \subseteq Rows' /\ <<>> \notin Rows' /\ opened' \subseteq DNs
        /\ ~showAll' /\ override' = <<>> => \A dn \in opened' : ~Hidden(dn)'
    BY <2>1, <2>2, OpeningARow
  <2>4. TypeOKBrowse'
    BY <2>2, <2>3 DEF IInvBrowse, TypeOKBrowse
  <2>5. Shown' = Shown
    BY <2>2, SameTree
  <2>6. OnItsPath'
    BY <2>1, <2>2, <2>5 DEF IInvBrowse, OnItsPath
  <2>7. ListedEntriesAreReached'
    BY <2>2, StillReached DEF IInvBrowse
  <2> QED
    BY <2>3, <2>4, <2>6, <2>7 DEF IInvBrowse
<1>2. CASE ToggleShowAllContexts
  <2>1. /\ server' = server /\ override' = override /\ showAll' = ~showAll /\ opened' = {}
        /\ path' = <<>> /\ step' = 0 /\ outcome' = "none"
    BY <1>2 DEF ToggleShowAllContexts, NoJump
  <2>2. <<>> \notin Rows'
    BY <2>1, NoRowIsNamelessNext DEF IInvBrowse, TypeOKBrowse, Browsing, RowsHaveNames
  <2>3. TypeOKBrowse'
    BY <2>1, <2>2 DEF IInvBrowse, TypeOKBrowse
  <2> QED
    BY <2>1, <2>3 DEF IInvBrowse, OnItsPath, ListedEntriesAreReached
<1>3. CASE WalkTo
    BY <1>3, WalksOnItsPath
<1>4. CASE \E dn \in Goals : NavigateTo(dn)
  <2>1. Goals \subseteq DNs
    BY BrowseAssumption
  <2> QED
    BY <1>4, <2>1, NavigatesFromAContext
<1>5. CASE UNCHANGED browseVars
  <2>1. /\ server' = server /\ override' = override /\ showAll' = showAll /\ opened' = opened
        /\ path' = path /\ step' = step /\ goal' = goal /\ outcome' = outcome
    BY <1>5 DEF browseVars, jumpVars
  <2>2. Shown' = Shown /\ \A x : Children(x)' = Children(x) /\ Hidden(x)' = Hidden(x)
    BY <2>1, SameTree
  <2>3. Rows' = Rows
    BY <2>1, <2>2 DEF Rows
  <2>4. TypeOKBrowse' /\ OnItsPath'
    BY <2>1, <2>2, <2>3 DEF IInvBrowse, TypeOKBrowse, OnItsPath
  <2>5. ListedEntriesAreReached'
    BY <2>1, StillReached DEF IInvBrowse
  <2> QED
    BY <2>1, <2>2, <2>4, <2>5 DEF IInvBrowse
<1> QED
    BY <1>1, <1>2, <1>3, <1>4, <1>5 DEF NextBrowse

LEMMA BrowseInvariant == SpecBrowse => []IInvBrowse
<1>1. InitBrowse => IInvBrowse
    BY InitBrowsing
<1>2. IInvBrowse /\ [NextBrowse]_browseVars => IInvBrowse'
    BY BrowseStep
<1> QED
    BY <1>1, <1>2, PTL DEF SpecBrowse

(* Client.Children, Bases and the tree: whatever the server, the contexts  *)
(* and the base DN are, each listing has each row once, in order and one   *)
(* level down; it loses nothing of the answer and invents nothing; and     *)
(* no row is of a partition that is to be hidden.                          *)
THEOREM TheTreeIsTrue == SpecBrowse => []TreeIsTrue
<1>1. ASSUME IInvBrowse
      PROVE  TreeIsTrue
  <2>1. /\ server \in Servers /\ override \in server.overrides /\ opened \subseteq DNs
        /\ TypeOKBrowse
    BY <1>1 DEF IInvBrowse, TypeOKBrowse
  <2>2. ListingsAreSound
    BY <2>1, ListingIsSound DEF ListingsAreSound
  <2>3. NothingIsLostOrInvented
    <3> SUFFICES ASSUME NEW dn \in opened
                 PROVE  LET rows == Range(Children(dn)) IN
                    /\ \A e \in Range(Answer(dn)) :
                          EqualDN(e, dn) \/ \E r \in rows : DepthUnder(e, r.dn) >= 0
                    /\ \A r \in rows : \E e \in Range(Answer(dn)) : DepthUnder(e, r.dn) >= 0
      BY DEF NothingIsLostOrInvented
    <3>0. dn \in DNs
      BY <2>1
    <3>1. ASSUME NEW e \in Range(Answer(dn))
          PROVE  e \in DNs
      BY <2>1, <3>0, AnswersAre DEF Range
    <3>2. ASSUME NEW k \in DOMAIN Children(dn)
          PROVE  /\ Children(dn)[k].dn \in DNs
                 /\ \E e \in Range(Answer(dn)) : Above(Children(dn)[k].dn, e)
      BY <2>1, <3>0, RowsKeepToTheContext
    <3>3. ASSUME NEW e \in Range(Answer(dn)), ~EqualDN(e, dn)
          PROVE  \E r \in Range(Children(dn)) : DepthUnder(e, r.dn) >= 0
      <4>1. PICK k \in DOMAIN Children(dn) : Above(Children(dn)[k].dn, e)
        BY <2>1, <3>0, <3>3, NothingIsLost
      <4>2. DepthUnder(e, Children(dn)[k].dn) >= 0
        BY <3>1, <3>2, <4>1, DepthOne
      <4> QED
        BY <4>2 DEF Range
    <3>4. ASSUME NEW r \in Range(Children(dn))
          PROVE  \E e \in Range(Answer(dn)) : DepthUnder(e, r.dn) >= 0
      <4>1. PICK k \in DOMAIN Children(dn) : r = Children(dn)[k]
        BY DEF Range
      <4>2. PICK e \in Range(Answer(dn)) : Above(r.dn, e)
        BY <3>2, <4>1
      <4>3. DepthUnder(e, r.dn) >= 0
        BY <3>1, <3>2, <4>1, <4>2, DepthOne
      <4> QED
        BY <4>3
    <3> QED
      BY <3>3, <3>4
  <2>4. PartitionsStayHidden
    <3>1. IsInjective([i \in DOMAIN Shown |-> Fold(Shown[i])])
      BY <2>1, ShownAre DEF IsInjective, EqualDN
    <3>2. override # <<>> => Shown = <<override>>
      BY <2>1, ShownAre
    <3>3. ~showAll /\ override = <<>> => \A r \in Rows : ~Hidden(r)
      BY <1>1, NothingHiddenIsShown
    <3> QED
      BY <3>1, <3>2, <3>3 DEF PartitionsStayHidden
  <2> QED
    BY <2>1, <2>2, <2>3, <2>4 DEF TreeIsTrue
<1> QED
    BY <1>1, BrowseInvariant, PTL

(* navigateTo and walkTo: a jump to an entry arrives, unless a context     *)
(* that is not shown lies between, or the server lists nothing where one   *)
(* of the entries above it should be.                                      *)
THEOREM ListedIsReached == SpecBrowse => []ListedEntriesAreReached
<1>1. IInvBrowse => ListedEntriesAreReached
    BY DEF IInvBrowse
<1> QED
    BY <1>1, BrowseInvariant, PTL
=============================================================================
