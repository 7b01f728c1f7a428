--------------------------- MODULE EpisodesProofs ---------------------------
(***************************************************************************)
(* Proofs about what lies behind a verdict, for texts, drops, sessions and *)
(* transcripts of any size.  The searches answer with the best pages and   *)
(* units there are, although they compare only pieces of them              *)
(* (PagesAreTheBest, UnitsAreTheBest); the three numbers that the harness  *)
(* states of a checkout tell whether it held the pages 1 .. T              *)
(* (CutoffIsExact, AcceptedSawOnly); an accepted result trains on exactly  *)
(* what was sampled (TrainedAsSampled).  The last part says what the       *)
(* sessions of Episodes are made of (SessionIs, PromptsAre), for           *)
(* AcceptanceProofs.                                                       *)
(*                                                                         *)
(* What is defined over data is reasoned about without induction over the  *)
(* data: a set of numbers that is not empty has a least one (LeastOf), so  *)
(* a claim about every length or place has a least counterexample, and the *)
(* place before it has none (Climb).                                       *)
(***************************************************************************)
EXTENDS MCReceiver, FiniteSetTheorems, SequenceTheorems, TLAPS

-----------------------------------------------------------------------------
(* Numbers.                                                                *)

(* A set of numbers that is not empty has a least one.                     *)
LEMMA LeastOf ==
  ASSUME NEW S \in SUBSET Nat, S # {}
  PROVE  \E m \in S : \A k \in S : m <= k
<1>1. \E m \in S : \A k \in S : <<k, m>> \notin OpToRel(<, Nat)
  BY NatLessThanWellFounded, WFMin
<1>2. ASSUME NEW m \in Nat, NEW k \in Nat, <<k, m>> \notin OpToRel(<, Nat)
      PROVE  m <= k
  <2>1. ~(k < m)
    BY <1>2 DEF OpToRel
  <2> QED BY <2>1
<1> QED BY <1>1, <1>2

(* A finite set of numbers that is not empty has a greatest one.           *)
LEMMA GreatestOf ==
  ASSUME NEW S \in SUBSET Int, IsFiniteSet(S), S # {}
  PROVE  \E m \in S : \A k \in S : k <= m
<1> DEFINE HasMax(T) == \E m \in T : \A k \in T : k <= m
           Wrong == {n \in Nat : \E T \in SUBSET S : T # {} /\ Cardinality(T) = n /\ ~HasMax(T)}
<1>1. SUFFICES ASSUME ~HasMax(S) PROVE FALSE
  OBVIOUS
<1>2. Cardinality(S) \in Wrong
  BY <1>1, FS_CardinalityType
<1> HIDE DEF Wrong
<1>3. PICK n \in Wrong : \A k \in Wrong : n <= k
  <2>1. Wrong \in SUBSET Nat
    BY DEF Wrong
  <2> QED BY <1>2, <2>1, LeastOf
<1> USE DEF Wrong
<1>4. PICK T \in SUBSET S : T # {} /\ Cardinality(T) = n /\ ~HasMax(T)
  BY <1>3
<1>5. PICK x : x \in T
  BY <1>4
<1> DEFINE U == T \ {x}
<1>6. /\ IsFiniteSet(T) /\ IsFiniteSet(U) /\ n \in Nat
      /\ Cardinality(U) = n - 1 /\ Cardinality(U) \in Nat
  BY <1>3, <1>4, <1>5, FS_Subset, FS_RemoveElement, FS_CardinalityType
<1>7. U # {}
  <2> SUFFICES ASSUME U = {} PROVE FALSE
    OBVIOUS
  <2>1. T = {x} /\ x \in Int
    BY <1>5
  <2> QED BY <1>4, <2>1
<1>8. HasMax(U)
  <2>1. (n - 1) \notin Wrong
    <3>1. n \in Nat /\ ~(n <= n - 1)
      BY <1>6
    <3> QED BY <1>3, <3>1
  <2>2. U \in SUBSET S /\ n - 1 \in Nat
    BY <1>6
  <2> QED BY <1>6, <1>7, <2>1, <2>2
<1>9. PICK m \in U : \A k \in U : k <= m
  BY <1>8
<1>10. x \in Int /\ m \in Int /\ m \in T /\ \A k \in T : k \in Int /\ (k = x \/ k \in U)
  BY <1>5, <1>9
<1>11. CASE x <= m
  BY <1>4, <1>9, <1>10, <1>11
<1>12. CASE m < x
  <2>1. \A k \in T : k <= x
    BY <1>9, <1>10, <1>12
  <2> QED BY <1>4, <1>5, <2>1
<1> QED BY <1>10, <1>11, <1>12

(* Max and Min are what they are called.                                   *)
LEMMA MaxOf ==
  ASSUME NEW S \in SUBSET Int, IsFiniteSet(S), S # {}
  PROVE  Max(S) \in S /\ \A x \in S : x <= Max(S)
<1>1. \E m \in S : \A k \in S : m >= k
  <2>1. PICK m \in S : \A k \in S : k <= m
    BY GreatestOf
  <2>2. \A k \in S : m >= k
    BY <2>1
  <2> QED BY <2>2
<1>2. Max(S) \in S /\ \A k \in S : Max(S) >= k
  BY <1>1 DEF Max
<1>3. Max(S) \in Int /\ \A k \in S : k \in Int
  BY <1>2
<1> QED BY <1>2, <1>3

(* A member that none exceeds is the maximum.                              *)
LEMMA MaxIs ==
  ASSUME NEW S \in SUBSET Int, NEW m \in S, \A x \in S : x <= m
  PROVE  Max(S) = m
<1>1. \A x \in S : m >= x
  OBVIOUS
<1>2. Max(S) \in S /\ \A k \in S : Max(S) >= k
  BY <1>1 DEF Max
<1>3. Max(S) >= m /\ m >= Max(S) /\ Max(S) \in Int /\ m \in Int
  BY <1>1, <1>2
<1> QED BY <1>3

(* The smaller of two numbers.                                             *)
LEMMA MinOfTwo ==
  ASSUME NEW a \in Int, NEW b \in Int
  PROVE  Min({a, b}) = IF a <= b THEN a ELSE b
<1> DEFINE m == IF a <= b THEN a ELSE b
<1>1. m \in {a, b} /\ m \in Int /\ \A y \in {a, b} : m <= y
  OBVIOUS
<1>2. Min({a, b}) \in {a, b} /\ \A y \in {a, b} : Min({a, b}) <= y
  BY <1>1 DEF Min
<1>3. Min({a, b}) <= m /\ m <= Min({a, b}) /\ Min({a, b}) \in Int
  BY <1>1, <1>2
<1> HIDE DEF m
<1>4. Min({a, b}) = m
  BY <1>1, <1>3
<1> QED BY <1>4 DEF m

(* The larger of two numbers.                                              *)
LEMMA MaxOfTwo ==
  ASSUME NEW a \in Int, NEW b \in Int
  PROVE  Max({a, b}) = IF a <= b THEN b ELSE a
<1> DEFINE m == IF a <= b THEN b ELSE a
<1>1. m \in {a, b} /\ m \in Int /\ \A y \in {a, b} : y <= m
  OBVIOUS
<1>2. {a, b} \in SUBSET Int
  OBVIOUS
<1> HIDE DEF m
<1>3. Max({a, b}) = m
  BY <1>1, <1>2, MaxIs
<1> QED BY <1>3 DEF m

-----------------------------------------------------------------------------
(* The places of a subsequence, in order.                                  *)

Rank(P, i)  == Cardinality({j \in P : j <= i})
Place(P, m)   == CHOOSE i \in P : Rank(P, i) = m

(* Ranks number the places of a set from 1, in their order.                *)
LEMMA RankOK ==
  ASSUME NEW n \in Nat, NEW P \in SUBSET (1 .. n)
  PROVE  /\ IsFiniteSet(P) /\ Cardinality(P) \in 0 .. n
         /\ \A i \in P : Rank(P, i) \in 1 .. Cardinality(P) /\ Rank(P, i) <= i
         /\ \A i, k \in P : i < k => Rank(P, i) < Rank(P, k)
         /\ \A m \in 1 .. Cardinality(P) : \E i \in P : Rank(P, i) = m
<1>0. IsFiniteSet(1 .. n) /\ Cardinality(1 .. n) = n /\ \A i \in P : i \in Nat \ {0}
  <2>1. IsFiniteSet(1 .. n) /\ Cardinality(1 .. n) = n
    BY FS_Interval
  <2>2. \A i \in P : i \in Nat \ {0}
    OBVIOUS
  <2> QED BY <2>1, <2>2
<1>1. IsFiniteSet(P) /\ Cardinality(P) \in Nat /\ Cardinality(P) <= n
  BY <1>0, FS_Subset, FS_CardinalityType
<1> DEFINE A(i) == {j \in P : j <= i}
<1>2. ASSUME NEW i \in P
      PROVE  /\ IsFiniteSet(A(i)) /\ Cardinality(A(i)) \in Nat \ {0}
             /\ Cardinality(A(i)) <= Cardinality(P) /\ Cardinality(A(i)) <= i
  <2>0. i \in Nat
    BY <1>0
  <2>1. A(i) \in SUBSET P /\ A(i) \in SUBSET (1 .. i) /\ i \in A(i)
    <3>1. \A j \in P : j <= i => j \in 1 .. i
      BY <1>0, <2>0
    <3>2. A(i) \in SUBSET P /\ A(i) \in SUBSET (1 .. i)
      BY <3>1
    <3>3. i <= i
      BY <2>0
    <3> QED BY <3>2, <3>3
  <2> HIDE DEF A
  <2>2. IsFiniteSet(A(i)) /\ Cardinality(A(i)) \in Nat /\ Cardinality(A(i)) <= Cardinality(P)
    BY <1>1, <2>1, FS_Subset, FS_CardinalityType
  <2>3. IsFiniteSet(1 .. i) /\ Cardinality(1 .. i) = i
    BY <2>0, FS_Interval
  <2>4. Cardinality(A(i)) <= i
    BY <2>1, <2>3, FS_Subset
  <2>5. Cardinality(A(i)) # 0
    BY <2>1, <2>2, FS_EmptySet
  <2> QED BY <2>2, <2>4, <2>5
<1>3. ASSUME NEW i \in P, NEW k \in P, i < k
      PROVE  Cardinality(A(i)) < Cardinality(A(k))
  <2>0. i \in Nat /\ k \in Nat /\ \A j \in P : j \in Nat
    BY <1>0
  <2>1. A(i) \in SUBSET A(k) /\ k \in A(k) /\ k \notin A(i)
    <3>1. ~(k <= i) /\ k <= k /\ \A j \in P : j <= i => j <= k
      BY <1>3, <2>0
    <3> QED BY <1>3, <3>1
  <2>2. IsFiniteSet(A(k)) /\ Cardinality(A(i)) \in Nat /\ Cardinality(A(k)) \in Nat
    BY <1>2
  <2> HIDE DEF A
  <2>3. Cardinality(A(i)) <= Cardinality(A(k)) /\ Cardinality(A(k)) # Cardinality(A(i))
    BY <2>1, <2>2, FS_Subset
  <2> QED BY <2>2, <2>3
<1>4. \A i \in P : Rank(P, i) \in 1 .. Cardinality(P) /\ Rank(P, i) <= i
  <2> SUFFICES ASSUME NEW i \in P
               PROVE  Cardinality(A(i)) \in 1 .. Cardinality(P) /\ Cardinality(A(i)) <= i
    BY DEF Rank
  <2>1. /\ Cardinality(A(i)) \in Nat \ {0} /\ Cardinality(A(i)) <= Cardinality(P)
        /\ Cardinality(A(i)) <= i
    BY <1>2
  <2> DEFINE c == Cardinality(A(i))
             d == Cardinality(P)
  <2> HIDE DEF c, d
  <2>2. c \in Nat \ {0} /\ d \in Nat /\ c <= d /\ c <= i
    BY <1>1, <2>1 DEF c, d
  <2>3. c \in 1 .. d /\ c <= i
    BY <2>2
  <2> QED BY <2>3 DEF c, d
<1>5. \A i, k \in P : i < k => Rank(P, i) < Rank(P, k)
  BY <1>3 DEF Rank
<1>6. \A m \in 1 .. Cardinality(P) : \E i \in P : Rank(P, i) = m
  <2> DEFINE N == 1 .. Cardinality(P)
             f == [i \in P |-> Rank(P, i)]
  <2>1. IsFiniteSet(N) /\ Cardinality(N) = Cardinality(P)
    BY <1>1, FS_Interval
  <2>2. f \in [P -> N]
    BY <1>4
  <2>3. f \in Injection(P, N)
    <3>1. ASSUME NEW a \in P, NEW b \in P, Rank(P, a) = Rank(P, b) PROVE a = b
      <4>1. a \in Nat /\ b \in Nat /\ Rank(P, a) \in Nat
        BY <1>0, <1>4
      <4>2. ~(a < b) /\ ~(b < a)
        BY <1>5, <3>1, <4>1
      <4> QED BY <4>1, <4>2
    <3> QED BY <2>2, <3>1 DEF Injection, IsInjective
  <2> HIDE DEF f, N
  <2>4. f \in Surjection(P, N)
    BY <2>1, <2>3, FS_Injection
  <2> QED BY <2>4 DEF Surjection, f, N
<1>7. Cardinality(P) \in 0 .. n
  BY <1>1
<1> QED BY <1>1, <1>4, <1>5, <1>6, <1>7

(* Place is the inverse of Rank.                                           *)
LEMMA PlaceOK ==
  ASSUME NEW n \in Nat, NEW P \in SUBSET (1 .. n)
  PROVE  /\ \A m \in 1 .. Cardinality(P) : Place(P, m) \in P /\ Rank(P, Place(P, m)) = m
         /\ \A m, k \in 1 .. Cardinality(P) : m < k => Place(P, m) < Place(P, k)
         /\ \A i \in P : Place(P, Rank(P, i)) = i
<1>0. /\ \A i \in P : i \in Nat /\ Rank(P, i) \in 1 .. Cardinality(P)
      /\ \A i, k \in P : i < k => Rank(P, i) < Rank(P, k)
      /\ \A m \in 1 .. Cardinality(P) : \E i \in P : Rank(P, i) = m
      /\ Cardinality(P) \in Nat
  BY RankOK
<1> HIDE DEF Rank
<1>1. \A m \in 1 .. Cardinality(P) : Place(P, m) \in P /\ Rank(P, Place(P, m)) = m
  BY <1>0 DEF Place
<1>2. ASSUME NEW i \in P, NEW k \in P, Rank(P, i) = Rank(P, k) PROVE i = k
  <2>1. i \in Nat /\ k \in Nat /\ Rank(P, i) \in Nat /\ Rank(P, k) \in Nat
    BY <1>0
  <2>2. ~(i < k) /\ ~(k < i)
    BY <1>0, <1>2, <2>1
  <2> QED BY <2>1, <2>2
<1>3. \A i \in P : Place(P, Rank(P, i)) = i
  <2> SUFFICES ASSUME NEW i \in P PROVE Place(P, Rank(P, i)) = i
    OBVIOUS
  <2>1. Place(P, Rank(P, i)) \in P /\ Rank(P, Place(P, Rank(P, i))) = Rank(P, i)
    BY <1>0, <1>1
  <2> QED BY <1>2, <2>1
<1>4. ASSUME NEW m \in 1 .. Cardinality(P), NEW k \in 1 .. Cardinality(P), m < k
      PROVE  Place(P, m) < Place(P, k)
  <2> DEFINE a == Place(P, m)
             b == Place(P, k)
  <2>1. a \in P /\ b \in P /\ Rank(P, a) = m /\ Rank(P, b) = k
    BY <1>1
  <2> HIDE DEF a, b
  <2>2. a \in Nat /\ b \in Nat /\ m \in Nat /\ k \in Nat /\ a # b
    BY <1>0, <1>4, <2>1
  <2>3. ~(b < a)
    BY <1>0, <1>4, <2>1, <2>2
  <2>4. a < b
    BY <2>2, <2>3
  <2> QED BY <2>4 DEF a, b
<1> QED BY <1>1, <1>3, <1>4

(* A subsequence has the members at those places.                          *)
LEMMA SubsequenceOf ==
  ASSUME NEW T, NEW s \in Seq(T), NEW P \in SUBSET (DOMAIN s)
  PROVE  /\ Subsequence(s, P) \in Seq(T)
         /\ Len(Subsequence(s, P)) = Cardinality(P) /\ Cardinality(P) \in 0 .. Len(s)
         /\ \A m \in 1 .. Cardinality(P) :
              /\ Place(P, m) \in P
              /\ Subsequence(s, P)[m] = s[Place(P, m)]
<1>1. Len(s) \in Nat /\ P \in SUBSET (1 .. Len(s)) /\ \A i \in 1 .. Len(s) : s[i] \in T
  OBVIOUS
<1>2. Cardinality(P) \in 0 .. Len(s) /\ \A m \in 1 .. Cardinality(P) : Place(P, m) \in P
  BY <1>1, RankOK, PlaceOK
<1>3. Subsequence(s, P) = [m \in 1 .. Cardinality(P) |-> s[Place(P, m)]]
  BY DEF Subsequence, Place, Rank
<1>4. Cardinality(P) \in Nat
  BY <1>1, <1>2
<1>5. \A m \in 1 .. Cardinality(P) : s[Place(P, m)] \in T
  BY <1>1, <1>2
<1> QED BY <1>2, <1>3, <1>4, <1>5

-----------------------------------------------------------------------------
(* Sorting.                                                                *)

(* R orders any two members of S.                                          *)
StrictOrder(R, S) ==
  /\ \A x, y, z \in S : (<<x, y>> \in R /\ <<y, z>> \in R) => <<x, z>> \in R
  /\ \A x, y \in S : x # y => <<x, y>> \in R \/ <<y, x>> \in R
  /\ \A x \in S : <<x, x>> \notin R

(* A finite set with an order has its members in that order.               *)
LEMMA SortedExists ==
  ASSUME NEW S, IsFiniteSet(S), NEW R, StrictOrder(R, S)
  PROVE  \E s \in SetToSeqs(S) : \A i, j \in DOMAIN s : i < j => <<s[i], s[j]>> \in R
<1> DEFINE n    == Cardinality(S)
           B(x) == {y \in S : y = x \/ <<y, x>> \in R}
           f    == [x \in S |-> Cardinality(B(x))]
           s    == [m \in 1 .. n |-> CHOOSE x \in S : f[x] = m]
<1>1. n \in Nat /\ IsFiniteSet(1 .. n) /\ Cardinality(1 .. n) = n
  BY FS_CardinalityType, FS_Interval
<1>2. ASSUME NEW x \in S
      PROVE  IsFiniteSet(B(x)) /\ f[x] = Cardinality(B(x)) /\ f[x] \in Nat /\ f[x] \in 1 .. n
  <2>1. B(x) \in SUBSET S /\ x \in B(x)
    OBVIOUS
  <2>2. f[x] = Cardinality(B(x))
    OBVIOUS
  <2> HIDE DEF B, f
  <2>3. IsFiniteSet(B(x)) /\ Cardinality(B(x)) \in Nat /\ Cardinality(B(x)) <= n
    BY <2>1, FS_Subset, FS_CardinalityType
  <2>4. Cardinality(B(x)) # 0
    BY <2>1, <2>3, FS_EmptySet
  <2> HIDE DEF n
  <2> QED BY <1>1, <2>2, <2>3, <2>4
<1>3. ASSUME NEW x \in S, NEW y \in S, <<x, y>> \in R
      PROVE  f[x] < f[y]
  <2>1. B(x) \in SUBSET B(y)
    BY <1>3 DEF StrictOrder
  <2>2. y \in B(y) /\ y \notin B(x)
    BY <1>3 DEF StrictOrder
  <2>3. /\ f[x] = Cardinality(B(x)) /\ f[y] = Cardinality(B(y)) /\ IsFiniteSet(B(y))
        /\ f[x] \in Nat /\ f[y] \in Nat
    BY <1>2
  <2> HIDE DEF B, f
  <2>4. Cardinality(B(x)) <= Cardinality(B(y)) /\ Cardinality(B(y)) # Cardinality(B(x))
    BY <2>1, <2>2, <2>3, FS_Subset
  <2> QED BY <2>3, <2>4
<1> HIDE DEF n
<1>4. f \in [S -> 1 .. n]
  BY <1>2
<1> HIDE DEF f, B
<1>5. \A x, y \in S : f[x] = f[y] => x = y
  <2> SUFFICES ASSUME NEW x \in S, NEW y \in S, f[x] = f[y], x # y PROVE FALSE
    OBVIOUS
  <2>1. <<x, y>> \in R \/ <<y, x>> \in R
    BY DEF StrictOrder
  <2>2. f[x] \in Nat /\ f[y] \in Nat
    BY <1>2
  <2> QED BY <1>3, <2>1, <2>2
<1>6. f \in Surjection(S, 1 .. n)
  <2>1. f \in Injection(S, 1 .. n)
    BY <1>4, <1>5 DEF Injection, IsInjective
  <2> QED BY <1>1, <2>1, FS_Injection DEF n
<1>7. \A m \in 1 .. n : s[m] \in S /\ f[s[m]] = m
  BY <1>6 DEF Surjection
<1>8. s \in [1 .. n -> S] /\ DOMAIN s = 1 .. n
  BY <1>7
<1> HIDE DEF s
<1>9. \A i, j \in 1 .. n : i # j => s[i] # s[j]
  BY <1>7
<1>10. s \in SetToSeqs(S)
  BY <1>8, <1>9 DEF SetToSeqs, n
<1>11. ASSUME NEW i \in 1 .. n, NEW j \in 1 .. n, i < j
       PROVE  <<s[i], s[j]>> \in R
  <2>1. s[i] \in S /\ s[j] \in S /\ s[i] # s[j] /\ f[s[i]] = i /\ f[s[j]] = j
    BY <1>1, <1>7, <1>9, <1>11
  <2>2. <<s[j], s[i]>> \notin R
    <3>1. ~(j < i)
      BY <1>1, <1>11
    <3> QED BY <1>3, <2>1, <3>1
  <2> QED BY <2>1, <2>2 DEF StrictOrder
<1> QED BY <1>8, <1>10, <1>11

(* Such a sequence has every member, once.                                 *)
LEMMA SortedHasAll ==
  ASSUME NEW S, IsFiniteSet(S), NEW s \in SetToSeqs(S)
  PROVE  /\ s \in Seq(S) /\ Len(s) = Cardinality(S)
         /\ \A i, j \in 1 .. Len(s) : i # j => s[i] # s[j]
         /\ \A x \in S : \E i \in 1 .. Len(s) : s[i] = x
<1> DEFINE n == Cardinality(S)
<1>1. n \in Nat /\ IsFiniteSet(1 .. n) /\ Cardinality(1 .. n) = n
  BY FS_CardinalityType, FS_Interval
<1>2. s \in [1 .. n -> S] /\ \A i, j \in 1 .. n : i # j => s[i] # s[j]
  BY DEF SetToSeqs
<1> HIDE DEF n
<1>3. s \in Seq(S) /\ Len(s) = n
  BY <1>1, <1>2
<1>4. s \in Injection(1 .. n, S)
  BY <1>2 DEF Injection, IsInjective
<1>5. s \in Surjection(1 .. n, S)
  BY <1>1, <1>4, FS_Injection DEF n
<1> QED BY <1>2, <1>3, <1>5 DEF Surjection, n

(* Places that leave none before them out are the first ones.              *)
LEMMA FirstPlaces ==
  ASSUME NEW n \in Nat, NEW P \in SUBSET (1 .. n), \A i \in P : \A j \in 1 .. i : j \in P
  PROVE  P = 1 .. Cardinality(P) /\ Cardinality(P) \in 0 .. n
<1>1. IsFiniteSet(P) /\ Cardinality(P) \in 0 .. n
  BY RankOK
<1>2. CASE P = {}
  BY <1>1, <1>2, FS_EmptySet
<1>3. CASE P # {}
  <2>1. P \in SUBSET Int
    OBVIOUS
  <2>2. PICK m \in P : \A i \in P : i <= m
    BY <1>1, <1>3, <2>1, GreatestOf
  <2>3. P = 1 .. m /\ m \in Nat
    <3>1. m \in Nat /\ \A i \in P : i \in 1 .. m
      BY <2>2
    <3>2. \A j \in 1 .. m : j \in P
      OBVIOUS
    <3> QED BY <3>1, <3>2
  <2>4. Cardinality(1 .. m) = m
    BY <2>3, FS_Interval
  <2> QED BY <1>1, <2>3, <2>4
<1> QED BY <1>2, <1>3

(* The first places give the beginning of a sequence.                      *)
LEMMA FirstOnes ==
  ASSUME NEW T, NEW s \in Seq(T), NEW m \in 0 .. Len(s)
  PROVE  Subsequence(s, 1 .. m) = [i \in 1 .. m |-> s[i]]
<1>1. m \in Nat /\ Cardinality(1 .. m) = m
  BY FS_Interval
<1>2. ASSUME NEW i \in 1 .. m
      PROVE  Rank(1 .. m, i) = i
  <2>1. {j \in 1 .. m : j <= i} = 1 .. i
    BY <1>1
  <2>2. Cardinality(1 .. i) = i
    BY <1>1, FS_Interval
  <2> QED BY <2>1, <2>2 DEF Rank
<1>3. ASSUME NEW i \in 1 .. m
      PROVE  Place(1 .. m, i) = i
  BY <1>2 DEF Place
<1>4. Subsequence(s, 1 .. m) = [i \in 1 .. m |-> s[Place(1 .. m, i)]]
  BY <1>1 DEF Subsequence, Place, Rank
<1> QED BY <1>3, <1>4

-----------------------------------------------------------------------------
(* Ranking.                                                                *)

SortedBy(s, score, order) ==
  \A i, j \in DOMAIN s : i < j =>
    \/ score[s[i]] > score[s[j]]
    \/ (score[s[i]] = score[s[j]] /\ <<s[i], s[j]>> \in order)

Scoring(s, k, score) == {i \in DOMAIN Leading(s, k) : score[Leading(s, k)[i]] > 0}

IsTop(C, score, order, s, k, P) ==
  /\ Leading(s, k) \in Seq(C) /\ Len(Leading(s, k)) <= Len(s)
  /\ \A i \in 1 .. Len(Leading(s, k)) : Leading(s, k)[i] = s[i]
  /\ P = 1 .. Cardinality(P) /\ Cardinality(P) \in 0 .. Len(Leading(s, k))
  /\ TopK([i \in 1 .. Cardinality(P) |-> Leading(s, k)[i]], C, score, order, k)

(* The first k of a set sorted by score, as far as they score at all, are  *)
(* its best k.                                                             *)
LEMMA RankedTop ==
  ASSUME NEW C, IsFiniteSet(C), NEW score, \A x \in C : score[x] \in Nat, NEW order,
         NEW s \in SetToSeqs(C), NEW k \in Nat, SortedBy(s, score, order)
  PROVE  IsTop(C, score, order, s, k, Scoring(s, k, score))
<1> DEFINE P       == Scoring(s, k, score)
           n       == Len(s)
           m       == IF k <= n THEN k ELSE n
           ranked  == Leading(s, k)
           similar == {x \in C : score[x] > 0}
           Q       == {i \in 1 .. n : score[s[i]] > 0}
           q       == Cardinality(Q)
           p       == Cardinality(P)
           answer  == [i \in 1 .. p |-> ranked[i]]
           ahead(x, y) == score[x] > score[y] \/ (score[x] = score[y] /\ <<x, y>> \in order)
<1>1. /\ s \in Seq(C) /\ n = Cardinality(C) /\ n \in Nat
      /\ \A i, j \in 1 .. n : i # j => s[i] # s[j]
      /\ \A x \in C : \E i \in 1 .. n : s[i] = x
      /\ \A i \in 1 .. n : s[i] \in C
      /\ DOMAIN s = 1 .. n
  BY SortedHasAll
<1>2. Min({k, n}) = m /\ m \in 0 .. n /\ m <= k
  BY <1>1, MinOfTwo
<1>3. \A i, j \in 1 .. n : i < j => ahead(s[i], s[j])
  BY <1>1 DEF SortedBy
<1>0. P = {i \in DOMAIN ranked : score[ranked[i]] > 0}
  BY DEF Scoring
<1> HIDE DEF n, P
<1>4. ranked = SubSeq(s, 1, m)
  BY <1>2 DEF Leading, n
<1>5. ranked \in Seq(C) /\ Len(ranked) = m /\ \A i \in 1 .. m : ranked[i] = s[i]
  <2>1. m \in Nat /\ n \in Nat /\ n = Len(s)
    BY <1>1, <1>2 DEF n
  <2> HIDE DEF m
  <2> QED BY <1>1, <1>2, <1>4, <2>1
<1> HIDE DEF ranked, m
<1>6. DOMAIN ranked = 1 .. m
  BY <1>5
<1>7. Q = 1 .. q /\ q \in 0 .. n
  <2>1. ASSUME NEW i \in Q, NEW j \in 1 .. i PROVE j \in Q
    <3>1. i \in 1 .. n /\ j \in 1 .. n /\ (j = i \/ j < i)
      BY <1>1
    <3>2. score[s[i]] \in Nat /\ score[s[j]] \in Nat /\ score[s[i]] > 0
      BY <1>1, <3>1
    <3>3. j < i => score[s[j]] > score[s[i]] \/ score[s[j]] = score[s[i]]
      BY <1>3, <3>1
    <3> QED BY <3>1, <3>2, <3>3
  <2>2. Q \in SUBSET (1 .. n)
    OBVIOUS
  <2> HIDE DEF Q
  <2> QED BY <1>1, <2>1, <2>2, FirstPlaces
<1>8. P = {i \in 1 .. m : i \in Q}
  BY <1>0, <1>1, <1>2, <1>5, <1>6
<1>9. P = 1 .. p /\ p \in 0 .. m
  <2>1. P \in SUBSET (1 .. m) /\ m \in Nat
    BY <1>2, <1>8
  <2> HIDE DEF Q, q
  <2>2. \A i \in P : \A j \in 1 .. i : j \in P
    BY <1>1, <1>2, <1>7, <1>8
  <2> QED BY <2>1, <2>2, FirstPlaces
<1>10. IsFiniteSet(similar) /\ Cardinality(similar) = q
  <2> DEFINE f == [i \in Q |-> s[i]]
  <2>1. f \in [Q -> similar]
    BY <1>1
  <2>2. \A i, j \in Q : f[i] = f[j] => i = j
    BY <1>1
  <2>3. \A x \in similar : \E i \in Q : f[i] = x
    <3> SUFFICES ASSUME NEW x \in similar PROVE \E i \in Q : f[i] = x
      OBVIOUS
    <3>1. PICK i \in 1 .. n : s[i] = x
      BY <1>1
    <3>2. i \in Q /\ f[i] = x
      BY <3>1
    <3> QED BY <3>2
  <2>4. IsFiniteSet(Q)
    <3>1. Q \in SUBSET (1 .. n)
      OBVIOUS
    <3> QED BY <1>1, <3>1, RankOK
  <2> HIDE DEF f, Q
  <2>5. f \in Bijection(Q, similar)
    BY <2>1, <2>2, <2>3 DEF Bijection, Injection, Surjection, IsInjective
  <2>6. ExistsBijection(Q, similar)
    BY <2>5 DEF ExistsBijection
  <2> QED BY <2>4, <2>6, FS_Bijection
<1>11. p = (IF k <= q THEN k ELSE q)
  <2> HIDE DEF Q, p, q
  <2>1. \A i \in 1 .. m : i \in 1 .. p <=> i \in 1 .. q
    BY <1>7, <1>8, <1>9
  <2>2. p <= q
    <3>1. p \in Nat /\ q \in Nat /\ (p = 0 \/ p \in 1 .. p) /\ p <= m /\ m \in Nat
      BY <1>2, <1>7, <1>9
    <3> QED BY <2>1, <3>1
  <2>3. q <= p \/ p = m
    <3>1. p \in Nat /\ q \in Nat /\ p <= m /\ m \in Nat
      BY <1>2, <1>7, <1>9
    <3>2. p < m /\ p < q => p + 1 \in 1 .. m /\ p + 1 \in 1 .. q /\ p + 1 \notin 1 .. p
      BY <3>1
    <3> QED BY <2>1, <3>1, <3>2
  <2>4. p \in Nat /\ q \in Nat /\ n \in Nat /\ q <= n /\ p <= m /\ k \in Nat
    BY <1>1, <1>2, <1>7, <1>9
  <2>5. m = k \/ (m = n /\ n < k)
    BY <2>4 DEF m
  <2> HIDE DEF m
  <2>6. m <= k /\ m \in Nat
    BY <1>2, <2>4
  <2> QED BY <2>2, <2>3, <2>4, <2>5, <2>6
<1>12. answer \in Seq(C) /\ Len(answer) = p /\ DOMAIN answer = 1 .. p
       /\ \A i \in 1 .. p : answer[i] = s[i] /\ i \in Q /\ i \in 1 .. n
  <2>1. p \in Nat /\ m \in Nat /\ p <= m /\ m <= n
    BY <1>2, <1>9
  <2> HIDE DEF p, Q
  <2>2. \A i \in 1 .. p : i \in 1 .. m /\ i \in 1 .. n /\ ranked[i] = s[i] /\ i \in Q
    BY <1>1, <1>5, <1>8, <1>9, <2>1
  <2>3. \A i \in 1 .. p : ranked[i] \in C
    BY <1>1, <2>2
  <2> QED BY <2>1, <2>2, <2>3
<1> HIDE DEF answer
<1>13. \A i \in DOMAIN answer : answer[i] \in similar
  BY <1>1, <1>12
<1>14. \A i, j \in DOMAIN answer : i < j => ahead(answer[i], answer[j])
  BY <1>3, <1>12
<1>15. Len(answer) = Min({k, Cardinality(similar)})
  <2>1. q \in Int
    BY <1>7
  <2> HIDE DEF q, p
  <2> QED BY <1>10, <1>11, <1>12, <2>1, MinOfTwo
<1>16. ASSUME NEW x \in similar, NEW i \in DOMAIN answer, ~(\E j \in DOMAIN answer : answer[j] = x)
       PROVE  ahead(answer[i], x)
  <2>1. PICK j \in 1 .. n : s[j] = x
    BY <1>1
  <2>2. j \notin 1 .. p
    BY <1>12, <1>16, <2>1
  <2>3. i \in 1 .. p /\ i \in 1 .. n /\ answer[i] = s[i]
    BY <1>12, <1>16
  <2>4. i < j
    <3>1. p \in Nat
      BY <1>9
    <3> HIDE DEF p
    <3> QED BY <1>1, <2>1, <2>2, <2>3, <3>1
  <2> QED BY <1>3, <2>1, <2>3, <2>4
<1> HIDE DEF similar, ahead
<1>17. TopK(answer, C, score, order, k)
  BY <1>13, <1>14, <1>15, <1>16 DEF TopK, similar, ahead
<1> QED BY <1>5, <1>9, <1>1, <1>2, <1>17 DEF IsTop, answer, ranked, n, P

-----------------------------------------------------------------------------
(* Texts and their parts.                                                  *)

(* The windows of a valid configuration move on (config.py 140-146).       *)
Chunked(chunking) ==
  chunking.max \in Nat /\ chunking.overlap \in Nat /\ chunking.overlap < chunking.max

(* A part of a text, empty only when the text is.                          *)
Part(text, span) ==
  /\ span.from \in Nat /\ span.to \in Nat /\ span.to <= Len(text)
  /\ span.from < span.to \/ (Len(text) = 0 /\ span.from = span.to)

(* What a function makes of a finite set is finite.                        *)
LEMMA FiniteImage ==
  ASSUME NEW I, IsFiniteSet(I), NEW f
  PROVE  IsFiniteSet({f[x] : x \in I})
<1> DEFINE g == [x \in I |-> f[x]]
           T == {f[x] : x \in I}
<1>1. g \in Surjection(I, T)
  BY DEF Surjection
<1> HIDE DEF g, T
<1>2. IsFiniteSet(T)
  BY <1>1, FS_Surjection
<1> QED BY <1>2 DEF T

(* Of characters that are not none, the best is one of them.               *)
LEMMA BestCharacter ==
  ASSUME NEW text \in Seq(Nat), NEW a \in Nat \ {0}, NEW b \in Nat, a <= b, b <= Len(text)
  PROVE  /\ Max({text[i] : i \in a .. b}) \in Nat
         /\ \A i \in a .. b : text[i] <= Max({text[j] : j \in a .. b})
         /\ \E i \in a .. b : text[i] = Max({text[j] : j \in a .. b})
<1> DEFINE I == a .. b
           S == {text[i] : i \in I}
<1>1. IsFiniteSet(I) /\ \A i \in I : i \in 1 .. Len(text)
  BY FS_Interval
<1>2. S \in SUBSET Int /\ b \in I /\ \A i \in I : text[i] \in Nat
  BY <1>1
<1> HIDE DEF I
<1>3. IsFiniteSet(S) /\ S # {}
  BY <1>1, <1>2, FiniteImage
<1>4. Max(S) \in S /\ \A x \in S : x <= Max(S)
  <2> HIDE DEF S
  <2> QED BY <1>2, <1>3, MaxOf
<1>5. PICK i \in I : Max(S) = text[i]
  BY <1>4
<1>6. \A j \in I : text[j] <= Max(S)
  BY <1>4
<1>7. Max(S) \in Nat
  BY <1>2, <1>5
<1> QED BY <1>5, <1>6, <1>7 DEF I, S

(* A part of a text is as similar as its most similar character, and the   *)
(* text no less.                                                           *)
LEMMA PartSimilarity ==
  ASSUME NEW text \in Seq(Nat), NEW span, Part(text, span)
  PROVE  /\ Similarity(text, span) \in Nat /\ Own(text) \in Nat
         /\ Similarity(text, span) <= Own(text)
         /\ \A i \in span.from + 1 .. span.to : text[i] <= Similarity(text, span)
         /\ Len(text) > 0 => \E i \in 1 .. Len(text) : text[i] = Own(text)
         /\ Len(text) = 0 => Own(text) = 0
<1> DEFINE a == span.from
           b == span.to
           n == Len(text)
<1>0. a \in Nat /\ b \in Nat /\ n \in Nat /\ b <= n
  BY DEF Part
<1>1. CASE n = 0
  <2>1. a = b /\ Similarity(text, span) = 0 /\ Own(text) = 0
    BY <1>0, <1>1 DEF Similarity, Own, Whole, Blank, Part
  <2>2. a + 1 .. b = {}
    BY <1>0, <2>1
  <2> QED BY <1>1, <2>1, <2>2
<1>2. CASE n > 0
  <2> DEFINE S == {text[i] : i \in a + 1 .. b}
             W == {text[i] : i \in 1 .. n}
  <2>1. a < b
    BY <1>0, <1>2 DEF Part
  <2>2. Similarity(text, span) = Max(S) /\ Own(text) = Max(W)
    <3>1. Similarity(text, span) = Max(S)
      BY <1>0, <2>1 DEF Similarity
    <3>2. Own(text) = Max({text[i] : i \in 0 + 1 .. n})
      BY <1>0, <1>2 DEF Similarity, Own, Whole
    <3>3. 0 + 1 = 1
      OBVIOUS
    <3> QED BY <3>1, <3>2, <3>3
  <2>3. /\ Max(S) \in Nat /\ \A i \in a + 1 .. b : text[i] <= Max(S)
        /\ \E i \in a + 1 .. b : text[i] = Max(S)
    <3>1. a + 1 \in Nat \ {0} /\ a + 1 <= b /\ b <= Len(text)
      BY <1>0, <2>1
    <3> HIDE DEF a, b
    <3> QED BY <1>0, <3>1, BestCharacter
  <2>4. /\ Max(W) \in Nat /\ \A i \in 1 .. n : text[i] <= Max(W)
        /\ \E i \in 1 .. n : text[i] = Max(W)
    <3>1. 1 \in Nat \ {0} /\ 1 <= n /\ n <= Len(text)
      BY <1>0, <1>2
    <3> QED BY <1>0, <3>1, BestCharacter
  <2>5. \A i \in a + 1 .. b : i \in 1 .. n
    BY <1>0
  <2> HIDE DEF S, W
  <2>6. Max(S) <= Max(W)
    BY <2>3, <2>4, <2>5
  <2> QED BY <1>2, <2>2, <2>3, <2>4, <2>6
<1> QED BY <1>0, <1>1, <1>2

(* Parts that leave out blanks at most are, the best of them, as similar   *)
(* as the whole.                                                           *)
LEMMA BestOfParts ==
  ASSUME NEW text \in Seq(Nat), NEW n \in Nat \ {0}, NEW spans, DOMAIN spans = 1 .. n,
         \A m \in 1 .. n : Part(text, spans[m]),
         \A i \in 1 .. Len(text) : text[i] # 0 =>
           \E m \in 1 .. n : i \in spans[m].from + 1 .. spans[m].to
  PROVE  /\ Max({Similarity(text, spans[m]) : m \in 1 .. n}) = Own(text)
         /\ \E m \in 1 .. n : Similarity(text, spans[m]) = Own(text)
         /\ \A m \in 1 .. n : /\ Similarity(text, spans[m]) \in Nat
                              /\ Similarity(text, spans[m]) <= Own(text)
         /\ Own(text) \in Nat
<1>1. \A m \in 1 .. n : /\ Similarity(text, spans[m]) \in Nat
                        /\ Similarity(text, spans[m]) <= Own(text)
                        /\ \A i \in spans[m].from + 1 .. spans[m].to :
                             text[i] <= Similarity(text, spans[m])
  BY PartSimilarity
<1>2. /\ Own(text) \in Nat
      /\ Len(text) > 0 => \E i \in 1 .. Len(text) : text[i] = Own(text)
      /\ Len(text) = 0 => Own(text) = 0
  <2>1. Part(text, spans[1])
    OBVIOUS
  <2> QED BY <2>1, PartSimilarity
<1>3. \E m \in 1 .. n : Similarity(text, spans[m]) = Own(text)
  <2>1. CASE Own(text) = 0
    <3>1. Similarity(text, spans[1]) = 0
      BY <1>1, <2>1
    <3> QED BY <2>1, <3>1
  <2>2. CASE Own(text) # 0
    <3>1. PICK i \in 1 .. Len(text) : text[i] = Own(text)
      BY <1>2, <2>2
    <3>2. PICK m \in 1 .. n : i \in spans[m].from + 1 .. spans[m].to
      BY <2>2, <3>1
    <3>3. Own(text) <= Similarity(text, spans[m])
      BY <1>1, <3>1, <3>2
    <3> QED BY <1>1, <1>2, <3>3
  <2> QED BY <2>1, <2>2
<1> DEFINE S == {Similarity(text, spans[m]) : m \in 1 .. n}
<1>4. S \in SUBSET Int /\ Own(text) \in S /\ \A x \in S : x <= Own(text)
  BY <1>1, <1>3
<1> HIDE DEF S
<1>5. Max(S) = Own(text)
  BY <1>4, MaxIs
<1> QED BY <1>1, <1>2, <1>3, <1>5 DEF S

-----------------------------------------------------------------------------
(* Windows.                                                                *)

(* Parts each of which begins before the one before has ended leave none   *)
(* between the first and the last out.                                     *)
LEMMA NoGap ==
  ASSUME NEW n \in Nat \ {0}, NEW from, NEW to, NEW p \in Int,
         \A i \in 1 .. n : from[i] \in Int /\ to[i] \in Int,
         from[1] <= p, p <= to[n],
         \A i \in 1 .. n : i < n => from[i + 1] <= to[i] + 1
  PROVE  \E i \in 1 .. n : from[i] <= p /\ p <= to[i]
<1> DEFINE S == {i \in 1 .. n : p <= to[i]}
<1>1. S \in SUBSET Nat /\ n \in S
  OBVIOUS
<1>2. PICK i \in S : \A j \in S : i <= j
  <2> HIDE DEF S
  <2> QED BY <1>1, LeastOf
<1>3. i \in 1 .. n /\ p <= to[i]
  BY <1>2
<1>4. CASE i = 1
  BY <1>3, <1>4
<1>5. CASE i > 1
  <2>1. i - 1 \in 1 .. n /\ ~(i <= i - 1) /\ (i - 1) + 1 = i /\ i - 1 < n
    BY <1>3, <1>5
  <2>2. ~(p <= to[i - 1])
    BY <1>2, <2>1
  <2>3. from[i] <= to[i - 1] + 1
    BY <2>1
  <2>4. to[i - 1] \in Int /\ from[i] \in Int
    BY <1>3, <2>1
  <2>5. from[i] <= p
    BY <2>2, <2>3, <2>4
  <2> QED BY <1>3, <2>5
<1> QED BY <1>3, <1>4, <1>5

(* Nothing is said of the windows but where they begin; the last is the    *)
(* first that reaches the end.                                             *)
Start(stride, i)       == (i - 1) * stride
LastWindow(n, stride, max) ==
  CHOOSE i \in 1 .. n : /\ Start(stride, i) + max >= n
                        /\ \A j \in 1 .. i - 1 : Start(stride, j) + max < n

(* The windows of split_spans start one stride apart.                      *)
LEMMA Starts ==
  ASSUME NEW stride \in Nat \ {0}
  PROVE  /\ \A i \in Nat : Start(stride, i) \in Int
         /\ \A i \in Nat \ {0} : Start(stride, i) \in Nat /\ Start(stride, i) >= i - 1
         /\ \A i \in Nat : Start(stride, i + 1) = Start(stride, i) + stride
         /\ Start(stride, 1) = 0
<1>1. \A i \in Nat : (i - 1) * stride \in Int
  OBVIOUS
<1>2. ASSUME NEW i \in Nat \ {0}
      PROVE  (i - 1) * stride \in Nat /\ (i - 1) * stride >= i - 1
  <2>1. i - 1 \in Nat
    OBVIOUS
  <2>2. \A a, b \in Nat : b >= 1 => a * b >= a /\ a * b \in Nat
    OBVIOUS
  <2> QED BY <2>1, <2>2
<1>3. \A i \in Nat : ((i + 1) - 1) * stride = (i - 1) * stride + stride
  OBVIOUS
<1>4. (1 - 1) * stride = 0
  OBVIOUS
<1> QED BY <1>1, <1>2, <1>3, <1>4 DEF Start

Reaching(n, stride, max, last) ==
  /\ last \in 1 .. n /\ Start(stride, last) + max >= n
  /\ \A j \in 1 .. n : j < last => Start(stride, j) + max < n
  /\ \A i \in 1 .. last : Start(stride, i) \in Nat /\ Start(stride, i) < n
  /\ \A m \in 1 .. n : \E i \in 1 .. last :
       Start(stride, i) + 1 <= m /\ m <= Start(stride, i) + max

(* The last window reaches the end of the text and none before it does.    *)
LEMMA WindowsReach ==
  ASSUME NEW n \in Nat \ {0}, NEW stride \in Nat \ {0}, NEW max \in Nat, stride <= max
  PROVE  Reaching(n, stride, max, LastWindow(n, stride, max))
<1> DEFINE S == {i \in 1 .. n : Start(stride, i) + max >= n}
           last == LastWindow(n, stride, max)
<1>0. /\ \A i \in 1 .. n : Start(stride, i) \in Nat /\ Start(stride, i) >= i - 1
      /\ \A i \in 1 .. n : Start(stride, i + 1) = Start(stride, i) + stride
      /\ Start(stride, 1) = 0
  <2>1. \A i \in 1 .. n : i \in Nat /\ i \in Nat \ {0}
    OBVIOUS
  <2> QED BY <2>1, Starts
<1>1. S \in SUBSET Nat /\ n \in S
  BY <1>0
<1>2. PICK first \in S : \A j \in S : first <= j
  <2> HIDE DEF S
  <2> QED BY <1>1, LeastOf
<1>3. first \in 1 .. n /\ Start(stride, first) + max >= n
  BY <1>2
<1>4. ASSUME NEW j \in 1 .. first - 1
      PROVE  Start(stride, j) + max < n
  <2>1. j \in 1 .. n /\ ~(first <= j)
    BY <1>3
  <2>2. j \notin S
    BY <1>2, <2>1
  <2> QED BY <1>0, <2>1, <2>2
<1> HIDE DEF S
<1>5. /\ last \in 1 .. n /\ Start(stride, last) + max >= n
      /\ \A j \in 1 .. last - 1 : Start(stride, j) + max < n
  BY <1>3, <1>4 DEF LastWindow
<1> HIDE DEF last
<1>6. \A j \in 1 .. n : j < last => Start(stride, j) + max < n
  BY <1>5
<1>7. ASSUME NEW i \in 1 .. last
      PROVE  Start(stride, i) \in Nat /\ Start(stride, i) < n
  <2>1. i \in 1 .. n
    BY <1>5
  <2>2. CASE i = 1
    BY <1>0, <2>2
  <2>3. CASE i > 1
    <3>1. i - 1 \in 1 .. n /\ i - 1 < last /\ (i - 1) + 1 = i
      BY <1>5, <2>1, <2>3
    <3>2. Start(stride, i - 1) + max < n /\ Start(stride, i) = Start(stride, i - 1) + stride
      BY <1>0, <1>6, <3>1
    <3> QED BY <1>0, <2>1, <3>1, <3>2
  <2> QED BY <1>5, <2>1, <2>2, <2>3
<1>8. ASSUME NEW m \in 1 .. n
      PROVE  \E i \in 1 .. last : Start(stride, i) + 1 <= m /\ m <= Start(stride, i) + max
  <2> DEFINE from == [i \in 1 .. last |-> Start(stride, i) + 1]
             to   == [i \in 1 .. last |-> Start(stride, i) + max]
  <2>1. \A i \in 1 .. last : from[i] \in Int /\ to[i] \in Int
    BY <1>7
  <2>2. from[1] <= m /\ m <= to[last] /\ last \in Nat \ {0}
    <3>1. from[1] = 1
      BY <1>0, <1>5
    <3>2. to[last] >= n
      BY <1>5
    <3> QED BY <1>5, <2>1, <3>1, <3>2
  <2>3. ASSUME NEW i \in 1 .. last, i < last
        PROVE  from[i + 1] <= to[i] + 1
    <3>1. i \in 1 .. n /\ i + 1 \in 1 .. last
      BY <1>5, <2>3
    <3>2. Start(stride, i + 1) = Start(stride, i) + stride /\ Start(stride, i) \in Nat
      BY <1>0, <3>1
    <3> QED BY <3>1, <3>2
  <2> HIDE DEF from, to
  <2>5. m \in Int
    OBVIOUS
  <2>4. \E i \in 1 .. last : from[i] <= m /\ m <= to[i]
    BY <2>1, <2>2, <2>3, <2>5, NoGap
  <2> QED BY <2>4 DEF from, to
<1> QED BY <1>5, <1>6, <1>7, <1>8 DEF Reaching, last

-----------------------------------------------------------------------------
(* The split of a text.                                                    *)

Pieced(text, spans) ==
  /\ Len(spans) \in Nat \ {0} /\ DOMAIN spans = 1 .. Len(spans)
  /\ \A m \in 1 .. Len(spans) : Part(text, spans[m])
  /\ \A i \in 1 .. Len(text) : text[i] # 0 =>
       \E m \in 1 .. Len(spans) : i \in spans[m].from + 1 .. spans[m].to

Linked(spans) ==
  \A m \in 1 .. Len(spans) : m < Len(spans) => spans[m + 1].from <= spans[m].to

Inked(text) == {i \in DOMAIN text : text[i] # Blank}

(* A token for each character that is not blank, where it stands.          *)
LEMMA TokensOf ==
  ASSUME NEW text \in Seq(Nat)
  PROVE  /\ Tokens(text) \in Seq([from : Nat, to : Nat])
         /\ Len(Tokens(text)) = Cardinality(Inked(text)) /\ Len(Tokens(text)) \in Nat
         /\ Inked(text) \in SUBSET (1 .. Len(text))
         /\ \A m \in 1 .. Len(Tokens(text)) :
              Tokens(text)[m] = [from |-> Place(Inked(text), m) - 1, to |-> Place(Inked(text), m)]
<1> DEFINE s == [i \in DOMAIN text |-> [from |-> i - 1, to |-> i]]
           T == [from : Nat, to : Nat]
           P == Inked(text)
<1>1. P \in SUBSET (1 .. Len(text)) /\ DOMAIN text = 1 .. Len(text) /\ Len(text) \in Nat
  BY DEF Inked
<1>2. s \in Seq(T) /\ DOMAIN s = 1 .. Len(text)
  <2>1. \A i \in 1 .. Len(text) : [from |-> i - 1, to |-> i] \in T
    OBVIOUS
  <2> HIDE DEF T
  <2>2. s \in [1 .. Len(text) -> T]
    BY <1>1, <2>1
  <2> QED BY <1>1, <2>2
<1>3. Tokens(text) = Subsequence(s, P)
  BY DEF Tokens, Inked
<1>4. \A i \in 1 .. Len(text) : s[i] = [from |-> i - 1, to |-> i]
  BY <1>1
<1> HIDE DEF s, T, P
<1>8. P \in SUBSET (DOMAIN s)
  BY <1>1, <1>2
<1>5. /\ Subsequence(s, P) \in Seq(T)
      /\ Len(Subsequence(s, P)) = Cardinality(P)
      /\ \A m \in 1 .. Cardinality(P) : Place(P, m) \in P /\ Subsequence(s, P)[m] = s[Place(P, m)]
  BY <1>2, <1>8, SubsequenceOf
<1>6. Cardinality(P) \in Nat
  BY <1>1, RankOK
<1>7. \A m \in 1 .. Cardinality(P) :
        Tokens(text)[m] = [from |-> Place(P, m) - 1, to |-> Place(P, m)]
  BY <1>1, <1>3, <1>4, <1>5
<1> QED BY <1>1, <1>3, <1>5, <1>6, <1>7 DEF P, T

(* Places do not go back.                                                  *)
LEMMA PlacesGrow ==
  ASSUME NEW n \in Nat, NEW P \in SUBSET (1 .. n)
  PROVE  /\ \A m \in 1 .. Cardinality(P) : Place(P, m) \in 1 .. n /\ Place(P, m) \in P
         /\ \A m, k \in 1 .. Cardinality(P) : m <= k => Place(P, m) <= Place(P, k)
         /\ \A i \in P : \E m \in 1 .. Cardinality(P) : Place(P, m) = i
         /\ Cardinality(P) \in Nat
<1>0. \A i \in P : i \in Nat
  OBVIOUS
<1>1. Cardinality(P) \in Nat /\ \A i \in P : Rank(P, i) \in 1 .. Cardinality(P)
  BY RankOK
<1>2. /\ \A m \in 1 .. Cardinality(P) : Place(P, m) \in P
      /\ \A m, k \in 1 .. Cardinality(P) : m < k => Place(P, m) < Place(P, k)
      /\ \A i \in P : Place(P, Rank(P, i)) = i
  BY PlaceOK
<1> DEFINE c == Cardinality(P)
<1> HIDE DEF c
<1>3. ASSUME NEW m \in 1 .. c, NEW k \in 1 .. c, m <= k
      PROVE  Place(P, m) <= Place(P, k)
  <2>1. Place(P, m) \in Nat /\ (m = k \/ m < k)
    <3>1. c \in Nat /\ Place(P, m) \in P
      BY <1>1, <1>2 DEF c
    <3>2. Place(P, m) \in Nat
      BY <1>0, <3>1
    <3>3. m \in Int /\ k \in Int
      BY <3>1
    <3>4. m = k \/ m < k
      BY <1>3, <3>3
    <3> QED BY <3>2, <3>4
  <2>2. Place(P, k) \in Nat
    BY <1>0, <1>2 DEF c
  <2>3. m < k => Place(P, m) < Place(P, k)
    BY <1>2 DEF c
  <2> QED BY <2>1, <2>2, <2>3
<1> QED BY <1>1, <1>2, <1>3 DEF c

(* The spans of split_spans are parts of the text, cover whatever is not   *)
(* blank and, with an overlap, reach one another.                          *)
LEMMA SplitPieced ==
  ASSUME NEW text \in Seq(Nat), NEW chunking, Chunked(chunking),
         NEW spans, spans = SplitSpans(text, chunking)
  PROVE  Pieced(text, spans) /\ (chunking.overlap > 0 => Linked(spans))
<1> DEFINE tokens == Tokens(text)
           n      == Len(tokens)
           P      == Inked(text)
           max    == chunking.max
           stride == chunking.max - chunking.overlap
           last   == LastWindow(n, stride, max)
           a(i)   == Start(stride, i) + 1
           e(i)   == Min({n, Start(stride, i) + max})
<1>1. /\ tokens \in Seq([from : Nat, to : Nat]) /\ n = Cardinality(P) /\ n \in Nat
      /\ P \in SUBSET (1 .. Len(text)) /\ Len(text) \in Nat
      /\ \A m \in 1 .. n : tokens[m] = [from |-> Place(P, m) - 1, to |-> Place(P, m)]
  BY TokensOf
<1>2. \A i \in 1 .. Len(text) : text[i] # 0 => i \in P
  BY DEF Inked, Blank
<1>3. stride \in Nat \ {0} /\ max \in Nat /\ stride <= max /\ chunking.overlap \in Nat
      /\ (chunking.overlap > 0 => stride < max)
  BY DEF Chunked
<1>4. CASE tokens = <<>>
  <2>1. spans = <<[from |-> 0, to |-> Len(text)]>>
    BY <1>4 DEF SplitSpans
  <2>2. n = 0
    BY <1>4
  <2>3. P = {}
    <3>1. IsFiniteSet(P)
      BY <1>1, RankOK
    <3> QED BY <1>1, <2>2, <3>1, FS_EmptySet
  <2>4. Len(spans) = 1 /\ DOMAIN spans = 1 .. 1 /\ spans[1] = [from |-> 0, to |-> Len(text)]
    BY <2>1
  <2>5. Part(text, spans[1])
    BY <1>1, <2>4 DEF Part
  <2>6. Pieced(text, spans)
    BY <1>2, <2>3, <2>4, <2>5 DEF Pieced
  <2>7. Linked(spans)
    BY <2>4 DEF Linked
  <2> QED BY <2>6, <2>7
<1>5. CASE tokens # <<>>
  <2>1. n \in Nat \ {0}
    BY <1>1, <1>5
  <2>2. spans = [i \in 1 .. last |-> [from |-> tokens[a(i)].from, to |-> tokens[e(i)].to]]
    BY <1>5 DEF SplitSpans, Windows, LastWindow, Start
  <2> HIDE DEF tokens, n, P, max, stride
  <2>3. /\ last \in 1 .. n /\ Start(stride, last) + max >= n
        /\ \A j \in 1 .. n : j < last => Start(stride, j) + max < n
        /\ \A i \in 1 .. last : Start(stride, i) \in Nat /\ Start(stride, i) < n
        /\ \A m \in 1 .. n : \E i \in 1 .. last :
             Start(stride, i) + 1 <= m /\ m <= Start(stride, i) + max
    <3>1. Reaching(n, stride, max, last)
      BY <1>3, <2>1, WindowsReach
    <3> QED BY <3>1 DEF Reaching
  <2> HIDE DEF last
  <2>4. ASSUME NEW i \in 1 .. last
        PROVE  /\ a(i) \in 1 .. n /\ e(i) \in 1 .. n /\ a(i) <= e(i)
               /\ e(i) = IF n <= Start(stride, i) + max THEN n ELSE Start(stride, i) + max
    <3> DEFINE x == Start(stride, i)
    <3>1. x \in Nat /\ x < n /\ n \in Int /\ max >= 1 /\ max \in Nat
      BY <1>1, <1>3, <2>3
    <3> HIDE DEF x
    <3>2. Min({n, x + max}) = IF n <= x + max THEN n ELSE x + max
      BY <3>1, MinOfTwo
    <3>3. x + 1 \in 1 .. n /\ Min({n, x + max}) \in 1 .. n /\ x + 1 <= Min({n, x + max})
      BY <2>1, <3>1, <3>2
    <3> QED BY <3>2, <3>3 DEF x
  <2> HIDE DEF a, e
  <2>5. /\ \A m \in 1 .. n : Place(P, m) \in 1 .. Len(text) /\ Place(P, m) \in P
        /\ \A m, k \in 1 .. n : m <= k => Place(P, m) <= Place(P, k)
        /\ \A i \in P : \E m \in 1 .. n : Place(P, m) = i
    BY <1>1, PlacesGrow
  <2>6. ASSUME NEW i \in 1 .. last
        PROVE  /\ spans[i].from = Place(P, a(i)) - 1 /\ spans[i].to = Place(P, e(i))
               /\ Part(text, spans[i])
    <3>1. spans[i].from = tokens[a(i)].from /\ spans[i].to = tokens[e(i)].to
      BY <2>2
    <3>2. spans[i].from = Place(P, a(i)) - 1 /\ spans[i].to = Place(P, e(i))
      <4>1. a(i) \in 1 .. n /\ e(i) \in 1 .. n
        BY <2>4
      <4>2. /\ tokens[a(i)] = [from |-> Place(P, a(i)) - 1, to |-> Place(P, a(i))]
            /\ tokens[e(i)] = [from |-> Place(P, e(i)) - 1, to |-> Place(P, e(i))]
        BY <1>1, <4>1
      <4> QED BY <3>1, <4>2
    <3>3. /\ Place(P, a(i)) \in 1 .. Len(text) /\ Place(P, e(i)) \in 1 .. Len(text)
          /\ Place(P, a(i)) <= Place(P, e(i))
      BY <2>4, <2>5
    <3>4. Part(text, spans[i])
      BY <1>1, <3>2, <3>3 DEF Part
    <3> QED BY <3>2, <3>4
  <2>7. Len(spans) = last /\ DOMAIN spans = 1 .. last /\ last \in Nat \ {0}
    BY <2>1, <2>2, <2>3
  <2>8. ASSUME NEW i \in 1 .. Len(text), text[i] # 0
        PROVE  \E m \in 1 .. last : i \in spans[m].from + 1 .. spans[m].to
    <3>1. PICK t \in 1 .. n : Place(P, t) = i
      BY <1>2, <2>5, <2>8
    <3>2. PICK m \in 1 .. last : Start(stride, m) + 1 <= t /\ t <= Start(stride, m) + max
      BY <2>3
    <3>3. a(m) <= t /\ t <= e(m)
      BY <2>1, <2>4, <3>2 DEF a
    <3>4. Place(P, a(m)) <= i /\ i <= Place(P, e(m))
      BY <2>4, <2>5, <3>1, <3>3
    <3>5. /\ Place(P, a(m)) \in Int /\ Place(P, e(m)) \in Int
          /\ spans[m].from = Place(P, a(m)) - 1 /\ spans[m].to = Place(P, e(m))
      BY <2>4, <2>5, <2>6
    <3>6. i \in spans[m].from + 1 .. spans[m].to
      BY <3>4, <3>5
    <3> QED BY <3>6
  <2>9. Pieced(text, spans)
    BY <2>6, <2>7, <2>8 DEF Pieced
  <2>10. ASSUME chunking.overlap > 0, NEW m \in 1 .. last, m < last
         PROVE  spans[m + 1].from <= spans[m].to
    <3>1. m + 1 \in 1 .. last /\ m \in 1 .. n /\ m \in Nat
      <4>1. last \in Nat /\ m \in Nat /\ m < last /\ n \in Nat /\ last <= n /\ m >= 1
        BY <1>1, <2>3, <2>7, <2>10
      <4> QED BY <4>1
    <3>2. Start(stride, m + 1) = Start(stride, m) + stride /\ Start(stride, m) \in Nat
      BY <1>3, <2>3, <3>1, Starts
    <3>3. Start(stride, m) + max < n
      BY <2>3, <2>10, <3>1
    <3>4. e(m) = Start(stride, m) + max
      BY <1>1, <1>3, <2>4, <3>2, <3>3
    <3>5. a(m + 1) <= e(m)
      BY <1>3, <2>10, <3>2, <3>4 DEF a
    <3>6. a(m + 1) \in 1 .. n /\ e(m) \in 1 .. n
      BY <2>4, <3>1
    <3>7. Place(P, a(m + 1)) <= Place(P, e(m)) /\ Place(P, a(m + 1)) \in Int /\ Place(P, e(m)) \in Int
      BY <2>5, <3>5, <3>6
    <3>8. spans[m + 1].from = Place(P, a(m + 1)) - 1 /\ spans[m].to = Place(P, e(m))
      BY <2>6, <3>1
    <3> QED BY <3>7, <3>8
  <2> QED BY <2>7, <2>9, <2>10 DEF Linked
<1> QED BY <1>4, <1>5

(* The pieces of a unit.                                                   *)
LEMMA RiiPieced ==
  ASSUME NEW text \in Seq(Nat), NEW chunking, Chunked(chunking),
         NEW pieces, pieces = RiiPieces(text, chunking)
  PROVE  /\ Pieced(text, pieces)
         /\ chunking.overlap > 0 => Linked(pieces)
         /\ pieces[1].from = 0 /\ pieces[Len(pieces)].to = Len(text)
<1> DEFINE spans == SplitSpans(text, chunking)
           n     == Len(spans)
<1>1. Pieced(text, spans) /\ (chunking.overlap > 0 => Linked(spans))
  BY SplitPieced
<1>2. n \in Nat \ {0} /\ DOMAIN spans = 1 .. n /\ Len(text) \in Nat
  BY <1>1 DEF Pieced
<1>3. pieces = [i \in DOMAIN spans |->
                  [from |-> IF i = 1 THEN 0 ELSE spans[i].from,
                   to   |-> IF i = Len(spans) THEN Len(text) ELSE spans[i].to]]
  BY DEF RiiPieces
<1> HIDE DEF spans
<1>4. Len(pieces) = n /\ DOMAIN pieces = 1 .. n
  BY <1>2, <1>3
<1>5. \A i \in 1 .. n : /\ pieces[i].from = (IF i = 1 THEN 0 ELSE spans[i].from)
                        /\ pieces[i].to = (IF i = n THEN Len(text) ELSE spans[i].to)
  <2> SUFFICES ASSUME NEW i \in 1 .. n
               PROVE  /\ pieces[i].from = (IF i = 1 THEN 0 ELSE spans[i].from)
                      /\ pieces[i].to = (IF i = n THEN Len(text) ELSE spans[i].to)
    OBVIOUS
  <2>1. pieces[i] = [from |-> IF i = 1 THEN 0 ELSE spans[i].from,
                     to   |-> IF i = n THEN Len(text) ELSE spans[i].to]
    BY <1>2, <1>3
  <2> QED BY <2>1
<1> HIDE DEF n
<1>6. ASSUME NEW i \in 1 .. n
      PROVE  /\ Part(text, pieces[i])
             /\ pieces[i].from <= spans[i].from /\ spans[i].to <= pieces[i].to
             /\ spans[i].from \in Nat /\ spans[i].to \in Nat
             /\ pieces[i].from \in Nat /\ pieces[i].to \in Nat
  <2>1. Part(text, spans[i])
    BY <1>1 DEF Pieced, n
  <2>2. /\ pieces[i].from = 0 \/ pieces[i].from = spans[i].from
        /\ pieces[i].to = Len(text) \/ pieces[i].to = spans[i].to
    BY <1>5
  <2>3. /\ spans[i].from \in Nat /\ spans[i].to \in Nat /\ spans[i].to <= Len(text)
        /\ spans[i].from < spans[i].to \/ (Len(text) = 0 /\ spans[i].from = spans[i].to)
    BY <2>1 DEF Part
  <2> DEFINE a == spans[i].from
             b == spans[i].to
             from == pieces[i].from
             to == pieces[i].to
             l == Len(text)
  <2>4. /\ a \in Nat /\ b \in Nat /\ b <= l /\ l \in Nat
        /\ a < b \/ (l = 0 /\ a = b)
        /\ from = 0 \/ from = a
        /\ to = l \/ to = b
    BY <1>2, <2>2, <2>3
  <2> HIDE DEF a, b, from, to, l
  <2>5. /\ from \in Nat /\ to \in Nat /\ to <= l /\ from <= a /\ b <= to
        /\ from < to \/ (l = 0 /\ from = to)
    BY <2>4
  <2>6. Part(text, pieces[i])
    BY <2>5 DEF Part, from, to, l
  <2> QED BY <2>4, <2>5, <2>6 DEF a, b, from, to
<1>7. \A i \in 1 .. Len(text) : text[i] # 0 =>
        \E m \in 1 .. n : i \in pieces[m].from + 1 .. pieces[m].to
  <2> SUFFICES ASSUME NEW i \in 1 .. Len(text), text[i] # 0
               PROVE  \E m \in 1 .. n : i \in pieces[m].from + 1 .. pieces[m].to
    OBVIOUS
  <2>1. PICK m \in 1 .. n : i \in spans[m].from + 1 .. spans[m].to
    BY <1>1 DEF Pieced, n
  <2>2. i \in pieces[m].from + 1 .. pieces[m].to
    BY <1>6, <2>1
  <2> QED BY <2>2
<1>8. Pieced(text, pieces)
  BY <1>2, <1>4, <1>6, <1>7 DEF Pieced
<1>9. ASSUME chunking.overlap > 0, NEW m \in 1 .. n, m < n
      PROVE  pieces[m + 1].from <= pieces[m].to
  <2>1. m + 1 \in 1 .. n
    BY <1>2, <1>9
  <2>2. spans[m + 1].from <= spans[m].to
    BY <1>1, <1>9 DEF Linked, n
  <2> QED BY <1>6, <1>9, <2>1, <2>2
<1> QED BY <1>2, <1>4, <1>5, <1>8, <1>9 DEF Linked

(* Linked pieces leave no character out.                                   *)
LEMMA AllCovered ==
  ASSUME NEW text \in Seq(Nat), NEW chunking, Chunked(chunking)
  PROVE  Covered(text, chunking)
<1> SUFFICES ASSUME chunking.overlap > 0
             PROVE  Cover(RiiPieces(text, chunking)) = DOMAIN text
  BY DEF Covered
<1> DEFINE pieces == RiiPieces(text, chunking)
           n      == Len(pieces)
<1>1. Pieced(text, pieces) /\ Linked(pieces) /\ pieces[1].from = 0 /\ pieces[n].to = Len(text)
  BY RiiPieced
<1> HIDE DEF pieces
<1>2. /\ n \in Nat \ {0} /\ DOMAIN pieces = 1 .. n /\ Len(text) \in Nat
      /\ DOMAIN text = 1 .. Len(text)
      /\ \A m \in 1 .. n : /\ pieces[m].from \in Nat /\ pieces[m].to \in Nat
                           /\ pieces[m].to <= Len(text)
  BY <1>1 DEF Pieced, Part
<1>3. ASSUME NEW i \in 1 .. Len(text)
      PROVE  \E m \in 1 .. n : i \in pieces[m].from + 1 .. pieces[m].to
  <2> DEFINE from == [m \in 1 .. n |-> pieces[m].from + 1]
             to   == [m \in 1 .. n |-> pieces[m].to]
  <2>1. /\ \A m \in 1 .. n : from[m] \in Int /\ to[m] \in Int
        /\ from[1] <= i /\ i <= to[n] /\ i \in Int
    BY <1>1, <1>2
  <2>2. \A m \in 1 .. n : m < n => from[m + 1] <= to[m] + 1
    BY <1>1, <1>2 DEF Linked
  <2> HIDE DEF from, to, n
  <2>3. PICK m \in 1 .. n : from[m] <= i /\ i <= to[m]
    BY <1>2, <2>1, <2>2, NoGap
  <2>4. i \in pieces[m].from + 1 .. pieces[m].to
    BY <1>2, <2>1, <2>3 DEF from, to
  <2> QED BY <2>4
<1>4. \A m \in 1 .. n : \A i \in pieces[m].from + 1 .. pieces[m].to : i \in 1 .. Len(text)
  BY <1>2
<1> HIDE DEF n
<1>5. Cover(pieces) = 1 .. Len(text)
  BY <1>2, <1>3, <1>4 DEF Cover
<1> QED BY <1>2, <1>5 DEF pieces

-----------------------------------------------------------------------------
(* A page or a unit is as similar as its best piece.                       *)
LEMMA ScoreOfPieces ==
  ASSUME NEW text \in Seq(Nat), NEW spans, Pieced(text, spans)
  PROVE  /\ BestScore(text, spans) = Own(text) /\ Own(text) \in Nat
         /\ \E m \in DOMAIN spans : Similarity(text, spans[m]) = Own(text)
         /\ \A m \in DOMAIN spans : /\ Similarity(text, spans[m]) \in Nat
                                    /\ Similarity(text, spans[m]) <= Own(text)
<1> DEFINE n == Len(spans)
<1>1. /\ n \in Nat \ {0} /\ DOMAIN spans = 1 .. n
      /\ \A m \in 1 .. n : Part(text, spans[m])
      /\ \A i \in 1 .. Len(text) : text[i] # 0 =>
           \E m \in 1 .. n : i \in spans[m].from + 1 .. spans[m].to
  BY DEF Pieced
<1> HIDE DEF n
<1>2. /\ Max({Similarity(text, spans[m]) : m \in 1 .. n}) = Own(text)
      /\ \E m \in 1 .. n : Similarity(text, spans[m]) = Own(text)
      /\ \A m \in 1 .. n : /\ Similarity(text, spans[m]) \in Nat
                           /\ Similarity(text, spans[m]) <= Own(text)
      /\ Own(text) \in Nat
  BY <1>1, BestOfParts
<1>3. BestScore(text, spans) = Max({Similarity(text, spans[m]) : m \in 1 .. n})
  BY <1>1 DEF BestScore
<1> QED BY <1>1, <1>2, <1>3

(* The order of a search is one: by score, then by an order.               *)
LEMMA RankOrder ==
  ASSUME NEW C, NEW score, \A x \in C : score[x] \in Nat, NEW order, StrictOrder(order, C),
         NEW R, R = {p \in C \X C : \/ score[p[1]] > score[p[2]]
                                    \/ (score[p[1]] = score[p[2]] /\ p \in order)}
  PROVE  /\ StrictOrder(R, C)
         /\ \A x, y \in C : <<x, y>> \in R <=>
              score[x] > score[y] \/ (score[x] = score[y] /\ <<x, y>> \in order)
<1>1. \A x, y \in C : <<x, y>> \in R <=>
        score[x] > score[y] \/ (score[x] = score[y] /\ <<x, y>> \in order)
  OBVIOUS
<1>2. ASSUME NEW x \in C, NEW y \in C, NEW z \in C, <<x, y>> \in R, <<y, z>> \in R
      PROVE  <<x, z>> \in R
  <2>1. score[x] \in Nat /\ score[y] \in Nat /\ score[z] \in Nat
    OBVIOUS
  <2>2. /\ score[x] > score[y] \/ (score[x] = score[y] /\ <<x, y>> \in order)
        /\ score[y] > score[z] \/ (score[y] = score[z] /\ <<y, z>> \in order)
    BY <1>1, <1>2
  <2>3. <<x, y>> \in order /\ <<y, z>> \in order => <<x, z>> \in order
    BY DEF StrictOrder
  <2>4. score[x] > score[z] \/ (score[x] = score[z] /\ <<x, z>> \in order)
    BY <2>1, <2>2, <2>3
  <2> QED BY <1>1, <2>4
<1>3. ASSUME NEW x \in C, NEW y \in C, x # y
      PROVE  <<x, y>> \in R \/ <<y, x>> \in R
  <2>1. score[x] \in Nat /\ score[y] \in Nat
    OBVIOUS
  <2>2. <<x, y>> \in order \/ <<y, x>> \in order
    BY <1>3 DEF StrictOrder
  <2>3. score[x] > score[y] \/ score[y] > score[x] \/ score[x] = score[y]
    BY <2>1
  <2> QED BY <1>1, <2>2, <2>3
<1>4. ASSUME NEW x \in C
      PROVE  <<x, x>> \notin R
  <2>1. score[x] \in Nat /\ ~(score[x] > score[x])
    OBVIOUS
  <2>2. <<x, x>> \notin order
    BY DEF StrictOrder
  <2> QED BY <1>1, <2>1, <2>2
<1> QED BY <1>1, <1>2, <1>3, <1>4 DEF StrictOrder

-----------------------------------------------------------------------------
(* A search of any case, cut into pieces in any valid way, answers as if   *)
(* it had read every visible page whole: it is never a page of a later     *)
(* time, never misses a better page and never splits a tie by chance       *)
(* (index.py CaseIndex.search over ingest.py split_spans).                 *)
THEOREM PagesAreTheBest ==
  ASSUME NEW pages \in Seq(Seq(Nat)), NEW chunking, Chunked(chunking), NEW k \in Nat, NEW T \in Int
  PROVE  BestPages(pages, chunking, k, T)
<1> DEFINE case   == [pages |-> pages, chunking |-> chunking]
           C      == {page \in DOMAIN case.pages : page <= T}
           sc(p)  == BestScore(case.pages[p], SplitSpans(case.pages[p], case.chunking))
           own    == [page \in C |-> Own(pages[page])]
           order  == {p \in C \X C : p[1] < p[2]}
           R      == {p \in C \X C : \/ own[p[1]] > own[p[2]]
                                     \/ (own[p[1]] = own[p[2]] /\ p \in order)}
           Sorted(s) == \A i, j \in DOMAIN s : i < j =>
                          sc(s[i]) > sc(s[j]) \/ (sc(s[i]) = sc(s[j]) /\ s[i] < s[j])
           sorted == CHOOSE s \in SetToSeqs(C) : Sorted(s)
           ranked == Leading(sorted, k)
           P      == {i \in DOMAIN ranked : sc(ranked[i]) > 0}
           answer == CaseSearch(case, k, T)
<1>1. case.pages = pages /\ case.chunking = chunking
  OBVIOUS
<1> HIDE DEF case
<1>2. answer = Subsequence(ranked, P)
  BY DEF CaseSearch, Ordered
<1> HIDE DEF answer, Sorted
<1>3. /\ C \in SUBSET (1 .. Len(pages)) /\ Len(pages) \in Nat
      /\ C = {page \in DOMAIN pages : page <= T}
      /\ \A page \in C : page \in Nat /\ pages[page] \in Seq(Nat)
  BY <1>1
<1> HIDE DEF C
<1>4. IsFiniteSet(C)
  BY <1>3, RankOK
<1>5. \A page \in C : sc(page) = own[page] /\ own[page] \in Nat
  <2> SUFFICES ASSUME NEW page \in C PROVE sc(page) = own[page] /\ own[page] \in Nat
    OBVIOUS
  <2> DEFINE text  == pages[page]
             spans == SplitSpans(text, chunking)
  <2>1. text \in Seq(Nat) /\ sc(page) = BestScore(text, spans) /\ own[page] = Own(text)
    BY <1>1, <1>3
  <2> HIDE DEF text
  <2>2. Pieced(text, spans)
    BY <2>1, SplitPieced
  <2> HIDE DEF spans
  <2> QED BY <2>1, <2>2, ScoreOfPieces
<1> HIDE DEF sc, own
<1>6. /\ \A p, q \in C : <<p, q>> \in order <=> p < q
      /\ StrictOrder(order, C)
  <2>1. \A p, q \in C : <<p, q>> \in order <=> p < q
    OBVIOUS
  <2> HIDE DEF order
  <2>2. /\ \A x, y, z \in C : x < y /\ y < z => x < z
        /\ \A x, y \in C : x # y => x < y \/ y < x
        /\ \A x \in C : ~(x < x)
    BY <1>3
  <2> QED BY <2>1, <2>2 DEF StrictOrder
<1> HIDE DEF order
<1>7. /\ StrictOrder(R, C)
      /\ \A x, y \in C : <<x, y>> \in R <=>
           own[x] > own[y] \/ (own[x] = own[y] /\ <<x, y>> \in order)
  BY <1>5, <1>6, RankOrder
<1> HIDE DEF R
<1>8. PICK s \in SetToSeqs(C) : \A i, j \in DOMAIN s : i < j => <<s[i], s[j]>> \in R
  BY <1>4, <1>7, SortedExists
<1>9. Sorted(s)
  <2>1. \A i \in DOMAIN s : s[i] \in C
    BY <1>4, SortedHasAll
  <2>2. ASSUME NEW i \in DOMAIN s, NEW j \in DOMAIN s, i < j
        PROVE  sc(s[i]) > sc(s[j]) \/ (sc(s[i]) = sc(s[j]) /\ s[i] < s[j])
    <3>1. s[i] \in C /\ s[j] \in C /\ <<s[i], s[j]>> \in R
      BY <1>8, <2>1, <2>2
    <3> QED BY <1>5, <1>6, <1>7, <3>1
  <2> QED BY <2>2 DEF Sorted
<1>10. sorted \in SetToSeqs(C) /\ Sorted(sorted)
  BY <1>9
<1> HIDE DEF sorted
<1>11. \A i \in DOMAIN sorted : sorted[i] \in C
  BY <1>4, <1>10, SortedHasAll
<1>12. SortedBy(sorted, own, order)
  BY <1>5, <1>6, <1>10, <1>11 DEF Sorted, SortedBy
<1> DEFINE Q == Scoring(sorted, k, own)
<1>13. /\ ranked \in Seq(C) /\ Len(ranked) <= Len(sorted)
       /\ Q = 1 .. Cardinality(Q) /\ Cardinality(Q) \in 0 .. Len(ranked)
       /\ TopK([i \in 1 .. Cardinality(Q) |-> ranked[i]], C, own, order, k)
  <2>1. \A x \in C : own[x] \in Nat
    BY <1>5
  <2>2. IsTop(C, own, order, sorted, k, Q)
    BY <1>4, <1>10, <1>12, <2>1, RankedTop
  <2> QED BY <2>2 DEF IsTop
<1>14. P = Q
  <2>1. \A i \in DOMAIN ranked : ranked[i] \in C
    BY <1>13
  <2> QED BY <1>5, <2>1 DEF Scoring
<1> HIDE DEF ranked, P, Q
<1>15. answer = [i \in 1 .. Cardinality(Q) |-> ranked[i]]
  BY <1>2, <1>13, <1>14, FirstOnes
<1>16. TopK(answer, C, own, order, k)
  BY <1>13, <1>15
<1>17. C = {page \in DOMAIN pages : page <= T} /\ case = [pages |-> pages, chunking |-> chunking]
  BY <1>3 DEF case
<1> QED BY <1>16, <1>17 DEF BestPages, answer, own, order

-----------------------------------------------------------------------------
(* Drops of decisions.                                                     *)

Drop == Seq(Seq([section : Int, rn : Int, text : Seq(Nat)]))

UnitOrder(drop) == {p \in Units(drop) \X Units(drop) : Before(drop, p[1], p[2])}
OwnScores(drop) == [key \in Units(drop) |-> Own(UnitOf(drop, key).text)]

(* The units of a drop are finitely many, with the sections and numbers    *)
(* the order compares.                                                     *)
LEMMA UnitsOf ==
  ASSUME NEW drop \in Drop
  PROVE  /\ IsFiniteSet(Units(drop))
         /\ \A key \in Units(drop) :
              /\ UnitOf(drop, key).section \in Int /\ UnitOf(drop, key).rn \in Int
              /\ UnitOf(drop, key).text \in Seq(Nat)
              /\ key = <<key[1], key[2]>> /\ key[1] \in Int /\ key[2] \in Int
<1> DEFINE D      == DOMAIN drop
           row(d) == {d} \X DOMAIN drop[d]
           f      == [d \in D |-> row(d)]
           rows   == {f[d] : d \in D}
<1>1. D = 1 .. Len(drop) /\ IsFiniteSet(D)
  <2>1. D = 1 .. Len(drop) /\ Len(drop) \in Nat
    BY DEF Drop
  <2> QED BY <2>1, FS_Interval
<1>2. \A d \in D : drop[d] \in Seq([section : Int, rn : Int, text : Seq(Nat)])
  BY DEF Drop
<1>3. ASSUME NEW d \in D
      PROVE  IsFiniteSet(row(d))
  <2>1. DOMAIN drop[d] = 1 .. Len(drop[d]) /\ Len(drop[d]) \in Nat
    BY <1>2
  <2>2. IsFiniteSet(DOMAIN drop[d]) /\ IsFiniteSet({d})
    <3>1. IsFiniteSet(1 .. Len(drop[d]))
      BY <2>1, FS_Interval
    <3>2. IsFiniteSet({d})
      BY FS_Singleton
    <3> QED BY <2>1, <3>1, <3>2
  <2> QED BY <2>2, FS_Product
<1>4. Units(drop) = UNION rows
  BY DEF Units
<1> HIDE DEF row
<1>5. \A d \in D : f[d] = row(d)
  OBVIOUS
<1> HIDE DEF f
<1>6. IsFiniteSet(rows)
  BY <1>1, FiniteImage
<1>7. \A R \in rows : IsFiniteSet(R)
  BY <1>3, <1>5
<1> HIDE DEF rows
<1>8. IsFiniteSet(Units(drop))
  BY <1>4, <1>6, <1>7, FS_UNION
<1>9. ASSUME NEW key \in Units(drop)
      PROVE  /\ key = <<key[1], key[2]>> /\ key[1] \in D /\ key[2] \in DOMAIN drop[key[1]]
  <2>1. PICK d \in D : key \in {d} \X DOMAIN drop[d]
    BY DEF Units
  <2> QED BY <2>1
<1>10. ASSUME NEW key \in Units(drop)
       PROVE  /\ UnitOf(drop, key) \in [section : Int, rn : Int, text : Seq(Nat)]
              /\ key[1] \in Int /\ key[2] \in Int
  <2>1. key[1] \in D /\ key[2] \in DOMAIN drop[key[1]]
    BY <1>9
  <2>2. drop[key[1]] \in Seq([section : Int, rn : Int, text : Seq(Nat)])
    BY <1>2, <2>1
  <2>3. drop[key[1]][key[2]] \in [section : Int, rn : Int, text : Seq(Nat)] /\ key[2] \in Int
    <3> DEFINE T   == [section : Int, rn : Int, text : Seq(Nat)]
               seq == drop[key[1]]
               n   == key[2]
    <3>1. seq \in Seq(T) /\ n \in DOMAIN seq
      BY <2>1, <2>2
    <3> HIDE DEF T, seq, n
    <3>2. seq[n] \in T /\ n \in Int
      BY <3>1
    <3> QED BY <3>2 DEF T, seq, n
  <2> QED BY <1>1, <2>1, <2>3 DEF UnitOf
<1> QED BY <1>8, <1>9, <1>10

(* Document order is an order: no two units stand at the same place.       *)
LEMMA UnitsOrdered ==
  ASSUME NEW drop \in Drop
  PROVE  StrictOrder(UnitOrder(drop), Units(drop))
<1> DEFINE U == Units(drop)
           s(key) == UnitOf(drop, key).section
           r(key) == UnitOf(drop, key).rn
<1>1. \A key \in U : /\ s(key) \in Int /\ r(key) \in Int /\ key = <<key[1], key[2]>>
                     /\ key[1] \in Int /\ key[2] \in Int
  BY UnitsOf
<1>2. \A a, b \in U : <<a, b>> \in UnitOrder(drop) <=>
        \/ a[1] < b[1]
        \/ a[1] = b[1] /\ s(a) < s(b)
        \/ a[1] = b[1] /\ s(a) = s(b) /\ r(a) < r(b)
        \/ a[1] = b[1] /\ s(a) = s(b) /\ r(a) = r(b) /\ a[2] < b[2]
  BY DEF UnitOrder, Before
<1> HIDE DEF U, s, r
<1>3. ASSUME NEW a \in U, NEW b \in U, NEW c \in U,
             <<a, b>> \in UnitOrder(drop), <<b, c>> \in UnitOrder(drop)
      PROVE  <<a, c>> \in UnitOrder(drop)
  BY <1>1, <1>2, <1>3
<1>4. ASSUME NEW a \in U, NEW b \in U, a # b
      PROVE  <<a, b>> \in UnitOrder(drop) \/ <<b, a>> \in UnitOrder(drop)
  <2>1. a[1] # b[1] \/ a[2] # b[2]
    BY <1>1, <1>4
  <2> QED BY <1>1, <1>2, <2>1
<1>5. ASSUME NEW a \in U
      PROVE  <<a, a>> \notin UnitOrder(drop)
  BY <1>1, <1>2
<1> QED BY <1>3, <1>4, <1>5 DEF StrictOrder, U

(* A unit has pieces, none better than the unit and one as good.           *)
LEMMA PiecesOf ==
  ASSUME NEW drop \in Drop, NEW chunking, Chunked(chunking)
  PROVE  /\ \A piece \in Pieces(drop, chunking) :
              /\ piece.unit \in Units(drop)
              /\ Score(drop, chunking, piece) \in Nat
              /\ Score(drop, chunking, piece) <= OwnScores(drop)[piece.unit]
         /\ \A key \in Units(drop) :
              /\ OwnScores(drop)[key] \in Nat
              /\ \E piece \in Pieces(drop, chunking) :
                   piece.unit = key /\ Score(drop, chunking, piece) = OwnScores(drop)[key]
<1> DEFINE text(key)   == UnitOf(drop, key).text
           pieces(key) == RiiPieces(text(key), chunking)
<1>1. ASSUME NEW key \in Units(drop)
      PROVE  /\ OwnScores(drop)[key] = Own(text(key)) /\ Own(text(key)) \in Nat
             /\ \E m \in DOMAIN pieces(key) : Similarity(text(key), pieces(key)[m]) = Own(text(key))
             /\ \A m \in DOMAIN pieces(key) : /\ Similarity(text(key), pieces(key)[m]) \in Nat
                                              /\ Similarity(text(key), pieces(key)[m]) <= Own(text(key))
  <2>1. text(key) \in Seq(Nat)
    BY UnitsOf
  <2>2. OwnScores(drop)[key] = Own(text(key))
    BY DEF OwnScores
  <2> HIDE DEF text
  <2>3. Pieced(text(key), pieces(key))
    BY <2>1, RiiPieced
  <2> HIDE DEF pieces
  <2> QED BY <2>1, <2>2, <2>3, ScoreOfPieces
<1>2. \A piece : piece \in Pieces(drop, chunking) <=>
        \E key \in Units(drop) : \E m \in DOMAIN pieces(key) : piece = [unit |-> key, at |-> m]
  BY DEF Pieces
<1>3. ASSUME NEW key \in Units(drop), NEW m \in DOMAIN pieces(key), NEW piece,
             piece = [unit |-> key, at |-> m]
      PROVE  /\ piece \in Pieces(drop, chunking) /\ piece.unit = key
             /\ Score(drop, chunking, piece) = Similarity(text(key), pieces(key)[m])
  <2>1. piece.unit = key /\ piece.at = m
    BY <1>3
  <2>2. piece \in Pieces(drop, chunking)
    BY <1>2, <1>3
  <2> QED BY <2>1, <2>2 DEF Score
<1> HIDE DEF text, pieces
<1>4. ASSUME NEW piece \in Pieces(drop, chunking)
      PROVE  /\ piece.unit \in Units(drop)
             /\ Score(drop, chunking, piece) \in Nat
             /\ Score(drop, chunking, piece) <= OwnScores(drop)[piece.unit]
  <2>0. PICK key \in Units(drop) : \E m \in DOMAIN pieces(key) : piece = [unit |-> key, at |-> m]
    BY <1>2
  <2>1. PICK m \in DOMAIN pieces(key) : piece = [unit |-> key, at |-> m]
    BY <2>0
  <2>2. piece.unit = key /\ Score(drop, chunking, piece) = Similarity(text(key), pieces(key)[m])
    BY <1>3, <2>1
  <2> QED BY <1>1, <2>2
<1>5. ASSUME NEW key \in Units(drop)
      PROVE  /\ OwnScores(drop)[key] \in Nat
             /\ \E piece \in Pieces(drop, chunking) :
                  piece.unit = key /\ Score(drop, chunking, piece) = OwnScores(drop)[key]
  <2>1. PICK m \in DOMAIN pieces(key) : Similarity(text(key), pieces(key)[m]) = Own(text(key))
    BY <1>1
  <2> DEFINE piece == [unit |-> key, at |-> m]
  <2>2. /\ piece \in Pieces(drop, chunking) /\ piece.unit = key
        /\ Score(drop, chunking, piece) = Similarity(text(key), pieces(key)[m])
    <3>1. piece = [unit |-> key, at |-> m]
      OBVIOUS
    <3> HIDE DEF piece
    <3> QED BY <1>3, <3>1
  <2> HIDE DEF piece
  <2> QED BY <1>1, <2>1, <2>2
<1> QED BY <1>4, <1>5

(* The best of the pieces found of a unit is as good as the unit, when no  *)
(* better piece was left out.                                              *)
FoundBest(drop, chunking, found, key) ==
  Max({Score(drop, chunking, piece) : piece \in {f \in found : f.unit = key}})

(* Nearest pieces show the score of the unit itself, for a unit one of     *)
(* whose pieces is found.                                                  *)
LEMMA FoundIsOwn ==
  ASSUME NEW drop \in Drop, NEW chunking, Chunked(chunking),
         NEW found \in SUBSET Pieces(drop, chunking),
         \A in \in found, out \in Pieces(drop, chunking) \ found :
           Score(drop, chunking, in) >= Score(drop, chunking, out),
         NEW f0 \in found
  PROVE  /\ FoundBest(drop, chunking, found, f0.unit) = OwnScores(drop)[f0.unit]
         /\ \E f \in found : f.unit = f0.unit
                             /\ Score(drop, chunking, f) = OwnScores(drop)[f0.unit]
<1> DEFINE key   == f0.unit
           own   == OwnScores(drop)[key]
           sc(f) == Score(drop, chunking, f)
<1>1. key \in Units(drop) /\ own \in Nat
  BY PiecesOf
<1>2. \A f \in found : f.unit = key => sc(f) \in Nat /\ sc(f) <= own
  BY PiecesOf
<1>3. PICK q \in Pieces(drop, chunking) : q.unit = key /\ sc(q) = own
  BY <1>1, PiecesOf
<1>4. \E f \in found : f.unit = key /\ sc(f) = own
  <2>1. CASE q \in found
    BY <1>3, <2>1
  <2>2. CASE q \notin found
    <3>1. sc(f0) >= sc(q) /\ sc(f0) \in Nat /\ sc(f0) <= own
      BY <1>2, <2>2
    <3>2. sc(f0) = own
      BY <1>1, <1>3, <3>1
    <3> QED BY <3>2
  <2> QED BY <2>1, <2>2
<1> DEFINE S == {sc(piece) : piece \in {f \in found : f.unit = key}}
<1>5. S \in SUBSET Int /\ own \in S /\ \A x \in S : x <= own
  BY <1>2, <1>4
<1>6. FoundBest(drop, chunking, found, key) = Max(S)
  BY DEF FoundBest
<1> HIDE DEF S, own
<1>7. Max(S) = own
  BY <1>5, MaxIs
<1> QED BY <1>4, <1>6, <1>7 DEF own

-----------------------------------------------------------------------------
(* A search of any drop answers as if it had read every decision unit      *)
(* whole, whatever the number of pieces the store was asked for: an answer *)
(* is the unit's own score, its excerpt is the part that earns it, and no  *)
(* better unit is left out; and when every piece was fetched, ties stand   *)
(* in document order (index.py RiiDecisionsIndex.search).                  *)
THEOREM UnitsAreTheBest ==
  ASSUME NEW drop \in Drop, NEW chunking, Chunked(chunking), NEW k \in Nat,
         NEW n, NEW found \in Nearest(drop, chunking, n)
  PROVE  BestUnits(drop, chunking, found, k)
<1> DEFINE U     == Units(drop)
           C     == {piece.unit : piece \in found}
           own   == OwnScores(drop)
           order == UnitOrder(drop)
           best(key) == Max({Score(drop, chunking, piece) : piece \in {f \in found : f.unit = key}})
           R      == {p \in C \X C : \/ own[p[1]] > own[p[2]]
                                     \/ (own[p[1]] = own[p[2]] /\ p \in order)}
           Sorted(s) == \A i, j \in DOMAIN s : i < j =>
                          \/ best(s[i]) > best(s[j])
                          \/ (best(s[i]) = best(s[j]) /\ Before(drop, s[i], s[j]))
           sorted == CHOOSE s \in SetToSeqs(C) : Sorted(s)
           ranked == Leading(sorted, k)
           P      == {i \in DOMAIN ranked : best(ranked[i]) > 0}
           witness(i) == CHOOSE f \in found : f.unit = ranked[i]
                                  /\ Score(drop, chunking, f) = best(ranked[i])
           excerpt(i) == RiiPieces(UnitOf(drop, ranked[i]).text, chunking)[witness(i).at]
           hits   == RiiSearch(drop, chunking, found, k)
<1>1. /\ found \in SUBSET Pieces(drop, chunking)
      /\ \A in \in found, out \in Pieces(drop, chunking) \ found :
           Score(drop, chunking, in) >= Score(drop, chunking, out)
  BY DEF Nearest, kSubset
<1>2. hits = [i \in 1 .. Cardinality(P) |->
                [unit |-> ranked[i], score |-> best(ranked[i]), excerpt |-> excerpt(i)]]
  BY DEF RiiSearch, Ordered
<1> HIDE DEF hits, Sorted
<1>3. /\ C \in SUBSET U /\ IsFiniteSet(U)
      /\ \A key \in C : \E f \in found : f.unit = key
  <2>1. \A f \in found : f.unit \in U
    BY <1>1, PiecesOf
  <2> QED BY <2>1, UnitsOf
<1>4. /\ \A key \in U : own[key] \in Nat /\ own[key] = Own(UnitOf(drop, key).text)
      /\ \A key \in C : own[key] \in Nat
  <2>1. \A key \in U : own[key] \in Nat
    BY PiecesOf
  <2> QED BY <1>3, <2>1 DEF OwnScores
<1>5. ASSUME NEW key \in C
      PROVE  /\ best(key) = own[key]
             /\ \E f \in found : f.unit = key /\ Score(drop, chunking, f) = own[key]
  <2>1. PICK f0 \in found : f0.unit = key
    BY <1>3
  <2>2. /\ FoundBest(drop, chunking, found, f0.unit) = own[f0.unit]
        /\ \E f \in found : f.unit = f0.unit /\ Score(drop, chunking, f) = own[f0.unit]
    BY <1>1, FoundIsOwn
  <2>3. best(key) = FoundBest(drop, chunking, found, key)
    BY DEF FoundBest
  <2> HIDE DEF best, own
  <2> QED BY <2>1, <2>2, <2>3
<1>6. IsFiniteSet(C)
  BY <1>3, FS_Subset
<1>7. StrictOrder(order, C) /\ StrictOrder(order, U)
      /\ \A a, b \in U : <<a, b>> \in order <=> Before(drop, a, b)
  <2>1. StrictOrder(order, U)
    BY UnitsOrdered
  <2>2. StrictOrder(order, C)
    BY <1>3, <2>1 DEF StrictOrder
  <2>3. \A a, b \in U : <<a, b>> \in order <=> Before(drop, a, b)
    BY DEF UnitOrder
  <2> QED BY <2>1, <2>2, <2>3
<1> HIDE DEF best, own, order, U, C
<1>8. /\ StrictOrder(R, C)
      /\ \A x, y \in C : <<x, y>> \in R <=>
           own[x] > own[y] \/ (own[x] = own[y] /\ <<x, y>> \in order)
  BY <1>4, <1>7, RankOrder
<1> HIDE DEF R
<1>9. PICK s \in SetToSeqs(C) : \A i, j \in DOMAIN s : i < j => <<s[i], s[j]>> \in R
  BY <1>6, <1>8, SortedExists
<1>10. Sorted(s)
  <2>1. \A i \in DOMAIN s : s[i] \in C
    BY <1>6, SortedHasAll
  <2>2. ASSUME NEW i \in DOMAIN s, NEW j \in DOMAIN s, i < j
        PROVE  \/ best(s[i]) > best(s[j])
               \/ (best(s[i]) = best(s[j]) /\ Before(drop, s[i], s[j]))
    <3>1. s[i] \in C /\ s[j] \in C /\ <<s[i], s[j]>> \in R /\ s[i] \in U /\ s[j] \in U
      BY <1>3, <1>9, <2>1, <2>2
    <3> QED BY <1>5, <1>7, <1>8, <3>1
  <2> QED BY <2>2 DEF Sorted
<1>11. sorted \in SetToSeqs(C) /\ Sorted(sorted)
  BY <1>10
<1> HIDE DEF sorted
<1>12. /\ sorted \in Seq(C) /\ \A i \in DOMAIN sorted : sorted[i] \in C /\ sorted[i] \in U
       /\ \A x \in C : \E i \in 1 .. Len(sorted) : sorted[i] = x
  BY <1>3, <1>6, <1>11, SortedHasAll
<1>13. SortedBy(sorted, own, order)
  <2>1. ASSUME NEW i \in DOMAIN sorted, NEW j \in DOMAIN sorted, i < j
        PROVE  \/ own[sorted[i]] > own[sorted[j]]
               \/ (own[sorted[i]] = own[sorted[j]] /\ <<sorted[i], sorted[j]>> \in order)
    BY <1>5, <1>7, <1>11, <1>12, <2>1 DEF Sorted
  <2> QED BY <2>1 DEF SortedBy
<1> DEFINE Q == Scoring(sorted, k, own)
           q == Cardinality(Q)
<1>14. /\ ranked \in Seq(C) /\ Len(ranked) <= Len(sorted)
       /\ \A i \in 1 .. Len(ranked) : ranked[i] = sorted[i]
       /\ Q = 1 .. q /\ q \in 0 .. Len(ranked)
       /\ TopK([i \in 1 .. q |-> ranked[i]], C, own, order, k)
  <2>1. IsTop(C, own, order, sorted, k, Q)
    BY <1>4, <1>6, <1>11, <1>13, RankedTop
  <2> QED BY <2>1 DEF IsTop
<1>15. \A i \in DOMAIN ranked : ranked[i] \in C /\ ranked[i] \in U
  BY <1>3, <1>14
<1>16. P = Q
  BY <1>5, <1>15 DEF Scoring
<1>17. \A i \in 1 .. q : /\ i \in 1 .. Len(ranked) /\ i \in DOMAIN ranked
                         /\ i \in 1 .. Len(sorted) /\ i \in Nat /\ ranked[i] = sorted[i]
  <2>1. Len(ranked) \in Nat /\ Len(sorted) \in Nat
    BY <1>12, <1>14
  <2> HIDE DEF ranked, q
  <2> QED BY <1>14, <2>1
<1> HIDE DEF P, Q
<1>18. /\ DOMAIN hits = 1 .. q
       /\ \A i \in 1 .. q : hits[i] = [unit |-> ranked[i], score |-> best(ranked[i]),
                                       excerpt |-> excerpt(i)]
  BY <1>2, <1>16
<1>19. ASSUME NEW i \in 1 .. q
       PROVE  /\ hits[i].unit = ranked[i] /\ hits[i].unit \in C /\ hits[i].unit \in U
              /\ hits[i].score = own[ranked[i]]
              /\ Similarity(UnitOf(drop, hits[i].unit).text, hits[i].excerpt) = hits[i].score
  <2>1. /\ hits[i].unit = ranked[i] /\ hits[i].score = best(ranked[i])
        /\ hits[i].excerpt = excerpt(i)
    <3> HIDE DEF ranked, excerpt
    <3> QED BY <1>18
  <2>2. ranked[i] \in C /\ ranked[i] \in U
    BY <1>15, <1>17
  <2>3. /\ best(ranked[i]) = own[ranked[i]]
        /\ \E f \in found : f.unit = ranked[i] /\ Score(drop, chunking, f) = own[ranked[i]]
    BY <1>5, <2>2
  <2> HIDE DEF ranked
  <2>4. witness(i) \in found /\ witness(i).unit = ranked[i]
        /\ Score(drop, chunking, witness(i)) = best(ranked[i])
    BY <2>3
  <2> HIDE DEF witness
  <2>5. Score(drop, chunking, witness(i)) = Similarity(UnitOf(drop, ranked[i]).text, excerpt(i))
    BY <2>4 DEF Score
  <2> HIDE DEF excerpt
  <2> QED BY <2>1, <2>2, <2>3, <2>4, <2>5
<1> HIDE DEF excerpt, witness, ranked, q
<1>20. ASSUME NEW i \in 1 .. q, NEW key \in U, own[key] > own[ranked[i]]
       PROVE  \E j \in 1 .. i - 1 : hits[j].unit = key
  <2>1. ranked[i] \in C /\ ranked[i] \in U
    BY <1>15, <1>17
  <2>2. own[key] \in Nat /\ own[ranked[i]] \in Nat
    BY <1>4, <2>1
  <2>3. key \in C
    <3>1. PICK f \in found : f.unit = ranked[i] /\ Score(drop, chunking, f) = own[ranked[i]]
      BY <1>5, <2>1
    <3>2. PICK piece \in Pieces(drop, chunking) :
            piece.unit = key /\ Score(drop, chunking, piece) = own[key]
      BY PiecesOf DEF U, own
    <3>3. piece \in found
      <4> SUFFICES ASSUME piece \notin found PROVE FALSE
        OBVIOUS
      <4>1. Score(drop, chunking, f) >= Score(drop, chunking, piece)
        BY <1>1
      <4> QED BY <1>20, <2>2, <3>1, <3>2, <4>1
    <3> QED BY <3>2, <3>3 DEF C
  <2>4. PICK j \in 1 .. Len(sorted) : sorted[j] = key
    BY <1>12, <2>3
  <2>5. i \in 1 .. Len(sorted) /\ ranked[i] = sorted[i] /\ q \in Nat /\ Len(sorted) \in Nat
        /\ DOMAIN sorted = 1 .. Len(sorted)
    <3>1. q \in Nat
      BY <1>14
    <3>2. Len(sorted) \in Nat /\ DOMAIN sorted = 1 .. Len(sorted)
      BY <1>12
    <3> QED BY <1>17, <3>1, <3>2
  <2>6. ~(i < j) /\ i # j
    <3>1. i < j => own[sorted[i]] > own[sorted[j]] \/ own[sorted[i]] = own[sorted[j]]
      BY <1>13, <2>5 DEF SortedBy
    <3> QED BY <1>20, <2>2, <2>4, <2>5, <3>1
  <2>7. j \in 1 .. i - 1 /\ j \in 1 .. q
    BY <2>4, <2>5, <2>6
  <2>8. hits[j].unit = key
    BY <1>17, <1>19, <2>4, <2>7
  <2> QED BY <2>7, <2>8
<1>21. ASSUME found = Pieces(drop, chunking)
       PROVE  TopK([i \in DOMAIN hits |-> hits[i].unit], U, own, order, k)
  <2>1. [i \in DOMAIN hits |-> hits[i].unit] = [i \in 1 .. q |-> ranked[i]]
    BY <1>18, <1>19
  <2>2. U = C
    <3>1. \A key \in U : key \in C
      <4> SUFFICES ASSUME NEW key \in U PROVE key \in C
        OBVIOUS
      <4>1. PICK piece \in Pieces(drop, chunking) : piece.unit = key
        BY PiecesOf DEF U
      <4> QED BY <1>21, <4>1 DEF C
    <3> QED BY <1>3, <3>1
  <2> QED BY <1>14, <2>1, <2>2
<1>22. own = [key \in Units(drop) |-> Own(UnitOf(drop, key).text)]
  BY DEF own, OwnScores
<1>23. order = {p \in U \X U : Before(drop, p[1], p[2])} /\ U = Units(drop)
  BY DEF order, UnitOrder, U
<1>24. /\ \A i \in DOMAIN hits :
            /\ hits[i].score = own[hits[i].unit]
            /\ Similarity(UnitOf(drop, hits[i].unit).text, hits[i].excerpt) = hits[i].score
            /\ \A key \in U : own[key] > hits[i].score =>
                 \E j \in 1 .. i - 1 : hits[j].unit = key
       /\ found = Pieces(drop, chunking) =>
            TopK([i \in DOMAIN hits |-> hits[i].unit], U, own, order, k)
  BY <1>18, <1>19, <1>20, <1>21
<1> HIDE DEF own, order, U
<1> QED BY <1>22, <1>23, <1>24 DEF BestUnits, hits

(* What the runs check of a few texts and drops holds of these, too.       *)
LEMMA SmallTexts ==
  ASSUME NEW n \in Nat
  PROVE  Texts(n) \in SUBSET Seq(Nat) /\ UnitTexts \in SUBSET Seq(Nat)
<1>1. ASSUME NEW m \in Nat, NEW text \in Texts(m)
      PROVE  text \in Seq(Nat)
  <2>1. PICK l \in 1 .. m : text \in [1 .. l -> 0 .. 2]
    BY DEF Texts
  <2>2. l \in Nat /\ \A i \in 1 .. l : text[i] \in Nat /\ DOMAIN text = 1 .. l
    BY <2>1
  <2> QED BY <2>1, <2>2
<1>2. <<2, 0, 1>> \in Seq(Nat)
  OBVIOUS
<1> QED BY <1>1, <1>2 DEF UnitTexts

(* Over the small instances the runs evaluate, every answer of search_decisions and
   search_cases is the best one: the bounds are values of the general theorems above
   (search.py, decisions.py). *)
THEOREM AnswersHold == BestAnswers
<1>1. \A chunking \in Chunkings : Chunked(chunking)
  BY DEF Chunkings, Chunked
<1>2. ASSUME NEW first \in Texts(3), NEW second \in Texts(3), NEW chunking \in Chunkings,
             NEW T \in 1 .. 2, NEW k \in {0, 1, 5}
      PROVE  BestPages(<<first, second>>, chunking, ClampK(k, 2), T)
  <2>1. first \in Seq(Nat) /\ second \in Seq(Nat) /\ T \in Int
    BY SmallTexts
  <2>2. <<first, second>> \in Seq(Seq(Nat))
    BY <2>1
  <2>3. ClampK(k, 2) \in Nat
    <3>1. Min({2, k}) \in Nat
      BY MinOfTwo
    <3> DEFINE m == Min({2, k})
    <3> HIDE DEF m
    <3>2. m \in Nat
      BY <3>1 DEF m
    <3>3. Max({1, m}) \in Nat
      BY <3>2, MaxOfTwo
    <3> QED BY <3>3 DEF ClampK, m
  <2> QED BY <1>1, <2>1, <2>2, <2>3, PagesAreTheBest
<1>3. ASSUME NEW drop \in Drops
      PROVE  drop \in Drop
  <2> DEFINE T == [section : Int, rn : Int, text : Seq(Nat)]
  <2>1. PICK a \in UnitTexts, b \in UnitTexts, c \in UnitTexts :
          drop = <<<<[section |-> 1, rn |-> 0, text |-> a], [section |-> 2, rn |-> 1, text |-> b]>>,
                   <<[section |-> 2, rn |-> 1, text |-> c]>>>>
    BY DEF Drops
  <2>2. a \in Seq(Nat) /\ b \in Seq(Nat) /\ c \in Seq(Nat)
    BY SmallTexts
  <2>3. /\ [section |-> 1, rn |-> 0, text |-> a] \in T
        /\ [section |-> 2, rn |-> 1, text |-> b] \in T
        /\ [section |-> 2, rn |-> 1, text |-> c] \in T
    BY <2>2
  <2> HIDE DEF T
  <2>4. \A u, v, w \in T : <<<<u, v>>, <<w>>>> \in Seq(Seq(T))
    OBVIOUS
  <2>5. drop \in Seq(Seq(T))
    BY <2>1, <2>3, <2>4
  <2> QED BY <2>5 DEF Drop, T
<1>4. ASSUME NEW drop \in Drops, NEW chunking \in Chunkings, NEW k \in 1 .. 2,
             NEW perK \in {1, 200}, NEW found \in Nearest(drop, chunking, Fetch(drop, chunking, perK, k))
      PROVE  BestUnits(drop, chunking, found, k)
  <2>1. drop \in Drop /\ Chunked(chunking) /\ k \in Nat
    BY <1>1, <1>3
  <2> DEFINE n == Fetch(drop, chunking, perK, k)
  <2>2. found \in Nearest(drop, chunking, n)
    OBVIOUS
  <2> HIDE DEF n
  <2> QED BY <2>1, <2>2, UnitsAreTheBest
<1>5. ASSUME NEW text \in Texts(3), NEW chunking \in Chunkings
      PROVE  Covered(text, chunking)
  <2>1. text \in Seq(Nat)
    BY SmallTexts
  <2> QED BY <1>1, <2>1, AllCovered
<1> QED BY <1>2, <1>4, <1>5 DEF BestAnswers

-----------------------------------------------------------------------------
(* The page cutoff.                                                        *)

(* Three numbers tell a checkout that holds the pages 1 .. T.              *)
LEMMA ThreeNumbers ==
  ASSUME NEW checkout, checkout.pages \in SUBSET Int, IsFiniteSet(checkout.pages),
         NEW T
  PROVE  LET seen == ProbeWorkspace(checkout)
         IN  (seen.min = 1 /\ seen.count = seen.max /\ seen.max = T)
               <=> (T \in Nat \ {0} /\ checkout.pages = 1 .. T)
<1> DEFINE P    == checkout.pages
           seen == ProbeWorkspace(checkout)
           least    == CHOOSE p \in P : \A q \in P : p <= q
           greatest == CHOOSE p \in P : \A q \in P : q <= p
<1>1. /\ seen.count = Cardinality(P)
      /\ seen.min = (IF P = {} THEN Missing ELSE least)
      /\ seen.max = (IF P = {} THEN Missing ELSE greatest)
  BY DEF ProbeWorkspace
<1> HIDE DEF seen
<1>2. ASSUME seen.min = 1, seen.count = seen.max, seen.max = T
      PROVE  T \in Nat \ {0} /\ P = 1 .. T
  <2>1. P # {}
    <3> SUFFICES ASSUME P = {} PROVE FALSE
      OBVIOUS
    <3>1. Cardinality(P) = 0
      BY FS_EmptySet
    <3> QED BY <1>1, <1>2, <3>1
  <2>2. PICK m \in P : \A q \in P : q <= m
    BY <2>1, GreatestOf
  <2>3. greatest \in P /\ \A q \in P : q <= greatest
    BY <2>2
  <2>4. greatest = T /\ least = 1 /\ Cardinality(P) = T
    BY <1>1, <1>2, <2>1
  <2>5. T \in P /\ T \in Int /\ \A q \in P : q <= T
    BY <2>3, <2>4
  <2>6. Cardinality(P) \in Nat
    BY FS_CardinalityType
  <2>7. T \in Nat
    BY <2>4, <2>6
  <2>8. \E p \in P : \A q \in P : p <= q
    <3> DEFINE N == {T - q : q \in P}
    <3>1. N \in SUBSET Nat /\ N # {}
      BY <2>1, <2>5
    <3>2. IsFiniteSet(N) /\ N \in SUBSET Int
      <4> DEFINE f == [q \in P |-> T - q]
                 F == {f[q] : q \in P}
      <4>1. N = F
        OBVIOUS
      <4> HIDE DEF f, N
      <4>2. IsFiniteSet(F)
        BY FiniteImage
      <4> HIDE DEF F
      <4> QED BY <3>1, <4>1, <4>2
    <3>3. PICK x \in N : \A y \in N : y <= x
      <4> HIDE DEF N
      <4> QED BY <3>1, <3>2, GreatestOf
    <3>4. PICK p \in P : x = T - p
      BY <3>3
    <3>5. ASSUME NEW q \in P PROVE p <= q
      <4>1. T - q <= T - p /\ p \in Int /\ q \in Int
        BY <3>3, <3>4
      <4> QED BY <2>5, <4>1
    <3> QED BY <3>5
  <2>9. \A q \in P : least <= q
    BY <2>8
  <2>10. \A q \in P : q \in 1 .. T
    BY <2>4, <2>5, <2>7, <2>9
  <2>11. IsFiniteSet(1 .. T) /\ Cardinality(1 .. T) = T
    BY <2>7, FS_Interval
  <2>12. P = 1 .. T
    <3>1. P \in SUBSET (1 .. T)
      BY <2>10
    <3> QED BY <2>4, <2>11, <3>1, FS_Subset
  <2>13. T # 0
    BY <2>10, <2>5
  <2> QED BY <2>7, <2>12, <2>13
<1>3. ASSUME T \in Nat \ {0}, P = 1 .. T
      PROVE  seen.min = 1 /\ seen.count = seen.max /\ seen.max = T
  <2>1. P # {} /\ 1 \in P /\ T \in P
    BY <1>3
  <2>2. least = 1
    <3>1. \A q \in P : 1 <= q
      BY <1>3
    <3>2. least \in P /\ \A q \in P : least <= q
      BY <2>1, <3>1
    <3>3. least <= 1 /\ 1 <= least /\ least \in Int
      BY <1>3, <2>1, <3>1, <3>2
    <3> QED BY <3>3
  <2>3. greatest = T
    <3>1. \A q \in P : q <= T
      BY <1>3
    <3>2. greatest \in P /\ \A q \in P : q <= greatest
      BY <2>1, <3>1
    <3>3. greatest <= T /\ T <= greatest /\ greatest \in Int /\ T \in Int
      BY <1>3, <2>1, <3>1, <3>2
    <3> QED BY <3>3
  <2>4. Cardinality(P) = T
    BY <1>3, FS_Interval
  <2> QED BY <1>1, <2>1, <2>2, <2>3, <2>4
<1> QED BY <1>2, <1>3 DEF seen

(* Intervals are finite.                                                   *)
LEMMA OneTo == \A n \in Nat \ {0} : IsFiniteSet(1 .. n)
  BY FS_Interval

SawOnly(trace, checkout, T) ==
  /\ T \in Nat \ {0} /\ checkout.pages = 1 .. T
  /\ checkout.branch = T /\ checkout.shallow = TRUE /\ checkout.remotes = 0
  /\ CaseSearchPages(trace) \subseteq 1 .. T

(* The harness's three numbers are enough: of an episode whose timestep is *)
(* stated, the two rules of the cutoff hold exactly when its checkout held *)
(* the pages 1 .. T of branch T, without history and without a remote, and *)
(* its searches of the case named none above T (checks.py G5 over          *)
(* pi_harness.py _probe_workspace).                                        *)
THEOREM CutoffIsExact ==
  ASSUME NEW trace, NEW checkout,
         checkout.pages \in SUBSET Int, IsFiniteSet(checkout.pages), checkout.shallow \in BOOLEAN,
         trace.meta.workspace = ProbeWorkspace(checkout), ProbeWorkspace(checkout) # Missing,
         CaseSearchPages(trace) \in SUBSET (Nat \ {0})
  PROVE  (CheckPageCutoff(trace) /\ CheckWorkspace(trace)) <=>
           /\ EpisodeTimestep(trace) # Missing
           /\ SawOnly(trace, checkout, EpisodeTimestep(trace))
<1> DEFINE T    == EpisodeTimestep(trace)
           seen == ProbeWorkspace(checkout)
           C    == CaseSearchPages(trace)
<1>1. /\ seen.branch = checkout.branch /\ seen.shallow = checkout.shallow
      /\ seen.remotes = checkout.remotes
  BY DEF ProbeWorkspace
<1>2. (seen.min = 1 /\ seen.count = seen.max /\ seen.max = T)
          <=> (T \in Nat \ {0} /\ checkout.pages = 1 .. T)
  BY ThreeNumbers
<1> HIDE DEF seen, T, C
<1>3. CheckPageCutoff(trace) <=> (T # Missing /\ \A page \in C : page <= T)
  BY DEF CheckPageCutoff, T, C
<1>4. ASSUME T # Missing
      PROVE  CheckWorkspace(trace) <=>
               /\ seen.shallow = TRUE /\ seen.remotes = 0
               /\ seen.min = 1 /\ seen.count = seen.max
               /\ seen.branch = T /\ seen.max = T
  <2>1. trace.meta.workspace = seen /\ seen # Missing
    BY DEF seen
  <2>2. seen.shallow <=> seen.shallow = TRUE
    BY <1>1
  <2> QED BY <1>4, <2>1, <2>2 DEF CheckWorkspace, T
<1>5. ASSUME T \in Nat \ {0}
      PROVE  (\A page \in C : page <= T) <=> C \subseteq 1 .. T
  <2>1. \A page \in C : page \in Nat \ {0}
    BY DEF C
  <2> QED BY <1>5, <2>1
<1> QED BY <1>1, <1>2, <1>3, <1>4, <1>5 DEF SawOnly, T, C

(* What lies under traces/ was done by an agent that saw the pages of its  *)
(* timestep and no others.                                                 *)
THEOREM AcceptedSawOnly ==
  ASSUME NEW trajectory, Accepted(trajectory),
         NEW k \in DOMAIN trajectory.traces, NEW checkout,
         checkout.pages \in SUBSET Int, IsFiniteSet(checkout.pages), checkout.shallow \in BOOLEAN,
         trajectory.traces[k].meta.workspace = ProbeWorkspace(checkout),
         ProbeWorkspace(checkout) # Missing,
         CaseSearchPages(trajectory.traces[k]) \in SUBSET (Nat \ {0})
  PROVE  SawOnly(trajectory.traces[k], checkout, EpisodeTimestep(trajectory.traces[k]))
<1> DEFINE trace == trajectory.traces[k]
<1>1. CheckPageCutoff(trace) /\ CheckWorkspace(trace)
  BY DEF Accepted, RunTraceChecks
<1> HIDE DEF trace
<1>2. /\ trace.meta.workspace = ProbeWorkspace(checkout)
      /\ CaseSearchPages(trace) \in SUBSET (Nat \ {0})
  BY DEF trace
<1>3. SawOnly(trace, checkout, EpisodeTimestep(trace))
  BY <1>1, <1>2, CutoffIsExact
<1> QED BY <1>3 DEF trace

-----------------------------------------------------------------------------
(* What the tools answer a token.                                          *)

ValidCase(case) ==
  /\ case.pages \in Seq(Seq(Nat)) /\ Chunked(case.chunking)
  /\ case = [pages |-> case.pages, chunking |-> case.chunking]

(* What a token's request is answered: the pages of its case up to its     *)
(* timestep and no others, the best of them, and a status that states that *)
(* timestep and counts exactly those pages.                                *)
InScope(service, token, k) ==
  LET T      == token.claims.timestep
      case   == service.cases[token.claims.case]
      answer == SearchCase(service, token, k)
  IN  /\ T \in 1 .. Len(case.pages)
      /\ ToSet(answer) \subseteq 1 .. T
      /\ BestPages(case.pages, case.chunking, ClampK(k, service.maxK), T)
      /\ CaseStatus(service, token) = [timestep |-> T, visible |-> T, max |-> T]

(* A request that is let in is answered within its token's scope (app.py,  *)
(* tools.py search_case and case_status).                                  *)
THEOREM AnsweredInScope ==
  ASSUME NEW service, NEW token, NEW now, NEW k \in Int,
         Admission(service, token, now) = 200, service.maxK \in Int,
         \A case \in DOMAIN service.cases : ValidCase(service.cases[case])
  PROVE  InScope(service, token, k)
<1> DEFINE T      == token.claims.timestep
           case   == service.cases[token.claims.case]
           answer == SearchCase(service, token, k)
           kk     == ClampK(k, service.maxK)
           plain  == [pages |-> case.pages, chunking |-> case.chunking]
<1>1. ValidateScope(service, token.claims) /\ service.status = "ready"
  BY DEF Admission
<1>2. token.claims.case \in DOMAIN service.cases /\ T \in 1 .. Len(case.pages)
  BY <1>1 DEF ValidateScope
<1>3. case.pages \in Seq(Seq(Nat)) /\ Chunked(case.chunking) /\ case = plain
  BY <1>2 DEF ValidCase
<1>4. kk \in Nat
  <2>1. Min({service.maxK, k}) \in Int
    BY MinOfTwo
  <2> DEFINE m == Min({service.maxK, k})
  <2>2. m \in Int
    BY <2>1
  <2> HIDE DEF m
  <2>3. Max({1, m}) \in Nat
    BY <2>2, MaxOfTwo
  <2> QED BY <2>3 DEF ClampK, m
<1>5. answer = CaseSearch(case, kk, T)
  BY DEF SearchCase
<1> HIDE DEF T, case, answer, kk, plain
<1>6. T \in Nat /\ Len(case.pages) \in Nat /\ DOMAIN case.pages = 1 .. Len(case.pages) /\ T >= 1
      /\ T <= Len(case.pages)
  BY <1>2, <1>3
<1>7. BestPages(case.pages, case.chunking, kk, T)
  BY <1>3, <1>4, <1>6, PagesAreTheBest
<1>8. {page \in DOMAIN case.pages : page <= T} = 1 .. T
  BY <1>6
<1>9. CaseSearch(plain, kk, T) = answer
  BY <1>3, <1>5
<1>10. ToSet(answer) \subseteq 1 .. T
  <2> DEFINE V == {page \in DOMAIN case.pages : page <= T}
             score == [page \in V |-> Own(case.pages[page])]
             order == {p \in V \X V : p[1] < p[2]}
  <2>1. TopK(answer, V, score, order, kk)
    BY <1>7, <1>9 DEF BestPages, plain
  <2> HIDE DEF score, order
  <2>2. \A i \in DOMAIN answer : answer[i] \in V
    BY <2>1 DEF TopK
  <2> HIDE DEF V
  <2>3. V = 1 .. T
    BY <1>8 DEF V
  <2> QED BY <2>2, <2>3 DEF ToSet
<1>11. CaseStatus(service, token) = [timestep |-> T, visible |-> T, max |-> T]
  <2>1. CaseStatus(service, token) = [timestep |-> T, visible |-> Cardinality(1 .. T),
                                      max |-> Max(1 .. T)]
    BY <1>8 DEF CaseStatus, T, case
  <2>2. Cardinality(1 .. T) = T
    BY <1>6, FS_Interval
  <2>3. Max(1 .. T) = T
    <3> DEFINE S == 1 .. T
    <3>1. S \in SUBSET Int /\ T \in S /\ \A x \in S : x <= T
      BY <1>6
    <3> HIDE DEF S
    <3>2. Max(S) = T
      BY <3>1, MaxIs
    <3> QED BY <3>2 DEF S
  <2> QED BY <2>1, <2>2, <2>3
<1> QED BY <1>2, <1>7, <1>10, <1>11 DEF InScope, T, case, answer, kk

(* Every episode that the harness sets up and the service answers passes   *)
(* the cutoff, if anything states its timestep: its checkout is branch T   *)
(* of a repository with the pages 1 .. t on each branch t, its searches of *)
(* the case carry what the service answered a token of timestep T, and     *)
(* what states a timestep is its task or that token's case_status          *)
(* (pi_harness.py, gateway token, tools.py; checks.py G5).                 *)
THEOREM EstateEpisodesPass ==
  ASSUME NEW repository, NEW settings, NEW service, NEW T \in Nat \ {0}, NEW G,
         settings.timestep = T, T # Missing, repository[T] = 1 .. T, service.maxK \in Int,
         \A case \in DOMAIN service.cases : ValidCase(service.cases[case]),
         NEW start, NEW token, token = MintEpisodeToken(settings, start),
         NEW trace, trace.messages \in Seq(G),
         trace.meta.workspace = ProbeWorkspace(Setup(repository, settings)),
         ProbeWorkspace(Setup(repository, settings)) # Missing,
         \A page \in CaseSearchPages(trace) :
           \E k \in Int, now \in Int : /\ Admission(service, token, now) = 200
                                       /\ page \in ToSet(SearchCase(service, token, k)),
         \A i \in DOMAIN trace.messages : StatesTimestep(trace.messages[i]) =>
           \E now \in Int : /\ Admission(service, token, now) = 200
                            /\ trace.messages[i].timestep = CaseStatus(service, token).timestep,
         trace.meta.timestep \in {Missing, T},
         \/ trace.meta.timestep = T
         \/ \E i \in DOMAIN trace.messages : StatesTimestep(trace.messages[i])
  PROVE  CheckPageCutoff(trace) /\ CheckWorkspace(trace)
<1> DEFINE checkout == Setup(repository, settings)
           said == trace.messages
<1>1. token.claims.timestep = T
  BY DEF MintEpisodeToken
<1>2. ASSUME NEW k \in Int, NEW now \in Int, Admission(service, token, now) = 200
      PROVE  /\ ToSet(SearchCase(service, token, k)) \subseteq 1 .. T
             /\ CaseStatus(service, token).timestep = T
  <2>1. InScope(service, token, k)
    BY <1>2, AnsweredInScope
  <2>2. ToSet(SearchCase(service, token, k)) \subseteq 1 .. token.claims.timestep
    BY <2>1 DEF InScope
  <2>3. CaseStatus(service, token).timestep = token.claims.timestep
    BY <2>1 DEF InScope
  <2> QED BY <1>1, <2>2, <2>3, Zenon
<1>3. CaseSearchPages(trace) \subseteq 1 .. T
  BY <1>2
<1>4. \A i \in DOMAIN said : StatesTimestep(said[i]) => said[i].timestep = T
  BY <1>2
<1>5. EpisodeTimestep(trace) = T
  <2>1. CASE trace.meta.timestep = T
    BY <2>1 DEF EpisodeTimestep
  <2>2. CASE trace.meta.timestep = Missing
    <3> DEFINE I == {i \in 1 .. Len(said) : StatesTimestep(said[i])}
    <3>1. DOMAIN said = 1 .. Len(said) /\ \E i \in DOMAIN said : StatesTimestep(said[i])
      BY <2>2
    <3>2. I # {} /\ I \in SUBSET Nat
      BY <3>1
    <3>3. \E m \in I : \A j \in I : m <= j
      <4> HIDE DEF I
      <4> QED BY <3>2, LeastOf
    <3>4. Min(I) \in I
      BY <3>3 DEF Min
    <3>5. SelectInSeq(said, StatesTimestep) = Min(I)
      BY <3>2 DEF SelectInSeq
    <3> DEFINE m == SelectInSeq(said, StatesTimestep)
    <3>6. m \in DOMAIN said /\ StatesTimestep(said[m])
      BY <3>1, <3>4, <3>5
    <3>7. said[m].timestep = T
      BY <1>4, <3>6
    <3>8. EpisodeTimestep(trace) = said[m].timestep
      BY <2>2, <3>1 DEF EpisodeTimestep
    <3> QED BY <3>7, <3>8
  <2> QED BY <2>1, <2>2
<1>6. /\ checkout.pages = 1 .. T /\ checkout.branch = T /\ checkout.shallow = TRUE
      /\ checkout.remotes = 0
  BY DEF Setup
<1>7. /\ checkout.pages \in SUBSET Int /\ IsFiniteSet(checkout.pages)
      /\ checkout.shallow \in BOOLEAN
      /\ CaseSearchPages(trace) \in SUBSET (Nat \ {0})
  <2>1. IsFiniteSet(1 .. T)
    BY OneTo, Zenon
  <2>2. 1 .. T \in SUBSET Int /\ 1 .. T \in SUBSET (Nat \ {0}) /\ TRUE \in BOOLEAN
    OBVIOUS
  <2>3. CaseSearchPages(trace) \in SUBSET (Nat \ {0})
    BY <1>3, <2>2
  <2> HIDE DEF checkout
  <2> QED BY <1>6, <2>1, <2>2, <2>3
<1>8. SawOnly(trace, checkout, T)
  BY <1>3, <1>6 DEF SawOnly
<1> HIDE DEF checkout
<1>9. trace.meta.workspace = ProbeWorkspace(checkout) /\ ProbeWorkspace(checkout) # Missing
  BY DEF checkout
<1> QED BY <1>5, <1>7, <1>8, <1>9, CutoffIsExact

-----------------------------------------------------------------------------
(* Folds.                                                                  *)

(* An interval without its last number is the one before.                  *)
LEMMA UpTo ==
  ASSUME NEW i \in Nat
  PROVE  /\ i > 0 => Max(1 .. i) = i /\ (1 .. i) \ {i} = 1 .. i - 1 /\ 1 .. i # {}
         /\ 1 .. 0 = {}
<1>1. ASSUME i > 0 PROVE Max(1 .. i) = i
  <2> DEFINE S == 1 .. i
  <2>1. S \in SUBSET Int /\ i \in S /\ \A x \in S : x <= i
    BY <1>1
  <2> HIDE DEF S
  <2>2. Max(S) = i
    BY <2>1, MaxIs
  <2> QED BY <2>2 DEF S
<1>2. ASSUME i > 0 PROVE (1 .. i) \ {i} = 1 .. i - 1 /\ 1 .. i # {}
  <2>1. \A x : x \in (1 .. i) \ {i} <=> x \in 1 .. i - 1
    OBVIOUS
  <2>2. i \in 1 .. i
    BY <1>2
  <2> QED BY <2>1, <2>2
<1> QED BY <1>1, <1>2

Bounded(n, m) == {s \in SUBSET (1 .. n) : Cardinality(s) <= m}
Folds(h, D, V, base, step) ==
  h \in [D -> V] /\ \A s \in D :
    h[s] = IF s = {} THEN base ELSE step[<<h[s \ {Max(s)}], Max(s)>>]

(* A step that stays within a set can be taken member by member.           *)
LEMMA FoldExists ==
  ASSUME NEW n \in Nat, NEW V, NEW base \in V, NEW step \in [V \X (1 .. n) -> V]
  PROVE  \E h : Folds(h, SUBSET (1 .. n), V, base, step)
<1> DEFINE D(m) == Bounded(n, m)
           Wrong == {m \in Nat : ~ \E h : Folds(h, D(m), V, base, step)}
<1>0. \A s \in SUBSET (1 .. n) : IsFiniteSet(s) /\ Cardinality(s) \in 0 .. n
  BY RankOK
<1>1. ASSUME NEW s \in SUBSET (1 .. n), s # {}
      PROVE  /\ Max(s) \in s /\ Max(s) \in 1 .. n /\ s \ {Max(s)} \in SUBSET (1 .. n)
             /\ Cardinality(s \ {Max(s)}) = Cardinality(s) - 1
  <2>1. s \in SUBSET Int /\ IsFiniteSet(s)
    BY <1>0
  <2>2. Max(s) \in s
    BY <1>1, <2>1, MaxOf
  <2>3. Cardinality(s \ {Max(s)}) = Cardinality(s) - 1
    BY <2>1, <2>2, FS_RemoveElement
  <2> QED BY <2>2, <2>3
<1>2. SUFFICES Wrong = {}
  <2>1. n \notin Wrong
    BY <1>2
  <2>2. D(n) = SUBSET (1 .. n)
    BY <1>0 DEF Bounded
  <2> HIDE DEF D
  <2>3. \E h : Folds(h, D(n), V, base, step)
    BY <2>1
  <2> QED BY <2>2, <2>3
<1> SUFFICES ASSUME Wrong # {} PROVE FALSE
  OBVIOUS
<1>3. PICK m \in Wrong : \A j \in Wrong : m <= j
  <2>1. Wrong \in SUBSET Nat
    OBVIOUS
  <2> HIDE DEF Wrong
  <2> QED BY <2>1, LeastOf
<1>4. m \in Nat /\ ~ \E h : Folds(h, D(m), V, base, step)
  BY <1>3
<1>5. CASE m = 0
  <2>1. D(0) = {{}}
    <3>1. \A s \in D(0) : s = {}
      <4> SUFFICES ASSUME NEW s \in D(0) PROVE s = {}
        OBVIOUS
      <4>1. IsFiniteSet(s) /\ Cardinality(s) = 0
        BY <1>0 DEF Bounded
      <4> QED BY <4>1, FS_EmptySet
    <3>2. {} \in D(0)
      BY FS_EmptySet DEF Bounded
    <3> QED BY <3>1, <3>2
  <2> DEFINE h == [s \in {{}} |-> base]
  <2>2. Folds(h, {{}}, V, base, step)
    BY DEF Folds
  <2> HIDE DEF h
  <2> QED BY <1>4, <1>5, <2>1, <2>2
<1>6. CASE m # 0
  <2>1. m - 1 \in Nat /\ ~(m <= m - 1)
    BY <1>4, <1>6
  <2>2. m - 1 \notin Wrong
    BY <1>3, <2>1
  <2>3. PICK g : Folds(g, D(m - 1), V, base, step)
    BY <2>1, <2>2
  <2> DEFINE less(s) == s \ {Max(s)}
             h == [s \in D(m) |-> IF s = {} THEN base ELSE step[<<g[less(s)], Max(s)>>]]
  <2>4. ASSUME NEW s \in D(m), s # {}
        PROVE  less(s) \in D(m - 1) /\ Max(s) \in 1 .. n /\ less(s) \in D(m)
    <3>1. s \in SUBSET (1 .. n) /\ Cardinality(s) <= m /\ Cardinality(s) \in Nat
      BY <1>0 DEF Bounded
    <3>2. /\ less(s) \in SUBSET (1 .. n) /\ Cardinality(less(s)) = Cardinality(s) - 1
          /\ Max(s) \in 1 .. n
      BY <1>1, <2>4, <3>1
    <3>3. Cardinality(less(s)) <= m - 1 /\ Cardinality(less(s)) <= m
      BY <1>4, <3>1, <3>2
    <3> QED BY <3>2, <3>3 DEF Bounded
  <2>5. \A s \in D(m - 1) : g[s] \in V
                            /\ g[s] = IF s = {} THEN base ELSE step[<<g[less(s)], Max(s)>>]
    BY <2>3 DEF Folds
  <2>6. \A s \in D(m - 1) : s \in D(m)
    BY <1>0, <1>4 DEF Bounded
  <2> HIDE DEF D, less
  <2>7. ASSUME NEW s \in D(m)
        PROVE  h[s] \in V
    <3>1. CASE s = {}
      BY <3>1
    <3>2. CASE s # {}
      BY <2>4, <2>5, <3>2
    <3> QED BY <3>1, <3>2
  <2>8. \A s \in D(m - 1) : h[s] = g[s]
    BY <2>5, <2>6
  <2>9. \A s \in D(m) : h[s] = IF s = {} THEN base ELSE step[<<h[less(s)], Max(s)>>]
    BY <2>4, <2>8
  <2>10. h \in [D(m) -> V]
    BY <2>7
  <2> HIDE DEF h
  <2>11. Folds(h, D(m), V, base, step)
    BY <2>9, <2>10 DEF Folds, less
  <2> QED BY <1>4, <2>11 DEF D
<1> QED BY <1>5, <1>6

(* The same over the first places of a sequence, one after the other.      *)
Runs(n, V, base, step) ==
  \E g \in [0 .. n -> V] :
    g[0] = base /\ \A i \in 1 .. n : g[i] = step[<<g[i - 1], i>>]

(* A function defined by what it is at 0 and by a step exists.             *)
LEMMA RunExists ==
  ASSUME NEW n \in Nat, NEW V, NEW base \in V, NEW step \in [V \X (1 .. n) -> V]
  PROVE  Runs(n, V, base, step)
<1>1. PICK h : Folds(h, SUBSET (1 .. n), V, base, step)
  BY FoldExists
<1> DEFINE g == [i \in 0 .. n |-> h[1 .. i]]
<1>2. \A i \in 0 .. n : 1 .. i \in SUBSET (1 .. n)
  OBVIOUS
<1>3. g \in [0 .. n -> V]
  BY <1>1, <1>2 DEF Folds
<1>4. g[0] = base
  <2>1. g[0] = h[1 .. 0] /\ 1 .. 0 = {} /\ {} \in SUBSET (1 .. n)
    BY UpTo
  <2> QED BY <1>1, <2>1 DEF Folds
<1>5. ASSUME NEW i \in 1 .. n
      PROVE  g[i] = step[<<g[i - 1], i>>]
  <2>1. i \in Nat /\ i > 0 /\ i \in 0 .. n /\ i - 1 \in 0 .. n
    OBVIOUS
  <2>2. Max(1 .. i) = i /\ (1 .. i) \ {i} = 1 .. i - 1 /\ 1 .. i # {}
    BY <2>1, UpTo
  <2>3. h[1 .. i] = step[<<h[(1 .. i) \ {Max(1 .. i)}], Max(1 .. i)>>]
    BY <1>1, <1>2, <2>1, <2>2 DEF Folds
  <2>4. g[i] = h[1 .. i] /\ g[i - 1] = h[1 .. i - 1]
    BY <2>1
  <2> QED BY <2>2, <2>3, <2>4
<1> HIDE DEF g
<1> QED BY <1>3, <1>4, <1>5 DEF Runs

(* What does not fall from one place to the next does not fall at all.     *)
LEMMA NeverFalls ==
  ASSUME NEW n \in Nat, NEW f, \A i \in 0 .. n : f[i] \in Int,
         \A i \in 1 .. n : f[i - 1] <= f[i]
  PROVE  \A i, j \in 0 .. n : i <= j => f[i] <= f[j]
<1> SUFFICES ASSUME NEW i \in 0 .. n
             PROVE  \A j \in 0 .. n : i <= j => f[i] <= f[j]
  OBVIOUS
<1> DEFINE Wrong == {j \in 0 .. n : i <= j /\ ~(f[i] <= f[j])}
<1>1. SUFFICES Wrong = {}
  OBVIOUS
<1> SUFFICES ASSUME Wrong # {} PROVE FALSE
  OBVIOUS
<1>2. PICK j \in Wrong : \A k \in Wrong : j <= k
  <2>1. Wrong \in SUBSET Nat
    OBVIOUS
  <2> HIDE DEF Wrong
  <2> QED BY <2>1, LeastOf
<1>3. j \in 0 .. n /\ i <= j /\ ~(f[i] <= f[j]) /\ f[i] \in Int /\ f[j] \in Int
  BY <1>2
<1>4. i # j
  BY <1>3
<1>5. j \in 1 .. n /\ j - 1 \in 0 .. n /\ i <= j - 1 /\ ~(j <= j - 1)
  BY <1>3, <1>4
<1>6. f[j - 1] <= f[j] /\ f[j - 1] \in Int
  BY <1>5
<1>7. j - 1 \in Wrong
  BY <1>3, <1>5, <1>6
<1> QED BY <1>2, <1>5, <1>7

-----------------------------------------------------------------------------
(* Induction up to a number, over a set.                                   *)
LEMMA Climb ==
  ASSUME NEW n \in Nat, NEW a \in Nat, NEW S, a \in S,
         \A i \in a + 1 .. n : i - 1 \in S => i \in S
  PROVE  a .. n \subseteq S
<1> DEFINE Wrong == {i \in a .. n : i \notin S}
<1>1. SUFFICES Wrong = {}
  OBVIOUS
<1> SUFFICES ASSUME Wrong # {} PROVE FALSE
  OBVIOUS
<1>2. PICK j \in Wrong : \A k \in Wrong : j <= k
  <2>1. Wrong \in SUBSET Nat
    OBVIOUS
  <2> HIDE DEF Wrong
  <2> QED BY <2>1, LeastOf
<1>3. j \in a .. n /\ j \notin S /\ j # a
  BY <1>2
<1>4. j \in a + 1 .. n /\ j - 1 \in a .. n /\ ~(j <= j - 1)
  BY <1>3
<1>5. j - 1 \in Wrong
  BY <1>3, <1>4
<1> QED BY <1>2, <1>4, <1>5

-----------------------------------------------------------------------------
(* Grouping.                                                               *)

Joined(chains, completion) ==
  IF Extendable(chains, completion.prompt) = {} THEN Append(chains, <<completion>>)
  ELSE [chains EXCEPT ![FindExtendableChain(chains, completion.prompt)] = Append(@, completion)]

(* One completion more extends a chain or opens one.                       *)
LEMMA JoinedOf ==
  ASSUME NEW C, NEW chains \in Seq(Seq(C)), NEW c \in C
  PROVE  /\ Joined(chains, c) \in Seq(Seq(C))
         /\ Len(Joined(chains, c)) = IF Extendable(chains, c.prompt) = {} THEN Len(chains) + 1
                                                                          ELSE Len(chains)
<1>1. CASE Extendable(chains, c.prompt) = {}
  <2>1. <<c>> \in Seq(C)
    OBVIOUS
  <2> DEFINE one == <<c>>
  <2> HIDE DEF one
  <2>2. Append(chains, one) \in Seq(Seq(C)) /\ Len(Append(chains, one)) = Len(chains) + 1
    BY <2>1 DEF one
  <2> QED BY <1>1, <2>2 DEF Joined, one
<1>2. CASE Extendable(chains, c.prompt) # {}
  <2> DEFINE k == FindExtendableChain(chains, c.prompt)
             new == [chains EXCEPT ![k] = Append(@, c)]
             n == Len(chains)
  <2>1. Joined(chains, c) = new
    BY <1>2 DEF Joined
  <2> HIDE DEF k
  <2>2. n \in Nat /\ DOMAIN chains = 1 .. n /\ \A i \in 1 .. n : chains[i] \in Seq(C)
    OBVIOUS
  <2>3. new = [i \in 1 .. n |-> IF i = k THEN Append(chains[i], c) ELSE chains[i]]
    BY <2>2
  <2>4. \A i \in 1 .. n : Append(chains[i], c) \in Seq(C)
    BY <2>2
  <2> HIDE DEF new, n
  <2>5. new \in Seq(Seq(C)) /\ Len(new) = n
    BY <2>2, <2>3, <2>4
  <2> QED BY <1>2, <2>1, <2>5 DEF n
<1> QED BY <1>1, <1>2

(* Group takes the completions one after the other.                        *)
LEMMA GroupRun ==
  ASSUME NEW C, NEW cs \in Seq(C)
  PROVE  \E g \in [0 .. Len(cs) -> Seq(Seq(C))] :
           /\ g[0] = <<>>
           /\ \A i \in 1 .. Len(cs) : g[i] = Joined(g[i - 1], cs[i])
           /\ Group(cs) = g[Len(cs)]
<1> DEFINE n == Len(cs)
           D == DOMAIN cs
           V == Seq(Seq(C))
           step == [p \in V \X (1 .. n) |-> Joined(p[1], cs[p[2]])]
           E(it, s) ==
             IF s = {} THEN <<>>
             ELSE CHOOSE r \in {Joined(v, cs[Max(s)]) : v \in {it[s \ {Max(s)}]}} : TRUE
           Fits(it) == it = [s \in SUBSET D |-> E(it, s)]
           iter == CHOOSE it : Fits(it)
           g == [i \in 0 .. n |-> iter[1 .. i]]
<1>1. n \in Nat /\ D = 1 .. n /\ \A i \in 1 .. n : cs[i] \in C
  OBVIOUS
<1>2. Group(cs) = iter[D]
  BY DEF Group, FoldLeft, MapThenFoldSet, With, Joined
<1>3. step \in [V \X (1 .. n) -> V]
  BY <1>1, JoinedOf
<1>4. <<>> \in V
  OBVIOUS
<1> HIDE DEF V, n
<1>5. PICK h : Folds(h, SUBSET (1 .. n), V, <<>>, step)
  <2> HIDE DEF step
  <2> QED BY <1>1, <1>3, <1>4, FoldExists
<1>6. ASSUME NEW s \in SUBSET (1 .. n), s # {}
      PROVE  Max(s) \in 1 .. n /\ s \ {Max(s)} \in SUBSET (1 .. n)
  <2>1. s \in SUBSET Int /\ IsFiniteSet(s)
    BY <1>1, RankOK
  <2>2. Max(s) \in s
    BY <1>6, <2>1, MaxOf
  <2> QED BY <2>2
<1>7. Fits(h)
  <2>1. h = [s \in SUBSET (1 .. n) |-> h[s]] /\ \A s \in SUBSET (1 .. n) : h[s] \in V
    BY <1>5 DEF Folds
  <2>2. ASSUME NEW s \in SUBSET (1 .. n)
        PROVE  h[s] = E(h, s)
    <3>1. CASE s = {}
      BY <1>5, <3>1 DEF Folds
    <3>2. CASE s # {}
      <4>1. h[s] = step[<<h[s \ {Max(s)}], Max(s)>>]
        BY <1>5, <3>2 DEF Folds
      <4>2. h[s \ {Max(s)}] \in V /\ Max(s) \in 1 .. n
        BY <1>6, <2>1, <3>2
      <4>3. h[s] = Joined(h[s \ {Max(s)}], cs[Max(s)])
        BY <4>1, <4>2
      <4> QED BY <3>2, <4>3
    <3> QED BY <3>1, <3>2
  <2> HIDE DEF E
  <2>3. h = [s \in SUBSET (1 .. n) |-> E(h, s)]
    BY <2>1, <2>2
  <2> QED BY <1>1, <2>3
<1>8. Fits(iter)
  <2> HIDE DEF Fits
  <2> QED BY <1>7
<1>13. \A s \in SUBSET D : iter[s] = E(iter, s)
  <2> HIDE DEF E
  <2>1. iter = [s \in SUBSET D |-> E(iter, s)]
    BY <1>8
  <2> HIDE DEF iter
  <2> QED BY <2>1
<1> HIDE DEF iter
<1>9. g[0] = <<>>
  <2>1. 1 .. 0 = {} /\ {} \in SUBSET D /\ g[0] = iter[1 .. 0]
    BY <1>1
  <2> QED BY <1>13, <2>1
<1>10. ASSUME NEW i \in 1 .. n
       PROVE  g[i] = Joined(g[i - 1], cs[i])
  <2>1. i \in Nat /\ i > 0 /\ i \in 0 .. n /\ i - 1 \in 0 .. n /\ 1 .. i \in SUBSET D
    BY <1>1
  <2>2. Max(1 .. i) = i /\ (1 .. i) \ {i} = 1 .. i - 1 /\ 1 .. i # {}
    BY <2>1, UpTo
  <2> DEFINE s == 1 .. i
  <2>3. iter[s] = CHOOSE r \in {Joined(v, cs[Max(s)]) : v \in {iter[s \ {Max(s)}]}} : TRUE
    BY <1>13, <2>1, <2>2
  <2>4. iter[s] = Joined(iter[s \ {Max(s)}], cs[Max(s)])
    BY <2>3
  <2> QED BY <2>1, <2>2, <2>4
<1> HIDE DEF g
<1>11. \A i \in 0 .. n : g[i] \in V
  <2> DEFINE S == {i \in 0 .. n : g[i] \in V}
  <2>1. 0 \in S
    BY <1>1, <1>4, <1>9
  <2>2. \A i \in 0 + 1 .. n : i - 1 \in S => i \in S
    <3> SUFFICES ASSUME NEW i \in 1 .. n, i - 1 \in S PROVE i \in S
      OBVIOUS
    <3>1. g[i - 1] \in V /\ cs[i] \in C /\ g[i] = Joined(g[i - 1], cs[i]) /\ i \in 0 .. n
      BY <1>1, <1>10
    <3>2. g[i] \in V
      BY <3>1, JoinedOf DEF V
    <3> QED BY <3>1, <3>2
  <2> HIDE DEF S
  <2>3. 0 .. n \subseteq S
    BY <1>1, <2>1, <2>2, Climb
  <2> QED BY <2>3 DEF S
<1>12. g \in [0 .. n -> V] /\ g[n] = iter[D]
  BY <1>1, <1>11 DEF g
<1> QED BY <1>2, <1>9, <1>10, <1>12 DEF n, V

(* One chain is all the completions, and each prompt extends the one       *)
(* before.                                                                 *)
LEMMA OneChain ==
  ASSUME NEW C, NEW cs \in Seq(C), Len(Group(cs)) = 1
  PROVE  /\ Group(cs) = <<cs>> /\ Len(cs) > 0
         /\ \A i \in 1 .. Len(cs) : i > 1 => IsPrefix(cs[i - 1].prompt, cs[i].prompt)
<1> DEFINE n == Len(cs)
           V == Seq(Seq(C))
<1>1. PICK g \in [0 .. n -> V] :
        /\ g[0] = <<>>
        /\ \A i \in 1 .. n : g[i] = Joined(g[i - 1], cs[i])
        /\ Group(cs) = g[n]
  BY GroupRun
<1>2. n \in Nat /\ n > 0 /\ \A i \in 1 .. n : cs[i] \in C /\ i \in 0 .. n /\ i - 1 \in 0 .. n
  <2>1. n \in Nat /\ \A i \in 1 .. n : cs[i] \in C /\ i \in 0 .. n /\ i - 1 \in 0 .. n
    OBVIOUS
  <2>2. n # 0
    <3>1. Len(<<>>) = 0
      OBVIOUS
    <3> QED BY <1>1, <3>1
  <2> QED BY <2>1, <2>2
<1> HIDE DEF n
<1> DEFINE f == [i \in 0 .. n |-> Len(g[i])]
<1>3. /\ \A i \in 0 .. n : f[i] = Len(g[i]) /\ f[i] \in Nat
      /\ \A i \in 1 .. n :
           f[i] = IF Extendable(g[i - 1], cs[i].prompt) = {} THEN f[i - 1] + 1 ELSE f[i - 1]
  <2>1. \A i \in 0 .. n : g[i] \in V /\ f[i] = Len(g[i])
    BY <1>1
  <2>2. \A i \in 0 .. n : Len(g[i]) \in Nat
    BY <2>1
  <2>3. ASSUME NEW i \in 1 .. n
        PROVE  f[i] = IF Extendable(g[i - 1], cs[i].prompt) = {} THEN f[i - 1] + 1 ELSE f[i - 1]
    <3> DEFINE a == g[i - 1]
               c == cs[i]
    <3>1. a \in Seq(Seq(C)) /\ c \in C /\ g[i] = Joined(a, c)
          /\ f[i] = Len(g[i]) /\ f[i - 1] = Len(a)
      BY <1>1, <1>2, <2>1
    <3> HIDE DEF f, a, c
    <3>2. Len(Joined(a, c)) = IF Extendable(a, c.prompt) = {} THEN Len(a) + 1 ELSE Len(a)
      BY <3>1, JoinedOf
    <3> QED BY <3>1, <3>2 DEF a, c
  <2> QED BY <2>1, <2>2, <2>3
<1> HIDE DEF f
<1>4. \A i \in 0 .. n : f[i] <= 1
  <2>1. \A i \in 1 .. n : f[i - 1] <= f[i]
    <3> SUFFICES ASSUME NEW i \in 1 .. n PROVE f[i - 1] <= f[i]
      OBVIOUS
    <3>1. f[i - 1] \in Nat /\ (f[i] = f[i - 1] + 1 \/ f[i] = f[i - 1])
      BY <1>2, <1>3
    <3> QED BY <3>1
  <2>2. \A i \in 0 .. n : f[i] \in Int
    BY <1>3
  <2>3. \A i, j \in 0 .. n : i <= j => f[i] <= f[j]
    BY <1>2, <2>1, <2>2, NeverFalls
  <2>4. f[n] = 1 /\ n \in 0 .. n /\ \A i \in 0 .. n : i <= n
    <3>1. n \in 0 .. n /\ \A i \in 0 .. n : i <= n
      BY <1>2
    <3>2. f[n] = Len(g[n])
      BY <1>3, <3>1
    <3> QED BY <1>1, <3>1, <3>2
  <2> QED BY <2>3, <2>4
<1> DEFINE S == {i \in 1 .. n : /\ g[i] = <<SubSeq(cs, 1, i)>>
                                /\ i > 1 => IsPrefix(cs[i - 1].prompt, cs[i].prompt)}
<1>5. 1 \in S
  <2>1. 1 \in 1 .. n /\ cs[1] \in C
    BY <1>2
  <2>2. Extendable(<<>>, cs[1].prompt) = {}
    BY DEF Extendable
  <2>3. g[1] = Joined(<<>>, cs[1])
    BY <1>1, <2>1
  <2>4. g[1] = Append(<<>>, <<cs[1]>>)
    BY <2>2, <2>3 DEF Joined
  <2>5. Append(<<>>, <<cs[1]>>) = <<<<cs[1]>>>>
    OBVIOUS
  <2>6. SubSeq(cs, 1, 1) = <<cs[1]>>
    <3>1. 1 \in 1 .. Len(cs) /\ 1 \in Nat
      BY <1>2 DEF n
    <3> DEFINE X == SubSeq(cs, 1, 1)
    <3>2. X \in Seq(C) /\ Len(X) = 1 /\ X[1] = cs[1]
      BY <3>1
    <3> HIDE DEF X
    <3>3. X = <<cs[1]>>
      BY <3>2
    <3> QED BY <3>3 DEF X
  <2> QED BY <2>1, <2>4, <2>5, <2>6
<1>6. ASSUME NEW i \in 2 .. n, i - 1 \in S
      PROVE  i \in S
  <2> DEFINE X == SubSeq(cs, 1, i - 1)
             c == cs[i]
  <2>1. /\ i \in 1 .. n /\ i - 1 \in 1 .. n /\ i \in Nat /\ c \in C /\ n = Len(cs)
        /\ g[i - 1] = <<X>> /\ g[i] = Joined(<<X>>, c)
    <3>1. i \in 1 .. n /\ i - 1 \in 1 .. n /\ i \in Nat /\ n = Len(cs)
      BY <1>2 DEF n
    <3>2. g[i - 1] = <<X>>
      BY <1>6
    <3>3. g[i] = Joined(g[i - 1], c) /\ c \in C
      BY <1>1, <1>2, <3>1
    <3> HIDE DEF X, c
    <3> QED BY <3>1, <3>2, <3>3
  <2>2. X \in Seq(C) /\ Len(X) = i - 1 /\ X[i - 1] = cs[i - 1]
    BY <1>2, <2>1
  <2>3. Append(X, c) = SubSeq(cs, 1, i)
    BY <1>2, <2>1
  <2> HIDE DEF X, c
  <2>4. Tip(X) = cs[i - 1].prompt
    BY <2>2 DEF Tip
  <2>5. Extendable(<<X>>, c.prompt) # {}
    <3> SUFFICES ASSUME Extendable(<<X>>, c.prompt) = {} PROVE FALSE
      OBVIOUS
    <3>1. f[i] = f[i - 1] + 1
      BY <1>3, <2>1 DEF c
    <3>2. f[i - 1] = Len(<<X>>) /\ Len(<<X>>) = 1 /\ i \in 0 .. n
      BY <1>2, <1>3, <2>1
    <3>3. f[i] = 2 /\ f[i] <= 1
      BY <1>4, <3>1, <3>2
    <3> QED BY <3>3
  <2>6. \A k \in Extendable(<<X>>, c.prompt) : k = 1 /\ IsPrefix(Tip(X), c.prompt)
    BY DEF Extendable
  <2>7. Extendable(<<X>>, c.prompt) = {1} /\ IsPrefix(Tip(X), c.prompt)
    BY <2>5, <2>6
  <2>8. FindExtendableChain(<<X>>, c.prompt) = 1
    BY <2>7 DEF FindExtendableChain
  <2>9. g[i] = <<Append(X, c)>>
    <3>1. g[i] = [<<X>> EXCEPT ![1] = Append(@, c)]
      BY <2>1, <2>7, <2>8 DEF Joined
    <3> DEFINE Y == Append(X, c)
    <3>2. g[i] = [<<X>> EXCEPT ![1] = Y]
      BY <3>1
    <3> HIDE DEF Y
    <3>3. [<<X>> EXCEPT ![1] = Y] = <<Y>>
      OBVIOUS
    <3> QED BY <3>2, <3>3 DEF Y
  <2> QED BY <2>1, <2>3, <2>4, <2>7, <2>9 DEF c
<1> HIDE DEF S
<1>7. 1 .. n \subseteq S
  <2>1. \A i \in 1 + 1 .. n : i - 1 \in S => i \in S
    BY <1>6
  <2> QED BY <1>2, <1>5, <2>1, Climb
<1>8. g[n] = <<SubSeq(cs, 1, n)>> /\ SubSeq(cs, 1, n) = cs
  <2>1. n \in S
    BY <1>2, <1>7
  <2> QED BY <2>1 DEF S, n
<1>9. \A i \in 1 .. n : i > 1 => IsPrefix(cs[i - 1].prompt, cs[i].prompt)
  BY <1>7 DEF S
<1> QED BY <1>1, <1>2, <1>8, <1>9 DEF n

-----------------------------------------------------------------------------
(* Completions and streams of tokens T, logprobs V, messages G and other   *)
(* data D.                                                                 *)

Completions(T, V, G, D) ==
  [prompt : Seq(T), response : Seq(T), logprobs : Seq(V) \cup {Missing}, finish : D,
   choices : Int, shape : D, cut : BOOLEAN, tools : D, policy : D,
   messages : Seq(G), reply : G, meta : D]

Streams(T, V, G, D) ==
  [ids : Seq(T), mask : Seq({0, 1}), slots : Seq(V \cup {Missing}), messages : Seq(G),
   last : Completions(T, V, G, D), kept : Nat, broken : BOOLEAN]

(* What is left of a sequence after its first n members.                   *)
LEMMA RestOf ==
  ASSUME NEW T, NEW s \in Seq(T), NEW n \in Nat
  PROVE  /\ Rest(s, n) \in Seq(T)
         /\ Len(Rest(s, n)) = IF n <= Len(s) THEN Len(s) - n ELSE 0
         /\ \A i \in 1 .. Len(Rest(s, n)) : Rest(s, n)[i] = s[n + i]
<1> DEFINE m == Len(s)
<1>1. m \in Nat /\ DOMAIN s = 1 .. m /\ \A i \in n + 1 .. m : s[i] \in T
  OBVIOUS
<1>2. SubSeq(s, n + 1, m) \in Seq(T)
  BY <1>1
<1>3. Len(SubSeq(s, n + 1, m)) = IF n <= m THEN m - n ELSE 0
  BY <1>1
<1>4. \A i \in 1 .. Len(SubSeq(s, n + 1, m)) : SubSeq(s, n + 1, m)[i] = s[n + i]
  BY <1>1, <1>3
<1> QED BY <1>2, <1>3, <1>4 DEF Rest

(* What is kept of a prompt's tail is what follows its first end of turn,  *)
(* that one included when the reply had not brought its own.               *)
Follows(between, tail, before, eot) ==
  \E e \in 1 .. Len(tail) :
    /\ tail[e] = eot /\ \A f \in 1 .. e - 1 : tail[f] # eot
    /\ between = Rest(tail, IF Closed(before, eot) THEN e ELSE e - 1)

(* The slice between two replies is the tail after the end of turn, if it  *)
(* is any.                                                                 *)
LEMMA SliceOf ==
  ASSUME NEW T, NEW tail \in Seq(T), NEW before, NEW eot,
         SliceInterstitial(tail, before, eot) # Missing
  PROVE  /\ SliceInterstitial(tail, before, eot) \in Seq(T)
         /\ Follows(SliceInterstitial(tail, before, eot), tail, before, eot)
<1> DEFINE I == {i \in 1 .. Len(tail) : tail[i] = eot}
           e == Min(I)
           d == IF Closed(before, eot) THEN e ELSE e - 1
<1>1. eot # Missing /\ Contains(tail, eot)
  BY DEF SliceInterstitial
<1>2. I # {} /\ I \in SUBSET Nat
  BY <1>1 DEF Contains
<1>3. \E m \in I : \A j \in I : m <= j
  <2> HIDE DEF I
  <2> QED BY <1>2, LeastOf
<1>4. e \in I /\ \A j \in I : e <= j
  BY <1>3 DEF Min
<1>5. SelectInSeq(tail, LAMBDA token : token = eot) = e
  BY <1>2 DEF SelectInSeq
<1>6. SliceInterstitial(tail, before, eot) = Rest(tail, d)
  BY <1>1, <1>5 DEF SliceInterstitial
<1> HIDE DEF e
<1>7. e \in 1 .. Len(tail) /\ tail[e] = eot
  BY <1>4
<1>8. \A f \in 1 .. e - 1 : tail[f] # eot
  <2> SUFFICES ASSUME NEW f \in 1 .. e - 1, tail[f] = eot PROVE FALSE
    OBVIOUS
  <2>1. f \in I /\ ~(e <= f)
    BY <1>7
  <2> QED BY <1>4, <2>1
<1>9. d \in Nat
  BY <1>7
<1>10. Rest(tail, d) \in Seq(T)
  <2> HIDE DEF d
  <2> QED BY <1>9, RestOf
<1> QED BY <1>6, <1>7, <1>8, <1>10 DEF Follows

(* One value as often as a sequence is long.                               *)
LEMMA SameOf ==
  ASSUME NEW T, NEW s \in Seq(T), NEW V, NEW v \in V
  PROVE  /\ Same(v, s) \in Seq(V) /\ Len(Same(v, s)) = Len(s)
         /\ \A i \in 1 .. Len(s) : Same(v, s)[i] = v
  BY DEF Same

(* One slot for every token sampled.                                       *)
Slotted(V, c) ==
  /\ Slots(c) \in Seq(V \cup {Missing}) /\ Len(Slots(c)) = Len(c.response)
  /\ \A j \in 1 .. Len(c.response) : Slots(c)[j] # Missing =>
       c.logprobs # Missing /\ Slots(c)[j] = c.logprobs[j]

(* A completion has a slot for every token of its reply; a slot that is    *)
(* filled holds the logprob of that token.                                 *)
LEMMA SlotsOf ==
  ASSUME NEW T, NEW V, NEW G, NEW D, NEW c \in Completions(T, V, G, D)
  PROVE  Slotted(V, c)
<1> DEFINE W == V \cup {Missing}
           r == c.response
           none == c.logprobs = Missing
           slot == [j \in 1 .. Len(r) |->
                      IF none \/ j > Len(c.logprobs) THEN Missing ELSE c.logprobs[j]]
<1>1. r \in Seq(T) /\ c.logprobs \in Seq(V) \cup {Missing}
  BY DEF Completions
<1>2. Len(r) \in Nat /\ DOMAIN r = 1 .. Len(r)
  BY <1>1
<1>3. Slots(c) = slot
  BY <1>2 DEF Slots
<1>4. ASSUME NEW j \in 1 .. Len(r)
      PROVE  slot[j] \in W
  <2>1. CASE none \/ j > Len(c.logprobs)
    BY <2>1
  <2>2. CASE ~(none \/ j > Len(c.logprobs))
    <3> DEFINE l == c.logprobs
    <3>1. l \in Seq(V) /\ ~(j > Len(l))
      BY <1>1, <2>2
    <3> HIDE DEF l, r
    <3>2. j \in 1 .. Len(l)
      BY <1>2, <3>1
    <3>3. l[j] \in V
      BY <3>1, <3>2
    <3> QED BY <2>2, <3>3 DEF l
  <2> QED BY <2>1, <2>2
<1>5. slot \in Seq(W) /\ Len(slot) = Len(r)
  <2> HIDE DEF r, W
  <2> QED BY <1>2, <1>4
<1> QED BY <1>2, <1>3, <1>5 DEF Slotted

-----------------------------------------------------------------------------
(* Merging.                                                                *)

(* A chain begins with a stream.                                           *)
LEMMA BegunOf ==
  ASSUME NEW T, NEW V, NEW G, NEW D, NEW c \in Completions(T, V, G, D)
  PROVE  Begun(c) \in Streams(T, V, G, D)
<1> DEFINE W == V \cup {Missing}
           r == c.response
<1>1. r \in Seq(T) /\ c.messages \in Seq(G) /\ c.reply \in G
  BY DEF Completions
<1>2. Slots(c) \in Seq(W)
  BY SlotsOf DEF Slotted
<1>3. Same(1, r) \in Seq({0, 1})
  <2>1. 1 \in {0, 1}
    OBVIOUS
  <2> QED BY <1>1, <2>1, SameOf
<1>4. c.messages \o <<c.reply>> \in Seq(G)
  BY <1>1
<1> QED BY <1>1, <1>2, <1>3, <1>4 DEF Begun, Streams

Merged(T, st, c, eot, next) ==
  /\ ~st.broken /\ next.last = c
  /\ \E between \in Seq(T) :
       /\ Follows(between, Rest(c.prompt, Len(st.last.prompt)), st.last.response, eot)
       /\ next.ids = st.ids \o between \o c.response
       /\ next.mask = st.mask \o Same(0, between) \o Same(1, c.response)
       /\ next.slots = st.slots \o Same(Missing, between) \o Slots(c)

(* Merging stays among streams, a broken one stays broken, an unbroken one *)
(* grew as Merged says.                                                    *)
LEMMA MergeOf ==
  ASSUME NEW T, NEW V, NEW G, NEW D, NEW st \in Streams(T, V, G, D),
         NEW c \in Completions(T, V, G, D), NEW eot
  PROVE  /\ Merge(st, c, eot) \in Streams(T, V, G, D)
         /\ st.broken => Merge(st, c, eot).broken
         /\ ~Merge(st, c, eot).broken => Merged(T, st, c, eot, Merge(st, c, eot))
<1> DEFINE W       == V \cup {Missing}
           C       == Completions(T, V, G, D)
           tail    == Rest(c.prompt, Len(st.last.prompt))
           between == SliceInterstitial(tail, st.last.response, eot)
           next    == [ids   |-> st.ids \o between \o c.response,
                       mask  |-> st.mask \o Same(0, between) \o Same(1, c.response),
                       slots |-> st.slots \o Same(Missing, between) \o Slots(c),
                       messages |-> st.messages \o NewMessages(c, Len(st.messages)) \o <<c.reply>>,
                       last |-> c, kept |-> st.kept + 1, broken |-> FALSE]
<1>1. /\ st.ids \in Seq(T) /\ st.mask \in Seq({0, 1}) /\ st.slots \in Seq(W)
      /\ st.messages \in Seq(G) /\ st.last \in C /\ st.kept \in Nat /\ st.broken \in BOOLEAN
  BY DEF Streams
<1>2. c.prompt \in Seq(T) /\ c.response \in Seq(T) /\ c.messages \in Seq(G) /\ c.reply \in G
      /\ st.last.prompt \in Seq(T)
  BY <1>1 DEF Completions
<1>3. tail \in Seq(T)
  <2>1. Len(st.last.prompt) \in Nat
    BY <1>2
  <2> QED BY <1>2, <2>1, RestOf
<1>4. Merge(st, c, eot) = IF st.broken \/ between = Missing THEN [st EXCEPT !.broken = TRUE]
                                                            ELSE next
  BY DEF Merge
<1>5. CASE st.broken \/ between = Missing
  <2>1. Merge(st, c, eot) = [st EXCEPT !.broken = TRUE]
    BY <1>4, <1>5
  <2>2. Merge(st, c, eot) \in Streams(T, V, G, D) /\ Merge(st, c, eot).broken = TRUE
    BY <2>1 DEF Streams
  <2> QED BY <2>2
<1>6. CASE ~(st.broken \/ between = Missing)
  <2> HIDE DEF tail
  <2>1. between \in Seq(T) /\ Follows(between, tail, st.last.response, eot)
    BY <1>3, <1>6, SliceOf
  <2> HIDE DEF between
  <2>2. /\ Same(0, between) \in Seq({0, 1}) /\ Same(1, c.response) \in Seq({0, 1})
        /\ Same(Missing, between) \in Seq(W)
    <3>1. 0 \in {0, 1} /\ 1 \in {0, 1} /\ Missing \in W
      OBVIOUS
    <3> HIDE DEF W
    <3> QED BY <1>2, <2>1, <3>1, SameOf
  <2>3. Slots(c) \in Seq(W)
    BY SlotsOf DEF Slotted
  <2>4. NewMessages(c, Len(st.messages)) \in Seq(G)
    <3>1. Len(st.messages) \in Nat
      BY <1>1
    <3>2. Rest(c.messages, Len(st.messages)) \in Seq(G)
      BY <1>2, <3>1, RestOf
    <3> QED BY <3>2 DEF NewMessages
  <2> HIDE DEF W, C
  <2>5. /\ st.ids \o between \o c.response \in Seq(T)
        /\ st.mask \o Same(0, between) \o Same(1, c.response) \in Seq({0, 1})
        /\ st.slots \o Same(Missing, between) \o Slots(c) \in Seq(W)
        /\ st.messages \o NewMessages(c, Len(st.messages)) \o <<c.reply>> \in Seq(G)
        /\ st.kept + 1 \in Nat
    BY <1>1, <1>2, <2>1, <2>2, <2>3, <2>4
  <2>6. Merge(st, c, eot) = next
    BY <1>4, <1>6
  <2>7. next \in Streams(T, V, G, D)
    BY <2>5 DEF Streams, W
  <2>8. /\ next.last = c /\ next.broken = FALSE
        /\ next.ids = st.ids \o between \o c.response
        /\ next.mask = st.mask \o Same(0, between) \o Same(1, c.response)
        /\ next.slots = st.slots \o Same(Missing, between) \o Slots(c)
    OBVIOUS
  <2> HIDE DEF next
  <2> QED BY <1>6, <2>1, <2>6, <2>7, <2>8 DEF tail, Merged
<1> QED BY <1>5, <1>6

-----------------------------------------------------------------------------
(* A chain is merged completion by completion.                             *)

Finished(chain, stream) ==
  [prompt |-> chain[1].prompt, response |-> stream.ids, mask |-> stream.mask,
   logprobs |-> FinalizeLogprobs(stream.slots, stream.mask),
   finish |-> stream.last.finish, opening |-> chain[1].messages,
   messages |-> stream.messages,
   tools |-> chain[1].tools, meta |-> chain[1].meta, kept |-> stream.kept,
   truncated |-> stream.broken]

MergedInTurn(S, cs, conf) ==
  \E st \in [0 .. Len(cs) - 1 -> S] :
    /\ st[0] = Begun(cs[1])
    /\ \A i \in 1 .. Len(cs) - 1 : st[i] = Merge(st[i - 1], cs[i + 1], conf.eot)
    /\ FinalizeChain(cs, conf) = Finished(cs, st[Len(cs) - 1])

(* The fold of the merge, as a run of streams, one for each completion of  *)
(* the chain.                                                              *)
LEMMA MergeRun ==
  ASSUME NEW T, NEW V, NEW G, NEW D, NEW cs \in Seq(Completions(T, V, G, D)), Len(cs) > 0,
         NEW conf
  PROVE  MergedInTurn(Streams(T, V, G, D), cs, conf)
<1> DEFINE C == Completions(T, V, G, D)
           S == Streams(T, V, G, D)
           rest == Tail(cs)
           n == Len(rest)
           P == DOMAIN rest
           base == Begun(cs[1])
           step == [p \in S \X (1 .. n) |-> Merge(p[1], rest[p[2]], conf.eot)]
           E(it, s) ==
             IF s = {} THEN base
             ELSE CHOOSE r \in {Merge(v, rest[Max(s)], conf.eot) : v \in {it[s \ {Max(s)}]}} : TRUE
           Fits(it) == it = [s \in SUBSET P |-> E(it, s)]
           iter == CHOOSE it : Fits(it)
           g == [i \in 0 .. n |-> iter[1 .. i]]
<1>1. /\ n \in Nat /\ n = Len(cs) - 1 /\ P = 1 .. n
      /\ \A i \in 1 .. n : rest[i] = cs[i + 1] /\ rest[i] \in C
      /\ cs[1] \in C
  <2> HIDE DEF C
  <2>1. cs \in Seq(C)
    BY DEF C
  <2>2. rest \in Seq(C) /\ n = Len(cs) - 1 /\ P = 1 .. n /\ n \in Nat
    BY <2>1
  <2>3. \A i \in 1 .. n : rest[i] = cs[i + 1] /\ i + 1 \in 1 .. Len(cs) /\ rest[i] \in C
    BY <2>1, <2>2
  <2>4. 1 \in 1 .. Len(cs) /\ cs[1] \in C
    BY <2>1
  <2> QED BY <2>2, <2>3, <2>4
<1>2. FinalizeChain(cs, conf) = CHOOSE r \in {Finished(cs, v) : v \in {iter[P]}} : TRUE
  BY DEF FinalizeChain, FoldLeft, MapThenFoldSet, With, Finished
<1>14. FinalizeChain(cs, conf) = Finished(cs, iter[P])
  <2> HIDE DEF iter
  <2> QED BY <1>2
<1> HIDE DEF S, n, base, rest, C
<1>3. step \in [S \X (1 .. n) -> S]
  <2> SUFFICES ASSUME NEW p \in S \X (1 .. n) PROVE Merge(p[1], rest[p[2]], conf.eot) \in S
    OBVIOUS
  <2>1. p[1] \in S /\ p[2] \in 1 .. n
    OBVIOUS
  <2> DEFINE c == rest[p[2]]
             u == p[1]
  <2>2. u \in Streams(T, V, G, D) /\ c \in Completions(T, V, G, D)
    BY <1>1, <2>1 DEF S, C
  <2> HIDE DEF c, u
  <2>3. Merge(u, c, conf.eot) \in Streams(T, V, G, D)
    BY <2>2, MergeOf
  <2> QED BY <2>3 DEF S, c, u
<1>4. base \in S
  <2> DEFINE c == cs[1]
  <2>1. c \in Completions(T, V, G, D)
    BY <1>1 DEF C
  <2> HIDE DEF c
  <2>2. Begun(c) \in Streams(T, V, G, D)
    BY <2>1, BegunOf
  <2> QED BY <2>2 DEF base, S, c
<1>5. PICK h : Folds(h, SUBSET (1 .. n), S, base, step)
  <2> HIDE DEF step
  <2> QED BY <1>1, <1>3, <1>4, FoldExists
<1>6. ASSUME NEW s \in SUBSET (1 .. n), s # {}
      PROVE  Max(s) \in 1 .. n /\ s \ {Max(s)} \in SUBSET (1 .. n)
  <2>1. s \in SUBSET Int /\ IsFiniteSet(s)
    BY <1>1, RankOK
  <2>2. Max(s) \in s
    BY <1>6, <2>1, MaxOf
  <2> QED BY <2>2
<1>7. Fits(h)
  <2>1. h = [s \in SUBSET (1 .. n) |-> h[s]] /\ \A s \in SUBSET (1 .. n) : h[s] \in S
    BY <1>5 DEF Folds
  <2>2. ASSUME NEW s \in SUBSET (1 .. n)
        PROVE  h[s] = E(h, s)
    <3>1. CASE s = {}
      BY <1>5, <3>1 DEF Folds
    <3>2. CASE s # {}
      <4>1. h[s] = step[<<h[s \ {Max(s)}], Max(s)>>]
        BY <1>5, <3>2 DEF Folds
      <4>2. h[s \ {Max(s)}] \in S /\ Max(s) \in 1 .. n
        BY <1>6, <2>1, <3>2
      <4>3. h[s] = Merge(h[s \ {Max(s)}], rest[Max(s)], conf.eot)
        BY <4>1, <4>2
      <4> QED BY <3>2, <4>3
    <3> QED BY <3>1, <3>2
  <2> HIDE DEF E
  <2>3. h = [s \in SUBSET (1 .. n) |-> E(h, s)]
    BY <2>1, <2>2
  <2> QED BY <1>1, <2>3
<1>8. Fits(iter)
  <2> HIDE DEF Fits
  <2> QED BY <1>7
<1>13. \A s \in SUBSET P : iter[s] = E(iter, s)
  <2> HIDE DEF E
  <2>1. iter = [s \in SUBSET P |-> E(iter, s)]
    BY <1>8
  <2> HIDE DEF iter
  <2> QED BY <2>1
<1> HIDE DEF iter
<1>9. g[0] = base
  <2>1. 1 .. 0 = {} /\ {} \in SUBSET P /\ g[0] = iter[1 .. 0]
    BY <1>1
  <2> QED BY <1>13, <2>1
<1>10. ASSUME NEW i \in 1 .. n
       PROVE  g[i] = Merge(g[i - 1], rest[i], conf.eot)
  <2>1. i \in Nat /\ i > 0 /\ i \in 0 .. n /\ i - 1 \in 0 .. n /\ 1 .. i \in SUBSET P
    BY <1>1
  <2>2. Max(1 .. i) = i /\ (1 .. i) \ {i} = 1 .. i - 1 /\ 1 .. i # {}
    BY <2>1, UpTo
  <2> DEFINE s == 1 .. i
  <2>3. iter[s] = CHOOSE r \in {Merge(v, rest[Max(s)], conf.eot) : v \in {iter[s \ {Max(s)}]}} : TRUE
    BY <1>13, <2>1, <2>2
  <2>4. iter[s] = Merge(iter[s \ {Max(s)}], rest[Max(s)], conf.eot)
    BY <2>3
  <2> QED BY <2>1, <2>2, <2>4
<1> HIDE DEF g
<1>11. \A i \in 0 .. n : g[i] \in S
  <2> DEFINE R == {i \in 0 .. n : g[i] \in S}
  <2>1. 0 \in R
    BY <1>1, <1>4, <1>9
  <2>2. \A i \in 0 + 1 .. n : i - 1 \in R => i \in R
    <3> SUFFICES ASSUME NEW i \in 1 .. n, i - 1 \in R PROVE i \in R
      OBVIOUS
    <3>1. g[i - 1] \in S /\ g[i] = Merge(g[i - 1], rest[i], conf.eot) /\ i \in 0 .. n
      BY <1>1, <1>10
    <3> DEFINE c == rest[i]
    <3>2. c \in Completions(T, V, G, D)
      BY <1>1 DEF C
    <3> HIDE DEF c
    <3>3. Merge(g[i - 1], c, conf.eot) \in Streams(T, V, G, D)
      BY <3>1, <3>2, MergeOf DEF S
    <3> QED BY <3>1, <3>3 DEF S, c
  <2> HIDE DEF R
  <2>3. 0 .. n \subseteq R
    BY <1>1, <2>1, <2>2, Climb
  <2> QED BY <2>3 DEF R
<1>12. g \in [0 .. n -> S] /\ g[n] = iter[P]
  BY <1>1, <1>11 DEF g
<1>15. /\ g \in [0 .. Len(cs) - 1 -> Streams(T, V, G, D)]
       /\ g[0] = Begun(cs[1])
       /\ FinalizeChain(cs, conf) = Finished(cs, g[Len(cs) - 1])
  BY <1>1, <1>9, <1>12, <1>14 DEF S, base
<1>16. \A i \in 1 .. Len(cs) - 1 : g[i] = Merge(g[i - 1], cs[i + 1], conf.eot)
  BY <1>1, <1>10
<1> QED BY <1>15, <1>16 DEF MergedInTurn

-----------------------------------------------------------------------------
(* Where the bodies of a chain stand in its stream.                        *)

(* Where the members of three joined sequences stand.                      *)
LEMMA ThreeParts ==
  ASSUME NEW T, NEW s \in Seq(T), NEW b \in Seq(T), NEW r \in Seq(T)
  PROVE  LET all == s \o b \o r
         IN  /\ all \in Seq(T)
             /\ Len(all) = Len(s) + Len(b) + Len(r)
             /\ \A x \in 1 .. Len(s) : all[x] = s[x]
             /\ \A x \in 1 .. Len(b) : all[Len(s) + x] = b[x]
             /\ \A x \in 1 .. Len(r) : all[Len(s) + Len(b) + x] = r[x]
  OBVIOUS

(* The body of a completion stands after a place of a stream, every token  *)
(* of it trained, with the logprob it came with.                           *)
Body(ids, mask, slots, c, at) ==
  /\ at + Len(c.response) <= Len(ids)
  /\ \A j \in 1 .. Len(c.response) :
       ids[at + j] = c.response[j] /\ mask[at + j] = 1 /\ slots[at + j] = Slots(c)[j]

(* From one place to another a stream holds untrained what follows a body. *)
Gap(ids, mask, between, from, to) ==
  /\ to = from + Len(between) /\ to <= Len(ids)
  /\ \A j \in 1 .. Len(between) : ids[from + j] = between[j] /\ mask[from + j] = 0

(* The first n completions one after the other.                            *)
Laid(T, ids, mask, slots, cs, n, eot) ==
  \E at \in [1 .. n -> Nat] :
    /\ at[1] = 0 /\ Len(ids) = at[n] + Len(cs[n].response)
    /\ \A k \in 1 .. n : Body(ids, mask, slots, cs[k], at[k])
    /\ \A k \in 2 .. n : \E between \in Seq(T) :
         /\ Gap(ids, mask, between, at[k - 1] + Len(cs[k - 1].response), at[k])
         /\ Follows(between, Rest(cs[k].prompt, Len(cs[k - 1].prompt)),
                    cs[k - 1].response, eot)

Evenly(st) == Len(st.mask) = Len(st.ids) /\ Len(st.slots) = Len(st.ids)

(* The stream of one completion is laid out as its prompt and its reply.   *)
LEMMA BegunLaid ==
  ASSUME NEW T, NEW V, NEW G, NEW D, NEW cs, NEW eot,
         cs[1] \in Completions(T, V, G, D)
  PROVE  LET st == Begun(cs[1])
         IN  Evenly(st) /\ Laid(T, st.ids, st.mask, st.slots, cs, 1, eot)
<1> DEFINE c  == cs[1]
           r  == c.response
           st == Begun(c)
           at == [k \in 1 .. 1 |-> 0]
<1>1. r \in Seq(T) /\ Len(r) \in Nat
  BY DEF Completions
<1>2. st.ids = r /\ st.mask = Same(1, r) /\ st.slots = Slots(c)
  BY DEF Begun
<1>3. Len(Slots(c)) = Len(r)
  <2>1. c \in Completions(T, V, G, D)
    OBVIOUS
  <2> HIDE DEF c
  <2>2. Slotted(V, c)
    BY <2>1, SlotsOf
  <2> QED BY <2>2 DEF Slotted
<1>4. Len(Same(1, r)) = Len(r) /\ \A i \in 1 .. Len(r) : Same(1, r)[i] = 1
  <2> HIDE DEF r
  <2>1. 1 \in {1}
    OBVIOUS
  <2> QED BY <1>1, <2>1, SameOf
<1>5. at \in [1 .. 1 -> Nat] /\ at[1] = 0
  OBVIOUS
<1> HIDE DEF st, at
<1>6. Evenly(st)
  BY <1>2, <1>3, <1>4 DEF Evenly
<1>7. Len(st.ids) = at[1] + Len(cs[1].response)
  BY <1>1, <1>2, <1>5
<1>8. Body(st.ids, st.mask, st.slots, cs[1], at[1])
  BY <1>1, <1>2, <1>4, <1>5 DEF Body
<1>9. \A k \in 1 .. 1 : k = 1
  OBVIOUS
<1>10. \A k \in 2 .. 1 : FALSE
  OBVIOUS
<1>11. Laid(T, st.ids, st.mask, st.slots, cs, 1, eot)
  BY <1>5, <1>7, <1>8, <1>9, <1>10 DEF Laid
<1> QED BY <1>6, <1>11 DEF st

(* One merge that is not broken keeps the layout, with one reply more.     *)
LEMMA MergedLaid ==
  ASSUME NEW T, NEW V, NEW G, NEW D, NEW st \in Streams(T, V, G, D), NEW eot,
         NEW cs, NEW n \in Nat \ {0}, st.last = cs[n], Evenly(st),
         \A k \in 1 .. n + 1 : cs[k] \in Completions(T, V, G, D),
         Laid(T, st.ids, st.mask, st.slots, cs, n, eot),
         NEW next, next = Merge(st, cs[n + 1], eot), ~next.broken
  PROVE  Evenly(next) /\ Laid(T, next.ids, next.mask, next.slots, cs, n + 1, eot)
<1> DEFINE c == cs[n + 1]
           r == c.response
           W == V \cup {Missing}
<1>1. /\ st.ids \in Seq(T) /\ st.mask \in Seq({0, 1}) /\ st.slots \in Seq(W)
  BY DEF Streams
<1>2. r \in Seq(T) /\ Len(r) \in Nat /\ c \in Completions(T, V, G, D)
      /\ \A k \in 1 .. n : Len(cs[k].response) \in Nat
  BY DEF Completions
<1>3. PICK between \in Seq(T) :
        /\ Follows(between, Rest(c.prompt, Len(st.last.prompt)), st.last.response, eot)
        /\ next.ids = st.ids \o between \o r
        /\ next.mask = st.mask \o Same(0, between) \o Same(1, r)
        /\ next.slots = st.slots \o Same(Missing, between) \o Slots(c)
  <2>1. next = Merge(st, c, eot)
    OBVIOUS
  <2> HIDE DEF c
  <2>2. Merged(T, st, c, eot, next)
    BY <1>2, <2>1, MergeOf
  <2> QED BY <2>2 DEF Merged
<1>4. /\ Slots(c) \in Seq(W) /\ Len(Slots(c)) = Len(r)
  <2> HIDE DEF c
  <2>1. Slotted(V, c)
    BY <1>2, SlotsOf
  <2> QED BY <2>1 DEF Slotted
<1>5. /\ Same(1, r) \in Seq({0, 1}) /\ Len(Same(1, r)) = Len(r)
      /\ \A i \in 1 .. Len(r) : Same(1, r)[i] = 1
      /\ Same(0, between) \in Seq({0, 1}) /\ Len(Same(0, between)) = Len(between)
      /\ \A i \in 1 .. Len(between) : Same(0, between)[i] = 0
      /\ Same(Missing, between) \in Seq(W) /\ Len(Same(Missing, between)) = Len(between)
  <2>1. 1 \in {0, 1} /\ 0 \in {0, 1} /\ Missing \in W
    OBVIOUS
  <2> HIDE DEF r, W
  <2> QED BY <1>2, <2>1, SameOf
<1> HIDE DEF r, c, W
<1> DEFINE l == Len(st.ids)
           b == Len(between)
<1>6. l \in Nat /\ b \in Nat /\ Len(st.mask) = l /\ Len(st.slots) = l
  BY <1>1 DEF Evenly
<1> HIDE DEF l
<1>7. /\ Len(next.ids) = l + b + Len(r)
      /\ \A x \in 1 .. l : next.ids[x] = st.ids[x]
      /\ \A x \in 1 .. b : next.ids[l + x] = between[x]
      /\ \A x \in 1 .. Len(r) : next.ids[l + b + x] = r[x]
  <2> DEFINE s == st.ids
  <2>1. s \in Seq(T) /\ next.ids = s \o between \o r /\ l = Len(s) /\ b = Len(between)
    BY <1>1, <1>3 DEF l
  <2> HIDE DEF s, b
  <2>2. /\ Len(next.ids) = Len(s) + Len(between) + Len(r)
        /\ \A x \in 1 .. Len(s) : next.ids[x] = s[x]
        /\ \A x \in 1 .. Len(between) : next.ids[Len(s) + x] = between[x]
        /\ \A x \in 1 .. Len(r) : next.ids[Len(s) + Len(between) + x] = r[x]
    BY <1>2, <2>1, ThreeParts
  <2> QED BY <2>1, <2>2 DEF s
<1>8. /\ Len(next.mask) = l + b + Len(r)
      /\ \A x \in 1 .. l : next.mask[x] = st.mask[x]
      /\ \A x \in 1 .. b : next.mask[l + x] = 0
      /\ \A x \in 1 .. Len(r) : next.mask[l + b + x] = 1
  <2> DEFINE m == st.mask
             z == Same(0, between)
             o == Same(1, r)
  <2>1. m \in Seq({0, 1}) /\ z \in Seq({0, 1}) /\ o \in Seq({0, 1}) /\ next.mask = m \o z \o o
    BY <1>1, <1>3, <1>5
  <2> HIDE DEF m, z, o
  <2>2. /\ Len(next.mask) = Len(m) + Len(z) + Len(o)
        /\ \A x \in 1 .. Len(m) : next.mask[x] = m[x]
        /\ \A x \in 1 .. Len(z) : next.mask[Len(m) + x] = z[x]
        /\ \A x \in 1 .. Len(o) : next.mask[Len(m) + Len(z) + x] = o[x]
    BY <2>1, ThreeParts
  <2> QED BY <1>5, <1>6, <2>2 DEF m, z, o
<1>9. /\ Len(next.slots) = l + b + Len(r)
      /\ \A x \in 1 .. l : next.slots[x] = st.slots[x]
      /\ \A x \in 1 .. Len(r) : next.slots[l + b + x] = Slots(c)[x]
  <2> DEFINE m == st.slots
             z == Same(Missing, between)
             o == Slots(c)
  <2>1. m \in Seq(W) /\ z \in Seq(W) /\ o \in Seq(W) /\ next.slots = m \o z \o o
    BY <1>1, <1>3, <1>4, <1>5
  <2> HIDE DEF m, z, o
  <2>2. /\ Len(next.slots) = Len(m) + Len(z) + Len(o)
        /\ \A x \in 1 .. Len(m) : next.slots[x] = m[x]
        /\ \A x \in 1 .. Len(o) : next.slots[Len(m) + Len(z) + x] = o[x]
    BY <2>1, ThreeParts
  <2> QED BY <1>4, <1>5, <1>6, <2>2 DEF m, z, o
<1>10. PICK at \in [1 .. n -> Nat] :
         /\ at[1] = 0 /\ Len(st.ids) = at[n] + Len(cs[n].response)
         /\ \A k \in 1 .. n : Body(st.ids, st.mask, st.slots, cs[k], at[k])
         /\ \A k \in 2 .. n : \E gap \in Seq(T) :
              /\ Gap(st.ids, st.mask, gap, at[k - 1] + Len(cs[k - 1].response), at[k])
              /\ Follows(gap, Rest(cs[k].prompt, Len(cs[k - 1].prompt)),
                         cs[k - 1].response, eot)
  BY DEF Laid
<1> DEFINE now == [k \in 1 .. n + 1 |-> IF k = n + 1 THEN l + b ELSE at[k]]
<1>11. /\ now \in [1 .. n + 1 -> Nat] /\ now[n + 1] = l + b
       /\ \A k \in 1 .. n : now[k] = at[k] /\ at[k] \in Nat
  <2>1. l + b \in Nat
    BY <1>6
  <2>2. \A k \in 1 .. n + 1 : k # n + 1 => k \in 1 .. n
    OBVIOUS
  <2>3. \A k \in 1 .. n : k # n + 1 /\ k \in 1 .. n + 1
    OBVIOUS
  <2> HIDE DEF b
  <2>4. now \in [1 .. n + 1 -> Nat]
    BY <2>1, <2>2
  <2> QED BY <2>3, <2>4
<1> HIDE DEF now, b
<1>12. now[1] = 0 /\ Len(next.ids) = now[n + 1] + Len(cs[n + 1].response)
  BY <1>7, <1>10, <1>11 DEF r, c
<1>13. ASSUME NEW k \in 1 .. n + 1
       PROVE  Body(next.ids, next.mask, next.slots, cs[k], now[k])
  <2>1. CASE k = n + 1
    <3>1. Body(next.ids, next.mask, next.slots, c, l + b)
      BY <1>2, <1>6, <1>7, <1>8, <1>9 DEF Body, r
    <3> QED BY <1>11, <2>1, <3>1 DEF c
  <2>2. CASE k \in 1 .. n
    <3> DEFINE a == at[k]
               w == cs[k].response
    <3>1. /\ a \in Nat /\ now[k] = a /\ Len(w) \in Nat /\ a + Len(w) <= l
          /\ \A j \in 1 .. Len(w) :
               st.ids[a + j] = w[j] /\ st.mask[a + j] = 1 /\ st.slots[a + j] = Slots(cs[k])[j]
      BY <1>2, <1>10, <1>11, <2>2 DEF Body, l
    <3> HIDE DEF a, w
    <3>2. \A j \in 1 .. Len(w) : a + j \in 1 .. l
      BY <1>6, <3>1
    <3>3. a + Len(w) <= Len(next.ids)
      BY <1>2, <1>6, <1>7, <3>1
    <3>4. \A j \in 1 .. Len(w) :
            next.ids[a + j] = w[j] /\ next.mask[a + j] = 1 /\ next.slots[a + j] = Slots(cs[k])[j]
      BY <1>7, <1>8, <1>9, <3>1, <3>2
    <3> QED BY <3>1, <3>3, <3>4 DEF Body, w
  <2> QED BY <2>1, <2>2
<1>14. ASSUME NEW k \in 2 .. n + 1
       PROVE  \E gap \in Seq(T) :
                /\ Gap(next.ids, next.mask, gap, now[k - 1] + Len(cs[k - 1].response), now[k])
                /\ Follows(gap, Rest(cs[k].prompt, Len(cs[k - 1].prompt)),
                           cs[k - 1].response, eot)
  <2>1. CASE k = n + 1
    <3>1. k - 1 = n /\ n \in 1 .. n /\ now[k - 1] + Len(cs[k - 1].response) = l /\ now[k] = l + b
      BY <1>10, <1>11, <2>1 DEF l
    <3>2. Gap(next.ids, next.mask, between, l, l + b)
      BY <1>2, <1>6, <1>7, <1>8 DEF Gap, b
    <3>3. Follows(between, Rest(cs[k].prompt, Len(cs[k - 1].prompt)), cs[k - 1].response, eot)
      BY <1>3, <2>1, <3>1 DEF c
    <3> QED BY <3>1, <3>2, <3>3
  <2>2. CASE k \in 2 .. n
    <3> DEFINE from == at[k - 1] + Len(cs[k - 1].response)
    <3>1. k - 1 \in 1 .. n /\ k \in 1 .. n
      BY <2>2
    <3>2. PICK gap \in Seq(T) :
            /\ Gap(st.ids, st.mask, gap, from, at[k])
            /\ Follows(gap, Rest(cs[k].prompt, Len(cs[k - 1].prompt)), cs[k - 1].response, eot)
      BY <1>10, <2>2
    <3>3. from \in Nat /\ now[k - 1] + Len(cs[k - 1].response) = from /\ now[k] = at[k]
          /\ at[k] \in Nat /\ Len(gap) \in Nat
      BY <1>2, <1>11, <3>1
    <3> HIDE DEF from
    <3>4. /\ at[k] = from + Len(gap) /\ at[k] <= l
          /\ \A j \in 1 .. Len(gap) : st.ids[from + j] = gap[j] /\ st.mask[from + j] = 0
      BY <3>2 DEF Gap, l
    <3>5. \A j \in 1 .. Len(gap) : from + j \in 1 .. l
      BY <1>6, <3>3, <3>4
    <3>6. at[k] <= Len(next.ids)
      BY <1>2, <1>6, <1>7, <3>3, <3>4
    <3>7. Gap(next.ids, next.mask, gap, from, at[k])
      BY <1>7, <1>8, <3>4, <3>5, <3>6 DEF Gap
    <3> QED BY <3>2, <3>3, <3>7
  <2> QED BY <2>1, <2>2
<1>15. Laid(T, next.ids, next.mask, next.slots, cs, n + 1, eot)
  <2>1. \A k \in 1 .. n + 1 : Body(next.ids, next.mask, next.slots, cs[k], now[k])
    BY <1>13
  <2> QED BY <1>11, <1>12, <1>14, <2>1 DEF Laid
<1>16. Evenly(next)
  BY <1>7, <1>8, <1>9 DEF Evenly
<1> QED BY <1>15, <1>16

-----------------------------------------------------------------------------
(* A stream of a whole chain.                                              *)
LEMMA ChainLaid ==
  ASSUME NEW T, NEW V, NEW G, NEW D, NEW cs \in Seq(Completions(T, V, G, D)), Len(cs) > 0,
         NEW conf, ~FinalizeChain(cs, conf).truncated
  PROVE  \E st \in Streams(T, V, G, D) :
           /\ FinalizeChain(cs, conf) = Finished(cs, st) /\ Evenly(st)
           /\ Laid(T, st.ids, st.mask, st.slots, cs, Len(cs), conf.eot)
<1> DEFINE C == Completions(T, V, G, D)
           S == Streams(T, V, G, D)
           n == Len(cs)
<1>1. PICK st \in [0 .. n - 1 -> S] :
        /\ st[0] = Begun(cs[1])
        /\ \A i \in 1 .. n - 1 : st[i] = Merge(st[i - 1], cs[i + 1], conf.eot)
        /\ FinalizeChain(cs, conf) = Finished(cs, st[n - 1])
  <2>1. MergedInTurn(Streams(T, V, G, D), cs, conf)
    BY MergeRun
  <2> QED BY <2>1 DEF MergedInTurn
<1>2. n \in Nat /\ n > 0 /\ \A i \in 1 .. n : cs[i] \in C
  <2> HIDE DEF C
  <2>1. cs \in Seq(C)
    BY DEF C
  <2> QED BY <2>1
<1> HIDE DEF n, S, C
<1>3. \A i \in 0 .. n - 1 : st[i] \in S /\ st[i].broken \in BOOLEAN
  BY <1>1 DEF S, Streams
<1>4. \A i \in 0 .. n - 1 : ~st[i].broken
  <2> DEFINE f == [i \in 0 .. n - 1 |-> IF st[i].broken THEN 1 ELSE 0]
  <2>1. \A i \in 0 .. n - 1 : f[i] \in Int /\ f[i] \in {0, 1} /\ (f[i] = 1 <=> st[i].broken)
    OBVIOUS
  <2> HIDE DEF f
  <2>2. ASSUME NEW i \in 1 .. n - 1 PROVE f[i - 1] <= f[i]
    <3> DEFINE u == st[i - 1]
               c == cs[i + 1]
    <3>1. i - 1 \in 0 .. n - 1 /\ i \in 0 .. n - 1 /\ i + 1 \in 1 .. n
      BY <1>2
    <3>2. u \in Streams(T, V, G, D) /\ c \in Completions(T, V, G, D)
          /\ st[i] = Merge(u, c, conf.eot)
      BY <1>1, <1>2, <1>3, <3>1 DEF S, C
    <3> HIDE DEF u, c
    <3>3. u.broken => Merge(u, c, conf.eot).broken
      BY <3>2, MergeOf
    <3>4. st[i - 1].broken => st[i].broken
      BY <3>2, <3>3 DEF u
    <3> QED BY <2>1, <3>1, <3>4
  <2>3. n - 1 \in Nat
    BY <1>2
  <2>4. \A i, j \in 0 .. n - 1 : i <= j => f[i] <= f[j]
    BY <2>1, <2>2, <2>3, NeverFalls
  <2>5. ~st[n - 1].broken /\ n - 1 \in 0 .. n - 1 /\ \A i \in 0 .. n - 1 : i <= n - 1
    BY <1>1, <2>3 DEF Finished
  <2>6. f[n - 1] = 0
    BY <2>1, <2>5
  <2> QED BY <2>1, <2>4, <2>5, <2>6
<1> DEFINE Fine(u, i) == Evenly(u) /\ u.last = cs[i]
                          /\ Laid(T, u.ids, u.mask, u.slots, cs, i, conf.eot)
           R == {i \in 1 .. n : Fine(st[i - 1], i)}
<1>5. 1 \in R
  <2>1. cs[1] \in Completions(T, V, G, D)
    BY <1>2 DEF C
  <2> DEFINE u == Begun(cs[1])
  <2>2. Evenly(u) /\ Laid(T, u.ids, u.mask, u.slots, cs, 1, conf.eot)
    BY <2>1, BegunLaid
  <2>3. u.last = cs[1]
    BY DEF Begun
  <2> HIDE DEF u
  <2>4. st[0] = u
    BY <1>1 DEF u
  <2>5. 1 - 1 = 0 /\ 1 \in 1 .. n
    BY <1>2
  <2> QED BY <2>2, <2>3, <2>4, <2>5
<1>6. ASSUME NEW i \in 1 + 1 .. n, i - 1 \in R PROVE i \in R
  <2> DEFINE m == i - 1
             u == st[i - 2]
             next == st[i - 1]
             c == cs[i]
  <2>1. m \in Nat \ {0} /\ m \in 1 .. n /\ m \in 1 .. n - 1 /\ m + 1 = i /\ m - 1 = i - 2
        /\ m - 1 \in 0 .. n - 1 /\ m \in 0 .. n - 1 /\ i \in 1 .. n
    BY <1>2
  <2>2. Fine(u, m)
    BY <1>6, <2>1
  <2>3. u \in Streams(T, V, G, D) /\ next \in Streams(T, V, G, D) /\ ~next.broken
        /\ next = Merge(u, c, conf.eot)
    BY <1>1, <1>3, <1>4, <2>1 DEF S
  <2>4. \A k \in 1 .. m + 1 : cs[k] \in Completions(T, V, G, D)
    BY <1>2, <2>1 DEF C
  <2>5. c = cs[m + 1] /\ c \in Completions(T, V, G, D)
    BY <2>1, <2>4
  <2> HIDE DEF m, u, next, c
  <2>6. Evenly(next) /\ Laid(T, next.ids, next.mask, next.slots, cs, m + 1, conf.eot)
    BY <2>1, <2>2, <2>3, <2>4, <2>5, MergedLaid
  <2>7. Merged(T, u, c, conf.eot, next)
    BY <2>3, <2>5, MergeOf
  <2>8. next.last = cs[i]
    BY <2>1, <2>5, <2>7 DEF Merged
  <2>9. Fine(next, i)
    BY <2>1, <2>6, <2>8
  <2> HIDE DEF Fine
  <2> QED BY <2>1, <2>9 DEF next
<1>7. 1 .. n \subseteq R
  <2> HIDE DEF R
  <2> QED BY <1>2, <1>5, <1>6, Climb
<1>8. n \in 1 .. n /\ n - 1 \in 0 .. n - 1
  BY <1>2
<1>9. Fine(st[n - 1], n)
  <2> HIDE DEF Fine
  <2> QED BY <1>7, <1>8
<1> QED BY <1>1, <1>3, <1>8, <1>9 DEF S, n

(* An accepted trace has a logprob at every trained token, the one that    *)
(* was merged.                                                             *)
LEMMA LogprobsKept ==
  ASSUME NEW W, NEW slots \in Seq(W), NEW trace, trace.mask \in Seq({0, 1}),
         Len(slots) = Len(trace.mask),
         trace.logprobs = FinalizeLogprobs(slots, trace.mask),
         CheckLogprobDiscipline(trace), Trainable(trace) # {}
  PROVE  \A x \in 1 .. Len(trace.mask) : trace.mask[x] = 1 =>
           /\ slots[x] # Missing /\ trace.logprobs[x] = slots[x]
           /\ LogprobFits(slots[x], TRUE)
<1>1. trace.logprobs # Missing
  BY DEF CheckLogprobDiscipline
<1>2. DOMAIN slots = 1 .. Len(trace.mask)
  OBVIOUS
<1>3. /\ ~ \E i \in DOMAIN slots : slots[i] = Missing /\ trace.mask[i] = 1
      /\ trace.logprobs = [i \in DOMAIN slots |-> IF slots[i] = Missing THEN 0 ELSE slots[i]]
  BY <1>1 DEF FinalizeLogprobs
<1>4. \A i \in DOMAIN trace.logprobs : LogprobFits(trace.logprobs[i], i \in Trainable(trace))
  BY <1>1 DEF CheckLogprobDiscipline
<1> SUFFICES ASSUME NEW x \in 1 .. Len(trace.mask), trace.mask[x] = 1
             PROVE  /\ slots[x] # Missing /\ trace.logprobs[x] = slots[x]
                    /\ LogprobFits(slots[x], TRUE)
  OBVIOUS
<1>5. x \in DOMAIN slots /\ x \in DOMAIN trace.logprobs /\ x \in DOMAIN trace.mask
  BY <1>2, <1>3
<1>6. slots[x] # Missing /\ trace.logprobs[x] = slots[x]
  BY <1>3, <1>5
<1>7. x \in Trainable(trace)
  BY <1>5 DEF Trainable
<1>8. LogprobFits(trace.logprobs[x], x \in Trainable(trace))
  BY <1>4, <1>5
<1> QED BY <1>6, <1>7, <1>8 DEF LogprobFits

-----------------------------------------------------------------------------
(* Stitching.                                                              *)

(* The prompts that the stitch makes of a session's.                       *)
ShownTo(session, glue, shown) ==
  \A i \in DOMAIN session :
    shown[i] = IF i > 1 /\ ExtendsUnglued(session[i].prompt, session[i - 1].prompt, glue)
                 THEN shown[i - 1]
                      \o Rest(session[i].prompt, Len(session[i - 1].prompt) - Len(glue))
                 ELSE session[i].prompt

Restitched(T, session, glue) ==
  \E shown \in [DOMAIN session -> Seq(T)] :
    /\ Stitched(session, glue) =
         [i \in DOMAIN session |-> [session[i] EXCEPT !.prompt = shown[i]]]
    /\ IF glue = <<>> THEN \A i \in DOMAIN session : shown[i] = session[i].prompt
                      ELSE ShownTo(session, glue, shown)

(* A suffix is no longer than what it ends.                                *)
LEMMA SuffixLen ==
  ASSUME NEW T, NEW s \in Seq(T), NEW t \in Seq(T), IsSuffix(s, t)
  PROVE  Len(s) <= Len(t) /\ Len(t) - Len(s) \in Nat
<1>1. Len(s) \in Nat /\ Len(t) \in Nat
  OBVIOUS
<1>2. Len(Reverse(s)) = Len(s) /\ Len(Reverse(t)) = Len(t)
  BY <1>1 DEF Reverse
<1>3. Len(Reverse(s)) <= Len(Reverse(t))
  BY DEF IsSuffix, IsPrefix
<1> QED BY <1>1, <1>2, <1>3

(* The glue stitch changes prompts only, each by what the one before was   *)
(* shown as.                                                               *)
LEMMA StitchedOf ==
  ASSUME NEW T, NEW V, NEW G, NEW D, NEW session \in Seq(Completions(T, V, G, D)),
         NEW glue \in Seq(T)
  PROVE  Restitched(T, session, glue)
<1> DEFINE C == Completions(T, V, G, D)
           n == Len(session)
           old == [i \in 1 .. n |-> session[i].prompt]
           extends(i) == i > 1 /\ ExtendsUnglued(session[i].prompt, session[i - 1].prompt, glue)
           new == [i \in 1 .. n |-> IF extends(i)
                     THEN Rest(session[i].prompt, Len(session[i - 1].prompt) - Len(glue))
                     ELSE session[i].prompt]
           W == Seq(T)
           step == [p \in W \X (1 .. n) |-> IF extends(p[2]) THEN p[1] \o new[p[2]] ELSE old[p[2]]]
<1>1. /\ n \in Nat /\ DOMAIN session = 1 .. n
      /\ \A i \in 1 .. n : session[i] \in C
  <2> HIDE DEF C
  <2>1. session \in Seq(C)
    BY DEF C
  <2> QED BY <2>1
<1>2. \A i \in 1 .. n : old[i] = session[i].prompt /\ old[i] \in Seq(T)
  BY <1>1 DEF Completions
<1>3. ASSUME NEW i \in 1 .. n
      PROVE  new[i] \in Seq(T)
  <2>1. CASE extends(i)
    <3> DEFINE b == session[i - 1].prompt
               p == session[i].prompt
               d == Len(b) - Len(glue)
    <3>1. i - 1 \in 1 .. n /\ IsSuffix(glue, b)
      BY <1>1, <2>1 DEF ExtendsUnglued
    <3>2. b \in Seq(T) /\ p \in Seq(T)
      BY <1>2, <3>1
    <3> HIDE DEF b, p
    <3>3. d \in Nat
      BY <3>1, <3>2, SuffixLen
    <3> HIDE DEF d
    <3>4. Rest(p, d) \in Seq(T)
      BY <3>2, <3>3, RestOf
    <3> QED BY <2>1, <3>4 DEF p, b, d
  <2>2. CASE ~extends(i)
    BY <1>2, <2>2
  <2> QED BY <2>1, <2>2
<1>4. CASE glue = <<>>
  <2>1. Stitched(session, glue) = session
    BY <1>4 DEF Stitched
  <2>2. old \in [DOMAIN session -> Seq(T)]
    BY <1>1, <1>2
  <2>3. \A i \in 1 .. n : [session[i] EXCEPT !.prompt = old[i]] = session[i]
    BY <1>1, <1>2 DEF Completions
  <2> HIDE DEF old, C
  <2>4. session = [i \in DOMAIN session |-> session[i]]
    <3>1. session \in Seq(C)
      BY DEF C
    <3> QED BY <3>1
  <2>5. session = [i \in DOMAIN session |-> [session[i] EXCEPT !.prompt = old[i]]]
    BY <1>1, <2>3, <2>4
  <2> QED BY <1>1, <1>2, <1>4, <2>1, <2>2, <2>5 DEF Restitched
<1>5. CASE glue # <<>>
  <2> HIDE DEF old, new, extends, C, n
  <2>1. <<>> \in W
    OBVIOUS
  <2>2. step \in [W \X (1 .. n) -> W]
    <3> SUFFICES ASSUME NEW p \in W \X (1 .. n)
                 PROVE  (IF extends(p[2]) THEN p[1] \o new[p[2]] ELSE old[p[2]]) \in W
      OBVIOUS
    <3>1. p[1] \in Seq(T) /\ new[p[2]] \in Seq(T) /\ old[p[2]] \in Seq(T)
      BY <1>2, <1>3
    <3> QED BY <3>1
  <2>3. PICK g \in [0 .. n -> W] : g[0] = <<>> /\ \A i \in 1 .. n : g[i] = step[<<g[i - 1], i>>]
    <3> HIDE DEF step, W
    <3>1. Runs(n, W, <<>>, step)
      BY <1>1, <2>1, <2>2, RunExists
    <3> QED BY <3>1 DEF Runs
  <2> DEFINE h == [i \in DOMAIN session |-> g[i]]
             F(p) == [i \in DOMAIN session |->
                        IF i > 1 /\ ExtendsUnglued(session[i].prompt, session[i - 1].prompt, glue)
                          THEN p[i - 1]
                               \o Rest(session[i].prompt, Len(session[i - 1].prompt) - Len(glue))
                          ELSE session[i].prompt]
             shown == CHOOSE p : p = F(p)
  <2>4. \A i \in 1 .. n : g[i] = IF extends(i) THEN g[i - 1] \o new[i] ELSE old[i]
    <3> SUFFICES ASSUME NEW i \in 1 .. n
                 PROVE  g[i] = IF extends(i) THEN g[i - 1] \o new[i] ELSE old[i]
      OBVIOUS
    <3>1. g[i - 1] \in W
      BY <1>1
    <3> QED BY <2>3, <3>1
  <2>5. h = F(h)
    <3>1. ASSUME NEW i \in DOMAIN session
          PROVE  h[i] = F(h)[i]
      <4>1. i \in 1 .. n /\ h[i] = g[i] /\ (i > 1 => h[i - 1] = g[i - 1])
        BY <1>1
      <4>2. CASE extends(i)
        <5>1. i > 1 /\ new[i] = Rest(session[i].prompt, Len(session[i - 1].prompt) - Len(glue))
          BY <4>1, <4>2 DEF extends, new
        <5> QED BY <2>4, <4>1, <4>2, <5>1 DEF extends
      <4>3. CASE ~extends(i)
        BY <2>4, <4>1, <4>3 DEF extends, old
      <4> QED BY <4>2, <4>3
    <3> QED BY <3>1
  <2>6. shown = F(shown)
    <3> HIDE DEF F, h
    <3> QED BY <2>5
  <2>7. Stitched(session, glue) =
          [i \in DOMAIN session |-> [session[i] EXCEPT !.prompt = shown[i]]]
    BY <1>5 DEF Stitched
  <2> HIDE DEF shown
  <2>8. ShownTo(session, glue, shown)
    <3> SUFFICES ASSUME NEW i \in DOMAIN session PROVE shown[i] = F(shown)[i]
      BY DEF ShownTo
    <3> HIDE DEF F
    <3> QED BY <2>6
  <2>9. shown \in [DOMAIN session -> Seq(T)]
    <3> DEFINE R == {i \in 1 .. n : shown[i] \in Seq(T)}
    <3>1. \A i \in 1 .. n : shown[i] = IF extends(i) THEN shown[i - 1] \o new[i] ELSE old[i]
      BY <1>1, <2>8 DEF ShownTo, extends, new, old
    <3>2. n > 0 => 1 \in R
      <4>1. ~extends(1)
        BY DEF extends
      <4>2. ASSUME n > 0 PROVE 1 \in 1 .. n /\ shown[1] \in Seq(T)
        <5>1. 1 \in 1 .. n
          BY <1>1, <4>2
        <5>2. shown[1] = old[1]
          BY <3>1, <4>1, <5>1
        <5> QED BY <1>2, <5>1, <5>2
      <4> QED BY <4>2
    <3>3. ASSUME NEW i \in 1 + 1 .. n, i - 1 \in R PROVE i \in R
      <4>1. i \in 1 .. n /\ shown[i - 1] \in Seq(T) /\ new[i] \in Seq(T) /\ old[i] \in Seq(T)
        BY <1>1, <1>2, <1>3, <3>3
      <4> DEFINE a == shown[i - 1]
                 b == new[i]
      <4>2. a \in Seq(T) /\ b \in Seq(T) /\ (shown[i] = a \o b \/ shown[i] = old[i])
        BY <3>1, <4>1
      <4> HIDE DEF a, b
      <4>3. a \o b \in Seq(T)
        BY <4>2
      <4> QED BY <4>1, <4>2, <4>3
    <3>4. \A i \in 1 .. n : shown[i] \in Seq(T)
      <4>1. CASE n > 0
        <5> HIDE DEF R
        <5>1. 1 .. n \subseteq R
          BY <1>1, <3>2, <3>3, <4>1, Climb
        <5> QED BY <5>1 DEF R
      <4>2. CASE ~(n > 0)
        BY <1>1, <4>2
      <4> QED BY <4>1, <4>2
    <3>5. shown = [i \in DOMAIN session |-> shown[i]]
      BY <2>6
    <3> QED BY <1>1, <3>4, <3>5
  <2> QED BY <1>5, <2>7, <2>8, <2>9 DEF Restitched
<1> QED BY <1>4, <1>5

-----------------------------------------------------------------------------
(* From a session to its one trace.                                        *)

(* A filter that drops nothing changes nothing.                            *)
LEMMA NoneFiltered ==
  ASSUME NEW C, NEW s \in Seq(C), ~(Len(Filtered(s)) < Len(s))
  PROVE  Filtered(s) = s /\ \A i \in 1 .. Len(s) : Kept(s[i])
<1> DEFINE P == {i \in DOMAIN s : Kept(s[i])}
           n == Len(s)
<1>1. Filtered(s) = Subsequence(s, P)
  BY DEF Filtered, With
<1>2. n \in Nat /\ DOMAIN s = 1 .. n /\ n \in 0 .. n /\ s = [i \in 1 .. n |-> s[i]]
  OBVIOUS
<1>3. P \in SUBSET (DOMAIN s)
  OBVIOUS
<1> HIDE DEF P
<1>4. Len(Subsequence(s, P)) = Cardinality(P) /\ Cardinality(P) \in 0 .. Len(s)
  BY <1>3, SubsequenceOf
<1>5. Cardinality(P) = n
  BY <1>1, <1>2, <1>4
<1>6. IsFiniteSet(1 .. n) /\ Cardinality(1 .. n) = n
  <2> HIDE DEF n
  <2>1. n \in Nat /\ 1 \in Int /\ n \in Int
    BY <1>2
  <2>2. IsFiniteSet(1 .. n)
    BY <2>1, FS_Interval
  <2>3. Cardinality(1 .. n) = IF 1 > n THEN 0 ELSE n - 1 + 1
    BY <2>1, FS_Interval
  <2>4. Cardinality(1 .. n) = n
    BY <2>1, <2>3
  <2> QED BY <2>2, <2>4
<1>7. P = 1 .. n
  BY <1>2, <1>3, <1>5, <1>6, FS_Subset
<1>8. Subsequence(s, 1 .. n) = [i \in 1 .. n |-> s[i]]
  BY <1>2, FirstOnes
<1>9. \A i \in 1 .. n : Kept(s[i])
  BY <1>7 DEF P
<1> QED BY <1>1, <1>2, <1>7, <1>8, <1>9

(* The steps of the builder, one by one.                                   *)
LEMMA TrajectoryIs ==
  ASSUME NEW session, NEW conf
  PROVE  LET kept   == Filtered(Stitched(session, conf.glue))
             chains == Group(kept)
             traces == [k \in DOMAIN chains |-> FinalizeChain(chains[k], conf)]
         IN  Trajectory(session, conf) = Judged(session, kept, traces, conf)
<1> DEFINE J(kept, traces)  == Judged(session, kept, traces, conf)
           F(chains)        == [k \in DOMAIN chains |-> FinalizeChain(chains[k], conf)]
           ByTraces(kept, t) == With(t, LAMBDA traces : J(kept, traces))
           ByChains(kept, g) == With(g, LAMBDA chains : ByTraces(kept, F(chains)))
           ByKept(f)         == With(f, LAMBDA kept : ByChains(kept, Group(kept)))
<1>1. Trajectory(session, conf) = ByKept(Filtered(Stitched(session, conf.glue)))
  BY DEF Trajectory
<1> HIDE DEF J, F
<1>2. \A kept, t : ByTraces(kept, t) = J(kept, t)
  BY DEF With
<1> HIDE DEF ByTraces
<1>3. \A kept, g : ByChains(kept, g) = J(kept, F(g))
  BY <1>2 DEF With
<1> HIDE DEF ByChains
<1>4. \A f : ByKept(f) = J(f, F(Group(f)))
  BY <1>3 DEF With
<1> HIDE DEF ByKept
<1> QED BY <1>1, <1>4 DEF J, F

(* What an accepted result is made of.                                     *)
LEMMA AcceptedIsOne ==
  ASSUME NEW C, NEW session, NEW conf,
         Stitched(session, conf.glue) \in Seq(C),
         Len(Stitched(session, conf.glue)) = Len(session),
         \A s \in Seq(C) : Len(s) > 0 => FinalizeChain(s, conf).truncated \in BOOLEAN,
         Accepted(Trajectory(session, conf))
  PROVE  LET cs == Stitched(session, conf.glue)
         IN  /\ ~SessionRefused(session, conf)
             /\ Len(cs) > 0
             /\ \A i \in DOMAIN session : session[i].finish # "abort"
             /\ \A i \in 1 .. Len(cs) : Kept(cs[i])
             /\ \A i \in 1 .. Len(cs) : i > 1 => IsPrefix(cs[i - 1].prompt, cs[i].prompt)
             /\ Trajectory(session, conf).traces = <<FinalizeChain(cs, conf)>>
             /\ ~FinalizeChain(cs, conf).truncated
             /\ RunTraceChecks(FinalizeChain(cs, conf))
<1> DEFINE cs     == Stitched(session, conf.glue)
           kept   == Filtered(cs)
           chains == Group(kept)
           traces == [k \in DOMAIN chains |-> FinalizeChain(chains[k], conf)]
           all    == Trajectory(session, conf)
<1>1. all = Judged(session, kept, traces, conf)
  BY TrajectoryIs
<1> HIDE DEF all, kept, chains, traces, cs
<1>2. /\ all.refused = (SessionRefused(session, conf) \/ Len(kept) < Len(session))
      /\ all.traces = traces /\ all.stats.total = Len(traces)
      /\ all.stats.truncated = Cardinality({k \in DOMAIN traces : traces[k].truncated})
  BY <1>1 DEF Judged
<1>3. ~all.refused /\ all.stats.total = 1 /\ all.stats.truncated = 0
      /\ \A k \in DOMAIN all.traces : RunTraceChecks(all.traces[k])
  BY DEF Accepted, Admitted, CheckChainSnapshot, all
<1>4. ~SessionRefused(session, conf) /\ ~(Len(kept) < Len(session))
  BY <1>2, <1>3
<1>13. \A i \in DOMAIN session : session[i].finish # "abort"
  <2>1. all.status = "COMPLETED"
    BY DEF Accepted, Admitted, all
  <2> QED BY <1>1, <2>1 DEF Judged
<1>5. kept = cs /\ cs \in Seq(C) /\ \A i \in 1 .. Len(cs) : Kept(cs[i])
  <2>1. cs \in Seq(C) /\ ~(Len(Filtered(cs)) < Len(cs))
    BY <1>4 DEF cs, kept
  <2> QED BY <2>1, NoneFiltered DEF kept
<1>6. Len(traces) = 1
  BY <1>2, <1>3
<1>7. Len(chains) = 1
  <2>1. PICK g \in [0 .. Len(cs) -> Seq(Seq(C))] : Group(cs) = g[Len(cs)]
    BY <1>5, GroupRun
  <2>2. Len(cs) \in 0 .. Len(cs)
    BY <1>5
  <2>3. chains \in Seq(Seq(C))
    BY <1>5, <2>1, <2>2 DEF chains
  <2>4. Len(chains) \in Nat /\ DOMAIN chains = 1 .. Len(chains)
    BY <2>3
  <2>5. Len(traces) = Len(chains)
    BY <2>4 DEF traces
  <2> QED BY <1>6, <2>5
<1>8. /\ chains = <<cs>> /\ Len(cs) > 0
      /\ \A i \in 1 .. Len(cs) : i > 1 => IsPrefix(cs[i - 1].prompt, cs[i].prompt)
  BY <1>5, <1>7, OneChain DEF chains
<1> DEFINE trace == FinalizeChain(cs, conf)
<1>9. traces = <<trace>> /\ DOMAIN traces = 1 .. 1 /\ traces[1] = trace
  <2> HIDE DEF trace
  <2>1. DOMAIN chains = 1 .. 1 /\ chains[1] = cs
    BY <1>8
  <2>2. traces = [k \in 1 .. 1 |-> FinalizeChain(chains[k], conf)]
    BY <2>1 DEF traces
  <2>3. traces = [k \in 1 .. 1 |-> trace]
    BY <2>1, <2>2 DEF trace
  <2> QED BY <2>3
<1>10. trace.truncated \in BOOLEAN
  BY <1>5, <1>8
<1> HIDE DEF trace
<1>11. ~trace.truncated
  <2> SUFFICES ASSUME trace.truncated PROVE FALSE
    BY <1>10
  <2> DEFINE K == {k \in DOMAIN traces : traces[k].truncated}
  <2>1. K = {1}
    BY <1>9
  <2>2. Cardinality({1}) = 1
    BY FS_Singleton
  <2>3. Cardinality(K) = 0
    BY <1>2, <1>3
  <2> HIDE DEF K
  <2> QED BY <2>1, <2>2, <2>3
<1>12. RunTraceChecks(trace)
  BY <1>2, <1>3, <1>9
<1> QED BY <1>2, <1>4, <1>5, <1>8, <1>9, <1>11, <1>12, <1>13 DEF cs, all, trace

-----------------------------------------------------------------------------
(* A prompt goes on from what was shown before, or from the prompt before  *)
(* but for its glue.                                                       *)
Continues(prompt, before, shown, new, glue) ==
  \/ prompt = shown \o new
  \/ ExtendsUnglued(prompt, before, glue) /\ prompt = Unglued(before, glue) \o new

(* A trace trains on exactly what was sampled after exactly what was       *)
(* shown: its prompt is the first; the sampled replies stand in its        *)
(* response one after the other, every token trained at the logprob it was *)
(* sampled with, a number that the discipline admits; and what stands      *)
(* between two of them, untrained, is what the next prompt added once the  *)
(* reply before had ended.                                                 *)
TrainsOn(T, trace, session, conf) ==
  LET n == Len(session)
  IN  \E shown \in [1 .. n -> Seq(T)], at \in [1 .. n -> Nat] :
        /\ trace.prompt = shown[1] /\ shown[1] = session[1].prompt
        /\ at[1] = 0 /\ Len(trace.response) = at[n] + Len(session[n].response)
        /\ trace.response \in Seq(T) /\ trace.mask \in Seq({0, 1})
        /\ Len(trace.mask) = Len(trace.response)
        /\ \A k \in 1 .. n :
             /\ session[k].logprobs # Missing
             /\ \A j \in 1 .. Len(session[k].response) :
                  /\ trace.response[at[k] + j] = session[k].response[j]
                  /\ trace.mask[at[k] + j] = 1
                  /\ trace.logprobs[at[k] + j] = session[k].logprobs[j]
                  /\ at[k] + j \in 1 .. Len(trace.mask)
                  /\ LogprobFits(session[k].logprobs[j], TRUE)
        /\ \A k \in 2 .. n : \E new \in Seq(T), between \in Seq(T) :
             /\ Continues(session[k].prompt, session[k - 1].prompt, shown[k - 1], new, conf.glue)
             /\ shown[k] = shown[k - 1] \o new
             /\ Follows(between, new, session[k - 1].response, conf.eot)
             /\ Gap(trace.response, trace.mask, between,
                    at[k - 1] + Len(session[k - 1].response), at[k])

(* A sequence is its prefix and the rest.                                  *)
LEMMA PrefixRest ==
  ASSUME NEW T, NEW s \in Seq(T), NEW t \in Seq(T), IsPrefix(s, t)
  PROVE  t = s \o Rest(t, Len(s)) /\ Rest(t, Len(s)) \in Seq(T)
<1> DEFINE n == Len(s)
           r == Rest(t, n)
<1>1. n \in Nat /\ n <= Len(t) /\ Len(t) \in Nat
  BY DEF IsPrefix
<1>2. \A i \in 1 .. n : s[i] = t[i]
  <2>1. \A i \in 1 .. n : SubSeq(s, 1, n)[i] = s[i] /\ SubSeq(t, 1, n)[i] = t[i]
    BY <1>1
  <2> QED BY <2>1 DEF IsPrefix
<1>3. /\ r \in Seq(T) /\ Len(r) = Len(t) - n
      /\ \A i \in 1 .. Len(r) : r[i] = t[n + i]
  <2> HIDE DEF n
  <2> QED BY <1>1, RestOf
<1> HIDE DEF r
<1>4. s \o r \in Seq(T) /\ Len(s \o r) = Len(t)
  BY <1>1, <1>3
<1>5. ASSUME NEW i \in 1 .. Len(t) PROVE (s \o r)[i] = t[i]
  <2>1. CASE i <= n
    BY <1>1, <1>2, <1>3, <2>1
  <2>2. CASE ~(i <= n)
    <3>1. i - n \in 1 .. Len(r) /\ n + (i - n) = i
      BY <1>1, <1>3, <2>2
    <3>2. (s \o r)[i] = r[i - n]
      BY <1>1, <1>3, <2>2, <3>1
    <3> QED BY <1>3, <3>1, <3>2
  <2> QED BY <2>1, <2>2
<1>6. s \o r = t
  <2> DEFINE u == s \o r
  <2>1. u \in Seq(T) /\ Len(u) = Len(t) /\ \A i \in 1 .. Len(t) : u[i] = t[i]
    BY <1>4, <1>5
  <2> HIDE DEF u
  <2>2. u = t
    BY <2>1
  <2> QED BY <2>2 DEF u
<1> QED BY <1>3, <1>6 DEF r

(* After the first of two joined sequences comes the second.               *)
LEMMA RestOfJoin ==
  ASSUME NEW T, NEW s \in Seq(T), NEW r \in Seq(T)
  PROVE  Rest(s \o r, Len(s)) = r
<1> DEFINE t == s \o r
           n == Len(s)
<1>1. t \in Seq(T) /\ Len(t) = n + Len(r) /\ n \in Nat /\ Len(r) \in Nat
      /\ \A i \in 1 .. Len(r) : t[n + i] = r[i]
  OBVIOUS
<1> HIDE DEF t, n
<1>2. /\ Rest(t, n) \in Seq(T)
      /\ Len(Rest(t, n)) = IF n <= Len(t) THEN Len(t) - n ELSE 0
      /\ \A i \in 1 .. Len(Rest(t, n)) : Rest(t, n)[i] = t[n + i]
  BY <1>1, RestOf
<1> DEFINE u == Rest(t, n)
<1>3. u \in Seq(T) /\ Len(u) = Len(r) /\ \A i \in 1 .. Len(r) : u[i] = r[i]
  BY <1>1, <1>2
<1> HIDE DEF u
<1>4. u = r
  BY <1>3
<1> QED BY <1>4 DEF u, t, n

(* What a stitched prompt adds to the one before.                          *)
Adds(T, prompt, before, shown, now, glue) ==
  \E new \in Seq(T) : /\ new = Rest(now, Len(shown)) /\ now = shown \o new
                      /\ Continues(prompt, before, shown, new, glue)

(* What a stitched prompt adds to the last one is what the agent's prompt  *)
(* adds.                                                                   *)
LEMMA NewOf ==
  ASSUME NEW T, NEW prompt \in Seq(T), NEW before \in Seq(T), NEW glue \in Seq(T),
         NEW shown \in Seq(T), NEW now \in Seq(T), IsPrefix(shown, now),
         \/ now = prompt
         \/ /\ ExtendsUnglued(prompt, before, glue)
            /\ now = shown \o Rest(prompt, Len(before) - Len(glue))
  PROVE  Adds(T, prompt, before, shown, now, glue)
<1>1. now = shown \o Rest(now, Len(shown)) /\ Rest(now, Len(shown)) \in Seq(T)
  BY PrefixRest
<1>2. CASE now = prompt
  BY <1>1, <1>2 DEF Continues, Adds
<1>3. CASE /\ ExtendsUnglued(prompt, before, glue)
           /\ now = shown \o Rest(prompt, Len(before) - Len(glue))
  <2> DEFINE d == Len(before) - Len(glue)
             u == SubSeq(before, 1, d)
             r == Rest(prompt, d)
  <2>1. IsSuffix(glue, before) /\ IsPrefix(u, prompt)
    BY <1>3 DEF ExtendsUnglued, Unglued
  <2>2. d \in Nat /\ d <= Len(before)
    <3>1. d \in Nat
      BY <2>1, SuffixLen
    <3>2. Len(before) \in Nat /\ Len(glue) \in Nat
      OBVIOUS
    <3> QED BY <3>1, <3>2
  <2> HIDE DEF d
  <2>3. u \in Seq(T) /\ Len(u) = d
    BY <2>2
  <2> HIDE DEF u
  <2>4. prompt = u \o Rest(prompt, Len(u)) /\ Rest(prompt, Len(u)) \in Seq(T)
    BY <2>1, <2>3, PrefixRest
  <2>5. prompt = u \o r /\ r \in Seq(T) /\ now = shown \o r
    BY <1>3, <2>3, <2>4 DEF d
  <2> HIDE DEF r
  <2>6. Rest(now, Len(shown)) = r
    BY <2>5, RestOfJoin
  <2>7. u = Unglued(before, glue)
    BY DEF u, d, Unglued
  <2> QED BY <1>1, <1>3, <2>5, <2>6, <2>7 DEF Continues, Adds
<1> QED BY <1>1, <1>2, <1>3

-----------------------------------------------------------------------------
(* The completions that the stitch makes of a session's.                   *)
StitchedTo(T, C, session, glue) ==
  LET cs == Stitched(session, glue)
  IN  /\ cs \in Seq(C) /\ Len(cs) = Len(session)
      /\ \E shown \in [1 .. Len(session) -> Seq(T)] :
           /\ \A i \in 1 .. Len(session) : /\ cs[i] = [session[i] EXCEPT !.prompt = shown[i]]
                                            /\ cs[i].prompt = shown[i]
           /\ IF glue = <<>> THEN \A i \in 1 .. Len(session) : shown[i] = session[i].prompt
                             ELSE ShownTo(session, glue, shown)

LEMMA StitchedIs ==
  ASSUME NEW T, NEW V, NEW G, NEW D, NEW session \in Seq(Completions(T, V, G, D)),
         NEW glue \in Seq(T)
  PROVE  StitchedTo(T, Completions(T, V, G, D), session, glue)
<1> DEFINE C  == Completions(T, V, G, D)
           n  == Len(session)
           cs == Stitched(session, glue)
<1>1. PICK shown \in [DOMAIN session -> Seq(T)] :
        /\ cs = [i \in DOMAIN session |-> [session[i] EXCEPT !.prompt = shown[i]]]
        /\ IF glue = <<>> THEN \A i \in DOMAIN session : shown[i] = session[i].prompt
                          ELSE ShownTo(session, glue, shown)
  <2>1. Restitched(T, session, glue)
    BY StitchedOf
  <2> QED BY <2>1 DEF Restitched
<1>2. n \in Nat /\ DOMAIN session = 1 .. n /\ \A i \in 1 .. n : session[i] \in C
  <2> HIDE DEF C
  <2>1. session \in Seq(C)
    BY DEF C
  <2> QED BY <2>1
<1> HIDE DEF n, cs
<1>3. ASSUME NEW i \in 1 .. n
      PROVE  /\ cs[i] \in C /\ cs[i].prompt = shown[i]
             /\ cs[i] = [session[i] EXCEPT !.prompt = shown[i]]
  <2>1. cs[i] = [session[i] EXCEPT !.prompt = shown[i]] /\ shown[i] \in Seq(T)
        /\ session[i] \in C
    BY <1>1, <1>2
  <2> QED BY <2>1 DEF Completions
<1>4. DOMAIN cs = 1 .. n /\ cs = [i \in 1 .. n |-> cs[i]]
  BY <1>1, <1>2
<1> HIDE DEF C
<1>5. cs \in [1 .. n -> C]
  BY <1>3, <1>4
<1>6. cs \in Seq(C) /\ Len(cs) = n
  BY <1>2, <1>5
<1>7. shown \in [1 .. n -> Seq(T)]
  BY <1>2
<1>8. IF glue = <<>> THEN \A i \in 1 .. n : shown[i] = session[i].prompt
                     ELSE ShownTo(session, glue, shown)
  BY <1>1, <1>2
<1> QED BY <1>3, <1>6, <1>7, <1>8 DEF StitchedTo, C, cs, n

(* What an accepted session is, as one chain.                              *)
OneTrace(session, conf) ==
  LET cs    == Stitched(session, conf.glue)
      trace == FinalizeChain(cs, conf)
  IN  /\ ~SessionRefused(session, conf) /\ Len(session) > 0
      /\ \A i \in 1 .. Len(session) : session[i].finish # "abort" /\ Kept(cs[i])
      /\ \A i \in 1 .. Len(session) : i > 1 => IsPrefix(cs[i - 1].prompt, cs[i].prompt)
      /\ Trajectory(session, conf).traces = <<trace>>
      /\ ~trace.truncated /\ RunTraceChecks(trace)

LEMMA AcceptedTrace ==
  ASSUME NEW T, NEW V, NEW G, NEW D, NEW session \in Seq(Completions(T, V, G, D)),
         NEW conf, conf.glue \in Seq(T), Accepted(Trajectory(session, conf))
  PROVE  OneTrace(session, conf)
<1> DEFINE C  == Completions(T, V, G, D)
           cs == Stitched(session, conf.glue)
           trace == FinalizeChain(cs, conf)
<1>1. cs \in Seq(C) /\ Len(cs) = Len(session) /\ DOMAIN session = 1 .. Len(session)
  <2>1. StitchedTo(T, Completions(T, V, G, D), session, conf.glue)
    BY StitchedIs
  <2> HIDE DEF C
  <2>2. session \in Seq(C)
    BY DEF C
  <2> QED BY <2>1, <2>2 DEF StitchedTo, C
<1>2. ASSUME NEW s \in Seq(C), Len(s) > 0
      PROVE  FinalizeChain(s, conf).truncated \in BOOLEAN
  <2>1. MergedInTurn(Streams(T, V, G, D), s, conf)
    BY <1>2, MergeRun
  <2>2. PICK u \in Streams(T, V, G, D) : FinalizeChain(s, conf) = Finished(s, u)
    <3>1. Len(s) - 1 \in 0 .. Len(s) - 1
      <4> HIDE DEF C
      <4> QED BY <1>2
    <3> QED BY <2>1, <3>1 DEF MergedInTurn
  <2> QED BY <2>2 DEF Finished, Streams
<1> HIDE DEF C
<1>3. /\ ~SessionRefused(session, conf) /\ Len(cs) > 0
      /\ \A i \in DOMAIN session : session[i].finish # "abort"
      /\ \A i \in 1 .. Len(cs) : Kept(cs[i])
      /\ \A i \in 1 .. Len(cs) : i > 1 => IsPrefix(cs[i - 1].prompt, cs[i].prompt)
      /\ Trajectory(session, conf).traces = <<trace>> /\ ~trace.truncated
      /\ RunTraceChecks(trace)
  BY <1>1, <1>2, AcceptedIsOne
<1> HIDE DEF cs, trace
<1> QED BY <1>1, <1>3 DEF OneTrace, cs, trace

(* Every accepted session, whatever its length, its tokens and the glue of *)
(* its template, has one trace, and it trains on exactly what the engine   *)
(* sampled after exactly what the model was shown (builder.py,             *)
(* prefix_merging.py and checks.py together).                              *)
THEOREM TrainedAsSampled ==
  ASSUME NEW T, NEW V, NEW G, NEW D, NEW session \in Seq(Completions(T, V, G, D)),
         NEW conf, conf.glue \in Seq(T), Accepted(Trajectory(session, conf))
  PROVE  /\ Len(Trajectory(session, conf).traces) = 1
         /\ TrainsOn(T, Trajectory(session, conf).traces[1], session, conf)
<1> DEFINE C  == Completions(T, V, G, D)
           W  == V \cup {Missing}
           n  == Len(session)
           cs == Stitched(session, conf.glue)
           traces == Trajectory(session, conf).traces
           trace  == FinalizeChain(cs, conf)
<1>0. StitchedTo(T, C, session, conf.glue)
  BY StitchedIs
<1>1. PICK shown \in [1 .. n -> Seq(T)] :
        /\ \A i \in 1 .. n : /\ cs[i] = [session[i] EXCEPT !.prompt = shown[i]]
                              /\ cs[i].prompt = shown[i]
        /\ IF conf.glue = <<>> THEN \A i \in 1 .. n : shown[i] = session[i].prompt
                               ELSE ShownTo(session, conf.glue, shown)
  BY <1>0 DEF StitchedTo
<1>2. n \in Nat /\ DOMAIN session = 1 .. n /\ \A i \in 1 .. n : session[i] \in C
  <2> HIDE DEF C
  <2>1. session \in Seq(C)
    BY DEF C
  <2> QED BY <2>1
<1> HIDE DEF n, cs
<1>3. /\ cs \in Seq(C) /\ Len(cs) = n
      /\ \A i \in 1 .. n : /\ cs[i] \in C /\ cs[i].prompt = shown[i] /\ shown[i] \in Seq(T)
                           /\ cs[i].response = session[i].response
                           /\ cs[i].logprobs = session[i].logprobs
  <2>1. cs \in Seq(C) /\ Len(cs) = n
    BY <1>0 DEF StitchedTo, cs, n
  <2>2. ASSUME NEW i \in 1 .. n
        PROVE  /\ cs[i] \in C /\ cs[i].prompt = shown[i] /\ shown[i] \in Seq(T)
               /\ cs[i].response = session[i].response /\ cs[i].logprobs = session[i].logprobs
    <3>1. cs[i] = [session[i] EXCEPT !.prompt = shown[i]] /\ shown[i] \in Seq(T)
          /\ session[i] \in C
      BY <1>1, <1>2
    <3> QED BY <3>1 DEF Completions
  <2> QED BY <2>1, <2>2
<1>5. /\ ~SessionRefused(session, conf) /\ n > 0
      /\ \A i \in 1 .. n : i > 1 => IsPrefix(shown[i - 1], shown[i])
      /\ traces = <<trace>> /\ ~trace.truncated /\ RunTraceChecks(trace)
  <2>1. OneTrace(session, conf)
    BY AcceptedTrace
  <2>2. \A i \in 1 .. n : i > 1 => i - 1 \in 1 .. n
    BY <1>2
  <2> QED BY <1>3, <2>1, <2>2 DEF OneTrace, cs, n
<1> HIDE DEF traces
<1>6. PICK st \in Streams(T, V, G, D) :
        /\ trace = Finished(cs, st) /\ Evenly(st)
        /\ Laid(T, st.ids, st.mask, st.slots, cs, n, conf.eot)
  <2>1. cs \in Seq(Completions(T, V, G, D)) /\ Len(cs) > 0 /\ ~FinalizeChain(cs, conf).truncated
    BY <1>3, <1>5
  <2> QED BY <1>3, <2>1, ChainLaid
<1> HIDE DEF trace
<1>7. /\ trace.prompt = cs[1].prompt /\ trace.response = st.ids /\ trace.mask = st.mask
      /\ trace.logprobs = FinalizeLogprobs(st.slots, st.mask)
  BY <1>6 DEF Finished
<1>8. st.ids \in Seq(T) /\ st.mask \in Seq({0, 1}) /\ st.slots \in Seq(W)
      /\ Len(st.mask) = Len(st.ids) /\ Len(st.slots) = Len(st.ids)
  BY <1>6 DEF Streams, Evenly
<1>9. PICK at \in [1 .. n -> Nat] :
        /\ at[1] = 0 /\ Len(st.ids) = at[n] + Len(cs[n].response)
        /\ \A k \in 1 .. n : Body(st.ids, st.mask, st.slots, cs[k], at[k])
        /\ \A k \in 2 .. n : \E between \in Seq(T) :
             /\ Gap(st.ids, st.mask, between, at[k - 1] + Len(cs[k - 1].response), at[k])
             /\ Follows(between, Rest(cs[k].prompt, Len(cs[k - 1].prompt)),
                        cs[k - 1].response, conf.eot)
  BY <1>6 DEF Laid
<1>10. \A k \in 1 .. n : session[k].response \in Seq(T) /\ session[k].response # <<>>
                         /\ Len(session[k].response) \in Nat
                         /\ Len(session[k].response) > 0
  <2> SUFFICES ASSUME NEW k \in 1 .. n
               PROVE  session[k].response \in Seq(T) /\ session[k].response # <<>>
                      /\ Len(session[k].response) \in Nat /\ Len(session[k].response) > 0
    OBVIOUS
  <2> DEFINE r == session[k].response
  <2>1. r \in Seq(T)
    BY <1>2 DEF Completions
  <2>2. r # <<>>
    BY <1>2, <1>5 DEF SessionRefused
  <2> HIDE DEF r
  <2>3. Len(r) \in Nat /\ Len(r) > 0
    BY <2>1, <2>2
  <2> QED BY <2>1, <2>2, <2>3 DEF r
<1>11. \A k \in 1 .. n : \A j \in 1 .. Len(session[k].response) :
         /\ at[k] + j \in 1 .. Len(st.mask)
         /\ st.ids[at[k] + j] = session[k].response[j] /\ st.mask[at[k] + j] = 1
         /\ st.slots[at[k] + j] = Slots(cs[k])[j]
  <2> SUFFICES ASSUME NEW k \in 1 .. n, NEW j \in 1 .. Len(session[k].response)
               PROVE  /\ at[k] + j \in 1 .. Len(st.mask)
                      /\ st.ids[at[k] + j] = session[k].response[j] /\ st.mask[at[k] + j] = 1
                      /\ st.slots[at[k] + j] = Slots(cs[k])[j]
    OBVIOUS
  <2>1. cs[k].response = session[k].response /\ at[k] \in Nat
    BY <1>3
  <2>2. /\ at[k] + Len(session[k].response) <= Len(st.ids)
        /\ st.ids[at[k] + j] = session[k].response[j] /\ st.mask[at[k] + j] = 1
        /\ st.slots[at[k] + j] = Slots(cs[k])[j]
    BY <1>9, <2>1 DEF Body
  <2>3. Len(session[k].response) \in Nat /\ Len(st.ids) \in Nat /\ Len(st.mask) = Len(st.ids)
    BY <1>8, <1>10
  <2> DEFINE l == Len(session[k].response)
             m == Len(st.ids)
             a == at[k]
  <2>4. l \in Nat /\ m \in Nat /\ a \in Nat /\ a + l <= m /\ j \in 1 .. l
    BY <2>1, <2>2, <2>3
  <2> HIDE DEF l, m, a
  <2>5. a + j \in 1 .. m
    BY <2>4
  <2> QED BY <2>2, <2>3, <2>5 DEF a, m
<1>12. Trainable(trace) # {}
  <2>1. 1 \in 1 .. n /\ 1 \in 1 .. Len(session[1].response)
    BY <1>2, <1>5, <1>10
  <2>2. at[1] + 1 \in 1 .. Len(st.mask) /\ st.mask[at[1] + 1] = 1
    BY <1>11, <2>1
  <2>3. DOMAIN st.mask = 1 .. Len(st.mask)
    BY <1>8
  <2> QED BY <1>7, <2>2, <2>3 DEF Trainable
<1>13. \A x \in 1 .. Len(st.mask) : st.mask[x] = 1 =>
         /\ st.slots[x] # Missing /\ trace.logprobs[x] = st.slots[x]
         /\ LogprobFits(st.slots[x], TRUE)
  <2>1. CheckLogprobDiscipline(trace)
    BY <1>5 DEF RunTraceChecks
  <2> DEFINE slots == st.slots
  <2>2. /\ slots \in Seq(W) /\ trace.mask \in Seq({0, 1}) /\ Len(slots) = Len(trace.mask)
        /\ trace.logprobs = FinalizeLogprobs(slots, trace.mask)
    BY <1>7, <1>8
  <2> HIDE DEF slots, W
  <2>3. \A x \in 1 .. Len(trace.mask) : trace.mask[x] = 1 =>
          /\ slots[x] # Missing /\ trace.logprobs[x] = slots[x]
          /\ LogprobFits(slots[x], TRUE)
    BY <1>12, <2>1, <2>2, LogprobsKept
  <2> QED BY <1>7, <2>3 DEF slots
<1>14. ASSUME NEW k \in 1 .. n, NEW j \in 1 .. Len(session[k].response)
       PROVE  /\ trace.response[at[k] + j] = session[k].response[j]
              /\ trace.mask[at[k] + j] = 1
              /\ session[k].logprobs # Missing
              /\ trace.logprobs[at[k] + j] = session[k].logprobs[j]
              /\ at[k] + j \in 1 .. Len(trace.mask)
              /\ LogprobFits(session[k].logprobs[j], TRUE)
  <2>1. /\ at[k] + j \in 1 .. Len(st.mask)
        /\ st.ids[at[k] + j] = session[k].response[j] /\ st.mask[at[k] + j] = 1
        /\ st.slots[at[k] + j] = Slots(cs[k])[j]
    BY <1>11
  <2>2. /\ Slots(cs[k])[j] # Missing /\ trace.logprobs[at[k] + j] = Slots(cs[k])[j]
        /\ LogprobFits(Slots(cs[k])[j], TRUE)
    BY <1>13, <2>1
  <2> DEFINE c == cs[k]
  <2>3. c \in Completions(T, V, G, D) /\ c.response = session[k].response
        /\ c.logprobs = session[k].logprobs
    BY <1>3
  <2> HIDE DEF c
  <2>4. Slotted(V, c)
    BY <2>3, SlotsOf
  <2>5. c.logprobs # Missing /\ Slots(c)[j] = c.logprobs[j]
    BY <2>2, <2>3, <2>4 DEF Slotted, c
  <2> QED BY <1>7, <2>1, <2>2, <2>3, <2>5 DEF c
<1>15. ASSUME NEW k \in 1 .. n PROVE session[k].logprobs # Missing
  <2>1. 1 \in 1 .. Len(session[k].response)
    BY <1>10
  <2> QED BY <1>14, <2>1
<1>16. ASSUME NEW k \in 2 .. n
       PROVE  \E new \in Seq(T), between \in Seq(T) :
                /\ Continues(session[k].prompt, session[k - 1].prompt, shown[k - 1], new, conf.glue)
                /\ shown[k] = shown[k - 1] \o new
                /\ Follows(between, new, session[k - 1].response, conf.eot)
                /\ Gap(trace.response, trace.mask, between,
                       at[k - 1] + Len(session[k - 1].response), at[k])
  <2>1. k \in 1 .. n /\ k - 1 \in 1 .. n /\ k > 1
    BY <1>2
  <2>2. PICK between \in Seq(T) :
          /\ Gap(st.ids, st.mask, between, at[k - 1] + Len(cs[k - 1].response), at[k])
          /\ Follows(between, Rest(cs[k].prompt, Len(cs[k - 1].prompt)),
                     cs[k - 1].response, conf.eot)
    BY <1>9
  <2>3. /\ cs[k].prompt = shown[k] /\ cs[k - 1].prompt = shown[k - 1]
        /\ cs[k - 1].response = session[k - 1].response
    BY <1>3, <2>1
  <2> DEFINE prompt == session[k].prompt
             before == session[k - 1].prompt
             then   == shown[k - 1]
             now    == shown[k]
             glue   == conf.glue
             new    == Rest(now, Len(then))
  <2>4. /\ prompt \in Seq(T) /\ before \in Seq(T) /\ then \in Seq(T) /\ now \in Seq(T)
        /\ glue \in Seq(T) /\ IsPrefix(then, now)
    <3>1. session[k] \in C /\ session[k - 1] \in C
      BY <1>2, <2>1
    <3>2. prompt \in Seq(T) /\ before \in Seq(T)
      BY <3>1 DEF Completions
    <3>3. then \in Seq(T) /\ now \in Seq(T)
      BY <1>3, <2>1
    <3>4. IsPrefix(then, now)
      BY <1>5, <2>1
    <3> QED BY <3>2, <3>3, <3>4
  <2>5. \/ now = prompt
        \/ /\ ExtendsUnglued(prompt, before, glue)
           /\ now = then \o Rest(prompt, Len(before) - Len(glue))
    BY <1>1, <1>2, <2>1 DEF ShownTo
  <2> HIDE DEF prompt, before, then, now, glue
  <2>6. /\ new \in Seq(T) /\ now = then \o new
        /\ Continues(prompt, before, then, new, glue)
    <3>1. Adds(T, prompt, before, then, now, glue)
      BY <2>4, <2>5, NewOf
    <3> QED BY <3>1 DEF Adds
  <2>7. Follows(between, new, session[k - 1].response, conf.eot)
    BY <2>2, <2>3 DEF now, then
  <2>8. Gap(trace.response, trace.mask, between, at[k - 1] + Len(session[k - 1].response), at[k])
    BY <1>7, <2>2, <2>3
  <2> HIDE DEF new
  <2> QED BY <2>6, <2>7, <2>8 DEF prompt, before, then, now, glue
<1>17. TrainsOn(T, trace, session, conf)
  <2>1. shown \in [1 .. n -> Seq(T)]
    BY <1>2
  <2>2. trace.prompt = shown[1] /\ shown[1] = session[1].prompt
    <3>1. 1 \in 1 .. n
      BY <1>2, <1>5
    <3>2. trace.prompt = shown[1]
      BY <1>3, <1>7, <3>1
    <3>3. shown[1] = session[1].prompt
      <4>1. CASE conf.glue = <<>>
        BY <1>1, <1>2, <3>1, <4>1
      <4>2. CASE conf.glue # <<>>
        <5>1. ShownTo(session, conf.glue, shown) /\ 1 \in DOMAIN session /\ ~(1 > 1)
          BY <1>1, <1>2, <3>1, <4>2
        <5> QED BY <5>1 DEF ShownTo
      <4> QED BY <4>1, <4>2
    <3> QED BY <3>2, <3>3
  <2>3. at[1] = 0 /\ Len(trace.response) = at[n] + Len(session[n].response)
        /\ trace.response \in Seq(T) /\ trace.mask \in Seq({0, 1})
        /\ Len(trace.mask) = Len(trace.response)
    <3>1. n \in 1 .. n
      BY <1>2, <1>5
    <3> QED BY <1>3, <1>7, <1>8, <1>9, <3>1
  <2>4. \A k \in 1 .. n :
          /\ session[k].logprobs # Missing
          /\ \A j \in 1 .. Len(session[k].response) :
               /\ trace.response[at[k] + j] = session[k].response[j]
               /\ trace.mask[at[k] + j] = 1
               /\ trace.logprobs[at[k] + j] = session[k].logprobs[j]
               /\ at[k] + j \in 1 .. Len(trace.mask)
               /\ LogprobFits(session[k].logprobs[j], TRUE)
    BY <1>14, <1>15
  <2> QED BY <1>16, <2>1, <2>2, <2>3, <2>4 DEF TrainsOn, n
<1> QED BY <1>5, <1>17 DEF traces

-----------------------------------------------------------------------------
(* Nothing is filtered from a session whose completions are all kept.      *)
LEMMA AllKept ==
  ASSUME NEW C, NEW s \in Seq(C), \A i \in DOMAIN s : Kept(s[i])
  PROVE  Filtered(s) = s
<1> DEFINE n == Len(s)
<1>1. n \in Nat /\ DOMAIN s = 1 .. n /\ n \in 0 .. n /\ s = [i \in 1 .. n |-> s[i]]
  OBVIOUS
<1>2. {i \in DOMAIN s : Kept(s[i])} = 1 .. n
  <2>1. {i \in DOMAIN s : Kept(s[i])} = DOMAIN s
    OBVIOUS
  <2> QED BY <1>1, <2>1
<1>3. Filtered(s) = Subsequence(s, {i \in DOMAIN s : Kept(s[i])})
  BY DEF Filtered, With
<1>4. Filtered(s) = Subsequence(s, 1 .. n)
  BY <1>2, <1>3
<1>5. Subsequence(s, 1 .. n) = [i \in 1 .. n |-> s[i]]
  BY <1>1, FirstOnes
<1> QED BY <1>1, <1>4, <1>5

(* Completions each of which extends the one before are one chain.         *)
LEMMA ChainedIsOne ==
  ASSUME NEW C, NEW cs \in Seq(C), Len(cs) > 0,
         \A i \in 1 .. Len(cs) : cs[i].prompt # <<>>,
         \A i \in 2 .. Len(cs) : IsPrefix(cs[i - 1].prompt, cs[i].prompt)
  PROVE  Group(cs) = <<cs>>
<1> DEFINE n == Len(cs)
           V == Seq(Seq(C))
<1>1. PICK g \in [0 .. n -> V] :
        /\ g[0] = <<>>
        /\ \A i \in 1 .. n : g[i] = Joined(g[i - 1], cs[i])
        /\ Group(cs) = g[n]
  BY GroupRun
<1>2. n \in Nat /\ n > 0 /\ \A i \in 1 .. n : cs[i] \in C
  OBVIOUS
<1> HIDE DEF n, V
<1> DEFINE S == {i \in 1 .. n : g[i] = <<SubSeq(cs, 1, i)>>}
<1>3. 1 \in S
  <2>1. 1 \in 1 .. n /\ 1 - 1 = 0
    BY <1>2
  <2>2. Extendable(<<>>, cs[1].prompt) = {}
    BY DEF Extendable
  <2>3. g[1] = Joined(<<>>, cs[1])
    BY <1>1, <2>1
  <2>4. g[1] = Append(<<>>, <<cs[1]>>)
    BY <2>2, <2>3 DEF Joined
  <2>5. Append(<<>>, <<cs[1]>>) = <<<<cs[1]>>>>
    OBVIOUS
  <2>6. SubSeq(cs, 1, 1) = <<cs[1]>>
    <3>1. 1 \in 1 .. Len(cs) /\ 1 \in Nat
      BY <1>2 DEF n
    <3> DEFINE X == SubSeq(cs, 1, 1)
    <3>2. X \in Seq(C) /\ Len(X) = 1 /\ X[1] = cs[1]
      BY <3>1
    <3> HIDE DEF X
    <3>3. X = <<cs[1]>>
      BY <3>2
    <3> QED BY <3>3 DEF X
  <2> QED BY <2>1, <2>4, <2>5, <2>6
<1>4. ASSUME NEW i \in 1 + 1 .. n, i - 1 \in S
      PROVE  i \in S
  <2> DEFINE X == SubSeq(cs, 1, i - 1)
             c == cs[i]
  <2>1. /\ i \in 1 .. n /\ i - 1 \in 1 .. n /\ i \in Nat /\ i \in 2 .. n /\ n = Len(cs)
        /\ g[i - 1] = <<X>> /\ g[i] = Joined(<<X>>, c) /\ c \in C
    <3>1. i \in 1 .. n /\ i - 1 \in 1 .. n /\ i \in Nat /\ i \in 2 .. n /\ n = Len(cs)
      BY <1>2 DEF n
    <3>2. g[i - 1] = <<X>>
      BY <1>4
    <3>3. g[i] = Joined(g[i - 1], c) /\ c \in C
      BY <1>1, <1>2, <3>1
    <3> HIDE DEF X, c
    <3> QED BY <3>1, <3>2, <3>3
  <2>2. X \in Seq(C) /\ Len(X) = i - 1 /\ X[i - 1] = cs[i - 1]
    BY <1>2, <2>1
  <2>3. Append(X, c) = SubSeq(cs, 1, i)
    BY <1>2, <2>1
  <2> HIDE DEF X
  <2>4. Tip(X) = cs[i - 1].prompt
    BY <2>2 DEF Tip
  <2>5. Tip(X) # <<>> /\ IsPrefix(Tip(X), c.prompt)
    BY <2>1, <2>4
  <2> HIDE DEF c
  <2>6. Extendable(<<X>>, c.prompt) = {1}
    <3>1. DOMAIN <<X>> = {1} /\ <<X>>[1] = X
      OBVIOUS
    <3> QED BY <2>5, <3>1 DEF Extendable
  <2>7. FindExtendableChain(<<X>>, c.prompt) = 1
    BY <2>6 DEF FindExtendableChain
  <2>8. g[i] = <<Append(X, c)>>
    <3>1. g[i] = [<<X>> EXCEPT ![1] = Append(@, c)]
      BY <2>1, <2>6, <2>7 DEF Joined
    <3> DEFINE Y == Append(X, c)
    <3>2. g[i] = [<<X>> EXCEPT ![1] = Y]
      BY <3>1
    <3> HIDE DEF Y
    <3>3. [<<X>> EXCEPT ![1] = Y] = <<Y>>
      OBVIOUS
    <3> QED BY <3>2, <3>3 DEF Y
  <2> QED BY <2>1, <2>3, <2>8
<1> HIDE DEF S
<1>5. 1 .. n \subseteq S
  BY <1>2, <1>3, <1>4, Climb
<1>6. g[n] = <<SubSeq(cs, 1, n)>> /\ SubSeq(cs, 1, n) = cs
  <2>1. n \in S
    BY <1>2, <1>5
  <2> QED BY <2>1 DEF S, n
<1> QED BY <1>1, <1>6

(* Of one trace, what is merged is what it keeps.                          *)
LEMMA SumOfOne ==
  ASSUME NEW trace, trace.kept \in Nat
  PROVE  FoldLeft(LAMBDA n, t : n + t.kept, 0, <<trace>>) = trace.kept
<1> DEFINE traces == <<trace>>
           D == DOMAIN traces
           E(it, s) == IF s = {} THEN 0 ELSE it[s \ {Max(s)}] + traces[Max(s)].kept
           Fits(it) == it = [s \in SUBSET D |-> E(it, s)]
           iter == CHOOSE it : Fits(it)
           h == [s \in SUBSET {1} |-> IF s = {} THEN 0 ELSE trace.kept]
<1>1. D = {1} /\ traces[1] = trace
  OBVIOUS
<1> HIDE DEF traces
<1>2. FoldLeft(LAMBDA n, t : n + t.kept, 0, traces) = iter[D]
  BY DEF FoldLeft, MapThenFoldSet
<1>3. Max({1}) = 1 /\ {1} \ {1} = {} /\ \A s \in SUBSET {1} : s = {} \/ s = {1}
  <2>1. {1} \in SUBSET Int /\ 1 \in {1} /\ \A x \in {1} : x <= 1
    OBVIOUS
  <2>2. Max({1}) = 1
    BY <2>1, MaxIs
  <2> QED BY <2>2
<1>4. Fits(h)
  <2>1. ASSUME NEW s \in SUBSET {1} PROVE h[s] = E(h, s)
    <3>1. CASE s = {}
      BY <3>1
    <3>2. CASE s = {1}
      <4>1. h[{}] = 0 /\ h[{1}] = trace.kept
        OBVIOUS
      <4>2. E(h, {1}) = h[{}] + trace.kept
        BY <1>1, <1>3
      <4> QED BY <3>2, <4>1, <4>2
    <3> QED BY <1>3, <3>1, <3>2
  <2>2. h = [s \in SUBSET {1} |-> h[s]]
    OBVIOUS
  <2> HIDE DEF E, h
  <2> QED BY <1>1, <2>1, <2>2
<1>5. Fits(iter)
  <2> HIDE DEF Fits
  <2> QED BY <1>4
<1>6. \A s \in SUBSET D : iter[s] = E(iter, s)
  <2> HIDE DEF E
  <2>1. iter = [s \in SUBSET D |-> E(iter, s)]
    BY <1>5
  <2> HIDE DEF iter
  <2> QED BY <2>1
<1> HIDE DEF iter
<1>7. iter[{}] = 0 /\ iter[{1}] = iter[{}] + trace.kept
  <2>1. {} \in SUBSET D /\ {1} \in SUBSET D /\ {1} # {}
    BY <1>1
  <2>2. iter[{}] = E(iter, {}) /\ iter[{1}] = E(iter, {1})
    BY <1>6, <2>1
  <2>3. E(iter, {}) = 0
    OBVIOUS
  <2>4. E(iter, {1}) = iter[{1} \ {Max({1})}] + traces[Max({1})].kept
    BY <2>1
  <2>5. E(iter, {1}) = iter[{}] + trace.kept
    BY <1>1, <1>3, <2>4
  <2> QED BY <2>2, <2>3, <2>5
<1>8. iter[D] = trace.kept
  BY <1>1, <1>7
<1> QED BY <1>2, <1>8 DEF traces

-----------------------------------------------------------------------------
(* A session that is one unbroken chain is accepted exactly when its own   *)
(* rules and those of its one trace find nothing.                          *)
LEMMA ChainIsJudged ==
  ASSUME NEW C, NEW session, NEW conf, NEW cs \in Seq(C),
         cs = Stitched(session, conf.glue), Len(cs) = Len(session), Len(cs) > 0,
         \A i \in 1 .. Len(cs) : Kept(cs[i]) /\ cs[i].prompt # <<>>,
         \A i \in 2 .. Len(cs) : IsPrefix(cs[i - 1].prompt, cs[i].prompt),
         NEW trace, trace = FinalizeChain(cs, conf), trace.kept = Len(cs), ~trace.truncated
  PROVE  /\ Trajectory(session, conf).traces = <<trace>>
         /\ Accepted(Trajectory(session, conf)) <=>
              /\ ~SessionRefused(session, conf)
              /\ \A i \in DOMAIN session : session[i].finish # "abort"
              /\ RunTraceChecks(trace)
<1> DEFINE n      == Len(cs)
           kept   == Filtered(cs)
           chains == Group(kept)
           traces == [k \in DOMAIN chains |-> FinalizeChain(chains[k], conf)]
           all    == Trajectory(session, conf)
           aborted == \E i \in DOMAIN session : session[i].finish = "abort"
<1>1. all = Judged(session, kept, traces, conf)
  BY TrajectoryIs
<1>2. kept = cs
  <2>1. DOMAIN cs = 1 .. n
    OBVIOUS
  <2> QED BY <2>1, AllKept
<1>3. chains = <<cs>>
  BY <1>2, ChainedIsOne
<1>4. n \in Nat /\ n > 0 /\ Len(session) = n /\ cs # <<>>
  OBVIOUS
<1> HIDE DEF all, kept, chains, traces, n
<1>5. traces = <<trace>>
  <2>1. DOMAIN chains = 1 .. 1 /\ chains[1] = cs
    BY <1>3
  <2>2. traces = [k \in 1 .. 1 |-> FinalizeChain(chains[k], conf)]
    BY <2>1 DEF traces
  <2>3. traces = [k \in 1 .. 1 |-> trace]
    BY <2>1, <2>2
  <2> QED BY <2>3
<1>6. /\ all.traces = <<trace>>
      /\ all.refused = (SessionRefused(session, conf) \/ Len(kept) < Len(session))
      /\ all.status = IF kept = <<>> \/ all.refused \/ aborted THEN "ERROR" ELSE "COMPLETED"
      /\ all.stats = [total |-> Len(traces),
                      truncated |-> Cardinality({k \in DOMAIN traces : traces[k].truncated}),
                      raw |-> Len(session), completions |-> Len(kept),
                      merged |-> FoldLeft(LAMBDA m, t : m + t.kept, 0, traces)]
  BY <1>1, <1>5 DEF Judged
<1>7. all.refused = SessionRefused(session, conf)
  <2>1. ~(Len(kept) < Len(session))
    BY <1>2, <1>4 DEF n
  <2>2. SessionRefused(session, conf) \in BOOLEAN
    BY DEF SessionRefused
  <2> QED BY <1>6, <2>1, <2>2
<1>8. all.status = "COMPLETED" <=> ~all.refused /\ ~aborted
  BY <1>2, <1>4, <1>6
<1>9. CheckChainSnapshot(all.stats)
  <2>1. Len(traces) = 1 /\ \A k \in DOMAIN traces : k = 1 /\ traces[k] = trace
    BY <1>5
  <2>2. Cardinality({k \in DOMAIN traces : traces[k].truncated}) = 0
    <3>1. {k \in DOMAIN traces : traces[k].truncated} = {}
      BY <2>1
    <3>2. Cardinality({}) = 0
      BY FS_EmptySet
    <3> QED BY <3>1, <3>2
  <2>3. FoldLeft(LAMBDA m, t : m + t.kept, 0, <<trace>>) = trace.kept
    <3>1. trace.kept \in Nat
      BY <1>4 DEF n
    <3> QED BY <3>1, SumOfOne
  <2>4. FoldLeft(LAMBDA m, t : m + t.kept, 0, traces) = n
    BY <1>5, <2>3 DEF n
  <2> DEFINE merged == FoldLeft(LAMBDA m, t : m + t.kept, 0, traces)
             truncated == Cardinality({k \in DOMAIN traces : traces[k].truncated})
  <2> HIDE DEF merged, truncated
  <2>5. all.stats = [total |-> Len(traces), truncated |-> truncated, raw |-> Len(session),
                     completions |-> Len(kept), merged |-> merged]
    BY <1>6 DEF merged, truncated
  <2>6. truncated = 0 /\ merged = n /\ Len(kept) = n
    BY <1>2, <2>2, <2>4 DEF merged, truncated, n
  <2> QED BY <1>4, <2>1, <2>5, <2>6 DEF CheckChainSnapshot
<1>10. Accepted(all) <=> ~SessionRefused(session, conf) /\ ~aborted /\ RunTraceChecks(trace)
  <2>1. DOMAIN all.traces = 1 .. 1 /\ all.traces[1] = trace /\ all.traces # <<>>
    <3>1. DOMAIN <<trace>> = 1 .. 1 /\ <<trace>>[1] = trace /\ <<trace>> # <<>>
      OBVIOUS
    <3>2. all.traces = <<trace>>
      BY <1>6
    <3> QED BY <3>1, <3>2, Zenon
  <2>2. Admitted(all) <=> ~SessionRefused(session, conf) /\ ~aborted
    BY <1>7, <1>8, <2>1 DEF Admitted
  <2>3. (\A k \in DOMAIN all.traces : RunTraceChecks(all.traces[k])) <=> RunTraceChecks(trace)
    BY <2>1
  <2> QED BY <1>9, <2>2, <2>3 DEF Accepted
<1> QED BY <1>6, <1>10 DEF all

-----------------------------------------------------------------------------
(* Joined sequences.                                                       *)
LEMMA PrefixOf ==
  ASSUME NEW T, NEW s \in Seq(T), NEW r \in Seq(T)
  PROVE  IsPrefix(s, s \o r) /\ SubSeq(s \o r, 1, Len(s)) = s
<1> DEFINE t == s \o r
           n == Len(s)
           u == SubSeq(t, 1, n)
<1>1. t \in Seq(T) /\ n \in Nat /\ n <= Len(t) /\ \A i \in 1 .. n : t[i] = s[i]
  OBVIOUS
<1> HIDE DEF t
<1>2. u \in Seq(T) /\ Len(u) = n /\ \A i \in 1 .. n : u[i] = s[i]
  BY <1>1
<1> HIDE DEF u
<1>3. u = s
  BY <1>2
<1>4. SubSeq(s, 1, n) = s
  OBVIOUS
<1> QED BY <1>1, <1>3, <1>4 DEF IsPrefix, u, t

(* The second of two joined sequences is a suffix.                         *)
LEMMA SuffixOf ==
  ASSUME NEW T, NEW s \in Seq(T), NEW r \in Seq(T)
  PROVE  IsSuffix(s, r \o s)
<1> DEFINE t == r \o s
           n == Len(s)
           m == Len(t)
           a == Reverse(s)
           b == Reverse(t)
<1>1. t \in Seq(T) /\ n \in Nat /\ m \in Nat /\ m = Len(r) + n /\ Len(r) \in Nat
      /\ \A i \in 1 .. n : t[Len(r) + i] = s[i]
  OBVIOUS
<1> HIDE DEF t
<1>2. a = [i \in 1 .. n |-> s[(n - i) + 1]] /\ b = [i \in 1 .. m |-> t[(m - i) + 1]]
  BY DEF Reverse
<1>3. \A i \in 1 .. n : (n - i) + 1 \in 1 .. n
  BY <1>1
<1>4. \A i \in 1 .. m : (m - i) + 1 \in 1 .. m
  BY <1>1
<1>5. a \in Seq(T) /\ Len(a) = n
  <2>1. \A i \in 1 .. n : s[(n - i) + 1] \in T
    BY <1>3
  <2> HIDE DEF a
  <2> QED BY <1>1, <1>2, <2>1
<1>6. b \in Seq(T) /\ Len(b) = m
  <2>1. \A i \in 1 .. m : t[(m - i) + 1] \in T
    BY <1>1, <1>4
  <2> HIDE DEF b, m
  <2> QED BY <1>1, <1>2, <2>1
<1>7. \A i \in 1 .. n : a[i] = b[i]
  <2> SUFFICES ASSUME NEW i \in 1 .. n PROVE a[i] = b[i]
    OBVIOUS
  <2>1. i \in 1 .. m /\ (m - i) + 1 = Len(r) + ((n - i) + 1)
    BY <1>1
  <2>2. t[(m - i) + 1] = s[(n - i) + 1]
    BY <1>1, <1>3, <2>1
  <2> HIDE DEF a, b, m, n
  <2> QED BY <1>2, <2>1, <2>2
<1> HIDE DEF a, b, m, n
<1>8. SubSeq(a, 1, Len(a)) = SubSeq(b, 1, Len(a))
  <2> DEFINE u == SubSeq(a, 1, n)
             v == SubSeq(b, 1, n)
  <2>1. u \in Seq(T) /\ Len(u) = n /\ \A i \in 1 .. n : u[i] = a[i]
    BY <1>1, <1>5
  <2>2. v \in Seq(T) /\ Len(v) = n /\ \A i \in 1 .. n : v[i] = b[i]
    BY <1>1, <1>6
  <2> HIDE DEF u, v
  <2>3. u = v
    BY <1>7, <2>1, <2>2
  <2> QED BY <1>5, <2>3 DEF u, v
<1> QED BY <1>1, <1>5, <1>6, <1>8 DEF IsSuffix, IsPrefix, a, b, t

(* Where the members of a suffix stand.                                    *)
LEMMA SuffixIs ==
  ASSUME NEW T, NEW s \in Seq(T), NEW t \in Seq(T), IsSuffix(s, t)
  PROVE  /\ Len(s) <= Len(t)
         /\ \A i \in 1 .. Len(s) : s[i] = t[Len(t) - Len(s) + i]
<1> DEFINE n == Len(s)
           m == Len(t)
           a == Reverse(s)
           b == Reverse(t)
<1>1. n \in Nat /\ m \in Nat /\ n <= m
  BY SuffixLen
<1>2. a = [i \in 1 .. n |-> s[(n - i) + 1]] /\ b = [i \in 1 .. m |-> t[(m - i) + 1]]
  BY DEF Reverse
<1>3. \A i \in 1 .. n : (n - i) + 1 \in 1 .. n
  BY <1>1
<1>4. \A i \in 1 .. m : (m - i) + 1 \in 1 .. m
  BY <1>1
<1>5. a \in Seq(T) /\ Len(a) = n
  <2>1. \A i \in 1 .. n : s[(n - i) + 1] \in T
    BY <1>3
  <2> HIDE DEF a
  <2> QED BY <1>1, <1>2, <2>1
<1>6. b \in Seq(T) /\ Len(b) = m
  <2>1. \A i \in 1 .. m : t[(m - i) + 1] \in T
    BY <1>4
  <2> HIDE DEF b
  <2> QED BY <1>1, <1>2, <2>1
<1>7. SubSeq(a, 1, n) = SubSeq(b, 1, n)
  <2> HIDE DEF a, b, n
  <2> QED BY <1>5 DEF IsSuffix, IsPrefix, a, b
<1> HIDE DEF a, b
<1>8. \A i \in 1 .. n : a[i] = b[i]
  <2>1. \A i \in 1 .. n : SubSeq(a, 1, n)[i] = a[i] /\ SubSeq(b, 1, n)[i] = b[i]
    BY <1>1, <1>5, <1>6
  <2> QED BY <1>7, <2>1
<1>9. ASSUME NEW i \in 1 .. n PROVE s[i] = t[m - n + i]
  <2> DEFINE j == (n - i) + 1
  <2>1. j \in 1 .. n /\ j \in 1 .. m /\ (n - j) + 1 = i /\ (m - j) + 1 = m - n + i
    BY <1>1
  <2> HIDE DEF j
  <2>2. a[j] = s[i] /\ b[j] = t[m - n + i]
    <3>1. a[j] = s[(n - j) + 1] /\ b[j] = t[(m - j) + 1]
      BY <1>2, <2>1
    <3> QED BY <2>1, <3>1
  <2> QED BY <1>8, <2>1, <2>2
<1> QED BY <1>1, <1>9

(* Joining is associative; these names let a prover cite it for given      *)
(* sequences.                                                              *)
Assoc(a, b, c) == (a \o b) \o c = a \o (b \o c)
Groups(a, b, c, d, e) == a \o b \o c \o d \o e = (a \o b) \o (c \o (d \o e))

(* Joining is associative.                                                 *)
LEMMA Associative ==
  ASSUME NEW T, NEW a \in Seq(T), NEW b \in Seq(T), NEW c \in Seq(T)
  PROVE  Assoc(a, b, c)
BY ConcatAssociative DEF Assoc

(* Five joined sequences, grouped as the stitch groups them.               *)
LEMMA Regrouped ==
  ASSUME NEW T, NEW a \in Seq(T), NEW b \in Seq(T), NEW c \in Seq(T), NEW d \in Seq(T),
         NEW e \in Seq(T)
  PROVE  Groups(a, b, c, d, e)
<1>1. \A x, y \in Seq(T) : x \o y \in Seq(T)
  OBVIOUS
<1> DEFINE ab  == a \o b
           abc == ab \o c
           de  == d \o e
<1>3. ab \in Seq(T) /\ abc \in Seq(T) /\ de \in Seq(T)
  BY <1>1
<1> HIDE DEF ab
<1>4. Assoc(abc, d, e)
  <2> HIDE DEF abc
  <2> QED BY <1>3, Associative, Zenon
<1>5. Assoc(ab, c, de)
  <2> HIDE DEF de, abc
  <2> QED BY <1>3, Associative, Zenon
<1>6. (abc \o d) \o e = abc \o (d \o e)
  BY <1>4 DEF Assoc
<1>7. (ab \o c) \o de = ab \o (c \o de)
  BY <1>5 DEF Assoc
<1> QED BY <1>6, <1>7 DEF ab, Groups

(* A sequence with the members of two in their places is the two joined.   *)
LEMMA JoinIs ==
  ASSUME NEW T, NEW s \in Seq(T), NEW r \in Seq(T), NEW t \in Seq(T),
         Len(t) = Len(s) + Len(r), \A i \in 1 .. Len(s) : t[i] = s[i],
         \A i \in 1 .. Len(r) : t[Len(s) + i] = r[i]
  PROVE  s \o r = t
<1> DEFINE u == s \o r
<1>1. u \in Seq(T) /\ Len(u) = Len(s) + Len(r)
      /\ \A i \in 1 .. Len(s) + Len(r) : u[i] = IF i <= Len(s) THEN s[i] ELSE r[i - Len(s)]
  BY ConcatProperties
<1> HIDE DEF u
<1>2. \A i \in 1 .. Len(t) : u[i] = t[i]
  <2> SUFFICES ASSUME NEW i \in 1 .. Len(t) PROVE u[i] = t[i]
    OBVIOUS
  <2>1. CASE i <= Len(s)
    BY <1>1, <2>1
  <2>2. CASE ~(i <= Len(s))
    <3>1. i - Len(s) \in 1 .. Len(r) /\ Len(s) + (i - Len(s)) = i
      BY <2>2
    <3>2. t[Len(s) + (i - Len(s))] = r[i - Len(s)]
      BY <3>1
    <3> QED BY <1>1, <2>2, <3>1, <3>2
  <2> QED BY <2>1, <2>2
<1>3. u = t
  BY <1>1, <1>2
<1> QED BY <1>3 DEF u

(* Short sequences joined, member by member.                               *)
LEMMA OneOne ==
  ASSUME NEW T, NEW a \in T, NEW b \in T
  PROVE  <<a>> \o <<b>> = <<a, b>>
<1> DEFINE u   == <<a>>
           v   == <<b>>
           all == <<a, b>>
<1>1. u \in Seq(T) /\ v \in Seq(T) /\ all \in Seq(T)
  OBVIOUS
<1>2. Len(u) = 1 /\ Len(v) = 1 /\ Len(all) = 2
  OBVIOUS
<1>3. (\A i \in 1 .. 1 : all[i] = u[i]) /\ (\A i \in 1 .. 1 : all[1 + i] = v[i])
  OBVIOUS
<1> HIDE DEF u, v, all
<1>4. /\ Len(all) = Len(u) + Len(v) /\ \A i \in 1 .. Len(u) : all[i] = u[i]
      /\ \A i \in 1 .. Len(v) : all[Len(u) + i] = v[i]
  BY <1>2, <1>3
<1>5. u \o v = all
  BY <1>1, <1>4, JoinIs
<1> QED BY <1>5 DEF u, v, all

(* One and two.                                                            *)
LEMMA OneTwo ==
  ASSUME NEW T, NEW a \in T, NEW b \in T, NEW c \in T
  PROVE  <<a>> \o <<b, c>> = <<a, b, c>>
<1> DEFINE u   == <<a>>
           v   == <<b, c>>
           all == <<a, b, c>>
<1>1. u \in Seq(T) /\ v \in Seq(T) /\ all \in Seq(T)
  OBVIOUS
<1>2. Len(u) = 1 /\ Len(v) = 2 /\ Len(all) = 3
  OBVIOUS
<1>3. (\A i \in 1 .. 1 : all[i] = u[i]) /\ (\A i \in 1 .. 2 : all[1 + i] = v[i])
  OBVIOUS
<1> HIDE DEF u, v, all
<1>4. /\ Len(all) = Len(u) + Len(v) /\ \A i \in 1 .. Len(u) : all[i] = u[i]
      /\ \A i \in 1 .. Len(v) : all[Len(u) + i] = v[i]
  BY <1>2, <1>3
<1>5. u \o v = all
  BY <1>1, <1>4, JoinIs
<1> QED BY <1>5 DEF u, v, all

(* Two and one.                                                            *)
LEMMA TwoOne ==
  ASSUME NEW T, NEW a \in T, NEW b \in T, NEW c \in T
  PROVE  <<a, b>> \o <<c>> = <<a, b, c>>
<1> DEFINE u   == <<a, b>>
           v   == <<c>>
           all == <<a, b, c>>
<1>1. u \in Seq(T) /\ v \in Seq(T) /\ all \in Seq(T)
  OBVIOUS
<1>2. Len(u) = 2 /\ Len(v) = 1 /\ Len(all) = 3
  OBVIOUS
<1>3. (\A i \in 1 .. 2 : all[i] = u[i]) /\ (\A i \in 1 .. 1 : all[2 + i] = v[i])
  OBVIOUS
<1> HIDE DEF u, v, all
<1>4. /\ Len(all) = Len(u) + Len(v) /\ \A i \in 1 .. Len(u) : all[i] = u[i]
      /\ \A i \in 1 .. Len(v) : all[Len(u) + i] = v[i]
  BY <1>2, <1>3
<1>5. u \o v = all
  BY <1>1, <1>4, JoinIs
<1> QED BY <1>5 DEF u, v, all

(* Two and two.                                                            *)
LEMMA TwoTwo ==
  ASSUME NEW T, NEW a \in T, NEW b \in T, NEW c \in T,
         NEW d \in T
  PROVE  <<a, b>> \o <<c, d>> = <<a, b, c, d>>
<1> DEFINE u   == <<a, b>>
           v   == <<c, d>>
           all == <<a, b, c, d>>
<1>1. u \in Seq(T) /\ v \in Seq(T) /\ all \in Seq(T)
  OBVIOUS
<1>2. Len(u) = 2 /\ Len(v) = 2 /\ Len(all) = 4
  OBVIOUS
<1>3. (\A i \in 1 .. 2 : all[i] = u[i]) /\ (\A i \in 1 .. 2 : all[2 + i] = v[i])
  OBVIOUS
<1> HIDE DEF u, v, all
<1>4. /\ Len(all) = Len(u) + Len(v) /\ \A i \in 1 .. Len(u) : all[i] = u[i]
      /\ \A i \in 1 .. Len(v) : all[Len(u) + i] = v[i]
  BY <1>2, <1>3
<1>5. u \o v = all
  BY <1>1, <1>4, JoinIs
<1> QED BY <1>5 DEF u, v, all

(* Three and one.                                                          *)
LEMMA ThreeOne ==
  ASSUME NEW T, NEW a \in T, NEW b \in T, NEW c \in T,
         NEW d \in T
  PROVE  <<a, b, c>> \o <<d>> = <<a, b, c, d>>
<1> DEFINE u   == <<a, b, c>>
           v   == <<d>>
           all == <<a, b, c, d>>
<1>1. u \in Seq(T) /\ v \in Seq(T) /\ all \in Seq(T)
  OBVIOUS
<1>2. Len(u) = 3 /\ Len(v) = 1 /\ Len(all) = 4
  OBVIOUS
<1>3. (\A i \in 1 .. 3 : all[i] = u[i]) /\ (\A i \in 1 .. 1 : all[3 + i] = v[i])
  OBVIOUS
<1> HIDE DEF u, v, all
<1>4. /\ Len(all) = Len(u) + Len(v) /\ \A i \in 1 .. Len(u) : all[i] = u[i]
      /\ \A i \in 1 .. Len(v) : all[Len(u) + i] = v[i]
  BY <1>2, <1>3
<1>5. u \o v = all
  BY <1>1, <1>4, JoinIs
<1> QED BY <1>5 DEF u, v, all

(* Three and two.                                                          *)
LEMMA ThreeTwo ==
  ASSUME NEW T, NEW a \in T, NEW b \in T, NEW c \in T,
         NEW d \in T, NEW e \in T
  PROVE  <<a, b, c>> \o <<d, e>> = <<a, b, c, d, e>>
<1> DEFINE u   == <<a, b, c>>
           v   == <<d, e>>
           all == <<a, b, c, d, e>>
<1>1. u \in Seq(T) /\ v \in Seq(T) /\ all \in Seq(T)
  OBVIOUS
<1>2. Len(u) = 3 /\ Len(v) = 2 /\ Len(all) = 5
  OBVIOUS
<1>3. (\A i \in 1 .. 3 : all[i] = u[i]) /\ (\A i \in 1 .. 2 : all[3 + i] = v[i])
  OBVIOUS
<1> HIDE DEF u, v, all
<1>4. /\ Len(all) = Len(u) + Len(v) /\ \A i \in 1 .. Len(u) : all[i] = u[i]
      /\ \A i \in 1 .. Len(v) : all[Len(u) + i] = v[i]
  BY <1>2, <1>3
<1>5. u \o v = all
  BY <1>1, <1>4, JoinIs
<1> QED BY <1>5 DEF u, v, all

(* Four and two.                                                           *)
LEMMA FourTwo ==
  ASSUME NEW T, NEW a \in T, NEW b \in T, NEW c \in T,
         NEW d \in T, NEW e \in T, NEW f \in T
  PROVE  <<a, b, c, d>> \o <<e, f>> = <<a, b, c, d, e, f>>
<1> DEFINE u   == <<a, b, c, d>>
           v   == <<e, f>>
           all == <<a, b, c, d, e, f>>
<1>1. u \in Seq(T) /\ v \in Seq(T) /\ all \in Seq(T)
  OBVIOUS
<1>2. Len(u) = 4 /\ Len(v) = 2 /\ Len(all) = 6
  OBVIOUS
<1>3. (\A i \in 1 .. 4 : all[i] = u[i]) /\ (\A i \in 1 .. 2 : all[4 + i] = v[i])
  OBVIOUS
<1> HIDE DEF u, v, all
<1>4. /\ Len(all) = Len(u) + Len(v) /\ \A i \in 1 .. Len(u) : all[i] = u[i]
      /\ \A i \in 1 .. Len(v) : all[Len(u) + i] = v[i]
  BY <1>2, <1>3
<1>5. u \o v = all
  BY <1>1, <1>4, JoinIs
<1> QED BY <1>5 DEF u, v, all

-----------------------------------------------------------------------------
(* A turn that goes on from the one before.                                *)

Past(glue) == IF glue = <<>> THEN Header ELSE <<"header">>

(* What a prompt adds to the one before: the reply as the template renders *)
(* it, the answer to it and the generation prompt.                         *)
Shown(reply) == Rendered[reply] \o <<"answer">> \o Header

(* What the next prompt shows of each reply, token by token.               *)
LEMMA ShownIs ==
  /\ Shown("whole")    = <<"w", "eot", "answer", "header", "glue">>
  /\ Shown("drifting") = <<"w", "vv", "eot", "answer", "header", "glue">>
  /\ Shown("cut")      = <<"w", "eot", "answer", "header", "glue">>
  /\ \A glue : Between(glue) = <<"answer", "header", "glue">>
<1> DEFINE T == Vocabulary
<1>0. /\ "w" \in T /\ "vv" \in T /\ "eot" \in T /\ "answer" \in T /\ "header" \in T /\ "glue" \in T
  BY DEF Vocabulary
<1> HIDE DEF T
<1>1. /\ Rendered["whole"] = <<"w", "eot">> /\ Rendered["drifting"] = <<"w", "vv", "eot">>
      /\ Rendered["cut"] = <<"w", "eot">>
  BY DEF Rendered, Eot
<1>2. /\ <<"w", "eot">> \o <<"answer">> = <<"w", "eot", "answer">>
      /\ <<"w", "eot", "answer">> \o <<"header", "glue">> = <<"w", "eot", "answer", "header", "glue">>
  BY <1>0, TwoOne, ThreeTwo
<1>3. /\ <<"w", "vv", "eot">> \o <<"answer">> = <<"w", "vv", "eot", "answer">>
      /\ <<"w", "vv", "eot", "answer">> \o <<"header", "glue">> =
           <<"w", "vv", "eot", "answer", "header", "glue">>
  BY <1>0, ThreeOne, FourTwo
<1>4. <<"answer">> \o <<"header", "glue">> = <<"answer", "header", "glue">>
  BY <1>0, OneTwo
<1> QED BY <1>1, <1>2, <1>3, <1>4, Zenon DEF Shown, Header, Between

Replies == {"whole", "drifting", "cut"}

(* The three replies: what was sampled, what is rendered, what is shown of *)
(* each.                                                                   *)
LEMMA RepliesAre ==
  /\ DOMAIN Sampled = Replies
  /\ Sampled["whole"] = <<"w", "eot">> /\ Sampled["drifting"] = <<"w", "v", "v", "eot">>
  /\ Sampled["cut"] = <<"w">>
  /\ \A r \in Replies : /\ Sampled[r] \in Seq(Vocabulary) /\ Len(Sampled[r]) \in 1 .. 4
                        /\ Rendered[r] \in Seq(Vocabulary) /\ Shown(r) \in Seq(Vocabulary)
                        /\ Len(Shown(r)) \in 5 .. 6
<1>0. /\ "w" \in Vocabulary /\ "v" \in Vocabulary /\ "vv" \in Vocabulary /\ "eot" \in Vocabulary
      /\ "answer" \in Vocabulary /\ "header" \in Vocabulary /\ "glue" \in Vocabulary
  BY DEF Vocabulary
<1>1. /\ Sampled["whole"] = <<"w", "eot">> /\ Sampled["drifting"] = <<"w", "v", "v", "eot">>
      /\ Sampled["cut"] = <<"w">> /\ DOMAIN Sampled = Replies
  BY DEF Sampled, Eot, Replies
<1>2. /\ Rendered["whole"] = <<"w", "eot">> /\ Rendered["drifting"] = <<"w", "vv", "eot">>
      /\ Rendered["cut"] = <<"w", "eot">>
  BY DEF Rendered, Eot
<1>3. /\ <<"w", "eot">> \in Seq(Vocabulary) /\ <<"w", "v", "v", "eot">> \in Seq(Vocabulary)
      /\ <<"w">> \in Seq(Vocabulary) /\ <<"w", "vv", "eot">> \in Seq(Vocabulary)
  BY <1>0
<1>4. /\ <<"w", "eot", "answer", "header", "glue">> \in Seq(Vocabulary)
      /\ <<"w", "vv", "eot", "answer", "header", "glue">> \in Seq(Vocabulary)
  BY <1>0
<1>5. /\ Len(<<"w", "eot">>) = 2 /\ Len(<<"w", "v", "v", "eot">>) = 4 /\ Len(<<"w">>) = 1
      /\ Len(<<"w", "eot", "answer", "header", "glue">>) = 5
      /\ Len(<<"w", "vv", "eot", "answer", "header", "glue">>) = 6
  OBVIOUS
<1>6. 1 \in 1 .. 4 /\ 2 \in 1 .. 4 /\ 4 \in 1 .. 4 /\ 5 \in 5 .. 6 /\ 6 \in 5 .. 6
  OBVIOUS
<1>7. \A r \in Replies : /\ Sampled[r] \in Seq(Vocabulary) /\ Len(Sampled[r]) \in 1 .. 4
                         /\ Rendered[r] \in Seq(Vocabulary)
  BY <1>1, <1>2, <1>3, <1>5, <1>6, Zenon DEF Replies
<1>8. \A r \in Replies : Shown(r) \in Seq(Vocabulary) /\ Len(Shown(r)) \in 5 .. 6
  BY <1>4, <1>5, <1>6, ShownIs, Zenon DEF Replies
<1> QED BY <1>1, <1>7, <1>8, Zenon

NextIs(prompt, next, reply, glue) ==
  /\ prompt \in Seq(Vocabulary) /\ next \in Seq(Vocabulary)
  /\ glue = <<>> => next = prompt \o Shown(reply)
  /\ glue # <<>> => /\ ExtendsUnglued(next, prompt, glue)
                    /\ Rest(next, Len(prompt) - Len(glue)) = Shown(reply)

(* What the prompt after a reply adds to the one that asked for it, with   *)
(* or without the glue.                                                    *)
LEMMA NextPrompt ==
  ASSUME NEW before \in Seq(Vocabulary), NEW reply \in Replies, NEW glue \in Glues,
         NEW prompt, prompt = before \o Header,
         NEW next, next = before \o Past(glue) \o Rendered[reply] \o <<"answer">> \o Header
  PROVE  NextIs(prompt, next, reply, glue)
<1> DEFINE T == Vocabulary
           p == Past(glue)
           r == Rendered[reply]
           a == <<"answer">>
           h == <<"header", "glue">>
           all == r \o (a \o h)
           g == <<"glue">>
           f == <<"header">>
<1>0. a \in Seq(T) /\ h \in Seq(T) /\ g \in Seq(T) /\ f \in Seq(T) /\ h = f \o g
  <2>1. "answer" \in T /\ "header" \in T /\ "glue" \in T
    BY DEF Vocabulary
  <2> HIDE DEF T
  <2>2. f \o g = h
    BY <2>1, OneOne
  <2>3. a \in Seq(T) /\ h \in Seq(T) /\ g \in Seq(T) /\ f \in Seq(T)
    BY <2>1
  <2> QED BY <2>2, <2>3
<1>10. Len(g) = 1
  OBVIOUS
<1>1. Header = h /\ r \in Seq(T)
  BY RepliesAre, Zenon DEF Header
<1>2. glue \in {<<>>, g} /\ (p = h \/ p = f) /\ p \in Seq(T)
  BY <1>0, <1>1, Zenon DEF Past, Glues
<1> HIDE DEF a, h, T
<1>3. all = Shown(reply) /\ all \in Seq(T) /\ Len(all) \in 5 .. 6
  <2>1. (r \o a) \o h = r \o (a \o h)
    <3> HIDE DEF r
    <3>1. Assoc(r, a, h)
      BY <1>0, <1>1, Associative, Zenon
    <3> QED BY <3>1 DEF Assoc
  <2>2. Shown(reply) \in Seq(T) /\ Len(Shown(reply)) \in 5 .. 6
    BY RepliesAre, Zenon DEF T
  <2> QED BY <1>1, <2>1, <2>2 DEF Shown, a
<1>4. next = (before \o p) \o all /\ prompt = before \o h
  <2>1. before \o p \o r \o a \o h = (before \o p) \o (r \o (a \o h))
    <3> HIDE DEF p, r
    <3>1. /\ before \in Seq(T) /\ p \in Seq(T) /\ r \in Seq(T) /\ a \in Seq(T) /\ h \in Seq(T)
      BY <1>0, <1>1, <1>2 DEF T
    <3>2. Groups(before, p, r, a, h)
      BY <3>1, Regrouped, Zenon
    <3> QED BY <3>2 DEF Groups
  <2> QED BY <1>1, <2>1 DEF a
<1> HIDE DEF all, p, r, g, f
<1>5. before \in Seq(T)
  BY DEF T
<1>6. before \o p \in Seq(T) /\ before \o h \in Seq(T)
  BY <1>0, <1>2, <1>5
<1>7. next \in Seq(T) /\ prompt \in Seq(T)
  <2> DEFINE bp == before \o p
  <2>1. bp \in Seq(T) /\ all \in Seq(T)
    BY <1>3, <1>6
  <2> HIDE DEF bp
  <2>2. bp \o all \in Seq(T)
    BY <2>1
  <2> QED BY <1>4, <1>6, <2>2 DEF bp
<1>8. CASE glue = <<>>
  BY <1>1, <1>3, <1>4, <1>7, <1>8 DEF p, Past, T, NextIs
<1>9. CASE glue # <<>>
  <2> DEFINE u == before \o f
  <2>1. glue = g /\ p = f
    BY <1>2, <1>9 DEF p, f, Past
  <2>2. u \in Seq(T) /\ next = u \o all
    BY <1>4, <1>6, <2>1
  <2>3. prompt = u \o g
    <3>1. Assoc(before, f, g)
      BY <1>0, <1>5, Associative, Zenon
    <3>2. (before \o f) \o g = before \o (f \o g)
      BY <3>1 DEF Assoc
    <3> QED BY <1>0, <1>4, <3>2
  <2> HIDE DEF u
  <2>4. /\ Len(u) \in Nat /\ Len(prompt) = Len(u) + Len(g)
        /\ Len(next) = Len(u) + Len(all)
    <3>1. u \in Seq(T) /\ g \in Seq(T) /\ all \in Seq(T)
      BY <1>0, <1>3, <2>2
    <3>2. /\ Len(u) \in Nat /\ Len(u \o g) = Len(u) + Len(g)
          /\ Len(u \o all) = Len(u) + Len(all)
      BY <3>1
    <3> QED BY <2>2, <2>3, <3>2
  <2>5. IsSuffix(g, prompt)
    BY <1>0, <2>2, <2>3, SuffixOf
  <2>6. Len(prompt) - Len(g) = Len(u)
    BY <1>0, <2>4
  <2>7. Unglued(prompt, g) = u
    <3>1. SubSeq(u \o g, 1, Len(u)) = u
      BY <1>0, <2>2, PrefixOf
    <3> QED BY <2>3, <2>6, <3>1 DEF Unglued
  <2>8. IsPrefix(u, next)
    BY <1>3, <2>2, PrefixOf
  <2>9. Rest(next, Len(u)) = all
    BY <1>3, <2>2, RestOfJoin
  <2>10. Len(next) > Len(prompt)
    <3> DEFINE l == Len(u)
               m == Len(all)
               k == Len(next)
               o == Len(prompt)
    <3>1. l \in Nat /\ m \in 5 .. 6 /\ k = l + m /\ o = l + 1
      BY <1>3, <1>10, <2>4
    <3> HIDE DEF l, m, k, o
    <3>2. k > o
      BY <3>1
    <3> QED BY <3>2 DEF k, o
  <2>11. ExtendsUnglued(next, prompt, g)
    BY <2>5, <2>7, <2>8, <2>10 DEF ExtendsUnglued
  <2> QED BY <1>3, <1>7, <1>9, <2>1, <2>6, <2>9, <2>11 DEF T, NextIs
<1> HIDE DEF p, r, a, h, all, g, f
<1> QED BY <1>8, <1>9 DEF NextIs

-----------------------------------------------------------------------------
(* What the agent's requests are.                                          *)

Generation(turns, k)    == IF turns[k].how = "think" THEN <<"header">> ELSE Header
History(turns, glue, k) == IF glue = <<>> THEN Generation(turns, k) ELSE <<"header">>

Request(turns, glue, k, last) ==
  IF k = 1 \/ turns[k].how = "compact"
    THEN [before |-> IF k = 1 THEN <<"system", "task">> ELSE <<"system", "summary">>,
          header |-> Generation(turns, k), past |-> History(turns, glue, k),
          messages |-> OpeningMessages]
  ELSE CASE turns[k].how = "retry" -> last
         [] turns[k].how = "discard" ->
              [before |-> last.before \o last.past \o <<Eot, "again">>,
               header |-> Generation(turns, k), past |-> History(turns, glue, k),
               messages |-> last.messages \o <<Said("assistant", ""), Said("user", "again")>>]
         [] OTHER ->
              [before |-> last.before \o last.past
                          \o Rendered[turns[k - 1].reply] \o <<"answer">>,
               header |-> Generation(turns, k), past |-> History(turns, glue, k),
               messages |-> last.messages \o <<Reply(turns[k - 1]), ToolAnswer(k - 1)>>]

Messages ==
  {Said("system", "system"), Said("user", "task"), Said("user", "again"), Said("assistant", ""),
   ToolAnswer(1)} \cup {[Said("assistant", "reply") EXCEPT !.calls = b] : b \in BOOLEAN}

Asked == [before : Seq(Vocabulary), header : Seq(Vocabulary), past : Seq(Vocabulary),
             messages : Seq(Messages)]

(* A record of these four is a request.                                    *)
LEMMA RequestMade ==
  ASSUME NEW b \in Seq(Vocabulary), NEW h \in Seq(Vocabulary), NEW p \in Seq(Vocabulary),
         NEW m \in Seq(Messages), NEW request,
         request = [before |-> b, header |-> h, past |-> p, messages |-> m]
  PROVE  request \in Asked
BY DEF Asked

(* A turn's own part of a request.                                         *)
LEMMA RequestOf ==
  ASSUME NEW turns, NEW glue, NEW k \in Nat \ {0}, NEW last \in Asked,
         k > 1 => turns[k - 1].reply \in Replies
  PROVE  Request(turns, glue, k, last) \in Asked
<1> DEFINE T == Vocabulary
<1>1. /\ "system" \in T /\ "task" \in T /\ "summary" \in T /\ "answer" \in T
      /\ "again" \in T /\ "header" \in T /\ "glue" \in T /\ "eot" \in T
  BY DEF Vocabulary
<1> HIDE DEF T
<1>2. /\ <<"system", "task">> \in Seq(T) /\ <<"system", "summary">> \in Seq(T)
      /\ <<"header">> \in Seq(T) /\ <<"header", "glue">> \in Seq(T) /\ <<"answer">> \in Seq(T)
      /\ <<"eot", "again">> \in Seq(T)
  BY <1>1
<1>3. Generation(turns, k) \in Seq(T) /\ History(turns, glue, k) \in Seq(T)
  BY <1>2, Zenon DEF Generation, History, Header
<1>4. /\ last.before \in Seq(T) /\ last.header \in Seq(T) /\ last.past \in Seq(T)
      /\ last.messages \in Seq(Messages)
  BY DEF Asked, T
<1> DEFINE Z == Messages
<1>5. /\ Said("system", "system") \in Z /\ Said("user", "task") \in Z
      /\ Said("user", "again") \in Z /\ Said("assistant", "") \in Z
  BY Zenon DEF Messages
<1>6. /\ ToolAnswer(k - 1) \in Z /\ Reply(turns[k - 1]) \in Z
  <2>1. ToolAnswer(k - 1) = ToolAnswer(1) /\ ToolAnswer(1) \in Z
    BY Zenon DEF ToolAnswer, Messages
  <2> DEFINE b == turns[k - 1].reply # "cut"
  <2>2. b \in BOOLEAN
    OBVIOUS
  <2>3. Reply(turns[k - 1]) = [Said("assistant", "reply") EXCEPT !.calls = b]
    BY DEF Reply
  <2> HIDE DEF b
  <2>4. Reply(turns[k - 1]) \in Z
    BY <2>2, <2>3, Zenon DEF Messages
  <2> QED BY <2>1, <2>4
<1> HIDE DEF Z
<1>7. OpeningMessages \in Seq(Z)
  <2> DEFINE s == Said("system", "system")
             u == Said("user", "task")
  <2>1. s \in Z /\ u \in Z /\ OpeningMessages = <<s, u>>
    BY <1>5 DEF OpeningMessages
  <2> HIDE DEF s, u
  <2>2. <<s, u>> \in Seq(Z)
    BY <2>1
  <2> QED BY <2>1, <2>2, Zenon
<1>8. ASSUME NEW x \in Z, NEW y \in Z
      PROVE  last.messages \o <<x, y>> \in Seq(Z)
  <2> DEFINE m == last.messages
             p == <<x, y>>
  <2>1. m \in Seq(Z) /\ p \in Seq(Z)
    BY <1>4 DEF Z
  <2> HIDE DEF m, p
  <2>2. m \o p \in Seq(Z)
    BY <2>1
  <2> QED BY <2>2 DEF m, p
<1>9. CASE k = 1 \/ turns[k].how = "compact"
  <2>1. Request(turns, glue, k, last) =
          [before |-> IF k = 1 THEN <<"system", "task">> ELSE <<"system", "summary">>,
           header |-> Generation(turns, k), past |-> History(turns, glue, k),
           messages |-> OpeningMessages]
    BY <1>9, Zenon DEF Request
  <2>2. (IF k = 1 THEN <<"system", "task">> ELSE <<"system", "summary">>) \in Seq(T)
    BY <1>2, Zenon
  <2> QED BY <1>3, <1>7, <2>1, <2>2, RequestMade, Zenon DEF T, Z
<1>10. CASE ~(k = 1 \/ turns[k].how = "compact")
  <2>0. k > 1
    BY <1>10
  <2>1. CASE turns[k].how = "retry"
    BY <1>10, <2>1 DEF Request
  <2>2. CASE turns[k].how = "discard"
    <3> DEFINE a == last.before
               b == last.past
               c == <<"eot", "again">>
    <3>1. Request(turns, glue, k, last) =
            [before |-> a \o b \o c,
             header |-> Generation(turns, k), past |-> History(turns, glue, k),
             messages |-> last.messages \o <<Said("assistant", ""), Said("user", "again")>>]
      BY <1>10, <2>2 DEF Request, Eot
    <3>2. a \in Seq(T) /\ b \in Seq(T) /\ c \in Seq(T)
      BY <1>2, <1>4
    <3> HIDE DEF a, b, c
    <3>3. a \o b \o c \in Seq(T)
      BY <3>2
    <3>4. last.messages \o <<Said("assistant", ""), Said("user", "again")>> \in Seq(Z)
      BY <1>5, <1>8, Zenon
    <3> QED BY <1>3, <3>1, <3>3, <3>4, RequestMade, Zenon DEF T, Z
  <2>3. CASE turns[k].how # "retry" /\ turns[k].how # "discard"
    <3> DEFINE a == last.before
               b == last.past
               r == Rendered[turns[k - 1].reply]
               c == <<"answer">>
    <3>1. Request(turns, glue, k, last) =
            [before |-> a \o b \o r \o c,
             header |-> Generation(turns, k), past |-> History(turns, glue, k),
             messages |-> last.messages \o <<Reply(turns[k - 1]), ToolAnswer(k - 1)>>]
      BY <1>10, <2>3 DEF Request
    <3>2. a \in Seq(T) /\ b \in Seq(T) /\ c \in Seq(T) /\ r \in Seq(T)
      BY <1>2, <1>4, <2>0, RepliesAre, Zenon DEF T
    <3> HIDE DEF a, b, c, r
    <3>3. a \o b \o r \o c \in Seq(T)
      BY <3>2
    <3>4. last.messages \o <<Reply(turns[k - 1]), ToolAnswer(k - 1)>> \in Seq(Z)
      BY <1>6, <1>8, Zenon
    <3> QED BY <1>3, <3>1, <3>3, <3>4, RequestMade, Zenon DEF T, Z
  <2> QED BY <2>1, <2>2, <2>3
<1> QED BY <1>9, <1>10

(* The requests of an episode, one after the other.                        *)
AskedInTurn(turns, glue, request) ==
  \A k \in DOMAIN turns : /\ request[k] \in Asked
                          /\ request[k] = Request(turns, glue, k, request[k - 1])

(* What is asked in each turn follows from what was asked in the turn      *)
(* before.                                                                 *)
LEMMA RequestedAre ==
  ASSUME NEW n \in Nat, NEW turns, DOMAIN turns = 1 .. n, NEW glue,
         \A k \in 1 .. n : turns[k].reply \in Replies
  PROVE  AskedInTurn(turns, glue, Requested(turns, glue))
<1> DEFINE F(p)  == [k \in DOMAIN turns |-> Request(turns, glue, k, p[k - 1])]
           request == CHOOSE p : p = F(p)
           W     == Asked
           step  == [p \in W \X (1 .. n) |-> Request(turns, glue, p[2], p[1])]
           first == [before |-> <<>>, header |-> <<>>, past |-> <<>>, messages |-> <<>>]
<1>1. Requested(turns, glue) = request
  BY DEF Requested, Request, Generation, History
<1>2. \A last \in W, k \in 1 .. n : Request(turns, glue, k, last) \in W
  <2> SUFFICES ASSUME NEW last \in Asked, NEW k \in 1 .. n
               PROVE  Request(turns, glue, k, last) \in Asked
    OBVIOUS
  <2>1. k \in Nat \ {0} /\ (k > 1 => turns[k - 1].reply \in Replies)
    OBVIOUS
  <2> QED BY <2>1, RequestOf
<1>3. first \in W
  <2>1. <<>> \in Seq(Vocabulary) /\ <<>> \in Seq(Messages)
    OBVIOUS
  <2> QED BY <2>1, Zenon DEF Asked
<1>4. step \in [W \X (1 .. n) -> W]
  <2> HIDE DEF W
  <2> QED BY <1>2
<1> HIDE DEF first
<1>5. PICK g \in [0 .. n -> W] : g[0] = first /\ \A i \in 1 .. n : g[i] = step[<<g[i - 1], i>>]
  <2> HIDE DEF step, W
  <2>1. Runs(n, W, first, step)
    BY <1>3, <1>4, RunExists
  <2> QED BY <2>1 DEF Runs
<1> HIDE DEF W
<1>6. \A i \in 1 .. n : g[i] = Request(turns, glue, i, g[i - 1]) /\ g[i] \in W
  <2> SUFFICES ASSUME NEW i \in 1 .. n
               PROVE  g[i] = Request(turns, glue, i, g[i - 1]) /\ g[i] \in W
    OBVIOUS
  <2>1. i \in 0 .. n /\ i - 1 \in 0 .. n
    OBVIOUS
  <2>2. g[i - 1] \in W /\ g[i] \in W
    BY <2>1
  <2> QED BY <1>5, <2>2
<1> HIDE DEF step
<1> DEFINE h == [k \in DOMAIN turns |-> g[k]]
<1>7. h = F(h)
  <2>1. ASSUME NEW k \in DOMAIN turns PROVE h[k] = Request(turns, glue, k, h[k - 1])
    <3>1. CASE k = 1
      <4>1. Request(turns, glue, 1, h[1 - 1]) = Request(turns, glue, 1, g[1 - 1])
        BY Zenon DEF Request
      <4> QED BY <1>6, <3>1, <4>1
    <3>2. CASE k # 1
      <4>1. k - 1 \in DOMAIN turns /\ k \in 1 .. n
        BY <3>2
      <4>2. h[k - 1] = g[k - 1] /\ h[k] = g[k]
        BY <4>1
      <4> QED BY <1>6, <4>1, <4>2
    <3> QED BY <3>1, <3>2
  <2> HIDE DEF h
  <2>2. h = [k \in DOMAIN turns |-> h[k]]
    BY DEF h
  <2> QED BY <2>1, <2>2
<1>8. request = F(request)
  <2> HIDE DEF F, h
  <2> QED BY <1>7
<1> HIDE DEF request
<1>9. \A k \in 1 .. n : request[k] = Request(turns, glue, k, request[k - 1])
  <2> DEFINE r == request
  <2>1. r = F(r)
    BY <1>8
  <2> HIDE DEF r
  <2>2. \A k \in 1 .. n : r[k] = Request(turns, glue, k, r[k - 1])
    BY <2>1
  <2> QED BY <2>2 DEF r
<1>10. CASE n > 0
  <2> DEFINE R == {i \in 1 .. n : request[i] = g[i]}
  <2>1. 1 \in R
    <3>1. 1 \in 1 .. n
      BY <1>10
    <3>2. Request(turns, glue, 1, request[1 - 1]) = Request(turns, glue, 1, g[1 - 1])
      BY Zenon DEF Request
    <3> QED BY <1>6, <1>9, <3>1, <3>2
  <2>2. ASSUME NEW i \in 1 + 1 .. n, i - 1 \in R PROVE i \in R
    <3>1. i \in 1 .. n /\ request[i - 1] = g[i - 1]
      BY <2>2
    <3> QED BY <1>6, <1>9, <3>1
  <2> HIDE DEF R
  <2>3. 1 .. n \subseteq R
    BY <1>10, <2>1, <2>2, Climb
  <2>4. \A k \in 1 .. n : request[k] \in W
    BY <1>6, <2>3 DEF R
  <2> QED BY <1>1, <1>9, <2>4 DEF W, AskedInTurn
<1>11. CASE n = 0
  BY <1>11 DEF AskedInTurn
<1> QED BY <1>10, <1>11

-----------------------------------------------------------------------------
(* What is captured of an episode.                                         *)

TurnLike(t) ==
  /\ t.how \in {"next", "retry", "compact", "discard", "think"}
  /\ t.reply \in Replies /\ t.capture \in Captures \cup {"whole"}
  /\ t.how # "next" => t.reply = "whole" /\ t.capture = "whole"
  /\ t.capture # "whole" => t.how = "next" /\ t.reply = "whole"

(* A turn has at most one thing out of the ordinary.                       *)
LEMMA TurnIs ==
  ASSUME NEW t \in Turns
  PROVE  TurnLike(t)
<1>1. CASE t \in {[how |-> "next", reply |-> r, capture |-> "whole"] : r \in DOMAIN Sampled}
  <2>1. PICK r \in Replies : t = [how |-> "next", reply |-> r, capture |-> "whole"]
    BY <1>1, RepliesAre
  <2> QED BY <2>1 DEF TurnLike
<1>2. CASE t \in {[how |-> h, reply |-> "whole", capture |-> "whole"] :
                    h \in {"retry", "compact", "discard", "think"}}
  <2>1. "whole" \in Replies
    BY DEF Replies
  <2> QED BY <1>2, <2>1 DEF TurnLike
<1>3. CASE t \in {[how |-> "next", reply |-> "whole", capture |-> c] : c \in Captures}
  <2>1. "whole" \in Replies
    BY DEF Replies
  <2> QED BY <1>3, <2>1 DEF TurnLike
<1> QED BY <1>1, <1>2, <1>3 DEF Turns

Data == {"tool_calls", "length", "abort", "agent", "side", "other", "v1", "v2",
         {"search"}, {"search", "write"}, Meta}
Values == Int \cup {NaN}
Records == Completions(Vocabulary, Values, Messages, Data)

(* The engine's logprobs are distinct negative numbers, but for the one    *)
(* token that was certain.                                                 *)
LEMMA LogprobsAre ==
  ASSUME NEW reply \in Replies, NEW k \in 1 .. MaxTurns
  PROVE  /\ Logprobs(k, reply) \in Seq(Int)
         /\ Len(Logprobs(k, reply)) = Len(Sampled[reply])
         /\ \A j \in 1 .. Len(Sampled[reply]) :
              /\ Logprobs(k, reply)[j] \in -(10 * MaxTurns + 4) .. 0
              /\ Logprobs(k, reply)[j] = 0 <=> reply = "drifting" /\ j = 3
<1> DEFINE s == Sampled[reply]
           n == Len(s)
           l == [j \in 1 .. n |-> IF reply = "drifting" /\ j = 3 THEN 0 ELSE -(10 * k + j)]
<1>1. s \in Seq(Vocabulary) /\ n \in 1 .. 4
  BY RepliesAre, Zenon
<1>2. DOMAIN s = 1 .. n
  <2> HIDE DEF s
  <2> QED BY <1>1
<1>3. Logprobs(k, reply) = l
  BY <1>2 DEF Logprobs
<1> HIDE DEF n, s
<1>4. MaxTurns \in Nat /\ k \in Nat /\ k >= 1 /\ k <= MaxTurns
  BY MaxTurnsAssumption
<1>5. \A j \in 1 .. n : l[j] \in Int /\ l[j] \in -(10 * MaxTurns + 4) .. 0
  BY <1>1, <1>4
<1>6. \A j \in 1 .. n : l[j] = 0 <=> reply = "drifting" /\ j = 3
  BY <1>1, <1>4
<1>7. l \in Seq(Int) /\ Len(l) = n
  BY <1>1, <1>5
<1> HIDE DEF l
<1> QED BY <1>3, <1>5, <1>6, <1>7 DEF n, s

(* What was really asked and answered in turn k.                           *)
AsAsked(record, turns, glue, k) ==
  LET request == Requested(turns, glue)[k]
      reply   == turns[k].reply
  IN  /\ record.prompt = request.before \o request.header
      /\ record.prompt \in Seq(Vocabulary)
      /\ record.response = Sampled[reply] /\ record.logprobs = Logprobs(k, reply)
      /\ record.finish = Ending[reply] /\ record.choices = 1 /\ record.shape = "agent"
      /\ record.cut = FALSE /\ record.tools = {"search"} /\ record.policy = "v1"
      /\ record.messages = request.messages /\ record.reply = Reply(turns[k])
      /\ record.meta = Meta

Sorted(turns) == /\ DOMAIN turns = 1 .. Len(turns) /\ Len(turns) \in 1 .. MaxTurns
                 /\ \A k \in 1 .. Len(turns) : TurnLike(turns[k])

(* A faithful record is a completion, with what was asked and sampled in   *)
(* its turn.                                                               *)
LEMMA FaithfulIs ==
  ASSUME NEW turns, Sorted(turns), NEW glue, NEW k \in 1 .. Len(turns)
  PROVE  /\ Faithful(turns, glue, k) \in Records
         /\ AsAsked(Faithful(turns, glue, k), turns, glue, k)
<1> DEFINE n == Len(turns)
           T == Vocabulary
           request == Requested(turns, glue)[k]
           reply == turns[k].reply
           record == Faithful(turns, glue, k)
           prompt == request.before \o request.header
<1>1. n \in Nat /\ DOMAIN turns = 1 .. n /\ \A i \in 1 .. n : turns[i].reply \in Replies
  BY DEF Sorted, TurnLike
<1>2. request \in Asked
  <2>1. AskedInTurn(turns, glue, Requested(turns, glue))
    BY <1>1, RequestedAre
  <2> QED BY <1>1, <2>1 DEF AskedInTurn
<1>3. prompt \in Seq(T) /\ request.messages \in Seq(Messages)
  <2> DEFINE b == request.before
             h == request.header
  <2>1. b \in Seq(T) /\ h \in Seq(T) /\ request.messages \in Seq(Messages)
    BY <1>2 DEF Asked
  <2> HIDE DEF b, h
  <2>2. b \o h \in Seq(T)
    BY <2>1
  <2> QED BY <2>1, <2>2 DEF b, h
<1> DEFINE l == Logprobs(k, reply)
           m == Reply(turns[k])
           e == Ending[reply]
           ms == request.messages
           body == Sampled[reply]
<1>4. record = [prompt |-> prompt, response |-> body, logprobs |-> l,
                finish |-> e, choices |-> 1, shape |-> "agent", cut |-> FALSE,
                tools |-> {"search"}, policy |-> "v1", messages |-> ms,
                reply |-> m, meta |-> Meta]
  BY DEF Faithful
<1>5. reply \in Replies /\ k \in 1 .. MaxTurns
  BY <1>1, MaxTurnsAssumption DEF Sorted
<1>6. body \in Seq(T) /\ e \in Data
  <2> HIDE DEF reply
  <2>1. body \in Seq(T)
    BY <1>5, RepliesAre, Zenon
  <2>2. e \in {"tool_calls", "length"}
    BY <1>5 DEF Ending, Replies
  <2> QED BY <2>1, <2>2 DEF Data
<1>7. l \in Seq(Values)
  <2> HIDE DEF reply
  <2>1. l \in Seq(Int)
    BY <1>5, LogprobsAre
  <2> HIDE DEF l
  <2> QED BY <2>1 DEF Values
<1>8. m \in Messages
  <2> DEFINE b == reply # "cut"
  <2>1. b \in BOOLEAN /\ m = [Said("assistant", "reply") EXCEPT !.calls = b]
    BY DEF Reply
  <2> HIDE DEF b, m
  <2> QED BY <2>1, Zenon DEF Messages
<1>9. /\ {"search"} \in Data /\ "v1" \in Data /\ "agent" \in Data /\ Meta \in Data
  BY Zenon DEF Data
<1>12. 1 \in Int /\ FALSE \in BOOLEAN
  OBVIOUS
<1>10. AsAsked(record, turns, glue, k)
  <2> HIDE DEF l, m, e, body, record
  <2> QED BY <1>3, <1>4 DEF AsAsked, l, m, e, body, T
<1> HIDE DEF l, m, e, ms, body, prompt, T, record
<1>11. record \in Records
  <2>1. ms \in Seq(Messages)
    BY <1>3 DEF ms
  <2> HIDE DEF request
  <2> QED BY <1>3, <1>4, <1>6, <1>7, <1>8, <1>9, <1>12, <2>1 DEF Records, Completions, T
<1> QED BY <1>10, <1>11 DEF record

(* What a capture does to a record.                                        *)
Shows(new, record, capture) ==
  /\ capture = "whole" \/ capture = "policy" =>
       /\ new.prompt = record.prompt /\ new.response = record.response
       /\ new.logprobs = record.logprobs /\ new.finish = record.finish
       /\ new.choices = record.choices /\ new.shape = record.shape /\ new.cut = record.cut
       /\ new.tools = record.tools /\ new.messages = record.messages
       /\ new.reply = record.reply /\ new.meta = record.meta
       /\ new.policy = IF capture = "policy" THEN "v2" ELSE record.policy
  /\ capture = "no prompt" => new.prompt = <<>>
  /\ capture = "no reply" \/ capture = "no choices" => new.response = <<>>
  /\ capture = "no logprobs" => new.response = record.response /\ new.logprobs = Missing
  /\ capture = "nan" => new.response = record.response /\ new.logprobs[1] = NaN
  /\ capture = "positive" => new.response = record.response /\ new.logprobs[1] = 1
  /\ capture = "sentinel" => new.response = record.response
                             /\ new.logprobs[1] = Policy.sentinel
  /\ capture = "two choices" => new.choices = 2
  /\ capture = "aborted" => new.finish = "abort"
  /\ capture = "shortened" => new.cut = TRUE
  /\ capture = "aside" => new.shape = "side"
  /\ capture = "not agent's" => new.shape = "other"
  /\ capture = "roster" => new.tools = {"search", "write"}

(* A distorted record is a completion, and shows what its capture did to   *)
(* it.                                                                     *)
LEMMA DistortedIs ==
  ASSUME NEW record \in Records, NEW capture \in Captures \cup {"whole"},
         record.logprobs \in Seq(Int), Len(record.logprobs) >= 1
  PROVE  /\ Distorted(record, capture) \in Records
         /\ Shows(Distorted(record, capture), record, capture)
<1> DEFINE new == Distorted(record, capture)
           l == record.logprobs
<1>1. /\ record \in [prompt : Seq(Vocabulary), response : Seq(Vocabulary),
                     logprobs : Seq(Values) \cup {Missing}, finish : Data,
                     choices : Int, shape : Data, cut : BOOLEAN, tools : Data, policy : Data,
                     messages : Seq(Messages), reply : Messages, meta : Data]
  BY DEF Records, Completions
<1>2. /\ <<>> \in Seq(Vocabulary) /\ 2 \in Int /\ 0 \in Int /\ TRUE \in BOOLEAN
  OBVIOUS
<1>3. /\ "abort" \in Data /\ "side" \in Data /\ "other" \in Data /\ "v2" \in Data
      /\ {"search", "write"} \in Data
  BY Zenon DEF Data
<1>4. \A v \in Values : [l EXCEPT ![1] = v] \in Seq(Values) /\ [l EXCEPT ![1] = v][1] = v
  <2> HIDE DEF l
  <2> SUFFICES ASSUME NEW v \in Values
               PROVE  [l EXCEPT ![1] = v] \in Seq(Values) /\ [l EXCEPT ![1] = v][1] = v
    OBVIOUS
  <2>1. l \in Seq(Values) /\ Len(l) \in Nat /\ Len(l) >= 1
    BY DEF l, Values
  <2> QED BY <2>1
<1>5. NaN \in Values /\ 1 \in Values /\ Policy.sentinel \in Values
  BY PolicyAssumption DEF Values
<1>6. Captures \cup {"whole"} =
        {"no prompt", "no reply", "no logprobs", "nan", "positive", "sentinel",
         "two choices", "no choices", "aborted", "shortened", "aside", "not agent's",
         "roster", "policy", "whole"}
  BY Zenon DEF Captures
<1> HIDE DEF new
<1>7. CASE capture = "no prompt"
  <2>1. new = [record EXCEPT !.prompt = <<>>]
    BY <1>7 DEF new, Distorted
  <2>2. new \in Records /\ new.prompt = <<>>
    BY <1>1, <1>2, <1>3, <2>1 DEF Records, Completions
  <2> QED BY <1>7, <2>2 DEF Shows, new
<1>8. CASE capture = "no reply"
  <2>1. new = [record EXCEPT !.response = <<>>, !.logprobs = Missing]
    BY <1>8 DEF new, Distorted
  <2>2. new \in Records /\ new.response = <<>>
    BY <1>1, <1>2, <1>3, <2>1 DEF Records, Completions
  <2> QED BY <1>8, <2>2 DEF Shows, new
<1>9. CASE capture = "no logprobs"
  <2>1. new = [record EXCEPT !.logprobs = Missing]
    BY <1>9 DEF new, Distorted
  <2>2. new \in Records /\ new.response = record.response /\ new.logprobs = Missing
    BY <1>1, <1>2, <1>3, <2>1 DEF Records, Completions
  <2> QED BY <1>9, <2>2 DEF Shows, new
<1>10. CASE capture = "two choices"
  <2>1. new = [record EXCEPT !.choices = 2]
    BY <1>10 DEF new, Distorted
  <2>2. new \in Records /\ new.choices = 2
    BY <1>1, <1>2, <1>3, <2>1 DEF Records, Completions
  <2> QED BY <1>10, <2>2 DEF Shows, new
<1>11. CASE capture = "no choices"
  <2>1. new = [record EXCEPT !.choices = 0, !.response = <<>>, !.logprobs = Missing]
    BY <1>11 DEF new, Distorted
  <2>2. new \in Records /\ new.response = <<>>
    BY <1>1, <1>2, <1>3, <2>1 DEF Records, Completions
  <2> QED BY <1>11, <2>2 DEF Shows, new
<1>12. CASE capture = "aborted"
  <2>1. new = [record EXCEPT !.finish = "abort"]
    BY <1>12 DEF new, Distorted
  <2>2. new \in Records /\ new.finish = "abort"
    BY <1>1, <1>2, <1>3, <2>1 DEF Records, Completions
  <2> QED BY <1>12, <2>2 DEF Shows, new
<1>13. CASE capture = "shortened"
  <2>1. new = [record EXCEPT !.cut = TRUE]
    BY <1>13 DEF new, Distorted
  <2>2. new \in Records /\ new.cut = TRUE
    BY <1>1, <1>2, <1>3, <2>1 DEF Records, Completions
  <2> QED BY <1>13, <2>2 DEF Shows, new
<1>14. CASE capture = "aside"
  <2>1. new = [record EXCEPT !.shape = "side"]
    BY <1>14 DEF new, Distorted
  <2>2. new \in Records /\ new.shape = "side"
    BY <1>1, <1>2, <1>3, <2>1 DEF Records, Completions
  <2> QED BY <1>14, <2>2 DEF Shows, new
<1>15. CASE capture = "not agent's"
  <2>1. new = [record EXCEPT !.shape = "other"]
    BY <1>15 DEF new, Distorted
  <2>2. new \in Records /\ new.shape = "other"
    BY <1>1, <1>2, <1>3, <2>1 DEF Records, Completions
  <2> QED BY <1>15, <2>2 DEF Shows, new
<1>16. CASE capture = "roster"
  <2>1. new = [record EXCEPT !.tools = {"search", "write"}]
    BY <1>16 DEF new, Distorted
  <2>2. new \in Records /\ new.tools = {"search", "write"}
    BY <1>1, <1>2, <1>3, <2>1 DEF Records, Completions
  <2> QED BY <1>16, <2>2 DEF Shows, new
<1>17. CASE capture = "nan"
  <2> DEFINE m == [l EXCEPT ![1] = NaN]
  <2>1. new = [record EXCEPT !.logprobs = m]
    BY <1>17 DEF new, Distorted
  <2>2. m \in Seq(Values) /\ m[1] = NaN
    BY <1>4, <1>5, Zenon
  <2> HIDE DEF m
  <2>3. new \in Records /\ new.response = record.response /\ new.logprobs = m
    BY <1>1, <2>1, <2>2 DEF Records, Completions
  <2> QED BY <1>17, <2>2, <2>3 DEF Shows, new
<1>18. CASE capture = "positive"
  <2> DEFINE m == [l EXCEPT ![1] = 1]
  <2>1. new = [record EXCEPT !.logprobs = m]
    BY <1>18 DEF new, Distorted
  <2>2. m \in Seq(Values) /\ m[1] = 1
    BY <1>4, <1>5, Zenon
  <2> HIDE DEF m
  <2>3. new \in Records /\ new.response = record.response /\ new.logprobs = m
    BY <1>1, <2>1, <2>2 DEF Records, Completions
  <2> QED BY <1>18, <2>2, <2>3 DEF Shows, new
<1>19. CASE capture = "sentinel"
  <2> DEFINE m == [l EXCEPT ![1] = Policy.sentinel]
  <2>1. new = [record EXCEPT !.logprobs = m]
    BY <1>19 DEF new, Distorted
  <2>2. m \in Seq(Values) /\ m[1] = Policy.sentinel
    BY <1>4, <1>5, Zenon
  <2> HIDE DEF m
  <2>3. new \in Records /\ new.response = record.response /\ new.logprobs = m
    BY <1>1, <2>1, <2>2 DEF Records, Completions
  <2> QED BY <1>19, <2>2, <2>3 DEF Shows, new
<1>20. CASE capture = "policy"
  <2>1. new = [record EXCEPT !.policy = "v2"]
    BY <1>20 DEF new, Distorted
  <2>2. new \in Records
    BY <1>1, <1>3, <2>1 DEF Records, Completions
  <2>3. Shows(new, record, capture)
    BY <1>1, <1>20, <2>1 DEF Shows
  <2> QED BY <2>2, <2>3 DEF new
<1>21. CASE capture = "whole"
  <2>1. new = record
    BY <1>21 DEF new, Distorted
  <2>2. Shows(new, record, capture)
    BY <1>21, <2>1 DEF Shows
  <2> QED BY <2>1, <2>2 DEF new
<1> QED BY <1>6, <1>7, <1>8, <1>9, <1>10, <1>11, <1>12, <1>13, <1>14,
          <1>15, <1>16, <1>17, <1>18, <1>19, <1>20, <1>21

-----------------------------------------------------------------------------
CapturedAs(turns, glue, session) ==
  /\ session \in Seq(Records) /\ Len(session) = Len(turns)
  /\ DOMAIN session = 1 .. Len(turns)
  /\ \A k \in 1 .. Len(turns) :
       /\ session[k] \in Records
       /\ AsAsked(Faithful(turns, glue, k), turns, glue, k)
       /\ Shows(session[k], Faithful(turns, glue, k), turns[k].capture)

(* A session is a sequence of completions, one for each turn, captured as  *)
(* the turn says.                                                          *)
LEMMA SessionIs ==
  ASSUME NEW turns, Sorted(turns), NEW glue
  PROVE  CapturedAs(turns, glue, Session(turns, glue))
<1> DEFINE n == Len(turns)
           session == Session(turns, glue)
<1>1. n \in Nat /\ DOMAIN turns = 1 .. n
  BY DEF Sorted
<1>2. session = [k \in 1 .. n |-> Distorted(Faithful(turns, glue, k), turns[k].capture)]
  BY <1>1 DEF Session
<1>3. ASSUME NEW k \in 1 .. n
      PROVE  /\ session[k] \in Records
             /\ AsAsked(Faithful(turns, glue, k), turns, glue, k)
             /\ Shows(session[k], Faithful(turns, glue, k), turns[k].capture)
  <2> DEFINE record == Faithful(turns, glue, k)
             capture == turns[k].capture
             reply == turns[k].reply
  <2>1. record \in Records /\ AsAsked(record, turns, glue, k)
    BY FaithfulIs
  <2>2. capture \in Captures \cup {"whole"} /\ reply \in Replies /\ k \in 1 .. MaxTurns
    BY MaxTurnsAssumption DEF Sorted, TurnLike
  <2>3. record.logprobs \in Seq(Int) /\ Len(record.logprobs) >= 1
    <3>1. record.logprobs = Logprobs(k, reply)
      BY <2>1 DEF AsAsked
    <3> HIDE DEF record, reply
    <3>2. /\ Logprobs(k, reply) \in Seq(Int)
          /\ Len(Logprobs(k, reply)) = Len(Sampled[reply])
      BY <2>2, LogprobsAre
    <3>3. Len(Sampled[reply]) \in 1 .. 4
      BY <2>2, RepliesAre, Zenon
    <3> DEFINE l == Logprobs(k, reply)
               m == Len(Sampled[reply])
    <3>4. l \in Seq(Int) /\ Len(l) = m /\ m \in 1 .. 4 /\ record.logprobs = l
      BY <3>1, <3>2, <3>3
    <3> HIDE DEF l, m
    <3> QED BY <3>4
  <2> HIDE DEF record, capture
  <2>4. Distorted(record, capture) \in Records /\ Shows(Distorted(record, capture), record, capture)
    BY <2>1, <2>2, <2>3, DistortedIs
  <2>5. session[k] = Distorted(record, capture)
    BY <1>2 DEF record, capture
  <2> QED BY <2>1, <2>4, <2>5 DEF record, capture
<1> HIDE DEF session, n
<1>4. session \in Seq(Records) /\ Len(session) = n /\ DOMAIN session = 1 .. n
  <2>1. \A k \in 1 .. n : session[k] \in Records
    BY <1>3
  <2>2. session = [k \in 1 .. n |-> session[k]]
    BY <1>2
  <2>3. session \in [1 .. n -> Records]
    BY <2>1, <2>2
  <2> QED BY <1>1, <2>3
<1> QED BY <1>3, <1>4 DEF CapturedAs, session, n

-----------------------------------------------------------------------------
(* What a turn was opened with.                                            *)

(* The first reply of a trace was opened by its prompt.                    *)
LEMMA FirstOpening ==
  ASSUME NEW T, NEW trace, trace.mask \in Seq({0, 1}), trace.prompt \in Seq(T),
         trace.response \in Seq(T), Len(trace.mask) >= 1, trace.mask[1] = 1
  PROVE  1 \in TurnStarts(trace) /\ Opening(trace, 1) = trace.prompt
<1>1. DOMAIN trace.mask = 1 .. Len(trace.mask) /\ Len(trace.mask) \in Nat
  OBVIOUS
<1>2. 1 \in Trainable(trace)
  BY <1>1 DEF Trainable
<1>3. {i \in Trainable(trace) : i < 1} = {}
  BY <1>1 DEF Trainable
<1>4. trace.prompt \o SubSeq(trace.response, 1, 1 - 1) = trace.prompt
  <2> DEFINE p == trace.prompt
             r == trace.response
  <2>1. p \in Seq(T) /\ r \in Seq(T)
    OBVIOUS
  <2> HIDE DEF p, r
  <2>2. SubSeq(r, 1, 0) = <<>> /\ p \o <<>> = p
    BY <2>1
  <2> QED BY <2>2 DEF p, r
<1> QED BY <1>2, <1>3, <1>4 DEF TurnStarts, Opening

(* A later reply was opened by the untrained tokens since the last trained *)
(* one.                                                                    *)
LEMMA LaterOpening ==
  ASSUME NEW trace, trace.mask \in Seq({0, 1}), NEW from \in Nat \ {0}, NEW to \in Nat,
         from < to, to < Len(trace.mask), trace.mask[from] = 1, trace.mask[to + 1] = 1,
         \A i \in from + 1 .. to : trace.mask[i] = 0
  PROVE  to + 1 \in TurnStarts(trace) /\ Opening(trace, to + 1) = SubSeq(trace.response, from + 1, to)
<1> DEFINE m == trace.mask
           n == Len(m)
           B == {i \in Trainable(trace) : i < to + 1}
           last == CHOOSE i \in B : \A j \in B : j <= i
<1>1. n \in Nat /\ DOMAIN m = 1 .. n
  OBVIOUS
<1>2. to + 1 \in Trainable(trace) /\ from \in Trainable(trace)
  BY <1>1 DEF Trainable
<1>3. to + 1 \in TurnStarts(trace)
  <2>1. to \in from + 1 .. to /\ (to + 1) - 1 = to
    OBVIOUS
  <2> QED BY <1>2, <2>1 DEF TurnStarts
<1>4. from \in B /\ \A j \in B : j <= from
  <2>1. from \in B
    BY <1>2
  <2>2. ASSUME NEW j \in B PROVE j <= from
    <3>1. j \in 1 .. n /\ m[j] = 1 /\ j < to + 1
      BY <1>1 DEF Trainable
    <3>2. ~(j \in from + 1 .. to)
      BY <3>1
    <3> QED BY <1>1, <3>1, <3>2
  <2> QED BY <2>1, <2>2
<1>5. last = from
  <2>1. B \in SUBSET Int
    BY <1>1 DEF Trainable
  <2>2. ASSUME NEW i \in B, \A j \in B : j <= i PROVE i = from
    <3>1. i <= from /\ from <= i /\ i \in Int
      BY <1>4, <2>1, <2>2
    <3> QED BY <3>1
  <2> HIDE DEF B
  <2>3. last \in B /\ \A j \in B : j <= last
    BY <1>4
  <2> HIDE DEF last
  <2> QED BY <2>2, <2>3
<1>6. B # {} /\ (to + 1) - 1 = to
  BY <1>4
<1>7. Opening(trace, to + 1) = SubSeq(trace.response, last + 1, (to + 1) - 1)
  BY <1>6 DEF Opening
<1> QED BY <1>3, <1>5, <1>6, <1>7

-----------------------------------------------------------------------------
(* The prompts of an episode.                                              *)

PromptOK(turns, k, request) ==
  /\ Len(request[k].before) >= 2
  /\ turns[k].how \notin {"think", "retry"} => request[k].header = Header
  /\ turns[k].how = "think" => request[k].header = <<"header">>
  /\ k = 1 => request[k].before = <<"system", "task">>
  /\ k > 1 /\ turns[k].how = "compact" => request[k].before = <<"system", "summary">>
  /\ k > 1 /\ turns[k].how = "retry" => request[k] = request[k - 1]

(* What the prompts of an episode start with and end with.                 *)
LEMMA PromptsAre ==
  ASSUME NEW turns, Sorted(turns), NEW glue, turns[1].how \in {"next", "think"}
  PROVE  \A k \in 1 .. Len(turns) : PromptOK(turns, k, Requested(turns, glue))
<1> DEFINE n == Len(turns)
           request == Requested(turns, glue)
           T == Vocabulary
           R == {k \in 1 .. n : Len(request[k].before) >= 2}
<1>1. n \in Nat /\ n > 0 /\ DOMAIN turns = 1 .. n
      /\ \A k \in 1 .. n : turns[k].reply \in Replies
  BY MaxTurnsAssumption DEF Sorted, TurnLike
<1>2. \A k \in 1 .. n : /\ request[k] \in Asked
                        /\ request[k] = Request(turns, glue, k, request[k - 1])
  <2>1. AskedInTurn(turns, glue, Requested(turns, glue))
    BY <1>1, RequestedAre
  <2> QED BY <1>1, <2>1 DEF AskedInTurn
<1> HIDE DEF n, request
<1>3. Len(<<"system", "task">>) = 2 /\ Len(<<"system", "summary">>) = 2
  OBVIOUS
<1>4. ASSUME NEW k \in 1 .. n, k = 1 \/ turns[k].how = "compact"
      PROVE  /\ request[k].before = IF k = 1 THEN <<"system", "task">> ELSE <<"system", "summary">>
             /\ request[k].header = Generation(turns, k)
             /\ k \in R
  <2>1. /\ request[k].before = IF k = 1 THEN <<"system", "task">> ELSE <<"system", "summary">>
        /\ request[k].header = Generation(turns, k)
    <3>1. request[k] = Request(turns, glue, k, request[k - 1])
      BY <1>2
    <3> DEFINE b == IF k = 1 THEN <<"system", "task">> ELSE <<"system", "summary">>
               g == Generation(turns, k)
               h == History(turns, glue, k)
    <3>2. request[k] = [before |-> b, header |-> g, past |-> h, messages |-> OpeningMessages]
      BY <1>4, <3>1 DEF Request
    <3> HIDE DEF b, g, h
    <3>3. request[k].before = b /\ request[k].header = g
      BY <3>2
    <3> QED BY <3>3 DEF b, g
  <2>2. Len(request[k].before) >= 2
    BY <1>3, <2>1
  <2> QED BY <2>1, <2>2
<1>5. ASSUME NEW k \in 1 .. n, ~(k = 1 \/ turns[k].how = "compact"), turns[k].how = "retry"
      PROVE  request[k] = request[k - 1]
  <2>1. request[k] = Request(turns, glue, k, request[k - 1])
    BY <1>2
  <2> QED BY <1>5, <2>1 DEF Request
<1>6. ASSUME NEW k \in 1 .. n, ~(k = 1 \/ turns[k].how = "compact"), turns[k].how # "retry"
      PROVE  /\ request[k].header = Generation(turns, k)
             /\ k - 1 \in R => k \in R
  <2> DEFINE last == request[k - 1]
             g == Generation(turns, k)
             h == History(turns, glue, k)
             x == IF turns[k].how = "discard" THEN <<Eot, "again">>
                                               ELSE Rendered[turns[k - 1].reply] \o <<"answer">>
             rest == IF turns[k].how = "discard" THEN last.past \o <<Eot, "again">>
                     ELSE last.past \o (Rendered[turns[k - 1].reply] \o <<"answer">>)
             m == request[k].messages
             b == request[k].before
  <2>1. request[k] = Request(turns, glue, k, last) /\ k - 1 \in 1 .. n
        /\ last \in Asked
    BY <1>1, <1>2, <1>6
  <2>2. CASE turns[k].how = "discard"
    <3> DEFINE p == last.before
               q == last.past
               y == <<"eot", "again">>
    <3>1. request[k] = [before |-> p \o q \o y, header |-> g, past |-> h,
                        messages |-> last.messages
                                     \o <<Said("assistant", ""), Said("user", "again")>>]
      BY <1>6, <2>1, <2>2 DEF Request, Eot
    <3>2. request[k].header = g /\ request[k].before = p \o q \o y
      <4> DEFINE c == p \o q \o y
                 z == last.messages \o <<Said("assistant", ""), Said("user", "again")>>
      <4>1. request[k] = [before |-> c, header |-> g, past |-> h, messages |-> z]
        BY <3>1
      <4> HIDE DEF c, z, g, h
      <4>2. request[k].header = g /\ request[k].before = c
        BY <4>1
      <4> QED BY <4>2 DEF c
    <3>3. "eot" \in T /\ "again" \in T
      BY DEF Vocabulary
    <3>4. p \in Seq(T) /\ q \in Seq(T)
      BY <2>1 DEF Asked
    <3> HIDE DEF p, q, last, T
    <3>5. y \in Seq(T)
      BY <3>3
    <3> HIDE DEF y
    <3>6. Len(p \o q \o y) >= Len(p)
      <4>1. Len(p \o q \o y) = Len(p) + Len(q) + Len(y) /\ Len(p) \in Nat /\ Len(q) \in Nat
            /\ Len(y) \in Nat
        BY <3>4, <3>5
      <4> QED BY <4>1
    <3>7. Len(p) \in Nat /\ Len(p \o q \o y) \in Nat
      BY <3>4, <3>5
    <3> QED BY <3>2, <3>6, <3>7 DEF p, last
  <2>3. CASE turns[k].how # "discard"
    <3> DEFINE p == last.before
               q == last.past
               r == Rendered[turns[k - 1].reply]
               y == <<"answer">>
    <3>1. request[k] = [before |-> p \o q \o r \o y, header |-> g, past |-> h,
                        messages |-> last.messages
                                     \o <<Reply(turns[k - 1]), ToolAnswer(k - 1)>>]
      BY <1>6, <2>1, <2>3 DEF Request
    <3>2. request[k].header = g /\ request[k].before = p \o q \o r \o y
      <4> DEFINE c == p \o q \o r \o y
                 z == last.messages \o <<Reply(turns[k - 1]), ToolAnswer(k - 1)>>
      <4>1. request[k] = [before |-> c, header |-> g, past |-> h, messages |-> z]
        BY <3>1
      <4> HIDE DEF c, z, g, h
      <4>2. request[k].header = g /\ request[k].before = c
        BY <4>1
      <4> QED BY <4>2 DEF c
    <3>3. "answer" \in T
      BY DEF Vocabulary
    <3>4. p \in Seq(T) /\ q \in Seq(T)
      BY <2>1 DEF Asked
    <3>8. r \in Seq(T)
      BY <1>1, <2>1, RepliesAre, Zenon
    <3> HIDE DEF p, q, r, last, T
    <3>5. y \in Seq(T)
      BY <3>3
    <3> HIDE DEF y
    <3>6. Len(p \o q \o r \o y) >= Len(p)
      <4>1. Len(p \o q \o r \o y) = Len(p) + Len(q) + Len(r) + Len(y) /\ Len(p) \in Nat
            /\ Len(q) \in Nat /\ Len(r) \in Nat /\ Len(y) \in Nat
        BY <3>4, <3>5, <3>8
      <4> QED BY <4>1
    <3>7. Len(p) \in Nat /\ Len(p \o q \o r \o y) \in Nat
      BY <3>4, <3>5, <3>8
    <3> QED BY <3>2, <3>6, <3>7 DEF p, last
  <2> QED BY <2>2, <2>3
<1>7. 1 .. n \subseteq R
  <2>1. 1 \in R
    BY <1>1, <1>4
  <2>2. ASSUME NEW k \in 1 + 1 .. n, k - 1 \in R PROVE k \in R
    <3>1. k \in 1 .. n /\ k # 1
      BY <1>1
    <3>2. CASE turns[k].how = "compact"
      BY <1>4, <3>1, <3>2
    <3>3. CASE turns[k].how = "retry"
      BY <1>5, <2>2, <3>1, <3>3
    <3>4. CASE turns[k].how # "compact" /\ turns[k].how # "retry"
      BY <1>6, <2>2, <3>1, <3>4
    <3> QED BY <3>2, <3>3, <3>4
  <2> HIDE DEF R
  <2> QED BY <1>1, <2>1, <2>2, Climb
<1>8. ASSUME NEW k \in 1 .. n PROVE PromptOK(turns, k, request)
  <2>1. Len(request[k].before) >= 2
    BY <1>7
  <2>2. turns[k].how # "retry" => request[k].header = Generation(turns, k)
    BY <1>4, <1>6
  <2>3. /\ turns[k].how = "think" => Generation(turns, k) = <<"header">>
        /\ turns[k].how # "think" => Generation(turns, k) = Header
    BY Zenon DEF Generation
  <2>4. k = 1 => turns[k].how # "compact" /\ turns[k].how # "retry"
    OBVIOUS
  <2>5. k > 1 => k # 1
    OBVIOUS
  <2>6. k = 1 => request[k].before = <<"system", "task">>
    BY <1>4
  <2>7. k > 1 /\ turns[k].how = "compact" => request[k].before = <<"system", "summary">>
    BY <1>4, <2>5
  <2>8. k > 1 /\ turns[k].how = "retry" => request[k] = request[k - 1]
    BY <1>5, <2>5
  <2> QED BY <2>1, <2>2, <2>3, <2>6, <2>7, <2>8 DEF PromptOK
<1> QED BY <1>8 DEF n, request

-----------------------------------------------------------------------------
(* Whatever the receiver does, the answers that the agent of a landed      *)
(* episode got were the best there are (index.py, tools.py).               *)
THEOREM AnswersAlwaysBest == Spec => []AnswersAreTheBest
<1>1. AnswersAreTheBest
  BY AnswersHold DEF AnswersAreTheBest
<1> QED BY <1>1, PTL
=============================================================================
