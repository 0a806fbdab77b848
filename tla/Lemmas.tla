-------------------------------- MODULE Lemmas --------------------------------
(***************************************************************************)
(* Facts of no one component, which the proofs of several rest on: least    *)
(* and greatest members, induction stated over sets (which the provers can  *)
(* instantiate, unlike an operator), members of a strict order, and sums.   *)
(***************************************************************************)
EXTENDS Integers, FiniteSetsExt, Functions, TLAPS, WellFoundedInduction,
        FiniteSetTheorems, FunctionTheorems

(* A non-empty set of naturals has a least member. *)
LEMMA MinIsMember ==
  ASSUME NEW S, S \subseteq Nat, S # {}
  PROVE  Min(S) \in S /\ \A y \in S : Min(S) <= y
<1>1. \E x \in S : \A y \in S : ~ (<<y, x>> \in OpToRel(<, Nat))
  BY NatLessThanWellFounded, WFMin
<1>2. OpToRel(<, Nat) = {ss \in Nat \X Nat : ss[1] < ss[2]}
  BY DEF OpToRel
<1>3. \E x \in S : \A y \in S : ~ (<<y, x>> \in {ss \in Nat \X Nat : ss[1] < ss[2]})
  BY <1>1, <1>2, Zenon
<1>4. PICK x \in S : \A y \in S : ~ (<<y, x>> \in {ss \in Nat \X Nat : ss[1] < ss[2]})
  BY <1>3
<1>5. ASSUME NEW y \in S
      PROVE  x <= y
  <2>1. x \in Nat /\ y \in Nat
    OBVIOUS
  <2>2. y < x => <<y, x>> \in {ss \in Nat \X Nat : ss[1] < ss[2]}
    BY <2>1
  <2>. QED
    BY <1>4, <2>1, <2>2
<1>. QED
  BY <1>4, <1>5 DEF Min

LEMMA LeastOfInts ==
  ASSUME NEW S, S \subseteq Int, S # {}, NEW b \in Int, \A x \in S : b <= x
  PROVE  \E x \in S : \A y \in S : x <= y
<1>. DEFINE N == {x - b : x \in S}
<1>1. \A x \in S : x - b \in Nat
  OBVIOUS
<1>2. Min(N) \in N /\ \A n \in N : Min(N) <= n
  <2>1. N \subseteq Nat /\ N # {}
    BY <1>1, Zenon
  <2>. QED
    BY <2>1, MinIsMember
<1>3. PICK x \in S : Min(N) = x - b
  BY <1>2
<1>4. \A y \in S : x - b <= y - b
  BY <1>2, <1>3
<1>. QED
  BY <1>4

(* A non-empty set of integers below a bound has a greatest member. *)
LEMMA MaxOfBounded ==
  ASSUME NEW S, S \subseteq Int, S # {}, NEW b \in Int, \A x \in S : x <= b
  PROVE  Max(S) \in S /\ \A y \in S : y <= Max(S)
<1>. DEFINE N == {b - x : x \in S}
<1>1. \A x \in S : b - x \in Nat
  OBVIOUS
<1>2. Min(N) \in N /\ \A n \in N : Min(N) <= n
  <2>1. N \subseteq Nat /\ N # {}
    BY <1>1, Zenon
  <2>. QED
    BY <2>1, MinIsMember
<1>3. PICK x \in S : Min(N) = b - x
  BY <1>2
<1>4. \A y \in S : b - x <= b - y
  BY <1>2, <1>3
<1>5. \A y \in S : x >= y
  BY <1>4
<1>. QED
  BY <1>5 DEF Max

-----------------------------------------------------------------------------
(* Strict orders.  Ranked(S, R) says that R orders S, and AheadOf(S, R, s)   *)
(* is what R puts before s.                                                  *)

Ranked(S, R) ==
  /\ \A a \in S : <<a, a>> \notin R
  /\ \A a, b \in S : a # b => <<a, b>> \in R \/ <<b, a>> \in R
  /\ \A a, b, c \in S : <<a, b>> \in R /\ <<b, c>> \in R => <<a, c>> \in R

AheadOf(S, R, s) == {r \in S : <<r, s>> \in R}

(* What is ahead of a is ahead, with a, of whatever a is ahead of.           *)
LEMMA RanksRise ==
  ASSUME NEW S, IsFiniteSet(S), NEW R, Ranked(S, R),
         NEW a \in S, NEW b \in S, <<a, b>> \in R
  PROVE  Cardinality(AheadOf(S, R, a)) < Cardinality(AheadOf(S, R, b))
<1>. DEFINE A == AheadOf(S, R, a)
            B == AheadOf(S, R, b)
<1>1. A \subseteq B /\ a \in B /\ a \notin A
  BY DEF Ranked, AheadOf
<1>2. IsFiniteSet(B)
  BY FS_Subset DEF AheadOf
<1>3. IsFiniteSet(B \ {a}) /\ Cardinality(B \ {a}) = Cardinality(B) - 1
  BY <1>1, <1>2, FS_RemoveElement
<1>4. IsFiniteSet(A) /\ Cardinality(A) <= Cardinality(B \ {a})
  <2>1. A \in SUBSET (B \ {a})
    BY <1>1
  <2>. QED
    BY <2>1, <1>3, FS_Subset
<1>5. Cardinality(A) \in Nat /\ Cardinality(B) \in Nat
  BY <1>2, <1>4, FS_CardinalityType
<1>. QED
  BY <1>3, <1>4, <1>5

LEMMA RankIsABijection ==
  ASSUME NEW S, IsFiniteSet(S), NEW R, Ranked(S, R)
  PROVE  [s \in S |-> Cardinality(AheadOf(S, R, s))]
           \in Bijection(S, 0 .. Cardinality(S) - 1)
<1>. DEFINE n == Cardinality(S)
            rank == [s \in S |-> Cardinality(AheadOf(S, R, s))]
            Places == 0 .. n - 1
<1>1. n \in Nat
  BY FS_CardinalityType
<1>2. ASSUME NEW s \in S
      PROVE  rank[s] \in Places
  <2>1. IsFiniteSet(S \ {s}) /\ Cardinality(S \ {s}) = n - 1
    BY FS_RemoveElement
  <2>2. AheadOf(S, R, s) \in SUBSET (S \ {s})
    BY DEF AheadOf, Ranked
  <2>3. IsFiniteSet(AheadOf(S, R, s)) /\ Cardinality(AheadOf(S, R, s)) <= n - 1
    BY <2>1, <2>2, FS_Subset
  <2>4. Cardinality(AheadOf(S, R, s)) \in Nat
    BY <2>3, FS_CardinalityType
  <2>. QED
    BY <1>1, <2>3, <2>4
<1>3. rank \in [S -> Places]
  BY <1>2
<1>4. ASSUME NEW a \in S, NEW b \in S, rank[a] = rank[b]
      PROVE  a = b
  <2>1. <<a, b>> \in R => rank[a] < rank[b]
    BY RanksRise
  <2>2. <<b, a>> \in R => rank[b] < rank[a]
    BY RanksRise
  <2>3. rank[a] \in Nat /\ rank[b] \in Nat
    BY <1>2
  <2>. QED
    BY <1>4, <2>1, <2>2, <2>3 DEF Ranked
<1>5. IsFiniteSet(Places) /\ Cardinality(Places) = n
  BY <1>1, FS_Interval
<1>6. rank \in Injection(S, Places)
  BY <1>3, <1>4, Fun_IsInj
<1>7. rank \in Surjection(S, Places)
  BY <1>5, <1>6, FS_Injection
<1>. QED
  BY <1>6, <1>7 DEF Bijection

(* Just k members have fewer than k ahead of them. *)
LEMMA TopOfAnOrder ==
  ASSUME NEW S, IsFiniteSet(S), NEW R, Ranked(S, R), NEW k \in 0 .. Cardinality(S)
  PROVE  LET T == {s \in S : Cardinality(AheadOf(S, R, s)) < k}
         IN  IsFiniteSet(T) /\ Cardinality(T) = k
<1>. DEFINE T == {s \in S : Cardinality(AheadOf(S, R, s)) < k}
            rank == [s \in S |-> Cardinality(AheadOf(S, R, s))]
            First == 0 .. k - 1
            top == [s \in T |-> rank[s]]
<1>1. Cardinality(S) \in Nat /\ k \in Nat
  BY FS_CardinalityType
<1>2. rank \in Bijection(S, 0 .. Cardinality(S) - 1)
  BY RankIsABijection
<1>3. /\ \A s \in S : rank[s] \in 0 .. Cardinality(S) - 1
      /\ \A a, b \in S : rank[a] = rank[b] => a = b
      /\ \A m \in 0 .. Cardinality(S) - 1 : \E s \in S : rank[s] = m
  BY <1>2 DEF Bijection, Injection, Surjection, IsInjective
<1>. HIDE DEF rank
<1>4. T = {s \in S : rank[s] < k}
  BY DEF rank
<1>5. IsFiniteSet(T)
  BY FS_Subset
<1>6. top \in [T -> First] /\ \A a, b \in T : top[a] = top[b] => a = b
  BY <1>1, <1>3, <1>4
<1>7. \A m \in First : \E s \in T : top[s] = m
  BY <1>1, <1>3, <1>4
<1>8. top \in Bijection(T, First)
  BY <1>6, <1>7, Fun_IsBij
<1>9. ExistsBijection(T, First)
  BY <1>8, Fun_ExistsBij, Zenon
<1>10. Cardinality(First) = Cardinality(T)
  BY <1>5, <1>9, FS_Bijection
<1>11. Cardinality(First) = k
  BY <1>1, FS_Interval
<1>. QED
  BY <1>5, <1>10, <1>11

-----------------------------------------------------------------------------
(* Induction: a set that is closed under the step is everything *)

LEMMA NatSetInduction ==
  ASSUME NEW F \in SUBSET Nat, 0 \in F, \A n \in F : n + 1 \in F
  PROVE  F = Nat
<1>. DEFINE N == Nat \ F
<1>1. SUFFICES ASSUME N # {} PROVE FALSE
  OBVIOUS
<1>2. Min(N) \in N /\ \A n \in N : Min(N) <= n
  <2>1. N \subseteq Nat
    OBVIOUS
  <2>. HIDE DEF N
  <2>. QED
    BY <1>1, <2>1, MinIsMember
<1>3. PICK m \in N : \A n \in N : m <= n
  BY <1>2
<1>4. m # 0 /\ m \in Nat
  BY <1>3
<1>5. m - 1 \in Nat /\ m - 1 \notin N
  BY <1>3, <1>4
<1>6. m - 1 \in F
  BY <1>5
<1>7. (m - 1) + 1 \in F
  BY <1>6
<1>. QED
  BY <1>3, <1>4, <1>7

LEMMA SubsetInduction ==
  ASSUME NEW U, IsFiniteSet(U), NEW F \in SUBSET (SUBSET U), {} \in F,
         \A s \in SUBSET U : s # {} /\ (\A x \in s : s \ {x} \in F) => s \in F
  PROVE  F = SUBSET U
<1>. DEFINE Small(n) == \A s \in SUBSET U : Cardinality(s) <= n => s \in F
            N == {n \in Nat : Small(n)}
<1>1. \A s \in SUBSET U : IsFiniteSet(s) /\ Cardinality(s) \in Nat
  BY FS_Subset, FS_CardinalityType
<1>2. Small(0)
  <2>. SUFFICES ASSUME NEW s \in SUBSET U, Cardinality(s) <= 0 PROVE s \in F
    OBVIOUS
  <2>1. IsFiniteSet(s) /\ Cardinality(s) = 0
    BY <1>1
  <2>2. s = {}
    BY <2>1, FS_EmptySet, Zenon
  <2>. QED
    BY <2>2
<1>3. ASSUME NEW n \in N PROVE n + 1 \in N
  <2>. SUFFICES Small(n + 1)
    OBVIOUS
  <2>. SUFFICES ASSUME NEW s \in SUBSET U, Cardinality(s) <= n + 1, s # {}
                PROVE  s \in F
    OBVIOUS
  <2>1. ASSUME NEW x \in s PROVE s \ {x} \in F
    <3>1. Cardinality(s \ {x}) = Cardinality(s) - 1
      BY <1>1, FS_RemoveElement
    <3>2. Cardinality(s \ {x}) <= n /\ s \ {x} \in SUBSET U
      BY <1>1, <3>1
    <3>. QED
      BY <3>2
  <2>. QED
    BY <2>1
<1>4. N = Nat
  <2>1. 0 \in N /\ N \in SUBSET Nat
    BY <1>2
  <2>. HIDE DEF N
  <2>. QED
    BY <1>3, <2>1, NatSetInduction
<1>. QED
  BY <1>1, <1>4

-----------------------------------------------------------------------------
(* Recursion over the naturals: each value is what a makes of the one before *)

RecursUpto(g, b, a, n) ==
  /\ g \in [0 .. n -> Int] /\ g[0] = b
  /\ \A k \in 0 .. n - 1 : g[k + 1] = a[k][g[k]]

Recurs(g, b, a) ==
  /\ g \in [Nat -> Int] /\ g[0] = b
  /\ \A k \in Nat : g[k + 1] = a[k][g[k]]

LEMMA RecursionExists ==
  ASSUME NEW b \in Int, NEW a \in [Nat -> [Int -> Int]]
  PROVE  \E g : Recurs(g, b, a)
<1>. DEFINE N == {n \in Nat : \E g : RecursUpto(g, b, a, n)}
<1>1. 0 \in N
  <2>1. RecursUpto([k \in 0 .. 0 |-> b], b, a, 0)
    BY DEF RecursUpto
  <2>. QED
    BY <2>1
<1>2. ASSUME NEW n \in N PROVE n + 1 \in N
  <2>1. PICK g : RecursUpto(g, b, a, n)
    OBVIOUS
  <2>. DEFINE h == [k \in 0 .. n + 1 |-> IF k = n + 1 THEN a[n][g[n]] ELSE g[k]]
  <2>2. n \in Nat
    OBVIOUS
  <2>3. g[n] \in Int /\ a[n][g[n]] \in Int
    BY <2>1, <2>2 DEF RecursUpto
  <2>4. h \in [0 .. n + 1 -> Int] /\ h[0] = b
    BY <2>1, <2>2, <2>3 DEF RecursUpto
  <2>5. ASSUME NEW k \in 0 .. n PROVE h[k + 1] = a[k][h[k]]
    <3>1. h[k] = g[k]
      BY <2>2
    <3>2. CASE k = n
      BY <2>2, <3>1, <3>2
    <3>3. CASE k < n
      <4>1. /\ k \in 0 .. n - 1 /\ k + 1 \in 0 .. n + 1
            /\ k + 1 # n + 1
        BY <2>2, <3>3
      <4>2. h[k + 1] = g[k + 1]
        BY <4>1
      <4>3. g[k + 1] = a[k][g[k]]
        BY <2>1, <4>1 DEF RecursUpto
      <4>. QED
        BY <3>1, <4>2, <4>3, Zenon
    <3>. QED
      BY <2>2, <3>2, <3>3
  <2>. HIDE DEF h
  <2>6. RecursUpto(h, b, a, n + 1)
    BY <2>2, <2>4, <2>5 DEF RecursUpto
  <2>. QED
    BY <2>2, <2>6
<1>3. N = Nat
  <2>1. N \in SUBSET Nat
    OBVIOUS
  <2>. HIDE DEF N
  <2>. QED
    BY <1>1, <1>2, <2>1, NatSetInduction
<1>. DEFINE Upto(n) == CHOOSE g : RecursUpto(g, b, a, n)
            h == [n \in Nat |-> Upto(n)[n]]
<1>4. \A n \in Nat : RecursUpto(Upto(n), b, a, n)
  BY <1>3, Zenon
<1>. HIDE DEF Upto
<1>5. ASSUME NEW n \in Nat
      PROVE  Upto(n + 1)[n] = Upto(n)[n]
  <2>. DEFINE M == {k \in Nat : k <= n => Upto(n + 1)[k] = Upto(n)[k]}
  <2>1. RecursUpto(Upto(n), b, a, n) /\ RecursUpto(Upto(n + 1), b, a, n + 1)
    BY <1>4
  <2>2. 0 \in M
    BY <2>1 DEF RecursUpto
  <2>3. ASSUME NEW k \in M PROVE k + 1 \in M
    <3>. SUFFICES ASSUME k + 1 <= n PROVE Upto(n + 1)[k + 1] = Upto(n)[k + 1]
      OBVIOUS
    <3>1. k \in 0 .. n - 1 /\ k \in 0 .. (n + 1) - 1
      OBVIOUS
    <3>2. Upto(n + 1)[k] = Upto(n)[k]
      OBVIOUS
    <3>3. Upto(n + 1)[k + 1] = a[k][Upto(n + 1)[k]]
      BY <2>1, <3>1 DEF RecursUpto
    <3>4. Upto(n)[k + 1] = a[k][Upto(n)[k]]
      BY <2>1, <3>1 DEF RecursUpto
    <3>. QED
      BY <3>2, <3>3, <3>4, Zenon
  <2>4. M = Nat
    <3>1. M \in SUBSET Nat
      OBVIOUS
    <3>. HIDE DEF M
    <3>. QED
      BY <2>2, <2>3, <3>1, NatSetInduction
  <2>5. n \in M
    BY <2>4, Zenon
  <2>. QED
    BY <2>5
<1>6. \A n \in Nat : Upto(n)[n] \in Int
  BY <1>4 DEF RecursUpto
<1>7. h \in [Nat -> Int]
  BY <1>6
<1>8. h[0] = b
  BY <1>4 DEF RecursUpto
<1>9. ASSUME NEW k \in Nat PROVE h[k + 1] = a[k][h[k]]
  <2>1. RecursUpto(Upto(k + 1), b, a, k + 1) /\ k \in 0 .. (k + 1) - 1
    BY <1>4
  <2>2. Upto(k + 1)[k + 1] = a[k][Upto(k + 1)[k]]
    BY <2>1 DEF RecursUpto
  <2>3. h[k + 1] = Upto(k + 1)[k + 1] /\ h[k] = Upto(k)[k]
    OBVIOUS
  <2>. QED
    BY <1>5, <2>2, <2>3, Zenon
<1>. HIDE DEF h
<1>10. Recurs(h, b, a)
  BY <1>7, <1>8, <1>9 DEF Recurs
<1>. QED
  BY <1>10, Zenon

-----------------------------------------------------------------------------
(* Sums over finite sets, `SumFunctionOnSet` of the library *)

(* g has, at s, the sum the library makes of f over s, one element at a time. *)
OneOf(s) == CHOOSE x \in s : TRUE
SumsAt(f, g, s) == g[s] = IF s = {} THEN 0 ELSE f[OneOf(s)] + g[s \ {OneOf(s)}]
Summing(f, g, S) == \A s \in SUBSET S : SumsAt(f, g, s)

LEMMA OneOfASet ==
  ASSUME NEW U, IsFiniteSet(U), NEW s \in SUBSET U, s # {}
  PROVE  /\ OneOf(s) \in s /\ s \ {OneOf(s)} \in SUBSET U
         /\ Cardinality(s) \in Nat /\ Cardinality(s \ {OneOf(s)}) = Cardinality(s) - 1
<1>1. OneOf(s) \in s
  BY DEF OneOf
<1>2. IsFiniteSet(s) /\ Cardinality(s) \in Nat
  BY FS_Subset, FS_CardinalityType
<1>. QED
  BY <1>1, <1>2, FS_RemoveElement

LEMMA SumsExist ==
  ASSUME NEW U, IsFiniteSet(U), NEW f \in [U -> Int]
  PROVE  \E g \in [SUBSET U -> Int] : \A s \in SUBSET U : SumsAt(f, g, s)
<1>. DEFINE Upto(n) == \E g \in [SUBSET U -> Int] :
                         \A s \in SUBSET U : Cardinality(s) <= n => SumsAt(f, g, s)
            N == {n \in Nat : Upto(n)}
<1>1. \A s \in SUBSET U : IsFiniteSet(s) /\ Cardinality(s) \in Nat
  BY FS_Subset, FS_CardinalityType
<1>2. 0 \in N
  <2>. DEFINE g == [s \in SUBSET U |-> 0]
  <2>1. g \in [SUBSET U -> Int]
    OBVIOUS
  <2>2. ASSUME NEW s \in SUBSET U, Cardinality(s) <= 0 PROVE SumsAt(f, g, s)
    BY <1>1, <2>2, FS_EmptySet DEF SumsAt
  <2>. QED
    BY <2>1, <2>2
<1>3. ASSUME NEW n \in N PROVE n + 1 \in N
  <2>1. PICK g \in [SUBSET U -> Int] :
          \A s \in SUBSET U : Cardinality(s) <= n => SumsAt(f, g, s)
    OBVIOUS
  <2>. DEFINE h == [s \in SUBSET U |-> IF Cardinality(s) = n + 1
                                        THEN f[OneOf(s)] + g[s \ {OneOf(s)}] ELSE g[s]]
  <2>2. n \in Nat
    OBVIOUS
  <2>3. ASSUME NEW s \in SUBSET U, Cardinality(s) = n + 1
        PROVE  /\ s # {} /\ h[s] \in Int
               /\ h[s] = f[OneOf(s)] + h[s \ {OneOf(s)}]
    <3>1. s # {}
      <4>. SUFFICES ASSUME s = {} PROVE FALSE
        OBVIOUS
      <4>1. Cardinality(s) = 0
        BY FS_EmptySet, Zenon
      <4>. QED
        BY <2>2, <2>3, <4>1
    <3>2. /\ OneOf(s) \in s /\ s \ {OneOf(s)} \in SUBSET U
          /\ Cardinality(s \ {OneOf(s)}) = n
      <4>. HIDE DEF h
      <4>1. /\ OneOf(s) \in s /\ s \ {OneOf(s)} \in SUBSET U
            /\ Cardinality(s \ {OneOf(s)}) = Cardinality(s) - 1
        BY <3>1, OneOfASet
      <4>. QED
        BY <2>2, <2>3, <4>1
    <3>3. h[s \ {OneOf(s)}] = g[s \ {OneOf(s)}]
      BY <2>2, <3>2
    <3>4. f[OneOf(s)] \in Int /\ g[s \ {OneOf(s)}] \in Int
      BY <3>2
    <3>. QED
      BY <2>3, <3>1, <3>3, <3>4
  <2>4. h \in [SUBSET U -> Int]
    BY <2>3
  <2>5. ASSUME NEW s \in SUBSET U, Cardinality(s) <= n + 1 PROVE SumsAt(f, h, s)
    <3>1. CASE Cardinality(s) = n + 1
      BY <2>3, <3>1 DEF SumsAt
    <3>2. CASE Cardinality(s) # n + 1
      <4>1. Cardinality(s) <= n /\ Cardinality(s) # n + 1
        BY <1>1, <2>2, <2>5, <3>2
      <4>2. h[s] = g[s] /\ SumsAt(f, g, s)
        BY <2>1, <4>1
      <4>3. s # {} => h[s \ {OneOf(s)}] = g[s \ {OneOf(s)}]
        <5>. SUFFICES ASSUME s # {} PROVE h[s \ {OneOf(s)}] = g[s \ {OneOf(s)}]
          OBVIOUS
        <5>1. /\ s \ {OneOf(s)} \in SUBSET U /\ Cardinality(s) \in Nat
              /\ Cardinality(s \ {OneOf(s)}) = Cardinality(s) - 1
          BY OneOfASet
        <5>2. Cardinality(s \ {OneOf(s)}) # n + 1
          BY <2>2, <4>1, <5>1
        <5>. QED
          BY <5>1, <5>2
      <4>. HIDE DEF h
      <4>. QED
        BY <4>2, <4>3 DEF SumsAt
    <3>. QED
      BY <3>1, <3>2
  <2>. HIDE DEF h
  <2>6. Upto(n + 1)
    BY <2>4, <2>5
  <2>. QED
    BY <2>2, <2>6
<1>4. N = Nat
  <2>1. N \in SUBSET Nat
    OBVIOUS
  <2>. HIDE DEF N
  <2>. QED
    BY <1>2, <1>3, <2>1, NatSetInduction
<1>5. Cardinality(U) \in Nat /\ \A s \in SUBSET U : Cardinality(s) <= Cardinality(U)
  BY <1>1, FS_Subset
<1>6. Upto(Cardinality(U))
  BY <1>4, <1>5
<1>. QED
  BY <1>5, <1>6

(* What f sums to over a set does not depend on what it was summed beside. *)
LEMMA SumsAgree ==
  ASSUME NEW S, IsFiniteSet(S), NEW T \in SUBSET S, NEW f, NEW g, NEW h,
         Summing(f, g, S), Summing(f, h, T)
  PROVE  \A s \in SUBSET T : g[s] = h[s]
<1>. DEFINE F == {s \in SUBSET T : g[s] = h[s]}
<1>1. IsFiniteSet(T)
  BY FS_Subset
<1>2. {} \in F
  BY DEF SumsAt, Summing
<1>3. ASSUME NEW s \in SUBSET T, s # {}, \A x \in s : s \ {x} \in F
      PROVE  s \in F
  <2>1. OneOf(s) \in s
    BY <1>3 DEF OneOf
  <2>2. g[s \ {OneOf(s)}] = h[s \ {OneOf(s)}]
    BY <1>3, <2>1
  <2>3. SumsAt(f, g, s) /\ SumsAt(f, h, s)
    BY DEF Summing
  <2>. QED
    BY <1>3, <2>2, <2>3 DEF SumsAt
<1>4. F = SUBSET T
  <2>1. F \in SUBSET (SUBSET T)
    OBVIOUS
  <2>. HIDE DEF F
  <2>. QED
    BY <1>1, <1>2, <1>3, <2>1, SubsetInduction
<1>. QED
  BY <1>4

HasSums(f, S) ==
  \E g \in [SUBSET S -> Int] :
    /\ Summing(f, g, S)
    /\ \A s \in SUBSET S : SumFunctionOnSet(f, s) = g[s]

(* The sums of f over the subsets of S are what the library makes of them. *)
LEMMA SumIsASum ==
  ASSUME NEW S, IsFiniteSet(S), NEW f, \A x \in S : f[x] \in Int
  PROVE  HasSums(f, S)
<1>1. PICK g \in [SUBSET S -> Int] : Summing(f, g, S)
  <2>. DEFINE F == [x \in S |-> f[x]]
  <2>1. F \in [S -> Int]
    OBVIOUS
  <2>2. PICK g \in [SUBSET S -> Int] : \A s \in SUBSET S : SumsAt(F, g, s)
    <3>. HIDE DEF F
    <3>. QED
      BY <2>1, SumsExist
  <2>3. ASSUME NEW s \in SUBSET S PROVE SumsAt(f, g, s)
    <3>1. s # {} => OneOf(s) \in S
      BY DEF OneOf
    <3>2. s # {} => F[OneOf(s)] = f[OneOf(s)]
      BY <3>1
    <3>3. SumsAt(F, g, s)
      BY <2>2
    <3>. HIDE DEF F
    <3>. QED
      BY <3>2, <3>3 DEF SumsAt
  <2>. QED
    BY <2>3 DEF Summing
<1>2. ASSUME NEW T \in SUBSET S PROVE SumFunctionOnSet(f, T) = g[T]
  <2>. DEFINE Iter(h) == h = [s \in SUBSET T |->
                               IF s = {} THEN 0
                               ELSE f[CHOOSE x \in s : TRUE]
                                      + h[s \ {CHOOSE x \in s : TRUE}]]
  <2>1. SumFunctionOnSet(f, T) = (CHOOSE h : Iter(h))[T]
    BY DEF SumFunctionOnSet, FoldFunctionOnSet, MapThenFoldSet
  <2>2. Iter([s \in SUBSET T |-> g[s]])
    <3>. DEFINE r == [s \in SUBSET T |-> g[s]]
    <3>1. ASSUME NEW s \in SUBSET T
          PROVE  g[s] = IF s = {} THEN 0
                        ELSE f[CHOOSE x \in s : TRUE] + r[s \ {CHOOSE x \in s : TRUE}]
      <4>1. s \in SUBSET S /\ s \ {OneOf(s)} \in SUBSET T
        OBVIOUS
      <4>2. g[s] = IF s = {} THEN 0 ELSE f[OneOf(s)] + g[s \ {OneOf(s)}]
        BY <1>1, <4>1 DEF SumsAt, Summing
      <4>3. r[s \ {OneOf(s)}] = g[s \ {OneOf(s)}]
        BY <4>1
      <4>4. g[s] = IF s = {} THEN 0 ELSE f[OneOf(s)] + r[s \ {OneOf(s)}]
        BY <4>2, <4>3
      <4>. HIDE DEF r
      <4>. QED
        BY <4>4 DEF OneOf
    <3>. QED
      BY <3>1, Zenon
  <2>3. PICK h : h = (CHOOSE e : Iter(e)) /\ Iter(h)
    <3>. HIDE DEF Iter
    <3>. QED
      BY <2>2, Zenon
  <2>4. Summing(f, h, T)
    BY <2>3, Zenon DEF Summing, SumsAt, OneOf
  <2>. HIDE DEF Iter
  <2>5. \A s \in SUBSET T : g[s] = h[s]
    BY <1>1, <2>4, SumsAgree
  <2>. QED
    BY <2>1, <2>3, <2>5
<1>. QED
  BY <1>1, <1>2 DEF HasSums

(* A sum is a number, of nothing none, and any member can be taken first. *)
LEMMA SumFacts ==
  ASSUME NEW S, IsFiniteSet(S), NEW f, \A x \in S : f[x] \in Int
  PROVE  /\ \A s \in SUBSET S : SumFunctionOnSet(f, s) \in Int
         /\ SumFunctionOnSet(f, {}) = 0
         /\ \A s \in SUBSET S : \A x \in s :
              SumFunctionOnSet(f, s) = f[x] + SumFunctionOnSet(f, s \ {x})
<1>1. PICK g \in [SUBSET S -> Int] :
        /\ Summing(f, g, S)
        /\ \A s \in SUBSET S : SumFunctionOnSet(f, s) = g[s]
  <2>1. HasSums(f, S)
    BY SumIsASum
  <2>. QED
    BY <2>1 DEF HasSums
<1>. DEFINE AnyFirst(s) == \A x \in s : g[s] = f[x] + g[s \ {x}]
            F == {s \in SUBSET S : AnyFirst(s)}
<1>2. ASSUME NEW s \in SUBSET S, s # {}, \A x \in s : s \ {x} \in F
      PROVE  AnyFirst(s)
  <2>. SUFFICES ASSUME NEW x \in s PROVE g[s] = f[x] + g[s \ {x}]
    OBVIOUS
  <2>. DEFINE y == OneOf(s)
  <2>1. y \in s /\ g[s] = f[y] + g[s \ {y}]
    BY <1>1, <1>2 DEF SumsAt, OneOf, Summing
  <2>. HIDE DEF y
  <2>2. CASE x = y
    BY <2>1, <2>2
  <2>3. CASE x # y
    <3>1. AnyFirst(s \ {x}) /\ AnyFirst(s \ {y})
      BY <1>2, <2>1
    <3>2. g[s \ {x}] = f[y] + g[(s \ {x}) \ {y}]
      BY <2>1, <2>3, <3>1
    <3>3. g[s \ {y}] = f[x] + g[(s \ {y}) \ {x}]
      BY <2>3, <3>1
    <3>4. (s \ {x}) \ {y} = (s \ {y}) \ {x} /\ (s \ {x}) \ {y} \in SUBSET S
      OBVIOUS
    <3>5. f[x] \in Int /\ f[y] \in Int /\ g[(s \ {x}) \ {y}] \in Int
      BY <2>1, <3>4
    <3>6. PICK rest \in Int : rest = g[(s \ {x}) \ {y}]
      BY <3>5
    <3>7. g[s \ {x}] = f[y] + rest /\ g[s \ {y}] = f[x] + rest
      BY <3>2, <3>3, <3>4, <3>6, Zenon
    <3>. QED
      BY <2>1, <3>5, <3>6, <3>7
  <2>. QED
    BY <2>2, <2>3
<1>3. F = SUBSET S
  <2>1. F \in SUBSET (SUBSET S) /\ {} \in F
    OBVIOUS
  <2>2. \A s \in SUBSET S : s # {} /\ (\A x \in s : s \ {x} \in F) => s \in F
    BY <1>2
  <2>. HIDE DEF F
  <2>. QED
    BY <2>1, <2>2, SubsetInduction
<1>4. SumFunctionOnSet(f, {}) = 0
  BY <1>1 DEF Summing, SumsAt
<1>5. ASSUME NEW s \in SUBSET S, NEW x \in s
      PROVE  SumFunctionOnSet(f, s) = f[x] + SumFunctionOnSet(f, s \ {x})
  <2>1. s \ {x} \in SUBSET S /\ AnyFirst(s)
    BY <1>3
  <2>. QED
    BY <1>1, <2>1
<1>. QED
  BY <1>1, <1>4, <1>5

(* Summed over what a bijection makes of a set, terms that agree sum alike. *)
LEMMA SumReindexed ==
  ASSUME NEW S, IsFiniteSet(S), NEW T, NEW p \in Bijection(S, T),
         NEW f, NEW g, \A x \in S : f[x] \in Int /\ f[x] = g[p[x]]
  PROVE  SumFunctionOnSet(f, S) = SumFunctionOnSet(g, T)
<1>0. /\ p \in [S -> T] /\ IsFiniteSet(T)
      /\ \A x, y \in S : p[x] = p[y] => x = y
      /\ \A y \in T : \E x \in S : p[x] = y
  <2>1. ExistsBijection(S, T)
    BY DEF ExistsBijection
  <2>2. IsFiniteSet(T)
    BY <2>1, FS_Bijection
  <2>. QED
    BY <2>2 DEF Bijection, Injection, Surjection, IsInjective
<1>. DEFINE Image(s) == {p[x] : x \in s}
            F == {s \in SUBSET S :
                    SumFunctionOnSet(f, s) = SumFunctionOnSet(g, Image(s))}
<1>1. \A y \in T : g[y] \in Int
  BY <1>0
<1>2. /\ SumFunctionOnSet(g, {}) = 0
      /\ \A s \in SUBSET T : \A y \in s :
           SumFunctionOnSet(g, s) = g[y] + SumFunctionOnSet(g, s \ {y})
  BY <1>0, <1>1, SumFacts
<1>3. /\ SumFunctionOnSet(f, {}) = 0
      /\ \A s \in SUBSET S : \A x \in s :
           SumFunctionOnSet(f, s) = f[x] + SumFunctionOnSet(f, s \ {x})
  BY SumFacts
<1>4. {} \in F
  <2>1. Image({}) = {}
    OBVIOUS
  <2>. HIDE DEF Image
  <2>. QED
    BY <1>2, <1>3, <2>1
<1>5. ASSUME NEW s \in SUBSET S, s # {}, \A x \in s : s \ {x} \in F
      PROVE  s \in F
  <2>1. PICK x \in s : TRUE
    BY <1>5
  <2>2. Image(s \ {x}) = Image(s) \ {p[x]} /\ Image(s) \in SUBSET T
        /\ p[x] \in Image(s)
    BY <1>0
  <2>3. SumFunctionOnSet(f, s \ {x}) = SumFunctionOnSet(g, Image(s \ {x}))
    BY <1>5, <2>1
  <2>. HIDE DEF Image
  <2>4. SumFunctionOnSet(g, Image(s))
          = g[p[x]] + SumFunctionOnSet(g, Image(s) \ {p[x]})
    BY <1>2, <2>2
  <2>5. SumFunctionOnSet(f, s) = f[x] + SumFunctionOnSet(f, s \ {x})
    BY <1>3, <2>1
  <2>6. f[x] = g[p[x]]
    OBVIOUS
  <2>7. SumFunctionOnSet(f, s) = SumFunctionOnSet(g, Image(s))
    BY <2>2, <2>3, <2>4, <2>5, <2>6
  <2>. QED
    BY <2>7
<1>6. F = SUBSET S
  <2>1. F \in SUBSET (SUBSET S)
    OBVIOUS
  <2>2. \A s \in SUBSET S : s # {} /\ (\A x \in s : s \ {x} \in F) => s \in F
    BY <1>5
  <2>. HIDE DEF F
  <2>. QED
    BY <1>4, <2>1, <2>2, SubsetInduction, Zenon
<1>7. Image(S) = T
  BY <1>0
<1>. HIDE DEF Image
<1>. QED
  BY <1>6, <1>7

(* Equal terms sum to as many times one of them. *)
LEMMA SumOfEquals ==
  ASSUME NEW S, IsFiniteSet(S), NEW f, NEW v \in Int, \A x \in S : f[x] = v
  PROVE  SumFunctionOnSet(f, S) = Cardinality(S) * v
<1>. DEFINE F == {s \in SUBSET S : SumFunctionOnSet(f, s) = Cardinality(s) * v}
<1>1. \A x \in S : f[x] \in Int
  OBVIOUS
<1>2. {} \in F
  BY <1>1, SumFacts, FS_EmptySet
<1>3. ASSUME NEW s \in SUBSET S, s # {}, \A x \in s : s \ {x} \in F
      PROVE  s \in F
  <2>1. PICK x \in s : TRUE
    BY <1>3
  <2>2. SumFunctionOnSet(f, s \ {x}) = Cardinality(s \ {x}) * v
    BY <1>3, <2>1
  <2>3. SumFunctionOnSet(f, s) = v + SumFunctionOnSet(f, s \ {x})
    BY <1>1, <2>1, SumFacts
  <2>4. IsFiniteSet(s) /\ Cardinality(s) \in Nat
        /\ Cardinality(s \ {x}) = Cardinality(s) - 1
    BY <2>1, FS_Subset, FS_CardinalityType, FS_RemoveElement
  <2>5. \A n \in Nat : v + (n - 1) * v = n * v
    OBVIOUS
  <2>. QED
    BY <2>2, <2>3, <2>4, <2>5
<1>. HIDE DEF F
<1>4. F = SUBSET S
  <2>1. F \in SUBSET (SUBSET S)
    BY DEF F
  <2>. QED
    BY <1>2, <1>3, <2>1, SubsetInduction
<1>. QED
  BY <1>4 DEF F
=============================================================================
