---------------------------- MODULE ReadingProofs ----------------------------
(***************************************************************************)
(* What holds of the reading of a run for every window, every holding       *)
(* period and every set of daily returns.  The arithmetic comes first: what *)
(* a path is worth against what its returns add up to, how they spread, and *)
(* where it fell deepest.  Then the rows an asset is held over, and last    *)
(* the run: a cell is read off the run and off Bitcoin over its window.     *)
(***************************************************************************)
EXTENDS Reading, Lemmas, FiniteSetTheorems, SequenceTheorems

-----------------------------------------------------------------------------
(* Powers of two *)

LEMMA Doubling ==
  /\ TwoTo \in [Nat -> Int] /\ TwoTo[0] = 1
  /\ \A n \in Nat : TwoTo[n + 1] = 2 * TwoTo[n]
<1>. DEFINE double == [n \in Nat |-> [x \in Int |-> 2 * x]]
            IsIt(g) == g = [n \in Nat |-> IF n = 0 THEN 1 ELSE 2 * g[n - 1]]
<1>1. double \in [Nat -> [Int -> Int]]
  OBVIOUS
<1>2. PICK g : Recurs(g, 1, double)
  <2>. HIDE DEF double
  <2>1. 1 \in Int
    OBVIOUS
  <2>. QED
    BY <1>1, <2>1, RecursionExists, Zenon
<1>3. /\ g \in [Nat -> Int] /\ g[0] = 1
      /\ \A n \in Nat : g[n + 1] = 2 * g[n]
  BY <1>2 DEF Recurs
<1>4. IsIt(g)
  <2>1. ASSUME NEW n \in Nat PROVE g[n] = IF n = 0 THEN 1 ELSE 2 * g[n - 1]
    <3>1. n # 0 => n - 1 \in Nat /\ (n - 1) + 1 = n
      OBVIOUS
    <3>. QED
      BY <1>3, <3>1
  <2>. QED
    BY <1>3, <2>1
<1>5. IsIt(TwoTo)
  <2>. HIDE DEF IsIt
  <2>1. IsIt(CHOOSE h : IsIt(h))
    BY <1>4, Zenon
  <2>. QED
    BY <2>1, Zenon DEF TwoTo, IsIt
<1>6. TwoTo[0] = 1
  BY <1>5
<1>7. ASSUME NEW n \in Nat PROVE TwoTo[n + 1] = 2 * TwoTo[n]
  <2>1. n + 1 \in Nat /\ n + 1 # 0 /\ (n + 1) - 1 = n
    OBVIOUS
  <2>. QED
    BY <1>5, <2>1
<1>8. TwoTo \in [Nat -> Int]
  <2>. DEFINE N == {n \in Nat : TwoTo[n] \in Int}
  <2>1. N \in SUBSET Nat /\ 0 \in N /\ \A n \in N : n + 1 \in N
    BY <1>6, <1>7
  <2>2. N = Nat
    <3>. HIDE DEF N
    <3>. QED
      BY <2>1, NatSetInduction
  <2>3. \A n \in Nat : TwoTo[n] \in Int
    BY <2>2
  <2>4. TwoTo = [n \in Nat |-> TwoTo[n]]
    BY <1>5
  <2>. QED
    BY <2>3, <2>4
<1>. QED
  BY <1>6, <1>7, <1>8

(* A power of two is above its exponent, and multiplies by adding them. *)
LEMMA PowersOfTwo ==
  /\ \A n \in Nat : TwoTo[n] \in Nat /\ TwoTo[n] >= n + 1
  /\ \A m, n \in Nat : TwoTo[m + n] = TwoTo[m] * TwoTo[n]
  /\ \A m, n \in Nat : m <= n => TwoTo[m] <= TwoTo[n]
<1>1. \A n \in Nat : TwoTo[n] >= n + 1
  <2>. DEFINE N == {n \in Nat : TwoTo[n] >= n + 1}
  <2>1. N \in SUBSET Nat /\ 0 \in N /\ \A n \in N : n + 1 \in N
    BY Doubling
  <2>2. N = Nat
    <3>. HIDE DEF N
    <3>. QED
      BY <2>1, NatSetInduction
  <2>. QED
    BY <2>2
<1>2. \A n \in Nat : TwoTo[n] \in Nat
  BY <1>1, Doubling
<1>3. ASSUME NEW m \in Nat
      PROVE  \A n \in Nat : TwoTo[m + n] = TwoTo[m] * TwoTo[n]
  <2>. DEFINE N == {n \in Nat : TwoTo[m + n] = TwoTo[m] * TwoTo[n]}
  <2>1. 0 \in N
    BY Doubling
  <2>2. ASSUME NEW n \in N PROVE n + 1 \in N
    <3>1. m + n \in Nat /\ m + (n + 1) = (m + n) + 1
      OBVIOUS
    <3>2. TwoTo[m + (n + 1)] = 2 * TwoTo[m + n] /\ TwoTo[n + 1] = 2 * TwoTo[n]
      BY <3>1, Doubling
    <3>3. TwoTo[m] \in Int /\ TwoTo[n] \in Int
      BY Doubling
    <3>4. 2 * (TwoTo[m] * TwoTo[n]) = TwoTo[m] * (2 * TwoTo[n])
      BY <3>3
    <3>. QED
      BY <3>2, <3>4
  <2>3. N = Nat
    <3>1. N \in SUBSET Nat
      OBVIOUS
    <3>. HIDE DEF N
    <3>. QED
      BY <2>1, <2>2, <3>1, NatSetInduction
  <2>. QED
    BY <2>3
<1>4. ASSUME NEW m \in Nat, NEW n \in Nat, m <= n
      PROVE  TwoTo[m] <= TwoTo[n]
  <2>1. n - m \in Nat /\ n = m + (n - m)
    BY <1>4
  <2>2. TwoTo[n] = TwoTo[m] * TwoTo[n - m]
    BY <1>3, <2>1
  <2>3. TwoTo[m] \in Nat /\ TwoTo[n - m] \in Nat /\ TwoTo[n - m] >= 1
    BY <1>1, <1>2, <2>1
  <2>. QED
    BY <2>2, <2>3
<1>. QED
  BY <1>1, <1>2, <1>3, <1>4

-----------------------------------------------------------------------------
(* What a path is worth *)

(* Daily returns of which none but the last may be a total loss. *)
IsPath(path) ==
  /\ path \in Seq(Int) /\ Len(path) \in 1 .. LastDay
  /\ \A i \in 1 .. Len(path) :
       path[i] >= -2 /\ (path[i] = -2 => i = Len(path))

LEMMA WorthByMarks ==
  ASSUME NEW path, IsPath(path)
  PROVE  /\ Worth(path)[0] = 1
         /\ \A k \in 0 .. Len(path) : Worth(path)[k] \in Int
         /\ \A k \in 1 .. Len(path) :
              Worth(path)[k] = Worth(path)[k - 1] * (2 + path[k])
<1>. DEFINE n == Len(path)
            by == [k \in Nat |-> [x \in Int |-> IF k < n THEN x * (2 + path[k + 1])
                                                ELSE x]]
            IsIt(w) == w = [k \in 0 .. Len(path) |->
                              IF k = 0 THEN 1 ELSE w[k - 1] * (2 + path[k])]
<1>1. n \in Nat /\ \A k \in 1 .. n : path[k] \in Int
  BY DEF IsPath
<1>2. by \in [Nat -> [Int -> Int]]
  <2>. HIDE DEF n
  <2>. QED
    BY <1>1
<1>3. PICK g : Recurs(g, 1, by)
  <2>. HIDE DEF by
  <2>1. 1 \in Int
    OBVIOUS
  <2>. QED
    BY <1>2, <2>1, RecursionExists, Zenon
<1>4. /\ g \in [Nat -> Int] /\ g[0] = 1
      /\ \A k \in Nat : k < n => g[k + 1] = g[k] * (2 + path[k + 1])
  <2>. HIDE DEF n
  <2>. QED
    BY <1>3 DEF Recurs
<1>5. ASSUME NEW k \in 0 .. n, k # 0
      PROVE  g[k] = g[k - 1] * (2 + path[k])
  <2>1. k - 1 \in Nat /\ k - 1 < n /\ (k - 1) + 1 = k
    BY <1>1, <1>5
  <2>. HIDE DEF n
  <2>. QED
    BY <1>4, <2>1
<1>6. IsIt([k \in 0 .. n |-> g[k]])
  <2>. DEFINE r == [k \in 0 .. n |-> g[k]]
  <2>1. ASSUME NEW k \in 0 .. n
        PROVE  g[k] = IF k = 0 THEN 1 ELSE r[k - 1] * (2 + path[k])
    <3>1. k # 0 => r[k - 1] = g[k - 1]
      BY <1>1
    <3>. HIDE DEF r
    <3>. QED
      BY <1>4, <1>5, <3>1
  <2>2. r = [k \in 0 .. n |-> IF k = 0 THEN 1 ELSE r[k - 1] * (2 + path[k])]
    <3>. HIDE DEF n
    <3>. QED
      BY <2>1, Zenon
  <2>. HIDE DEF r
  <2>. QED
    BY <2>2 DEF r
<1>7. IsIt(Worth(path))
  <2>. HIDE DEF IsIt
  <2>1. IsIt(CHOOSE w : IsIt(w))
    BY <1>6, Zenon
  <2>. QED
    BY <2>1, Zenon DEF Worth, IsIt
<1>8. Worth(path)[0] = 1
  BY <1>1, <1>7
<1>9. \A k \in 1 .. n : Worth(path)[k] = Worth(path)[k - 1] * (2 + path[k])
  BY <1>1, <1>7
<1>10. \A k \in 0 .. n : Worth(path)[k] \in Int
  <2>. DEFINE N == {k \in Nat : k <= n => Worth(path)[k] \in Int}
  <2>1. N \in SUBSET Nat /\ 0 \in N
    BY <1>8
  <2>2. ASSUME NEW k \in N PROVE k + 1 \in N
    <3>. SUFFICES ASSUME k + 1 <= n PROVE Worth(path)[k + 1] \in Int
      OBVIOUS
    <3>1. k + 1 \in 1 .. n /\ (k + 1) - 1 = k /\ Worth(path)[k] \in Int
      BY <1>1
    <3>2. Worth(path)[k + 1] = Worth(path)[k] * (2 + path[k + 1])
      BY <1>9, <3>1
    <3>. QED
      BY <1>1, <3>1, <3>2
  <2>3. N = Nat
    <3>. HIDE DEF N
    <3>. QED
      BY <2>1, <2>2, NatSetInduction
  <2>. QED
    BY <1>1, <2>3
<1>. QED
  BY <1>8, <1>9, <1>10

(* A path is worth something until it is wiped out, and nothing then. *)
LEMMA WorthIsPositive ==
  ASSUME NEW path, IsPath(path)
  PROVE  /\ \A k \in 0 .. Len(path) : Worth(path)[k] >= 0
         /\ \A k \in 0 .. Len(path) :
              Worth(path)[k] = 0 <=> k = Len(path) /\ path[k] = -2
<1>. DEFINE n == Len(path)
            W == Worth(path)
            N == {k \in Nat : k < n => W[k] > 0}
<1>1. n \in Nat /\ n >= 1 /\ \A k \in 1 .. n : path[k] \in Int
  BY DEF IsPath
<1>2. /\ W[0] = 1 /\ \A k \in 0 .. n : W[k] \in Int
      /\ \A k \in 1 .. n : W[k] = W[k - 1] * (2 + path[k])
  BY WorthByMarks
<1>. HIDE DEF W
<1>3. 0 \in N
  BY <1>2
<1>4. ASSUME NEW k \in N PROVE k + 1 \in N
  <2>. SUFFICES ASSUME k + 1 < n PROVE W[k + 1] > 0
    OBVIOUS
  <2>1. k + 1 \in 1 .. n /\ (k + 1) - 1 = k /\ k \in 0 .. n /\ W[k] > 0
    BY <1>1
  <2>2. 2 + path[k + 1] > 0
    BY <1>1, <2>1 DEF IsPath
  <2>3. W[k + 1] = W[k] * (2 + path[k + 1])
    BY <1>2, <2>1
  <2>4. W[k] \in Int /\ path[k + 1] \in Int
    BY <1>1, <1>2, <2>1
  <2>. QED
    BY <2>1, <2>2, <2>3, <2>4
<1>5. N = Nat
  <2>1. N \in SUBSET Nat
    OBVIOUS
  <2>. HIDE DEF N
  <2>. QED
    BY <1>3, <1>4, <2>1, NatSetInduction
<1>6. \A k \in 0 .. n : k < n => W[k] > 0
  BY <1>1, <1>5
<1>7. W[n] >= 0 /\ (W[n] = 0 <=> path[n] = -2)
  <2>1. n \in 1 .. n /\ n - 1 \in 0 .. n /\ n - 1 < n
    BY <1>1
  <2>2. W[n] = W[n - 1] * (2 + path[n]) /\ W[n - 1] > 0 /\ W[n - 1] \in Int
    BY <1>2, <1>6, <2>1
  <2>3. path[n] \in Int /\ path[n] >= -2
    BY <2>1 DEF IsPath
  <2>. QED
    BY <2>2, <2>3
<1>8. ASSUME NEW k \in 0 .. n
      PROVE  W[k] >= 0 /\ (W[k] = 0 <=> k = n /\ path[k] = -2)
  <2>1. CASE k < n
    <3>1. W[k] > 0 /\ W[k] \in Int /\ k # n
      BY <1>1, <1>2, <1>6, <2>1
    <3>. QED
      BY <3>1
  <2>2. CASE k = n
    BY <1>7, <2>2
  <2>. QED
    BY <1>1, <2>1, <2>2
<1>. QED
  BY <1>8 DEF W

-----------------------------------------------------------------------------
(* What a path adds up to *)

(* The sum of the first k returns, and of their squares. *)
SumTo(path, k) == SumFunctionOnSet(path, 1 .. k)
Squares(path) == [k \in DOMAIN path |-> path[k] * path[k]]

LEMMA SumByMarks ==
  ASSUME NEW f, NEW n \in Nat, \A k \in 1 .. n : f[k] \in Int
  PROVE  /\ SumTo(f, 0) = 0
         /\ \A k \in 0 .. n : SumTo(f, k) \in Int
         /\ \A k \in 1 .. n : SumTo(f, k) = SumTo(f, k - 1) + f[k]
<1>1. IsFiniteSet(1 .. n)
  BY FS_Interval
<1>2. /\ \A s \in SUBSET (1 .. n) : SumFunctionOnSet(f, s) \in Int
      /\ SumFunctionOnSet(f, {}) = 0
      /\ \A s \in SUBSET (1 .. n) : \A x \in s :
           SumFunctionOnSet(f, s) = f[x] + SumFunctionOnSet(f, s \ {x})
  <2>. DEFINE D == 1 .. n
  <2>1. IsFiniteSet(D) /\ \A x \in D : f[x] \in Int
    BY <1>1
  <2>. HIDE DEF D
  <2>2. /\ \A s \in SUBSET D : SumFunctionOnSet(f, s) \in Int
        /\ SumFunctionOnSet(f, {}) = 0
        /\ \A s \in SUBSET D : \A x \in s :
             SumFunctionOnSet(f, s) = f[x] + SumFunctionOnSet(f, s \ {x})
    BY <2>1, SumFacts
  <2>. QED
    BY <2>2 DEF D
<1>3. 1 .. 0 = {}
  OBVIOUS
<1>4. \A k \in 0 .. n : 1 .. k \in SUBSET (1 .. n)
  OBVIOUS
<1>5. ASSUME NEW k \in 1 .. n
      PROVE  SumTo(f, k) = SumTo(f, k - 1) + f[k]
  <2>1. (1 .. k) \ {k} = 1 .. k - 1 /\ k \in 1 .. k
    OBVIOUS
  <2>2. 1 .. k \in SUBSET (1 .. n) /\ 1 .. k - 1 \in SUBSET (1 .. n)
    OBVIOUS
  <2>3. SumFunctionOnSet(f, 1 .. k) = f[k] + SumFunctionOnSet(f, (1 .. k) \ {k})
    BY <1>2, <2>1, <2>2
  <2>4. SumFunctionOnSet(f, 1 .. k - 1) \in Int /\ f[k] \in Int
    BY <1>2, <2>2
  <2>5. SumTo(f, k) = f[k] + SumTo(f, k - 1)
    BY <2>1, <2>3, Zenon DEF SumTo
  <2>6. SumTo(f, k - 1) \in Int
    BY <2>4 DEF SumTo
  <2>. QED
    BY <2>4, <2>5, <2>6
<1>. QED
  BY <1>2, <1>3, <1>4, <1>5 DEF SumTo

(* The sums of a path, whole. *)
LEMMA SumsOfAPath ==
  ASSUME NEW path, IsPath(path)
  PROVE  /\ Len(path) \in Nat /\ Len(path) >= 1 /\ DOMAIN path = 1 .. Len(path)
         /\ \A k \in 1 .. Len(path) : path[k] \in Int
         /\ Sum(path) = SumTo(path, Len(path))
         /\ SumOfSquares(path) = SumTo(Squares(path), Len(path))
         /\ \A k \in 1 .. Len(path) : Squares(path)[k] = path[k] * path[k]
         /\ \A k \in 1 .. Len(path) : Squares(path)[k] \in Int
<1>1. /\ Len(path) \in Nat /\ Len(path) >= 1 /\ DOMAIN path = 1 .. Len(path)
      /\ \A k \in 1 .. Len(path) : path[k] \in Int
  BY DEF IsPath
<1>2. DOMAIN Squares(path) = 1 .. Len(path)
  BY <1>1 DEF Squares
<1>. QED
  BY <1>1, <1>2 DEF Sum, SumOfSquares, SumFunction, SumTo, Squares

(***************************************************************************)
(* A path that was not wiped out is worth at most two to the marks and      *)
(* their returns together: 2 + r is at most two to the 1 + r.               *)
(***************************************************************************)
LEMMA WorthAgainstSum ==
  ASSUME NEW path, IsPath(path), ~Liquidated(path)
  PROVE  /\ Len(path) + Sum(path) \in Nat
         /\ Growth(path) <= TwoTo[Len(path) + Sum(path)]
<1>. DEFINE n == Len(path)
            W == Worth(path)
            S(k) == SumTo(path, k)
            N == {k \in Nat : k <= n => k + S(k) \in Nat /\ W[k] <= TwoTo[k + S(k)]}
<1>1. n \in Nat /\ n >= 1 /\ \A k \in 1 .. n : path[k] \in Int /\ path[k] >= -1
  BY SumsOfAPath DEF IsPath, Liquidated, Last
<1>2. /\ W[0] = 1 /\ \A k \in 0 .. n : W[k] \in Int /\ W[k] >= 0
      /\ \A k \in 1 .. n : W[k] = W[k - 1] * (2 + path[k])
  BY WorthByMarks, WorthIsPositive
<1>3. /\ S(0) = 0 /\ \A k \in 0 .. n : S(k) \in Int
      /\ \A k \in 1 .. n : S(k) = S(k - 1) + path[k]
  BY <1>1, SumByMarks
<1>. HIDE DEF W, S, n
<1>4. 0 \in N
  BY <1>1, <1>2, <1>3, Doubling
<1>5. ASSUME NEW k \in N PROVE k + 1 \in N
  <2>. SUFFICES ASSUME k + 1 <= n
                PROVE  /\ k + 1 + S(k + 1) \in Nat
                       /\ W[k + 1] <= TwoTo[k + 1 + S(k + 1)]
    OBVIOUS
  <2>. DEFINE r == path[k + 1]
              e == k + S(k)
  <2>1. k + 1 \in 1 .. n /\ (k + 1) - 1 = k /\ k \in 0 .. n
    BY <1>1
  <2>2. e \in Nat /\ W[k] <= TwoTo[e]
    BY <1>1
  <2>3. r \in Int /\ r >= -1
    BY <1>1, <2>1
  <2>4. W[k + 1] = W[k] * (2 + r) /\ W[k] \in Int /\ W[k] >= 0
    BY <1>2, <2>1
  <2>5. S(k + 1) = S(k) + r /\ S(k) \in Int
    BY <1>3, <2>1
  <2>. HIDE DEF r
  <2>6. 1 + r \in Nat /\ 2 + r <= TwoTo[1 + r]
    BY <2>3, PowersOfTwo
  <2>7. TwoTo[e + (1 + r)] = TwoTo[e] * TwoTo[1 + r]
    BY <2>2, <2>6, PowersOfTwo
  <2>8. TwoTo[e] \in Nat /\ TwoTo[1 + r] \in Nat
    BY <2>2, <2>6, PowersOfTwo
  <2>9. k + 1 + S(k + 1) = e + (1 + r)
    BY <2>3, <2>5
  <2>. HIDE DEF e
  <2>10. W[k] * (2 + r) <= TwoTo[e] * TwoTo[1 + r]
    <3>1. ASSUME NEW a \in Nat, NEW b \in Nat, NEW c \in Nat, NEW d \in Nat,
                 a <= b, c <= d
          PROVE  a * c <= b * d
      <4>1. a * c <= b * c
        BY <3>1
      <4>2. b * c <= b * d
        BY <3>1
      <4>3. a * c \in Nat /\ b * c \in Nat /\ b * d \in Nat
        OBVIOUS
      <4>. QED
        BY <4>1, <4>2, <4>3
    <3>2. W[k] \in Nat /\ 2 + r \in Nat
      BY <2>3, <2>4
    <3>. QED
      BY <2>2, <2>6, <2>8, <3>1, <3>2
  <2>. QED
    BY <2>2, <2>4, <2>6, <2>7, <2>9, <2>10
<1>6. N = Nat
  <2>1. N \in SUBSET Nat
    OBVIOUS
  <2>. HIDE DEF N
  <2>. QED
    BY <1>4, <1>5, <2>1, NatSetInduction
<1>7. n + S(n) \in Nat /\ W[n] <= TwoTo[n + S(n)]
  BY <1>1, <1>6
<1>. QED
  BY <1>7, SumsOfAPath DEF n, S, W, Growth

(* A path that ends above where it began has a positive mean. *)
LEMMA GainHasAPositiveMean ==
  ASSUME NEW path, IsPath(path), ~Liquidated(path),
         Growth(path) > TwoTo[Len(path)]
  PROVE  Sum(path) > 0
<1>1. Len(path) + Sum(path) \in Nat
      /\ Growth(path) <= TwoTo[Len(path) + Sum(path)]
  BY WorthAgainstSum
<1>2. Len(path) \in Nat /\ Sum(path) \in Int
  <2>1. Len(path) \in Nat /\ \A k \in 1 .. Len(path) : path[k] \in Int
    BY SumsOfAPath
  <2>2. Len(path) \in 0 .. Len(path)
    BY <2>1
  <2>3. SumTo(path, Len(path)) \in Int
    BY <2>1, <2>2, SumByMarks
  <2>. QED
    BY <2>1, <2>3, SumsOfAPath
<1>3. Growth(path) \in Int
  BY <1>2, WorthByMarks DEF Growth
<1>4. SUFFICES ASSUME Sum(path) <= 0 PROVE FALSE
  BY <1>2
<1>5. TwoTo[Len(path) + Sum(path)] <= TwoTo[Len(path)]
  <2>1. Len(path) + Sum(path) <= Len(path)
    BY <1>2, <1>4
  <2>. QED
    BY <1>1, <1>2, <2>1, PowersOfTwo
<1>6. TwoTo[Len(path) + Sum(path)] \in Int /\ TwoTo[Len(path)] \in Int
  BY <1>1, <1>2, Doubling
<1>. QED
  BY <1>1, <1>3, <1>5, <1>6

-----------------------------------------------------------------------------
(* How a path spreads *)

(* One more return adds the square of its distance from the others' mean.   *)
LEMMA SpreadOfOneMore ==
  ASSUME NEW k \in Nat, k >= 1, NEW q \in Int, NEW s \in Int, NEW r \in Int,
         k * q - s * s >= 0
  PROVE  /\ (k + 1) * (q + r * r) - (s + r) * (s + r) >= 0
         /\ s # k * r => (k + 1) * (q + r * r) - (s + r) * (s + r) > 0
<1>. DEFINE D == k * q - s * s
            E == (k + 1) * (q + r * r) - (s + r) * (s + r)
            x == s - k * r
<1>1. k * E = (k + 1) * D + x * x
  OBVIOUS
<1>2. D \in Int /\ E \in Int /\ x \in Int /\ D >= 0
  OBVIOUS
<1>3. x # 0 <=> s # k * r
  OBVIOUS
<1>. HIDE DEF D, E, x
<1>4. x * x >= 0 /\ (x # 0 => x * x > 0)
  BY <1>2
<1>5. (k + 1) * D >= 0
  BY <1>2
<1>6. (k + 1) * D \in Int /\ x * x \in Int /\ k * E \in Int
  BY <1>2
<1>7. k * E >= 0 /\ (x # 0 => k * E > 0)
  BY <1>1, <1>4, <1>5, <1>6
<1>8. E >= 0 /\ (x # 0 => E > 0)
  BY <1>2, <1>7
<1>. QED
  BY <1>3, <1>8 DEF E

(* No path spreads less than not at all; a path that survived its first     *)
(* mark and was wiped out later does spread.                                *)
LEMMA SpreadOfAPath ==
  ASSUME NEW path, IsPath(path)
  PROVE  /\ Dispersion(path) \in Int /\ Dispersion(path) >= 0
         /\ Liquidated(path) /\ Len(path) # 1 => Dispersion(path) > 0
<1>. DEFINE n == Len(path)
            S(k) == SumTo(path, k)
            Q(k) == SumTo(Squares(path), k)
            N == {k \in Nat : k + 1 <= n =>
                    (k + 1) * Q(k + 1) - S(k + 1) * S(k + 1) >= 0}
            M == {k \in Nat : k < n => S(k) >= -k}
<1>1. n \in Nat /\ n >= 1 /\ \A k \in 1 .. n : path[k] \in Int
  BY SumsOfAPath
<1>2. /\ S(0) = 0 /\ \A k \in 0 .. n : S(k) \in Int
      /\ \A k \in 1 .. n : S(k) = S(k - 1) + path[k]
  BY <1>1, SumByMarks
<1>3. /\ Q(0) = 0 /\ \A k \in 0 .. n : Q(k) \in Int
      /\ \A k \in 1 .. n : Q(k) = Q(k - 1) + path[k] * path[k]
  BY <1>1, SumsOfAPath, SumByMarks
<1>4. Dispersion(path) = n * Q(n) - S(n) * S(n)
  BY SumsOfAPath DEF Dispersion
<1>5. \A k \in 1 .. n : path[k] >= -2 /\ (path[k] = -2 => k = n)
  BY DEF IsPath
<1>6. Liquidated(path) <=> path[n] = -2
  BY DEF Liquidated, Last
<1>. HIDE DEF n, S, Q
<1>7. 0 \in N
  <2>1. 1 \in 1 .. n /\ 1 - 1 = 0 /\ 0 + 1 = 1
    BY <1>1
  <2>2. S(1) = path[1] /\ Q(1) = path[1] * path[1] /\ path[1] \in Int
    BY <1>1, <1>2, <1>3, <2>1
  <2>. QED
    BY <2>1, <2>2
<1>8. ASSUME NEW k \in N PROVE k + 1 \in N
  <2>. SUFFICES ASSUME k + 1 + 1 <= n
                PROVE  (k + 1 + 1) * Q(k + 1 + 1) - S(k + 1 + 1) * S(k + 1 + 1) >= 0
    OBVIOUS
  <2>. DEFINE m == k + 1
              r == path[m + 1]
  <2>1. m \in Nat /\ m >= 1 /\ m + 1 \in 1 .. n /\ (m + 1) - 1 = m /\ m \in 0 .. n
    BY <1>1
  <2>2. m * Q(m) - S(m) * S(m) >= 0
    BY <1>1
  <2>. HIDE DEF m
  <2>3. r \in Int /\ Q(m) \in Int /\ S(m) \in Int
    BY <1>1, <1>2, <1>3, <2>1
  <2>4. S(m + 1) = S(m) + r /\ Q(m + 1) = Q(m) + r * r
    BY <1>2, <1>3, <2>1
  <2>. HIDE DEF r
  <2>5. (m + 1) * (Q(m) + r * r) - (S(m) + r) * (S(m) + r) >= 0
    BY <2>1, <2>2, <2>3, SpreadOfOneMore
  <2>. QED
    BY <2>4, <2>5 DEF m
<1>9. N = Nat
  <2>1. N \in SUBSET Nat
    OBVIOUS
  <2>. HIDE DEF N
  <2>. QED
    BY <1>7, <1>8, <2>1, NatSetInduction
<1>10. \A k \in 1 .. n : k * Q(k) - S(k) * S(k) >= 0
  <2>1. ASSUME NEW k \in 1 .. n PROVE k * Q(k) - S(k) * S(k) >= 0
    <3>1. k - 1 \in Nat /\ (k - 1) + 1 = k /\ k <= n
      BY <1>1
    <3>2. k - 1 \in N
      BY <1>9, <3>1, Zenon
    <3>. QED
      BY <3>1, <3>2
  <2>. QED
    BY <2>1
<1>11. 0 \in M
  BY <1>2
<1>12. ASSUME NEW k \in M PROVE k + 1 \in M
  <2>. SUFFICES ASSUME k + 1 < n PROVE S(k + 1) >= -(k + 1)
    OBVIOUS
  <2>1. k + 1 \in 1 .. n /\ (k + 1) - 1 = k /\ k \in 0 .. n /\ S(k) >= -k
    BY <1>1
  <2>2. path[k + 1] \in Int /\ path[k + 1] >= -1 /\ S(k) \in Int
    BY <1>1, <1>2, <1>5, <2>1
  <2>. QED
    BY <1>2, <2>1, <2>2
<1>13. M = Nat
  <2>1. M \in SUBSET Nat
    OBVIOUS
  <2>. HIDE DEF M
  <2>. QED
    BY <1>11, <1>12, <2>1, NatSetInduction
<1>14. ASSUME path[n] = -2, n # 1
       PROVE  n * Q(n) - S(n) * S(n) > 0
  <2>. DEFINE m == n - 1
  <2>1. m \in Nat /\ m >= 1 /\ m + 1 = n /\ m \in 1 .. n /\ m < n /\ n \in 1 .. n
    BY <1>1, <1>14
  <2>2. S(m) >= -m
    BY <1>13, <2>1
  <2>3. Q(m) \in Int /\ S(m) \in Int
    BY <1>2, <1>3, <2>1
  <2>4. S(n) = S(m) + (-2) /\ Q(n) = Q(m) + (-2) * (-2)
    BY <1>2, <1>3, <1>14, <2>1
  <2>5. m * Q(m) - S(m) * S(m) >= 0
    BY <1>10, <2>1
  <2>. HIDE DEF m
  <2>6. S(m) # m * (-2)
    BY <2>1, <2>2, <2>3
  <2>7. (m + 1) * (Q(m) + (-2) * (-2)) - (S(m) + (-2)) * (S(m) + (-2)) > 0
    BY <2>1, <2>3, <2>5, <2>6, SpreadOfOneMore
  <2>. QED
    BY <2>1, <2>4, <2>7
<1>15. Q(n) \in Int /\ S(n) \in Int /\ n \in 1 .. n
  BY <1>1, <1>2, <1>3
<1>. QED
  BY <1>1, <1>4, <1>6, <1>10, <1>14, <1>15 DEF n

(* A path that returns the same on every mark does not spread. *)
LEMMA FlatDoesNotSpread ==
  ASSUME NEW path, IsPath(path),
         \A k, l \in DOMAIN path : path[k] = path[l]
  PROVE  Dispersion(path) = 0
<1>. DEFINE n == Len(path)
            D == 1 .. n
            v == path[1]
<1>1. /\ n \in Nat /\ n >= 1 /\ DOMAIN path = D /\ v \in Int
      /\ DOMAIN Squares(path) = D
      /\ \A k \in D : path[k] = v /\ Squares(path)[k] = v * v
  <2>1. n \in Nat /\ n >= 1 /\ DOMAIN path = D /\ \A k \in D : path[k] \in Int
    BY SumsOfAPath
  <2>. QED
    BY <2>1 DEF Squares
<1>2. IsFiniteSet(D) /\ Cardinality(D) = n
  BY <1>1, FS_Interval
<1>. HIDE DEF D, v
<1>3. SumFunctionOnSet(path, D) = n * v
  <2>1. SumFunctionOnSet(path, D) = Cardinality(D) * v
    <3>1. IsFiniteSet(D) /\ v \in Int /\ \A k \in D : path[k] = v
      BY <1>1, <1>2
    <3>. QED
      BY ONLY <3>1, SumOfEquals
  <2>. QED
    BY <1>2, <2>1
<1>4. SumFunctionOnSet(Squares(path), D) = n * (v * v)
  <2>1. v * v \in Int
    BY <1>1
  <2>. QED
    BY <1>1, <1>2, <2>1, SumOfEquals
<1>5. Sum(path) = n * v /\ SumOfSquares(path) = n * (v * v)
  BY <1>1, <1>3, <1>4 DEF Sum, SumOfSquares, SumFunction, Squares
<1>6. \A m, w \in Int : m * (m * (w * w)) - (m * w) * (m * w) = 0
  OBVIOUS
<1>. QED
  BY <1>1, <1>5, <1>6 DEF Dispersion

-----------------------------------------------------------------------------
(* Where a path fell deepest *)

(* The equity on each mark, in units that make it whole. *)
LEMMA EquityByMarks ==
  ASSUME NEW path, IsPath(path)
  PROVE  LET n == Len(path)
         IN  /\ DOMAIN Equity(path) = 1 .. n /\ Equity(path) \in Seq(Int)
             /\ Len(Equity(path)) = n
             /\ \A k \in 1 .. n :
                  /\ Equity(path)[k] \in Int /\ Equity(path)[k] >= 0
                  /\ Equity(path)[k] = 0 <=> k = n /\ Liquidated(path)
             /\ Equity(path)[n] > TwoTo[LastDay] <=> Growth(path) > TwoTo[n]
<1>. DEFINE n == Len(path)
            W == Worth(path)
<1>1. /\ n \in Nat /\ n >= 1 /\ n <= LastDay /\ LastDay \in Nat
      /\ DOMAIN path = 1 .. n
  BY ReadingAssumption DEF IsPath
<1>2. /\ \A k \in 0 .. n : W[k] \in Int /\ W[k] >= 0
      /\ \A k \in 0 .. n : W[k] = 0 <=> k = n /\ path[k] = -2
  BY WorthByMarks, WorthIsPositive
<1>3. Liquidated(path) <=> path[n] = -2
  BY DEF Liquidated, Last
<1>4. Equity(path) = [k \in 1 .. n |-> W[k] * TwoTo[LastDay - k]]
  BY <1>1 DEF Equity
<1>5. Growth(path) = W[n]
  BY DEF Growth
<1>. HIDE DEF n, W
<1>6. ASSUME NEW k \in 1 .. n
      PROVE  /\ W[k] \in Int /\ W[k] >= 0
             /\ TwoTo[LastDay - k] \in Nat /\ TwoTo[LastDay - k] >= 1
             /\ W[k] * TwoTo[LastDay - k] \in Int /\ W[k] * TwoTo[LastDay - k] >= 0
             /\ W[k] * TwoTo[LastDay - k] = 0 <=> k = n /\ path[k] = -2
  <2>1. k \in 0 .. n /\ LastDay - k \in Nat
    BY <1>1
  <2>2. TwoTo[LastDay - k] \in Nat /\ TwoTo[LastDay - k] >= (LastDay - k) + 1
    BY <2>1, PowersOfTwo
  <2>3. W[k] \in Int /\ W[k] >= 0 /\ (W[k] = 0 <=> k = n /\ path[k] = -2)
    BY <1>2, <2>1
  <2>4. ASSUME NEW a \in Nat, NEW b \in Nat, b >= 1
        PROVE  a * b \in Nat /\ (a * b = 0 <=> a = 0)
    BY <2>4
  <2>5. TwoTo[LastDay - k] >= 1
    BY <1>1, <2>1, <2>2
  <2>. QED
    BY <2>2, <2>3, <2>4, <2>5
<1>7. /\ DOMAIN Equity(path) = 1 .. n /\ Equity(path) \in Seq(Int)
      /\ Len(Equity(path)) = n
  BY <1>1, <1>4, <1>6
<1>8. \A k \in 1 .. n :
        /\ Equity(path)[k] \in Int /\ Equity(path)[k] >= 0
        /\ Equity(path)[k] = 0 <=> k = n /\ Liquidated(path)
  BY <1>3, <1>4, <1>6
<1>9. Equity(path)[n] > TwoTo[LastDay] <=> Growth(path) > TwoTo[n]
  <2>1. n \in 1 .. n /\ LastDay - n \in Nat /\ n + (LastDay - n) = LastDay
    BY <1>1
  <2>2. TwoTo[LastDay] = TwoTo[n] * TwoTo[LastDay - n]
    BY <1>1, <2>1, PowersOfTwo
  <2>3. ASSUME NEW a \in Int, NEW b \in Int, NEW c \in Int, c >= 1
        PROVE  a * c > b * c <=> a > b
    BY <2>3
  <2>4. TwoTo[n] \in Int
    BY <1>1, Doubling
  <2>5. Equity(path)[n] = W[n] * TwoTo[LastDay - n]
    BY <1>4, <2>1
  <2>. QED
    BY <1>5, <1>6, <2>1, <2>2, <2>3, <2>4, <2>5
<1>. QED
  BY <1>7, <1>8, <1>9 DEF n

LEMMA RatioOrder ==
  ASSUME NEW a \in Int, NEW c \in Int, NEW e \in Int,
         NEW b \in Nat, NEW d \in Nat, NEW f \in Nat, b > 0, d > 0, f > 0,
         a * d <= c * b, c * f <= e * d
  PROVE  a * f <= e * b
<1>1. (a * d) * f <= (c * b) * f
  OBVIOUS
<1>2. (c * f) * b <= (e * d) * b
  OBVIOUS
<1>3. (a * f) * d <= (e * b) * d
  BY <1>1, <1>2
<1>. QED
  BY <1>3

(* Of finitely many ratios one is least. *)
LEMMA LeastRatio ==
  ASSUME NEW n \in Nat, n >= 1, NEW a \in [1 .. n -> Int],
         NEW b \in [1 .. n -> Nat], \A k \in 1 .. n : b[k] > 0
  PROVE  \E t \in 1 .. n : \A i \in 1 .. n : a[t] * b[i] <= a[i] * b[t]
<1>. DEFINE Least(m) == \E t \in 1 .. m : \A i \in 1 .. m :
                          a[t] * b[i] <= a[i] * b[t]
            N == {m \in Nat : m + 1 <= n => Least(m + 1)}
<1>1. 0 \in N
  OBVIOUS
<1>2. ASSUME NEW m \in N PROVE m + 1 \in N
  <2>. SUFFICES ASSUME m + 1 + 1 <= n PROVE Least(m + 1 + 1)
    OBVIOUS
  <2>. DEFINE k == m + 1
              u == k + 1
  <2>1. PICK t \in 1 .. k : \A i \in 1 .. k : a[t] * b[i] <= a[i] * b[t]
    OBVIOUS
  <2>2. k \in Nat /\ u \in 1 .. n /\ t \in 1 .. n /\ t \in 1 .. u /\ u \in 1 .. u
        /\ \A i \in 1 .. u : i \in 1 .. n /\ (i \in 1 .. k \/ i = u)
    OBVIOUS
  <2>3. /\ a[t] \in Int /\ b[t] \in Nat /\ b[t] > 0
        /\ a[u] \in Int /\ b[u] \in Nat /\ b[u] > 0
    BY <2>2
  <2>. HIDE DEF k, u
  <2>4. CASE a[t] * b[u] <= a[u] * b[t]
    <3>1. \A i \in 1 .. u : a[t] * b[i] <= a[i] * b[t]
      BY <2>1, <2>2, <2>4
    <3>. QED
      BY <2>2, <3>1 DEF k, u
  <2>5. CASE a[u] * b[t] <= a[t] * b[u]
    <3>1. ASSUME NEW i \in 1 .. u PROVE a[u] * b[i] <= a[i] * b[u]
      <4>1. a[i] \in Int /\ b[i] \in Nat /\ b[i] > 0
        BY <2>2
      <4>2. CASE i = u
        BY <2>3, <4>2
      <4>3. CASE i \in 1 .. k
        <5>1. a[t] * b[i] <= a[i] * b[t]
          BY <2>1, <4>3
        <5>. QED
          BY <2>3, <2>5, <4>1, <5>1, RatioOrder
      <4>. QED
        BY <2>2, <4>2, <4>3
    <3>. QED
      BY <2>2, <3>1 DEF k, u
  <2>6. a[t] * b[u] \in Int /\ a[u] * b[t] \in Int
    BY <2>3
  <2>. QED
    BY <2>4, <2>5, <2>6
<1>3. N = Nat
  <2>1. N \in SUBSET Nat
    OBVIOUS
  <2>. HIDE DEF N
  <2>. QED
    BY <1>1, <1>2, <2>1, NatSetInduction
<1>4. n - 1 \in Nat /\ (n - 1) + 1 = n
  OBVIOUS
<1>5. n - 1 \in N
  BY <1>3, <1>4, Zenon
<1>. QED
  BY <1>4, <1>5

(***************************************************************************)
(* The drawdown is between two marks of the path, the first of them not     *)
(* after the second, and no two marks in order lie further apart.           *)
(***************************************************************************)
LEMMA DrawdownIsTheDeepest ==
  ASSUME NEW path, IsPath(path), ~CannotBeSummarised(path)
  PROVE  LET n == Len(path)
             e == Equity(path)
         IN  /\ \E t \in 1 .. n : \E k \in 1 .. t :
                  Drawdown(path) = [worth |-> e[t], peak |-> e[k]]
             /\ Drawdown(path).worth \in Int /\ Drawdown(path).worth >= 0
             /\ Drawdown(path).peak \in Int /\ Drawdown(path).peak > 0
             /\ \A j \in 1 .. n : \A i \in 1 .. j :
                  Drawdown(path).worth * e[i] <= e[j] * Drawdown(path).peak
<1>. DEFINE n == Len(path)
            e == Equity(path)
            High(k) == Max({e[i] : i \in 1 .. k})
            peak == [k \in DOMAIN path |-> High(k)]
            Deepest(t) == \A i \in DOMAIN path : e[t] * peak[i] <= e[i] * peak[t]
            trough == CHOOSE t \in DOMAIN path : Deepest(t)
<1>1. n \in Nat /\ n >= 1 /\ DOMAIN path = 1 .. n
  BY SumsOfAPath
<1>2. \A k \in 1 .. n : e[k] \in Int /\ e[k] >= 0
  BY EquityByMarks
<1>3. e[1] > 0
  <2>1. 1 \in 1 .. n /\ ~(1 = n /\ Liquidated(path))
    BY <1>1 DEF CannotBeSummarised
  <2>2. e[1] \in Int /\ e[1] >= 0 /\ e[1] # 0
    BY <2>1, EquityByMarks
  <2>. QED
    BY <2>2
<1>4. Drawdown(path) = [worth |-> e[trough], peak |-> peak[trough]]
  BY DEF Drawdown
<1>. HIDE DEF n, e
<1>5. ASSUME NEW k \in 1 .. n
      PROVE  /\ \E m \in 1 .. k : High(k) = e[m]
             /\ \A i \in 1 .. k : High(k) >= e[i]
  <2>. DEFINE a == [i \in 1 .. k |-> 0 - e[i]]
              b == [i \in 1 .. k |-> 1]
  <2>1. /\ k \in Nat /\ k >= 1 /\ a \in [1 .. k -> Int] /\ b \in [1 .. k -> Nat]
        /\ \A i \in 1 .. k : b[i] > 0
    BY <1>1, <1>2
  <2>2. \E m \in 1 .. k : \A i \in 1 .. k : a[m] * b[i] <= a[i] * b[m]
    <3>. HIDE DEF a, b
    <3>. QED
      BY <2>1, LeastRatio
  <2>3. PICK m \in 1 .. k : \A i \in 1 .. k : a[m] * b[i] <= a[i] * b[m]
    BY <2>2
  <2>4. \A i \in 1 .. k : e[i] \in Int
    BY <1>1, <1>2
  <2>5. \A i \in 1 .. k : e[m] >= e[i]
    BY <2>3, <2>4
  <2>6. e[m] \in {e[i] : i \in 1 .. k} /\ \A x \in {e[i] : i \in 1 .. k} : e[m] >= x
    BY <2>5
  <2>7. High(k) \in {e[i] : i \in 1 .. k} /\ \A x \in {e[i] : i \in 1 .. k} : High(k) >= x
    BY <2>6 DEF Max
  <2>. HIDE DEF High
  <2>. QED
    BY <2>7
<1>. HIDE DEF High
<1>6. /\ \A k \in 1 .. n : peak[k] = High(k)
      /\ \A k \in 1 .. n : peak[k] \in Nat /\ peak[k] > 0
  <2>1. ASSUME NEW k \in 1 .. n PROVE High(k) \in Nat /\ High(k) > 0
    <3>1. PICK m \in 1 .. k : High(k) = e[m]
      BY <1>5
    <3>2. m \in 1 .. n /\ 1 \in 1 .. k
      BY <1>1
    <3>3. High(k) >= e[1] /\ e[m] \in Int /\ e[1] \in Int
      BY <1>1, <1>2, <1>5, <3>2
    <3>. QED
      BY <1>3, <3>1, <3>3
  <2>. QED
    BY <1>1, <2>1
<1>7. trough \in 1 .. n /\ Deepest(trough)
  <2>1. e \in Seq(Int) /\ [k \in 1 .. n |-> e[k]] \in [1 .. n -> Int]
        /\ peak \in [1 .. n -> Nat]
    <3>. HIDE DEF peak
    <3>1. peak \in [1 .. n -> Nat]
      BY <1>1, <1>6 DEF peak
    <3>2. e \in Seq(Int)
      BY EquityByMarks DEF e
    <3>. QED
      BY <1>2, <3>1, <3>2
  <2>. DEFINE f == [k \in 1 .. n |-> e[k]]
  <2>. HIDE DEF peak
  <2>2. \E t \in 1 .. n : \A i \in 1 .. n : f[t] * peak[i] <= f[i] * peak[t]
    <3>1. f \in [1 .. n -> Int]
      BY <2>1
    <3>. HIDE DEF f
    <3>. QED
      BY <1>1, <1>6, <2>1, <3>1, LeastRatio
  <2>3. \E t \in DOMAIN path : Deepest(t)
    BY <1>1, <2>2
  <2>. HIDE DEF Deepest
  <2>4. trough \in DOMAIN path /\ Deepest(trough)
    BY <2>3, Zenon
  <2>. QED
    BY <1>1, <2>4
<1>8. \A i \in 1 .. n : e[trough] * peak[i] <= e[i] * peak[trough]
  <2>. HIDE DEF trough, peak
  <2>. QED
    BY <1>1, <1>7
<1>. HIDE DEF trough, peak
<1>9. PICK k \in 1 .. trough : peak[trough] = e[k]
  BY <1>5, <1>6, <1>7
<1>10. e[trough] \in Int /\ e[trough] >= 0
       /\ peak[trough] \in Int /\ peak[trough] > 0
  BY <1>2, <1>6, <1>7
<1>11. ASSUME NEW j \in 1 .. n, NEW i \in 1 .. j
       PROVE  e[trough] * e[i] <= e[j] * peak[trough]
  <2>1. e[trough] * peak[j] <= e[j] * peak[trough]
    BY <1>8
  <2>2. peak[j] >= e[i] /\ peak[j] \in Int
    BY <1>5, <1>6
  <2>3. i \in 1 .. n /\ e[i] \in Int /\ e[j] \in Int
    BY <1>1, <1>2
  <2>4. e[trough] * e[i] <= e[trough] * peak[j]
    BY <1>10, <2>2, <2>3
  <2>5. e[trough] * e[i] \in Int /\ e[trough] * peak[j] \in Int
        /\ e[j] * peak[trough] \in Int
    BY <1>10, <2>2, <2>3
  <2>. QED
    BY <2>1, <2>4, <2>5
<1>. QED
  BY <1>4, <1>7, <1>9, <1>10, <1>11 DEF n, e

(* A fall no deeper than the deepest of another is no deeper than some fall *)
(* of the other's.                                                          *)
LEMMA NoDeeperMarkByMark ==
  ASSUME NEW ours, IsPath(ours), ~CannotBeSummarised(ours),
         NEW theirs, IsPath(theirs), ~CannotBeSummarised(theirs),
         NoDeeper(Drawdown(ours), Drawdown(theirs)),
         NEW j \in 1 .. Len(ours), NEW i \in 1 .. j
  PROVE  \E l \in 1 .. Len(theirs) : \E k \in 1 .. l :
           Equity(ours)[j] * Equity(theirs)[k] >= Equity(theirs)[l] * Equity(ours)[i]
<1>. DEFINE w == Drawdown(ours).worth
            p == Drawdown(ours).peak
            bw == Drawdown(theirs).worth
            bp == Drawdown(theirs).peak
            x == Equity(ours)[i]
            y == Equity(ours)[j]
<1>1. PICK l \in 1 .. Len(theirs) : \E k \in 1 .. l :
        Drawdown(theirs) = [worth |-> Equity(theirs)[l], peak |-> Equity(theirs)[k]]
  BY DrawdownIsTheDeepest
<1>2. PICK k \in 1 .. l :
        Drawdown(theirs) = [worth |-> Equity(theirs)[l], peak |-> Equity(theirs)[k]]
  BY <1>1
<1>3. bw = Equity(theirs)[l] /\ bp = Equity(theirs)[k]
  BY <1>2
<1>4. /\ w \in Int /\ p \in Int /\ w >= 0 /\ p > 0
      /\ bw \in Int /\ bp \in Int /\ bw >= 0 /\ bp > 0
      /\ w * x <= y * p
  BY DrawdownIsTheDeepest
<1>5. x \in Int /\ y \in Int /\ x >= 0
  <2>1. i \in 1 .. Len(ours) /\ Len(ours) \in Nat
    BY SumsOfAPath
  <2>. QED
    BY <2>1, EquityByMarks
<1>6. w * bp >= bw * p
  BY DEF NoDeeper
<1>. HIDE DEF w, p, bw, bp, x, y
<1>7. (w * x) * bp <= (y * p) * bp
  BY <1>4, <1>5
<1>8. (bw * p) * x <= (w * bp) * x
  BY <1>4, <1>5, <1>6
<1>9. (bw * x) * p <= (y * bp) * p
  BY <1>4, <1>5, <1>7, <1>8
<1>10. bw * x \in Int /\ y * bp \in Int
  BY <1>4, <1>5
<1>11. bw * x <= y * bp
  BY <1>4, <1>9, <1>10
<1>12. y * bp >= bw * x
  BY <1>10, <1>11
<1>. QED
  BY <1>3, <1>12 DEF x, y

-----------------------------------------------------------------------------
(* Marks and rows *)

(* Days in order: every day once, an earlier one in an earlier place. *)
LEMMA InOrderFacts ==
  ASSUME NEW S \in SUBSET Nat, IsFiniteSet(S)
  PROVE  /\ Cardinality(S) \in Nat /\ InOrder(S) \in Seq(S)
         /\ Len(InOrder(S)) = Cardinality(S)
         /\ \A i, j \in 1 .. Cardinality(S) : i < j => InOrder(S)[i] < InOrder(S)[j]
         /\ \A d \in S : \E i \in 1 .. Cardinality(S) : InOrder(S)[i] = d
<1>. DEFINE R == {p \in S \X S : p[1] < p[2]}
            n == Cardinality(S)
            Before(d) == Cardinality({e \in S : e < d})
            s == InOrder(S)
<1>0. \A d \in S : d \in Int
  OBVIOUS
<1>1. n \in Nat
  BY FS_CardinalityType
<1>2. \A a, b \in S : <<a, b>> \in R <=> a < b
  OBVIOUS
<1>3. Ranked(S, R)
  <2>. HIDE DEF R
  <2>1. S \subseteq Int
    OBVIOUS
  <2>. QED
    BY <1>2, <2>1 DEF Ranked
<1>4. \A d \in S : AheadOf(S, R, d) = {e \in S : e < d}
  BY <1>2 DEF AheadOf
<1>. HIDE DEF R
<1>5. [d \in S |-> Cardinality(AheadOf(S, R, d))] \in Bijection(S, 0 .. n - 1)
  BY <1>3, RankIsABijection
<1>6. /\ \A d \in S : Before(d) \in 0 .. n - 1
      /\ \A i \in 0 .. n - 1 : \E d \in S : Before(d) = i
  <2>. DEFINE rank == [d \in S |-> Cardinality(AheadOf(S, R, d))]
  <2>1. /\ \A d \in S : rank[d] \in 0 .. n - 1
        /\ \A i \in 0 .. n - 1 : \E d \in S : rank[d] = i
    <3>. HIDE DEF rank, n
    <3>. QED
      BY <1>5 DEF Bijection, Injection, Surjection, rank
  <2>2. \A d \in S : rank[d] = Before(d)
    BY <1>4
  <2>. HIDE DEF rank, Before, n
  <2>. QED
    BY <2>1, <2>2
<1>7. \A a, b \in S : a < b => Before(a) < Before(b)
  <2>1. ASSUME NEW a \in S, NEW b \in S, a < b PROVE Before(a) < Before(b)
    <3>1. Cardinality(AheadOf(S, R, a)) < Cardinality(AheadOf(S, R, b))
      BY <1>2, <1>3, <2>1, RanksRise
    <3>. QED
      BY <1>4, <3>1
  <2>. QED
    BY <2>1
<1>. HIDE DEF n
<1>8. s = [i \in 1 .. n |-> CHOOSE d \in S : Before(d) = i - 1]
  BY DEF InOrder, n
<1>. HIDE DEF Before, s
<1>9. \A i \in 1 .. n : s[i] \in S /\ Before(s[i]) = i - 1
  <2>1. ASSUME NEW i \in 1 .. n PROVE s[i] \in S /\ Before(s[i]) = i - 1
    <3>1. i - 1 \in 0 .. n - 1
      BY <1>1
    <3>2. \E d \in S : Before(d) = i - 1
      BY <1>6, <3>1
    <3>3. s[i] = CHOOSE d \in S : Before(d) = i - 1
      BY <1>8
    <3>. QED
      BY <3>2, <3>3, Zenon
  <2>. QED
    BY <2>1
<1>10. s \in Seq(S) /\ Len(s) = n
  <2>1. s \in [1 .. n -> S]
    BY <1>8, <1>9
  <2>2. Len(s) = n
    BY <1>1, <1>8
  <2>. QED
    BY <1>1, <2>1, <2>2
<1>11. ASSUME NEW i \in 1 .. n, NEW j \in 1 .. n, i < j
       PROVE  s[i] < s[j]
  <2>1. s[i] \in S /\ s[j] \in S /\ Before(s[i]) = i - 1 /\ Before(s[j]) = j - 1
    BY <1>9
  <2>2. s[i] \in Int /\ s[j] \in Int
    BY <1>0, <2>1
  <2>3. s[j] < s[i] => j - 1 < i - 1
    BY <1>7, <2>1
  <2>4. s[j] # s[i]
    BY <1>11, <2>1
  <2>. QED
    BY <1>11, <2>2, <2>3, <2>4
<1>12. ASSUME NEW d \in S PROVE \E i \in 1 .. n : s[i] = d
  <2>1. Before(d) \in 0 .. n - 1 /\ Before(d) \in Int
    <3>1. Before(d) \in 0 .. n - 1
      BY <1>6
    <3>. QED
      BY <1>1, <3>1
  <2>2. Before(d) + 1 \in 1 .. n /\ (Before(d) + 1) - 1 = Before(d)
    BY <1>1, <2>1
  <2>3. PICK i \in 1 .. n : s[i] \in S /\ Before(s[i]) = Before(d)
    BY <1>9, <2>2
  <2>4. s[i] \in Int /\ d \in Int
    BY <1>0, <2>3
  <2>5. /\ s[i] < d => Before(s[i]) < Before(d)
        /\ d < s[i] => Before(d) < Before(s[i])
    BY <1>7, <2>3
  <2>6. ~(s[i] < d) /\ ~(d < s[i])
    BY <2>1, <2>3, <2>5
  <2>. QED
    BY <2>4, <2>6
<1>. QED
  BY <1>1, <1>10, <1>11, <1>12 DEF s, n

(* A curve is marked to its end or to the first mark that reaches nothing. *)
LEMMA MarkedFacts ==
  ASSUME NEW m \in 1 .. LastDay, NEW returns \in [1 .. m -> {r \in Int : r >= -2}]
  PROVE  LET path == Marked(returns)
         IN  /\ IsPath(path) /\ Len(path) <= m
             /\ \A i \in 1 .. Len(path) : path[i] = returns[i]
             /\ ~Liquidated(path) => Len(path) = m
<1>. DEFINE breached == {k \in DOMAIN returns : returns[k] = -2}
<1>1. /\ m \in Nat /\ m >= 1 /\ m <= LastDay /\ LastDay \in Nat
      /\ DOMAIN returns = 1 .. m
  BY ReadingAssumption
<1>2. returns \in Seq(Int) /\ Len(returns) = m
  BY <1>1
<1>3. CASE breached = {}
  <2>1. Marked(returns) = returns
    BY <1>3 DEF Marked
  <2>2. \A k \in 1 .. m : returns[k] \in Int /\ returns[k] >= -2 /\ returns[k] # -2
    BY <1>1, <1>3
  <2>3. IsPath(returns)
    BY <1>1, <1>2, <2>2 DEF IsPath
  <2>. QED
    BY <1>2, <2>1, <2>3
<1>4. CASE breached # {}
  <2>. DEFINE first == Min(breached)
              path == SubSeq(returns, 1, first)
  <2>1. first \in breached /\ \A k \in breached : first <= k
    <3>1. breached \subseteq Nat
      BY <1>1
    <3>. HIDE DEF breached
    <3>. QED
      BY <1>4, <3>1, MinIsMember
  <2>2. first \in 1 .. m /\ returns[first] = -2
    BY <1>1, <2>1
  <2>3. Marked(returns) = path
    BY <1>4 DEF Marked
  <2>. HIDE DEF first
  <2>4. path \in Seq(Int) /\ Len(path) = first
        /\ \A i \in 1 .. first : path[i] = returns[i]
    BY <1>1, <1>2, <2>2
  <2>5. \A k \in 1 .. first : returns[k] >= -2 /\ (returns[k] = -2 => k = first)
    BY <1>1, <2>1, <2>2
  <2>. HIDE DEF path
  <2>6. IsPath(path)
    BY <1>1, <2>2, <2>4, <2>5 DEF IsPath
  <2>7. Liquidated(path)
    BY <2>2, <2>4 DEF Liquidated, Last
  <2>. QED
    BY <1>1, <2>2, <2>3, <2>4, <2>6, <2>7
<1>. QED
  BY <1>3, <1>4

(* What is known of a result before anything is asked of its days. *)
IsResult(result) ==
  /\ IsPath(result.path) /\ ~CannotBeSummarised(result.path)
  /\ result.reason \in {"window_end", "halted", "liquidated"}
  /\ result.reason = "liquidated" <=> Liquidated(result.path)
  /\ result.decision \in Days
  /\ result.days \in Seq(Days) /\ Len(result.days) = Len(result.path)
  /\ \A i \in 1 .. Len(result.days) : result.days[i] > result.decision

(* A report of later days is a result, unless it cannot be summarised. *)
LEMMA ReportFacts ==
  ASSUME NEW m \in 1 .. LastDay, NEW returns \in [1 .. m -> {r \in Int : r >= -2}],
         NEW days \in Seq(Days), Len(days) = m, NEW decision \in Days,
         \A i \in 1 .. m : days[i] > decision,
         NEW reason \in {"window_end", "halted"}
  PROVE  LET result == Report(decision, days, returns, reason)
         IN  /\ result = [decision |-> decision, days |-> result.days,
                          path |-> Marked(returns), reason |-> result.reason]
             /\ ~CannotBeSummarised(result.path) => IsResult(result)
             /\ \A i \in 1 .. Len(result.path) : result.days[i] = days[i]
<1>. DEFINE path == Marked(returns)
            cut == SubSeq(days, 1, Len(path))
            why == IF Liquidated(path) THEN "liquidated" ELSE reason
            result == [decision |-> decision, days |-> cut, path |-> path,
                       reason |-> why]
<1>1. Report(decision, days, returns, reason) = result
  BY DEF Report
<1>2. IsPath(path) /\ Len(path) \in 1 .. m
  <2>1. IsPath(path) /\ Len(path) <= m
    BY MarkedFacts
  <2>. QED
    BY <2>1, SumsOfAPath
<1>. HIDE DEF path
<1>3. /\ cut \in Seq(Days) /\ Len(cut) = Len(path)
      /\ \A i \in 1 .. Len(path) : cut[i] = days[i]
  BY <1>2
<1>. HIDE DEF cut
<1>4. \A i \in 1 .. Len(cut) : cut[i] > decision
  BY <1>2, <1>3
<1>5. ~CannotBeSummarised(result.path) => IsResult(result)
  <2>1. why \in {"window_end", "halted", "liquidated"}
        /\ (why = "liquidated" <=> Liquidated(path))
    OBVIOUS
  <2>. HIDE DEF why
  <2>. QED
    BY <1>2, <1>3, <1>4, <2>1 DEF IsResult
<1>. QED
  BY <1>1, <1>3, <1>5 DEF path

(***************************************************************************)
(* The rows of a frame that are seen in a window, and those of them an      *)
(* asset is held over: from the second to the last before the first halt.   *)
(***************************************************************************)
LEMMA FrameFacts ==
  ASSUME NEW frame \in Frames
  PROVE  /\ frame \in [Days -> Rows]
         /\ \A d \in Days : /\ frame[d].kind \in {"gap", "halt", "dead", "bar"}
                            /\ frame[d].return \in {r \in Int : r >= -2}
                            /\ frame[d].kind = "dead" => frame[d].return = -2
<1>1. frame \in [Days -> Rows]
  BY DEF Frames
<1>2. ASSUME NEW row \in Rows
      PROVE  /\ row.kind \in {"gap", "halt", "dead", "bar"}
             /\ row.return \in {r \in Int : r >= -2}
             /\ row.kind = "dead" => row.return = -2
  BY ReadingAssumption DEF Rows, Row
<1>. QED
  BY <1>1, <1>2

LEMMA WithinFacts ==
  ASSUME NEW frame \in Frames, NEW from \in Days, NEW to \in Days
  PROVE  LET seen == Within(frame, from, to)
         IN  /\ seen \in Seq(Days) /\ Len(seen) \in Nat /\ Len(seen) <= LastDay + 1
             /\ \A i \in 1 .. Len(seen) :
                  /\ seen[i] >= from /\ seen[i] <= to
                  /\ frame[seen[i]].kind # "gap"
             /\ \A i, j \in 1 .. Len(seen) : i < j => seen[i] < seen[j]
             /\ \A d \in from .. to : frame[d].kind # "gap" =>
                  \E i \in 1 .. Len(seen) : seen[i] = d
<1>. DEFINE S == {d \in from .. to : frame[d].kind # "gap"}
            seen == InOrder(S)
<1>1. from \in Nat /\ to \in Nat /\ from .. to \subseteq Days
  BY ReadingAssumption DEF Days
<1>2. S \in SUBSET Nat /\ S \in SUBSET (from .. to)
  BY <1>1
<1>3. IsFiniteSet(S)
  <2>1. IsFiniteSet(from .. to)
    BY <1>1, FS_Interval
  <2>. HIDE DEF S
  <2>. QED
    BY <1>2, <2>1, FS_Subset
<1>4. Within(frame, from, to) = seen
  BY DEF Within
<1>10. Cardinality(S) \in Nat /\ Cardinality(S) <= LastDay + 1
  <2>1. IsFiniteSet(from .. to) /\ Cardinality(from .. to) <= LastDay + 1
    <3>1. /\ from \in Int /\ to \in Int /\ from >= 0 /\ to <= LastDay
          /\ LastDay \in Nat
      BY ReadingAssumption DEF Days
    <3>2. IsFiniteSet(from .. to)
          /\ Cardinality(from .. to) = IF from > to THEN 0 ELSE to - from + 1
      BY <3>1, FS_Interval
    <3>. QED
      BY <3>1, <3>2
  <2>. HIDE DEF S
  <2>2. Cardinality(S) <= Cardinality(from .. to)
    BY <1>2, <2>1, FS_Subset
  <2>3. Cardinality(S) \in Nat /\ Cardinality(from .. to) \in Nat
    BY <1>3, <2>1, FS_CardinalityType
  <2>. QED
    BY <2>1, <2>2, <2>3, ReadingAssumption
<1>5. \A d \in S : d \in Days /\ d >= from /\ d <= to /\ frame[d].kind # "gap"
  BY <1>1
<1>6. /\ Len(seen) \in Nat /\ seen \in Seq(S) /\ Len(seen) = Cardinality(S)
      /\ \A i, j \in 1 .. Len(seen) : i < j => seen[i] < seen[j]
      /\ \A d \in S : \E i \in 1 .. Len(seen) : seen[i] = d
  <2>. HIDE DEF S
  <2>. QED
    BY <1>2, <1>3, InOrderFacts
<1>7. \A d \in from .. to : frame[d].kind # "gap" => d \in S
  OBVIOUS
<1>. HIDE DEF S, seen
<1>8. \A i \in 1 .. Len(seen) : seen[i] \in S
  BY <1>6
<1>9. seen \in Seq(Days)
  BY <1>5, <1>6, <1>8
<1>. QED
  BY <1>4, <1>5, <1>6, <1>7, <1>8, <1>9, <1>10

LEMMA HeldFacts ==
  ASSUME NEW frame, NEW seen \in Seq(Days), Len(seen) >= 2
  PROVE  LET held == Held(frame, seen)
         IN  /\ held \in Seq(Days) /\ Len(held) \in 0 .. Len(seen) - 1
             /\ \A i \in 1 .. Len(held) :
                  held[i] = seen[i + 1] /\ frame[seen[i + 1]].kind # "halt"
<1>. DEFINE halts == {i \in DOMAIN seen : i > 1 /\ frame[seen[i]].kind = "halt"}
            held == Held(frame, seen)
<1>1. DOMAIN seen = 1 .. Len(seen) /\ Len(seen) \in Nat
  OBVIOUS
<1>2. CASE halts = {}
  <2>1. held = Tail(seen)
    BY <1>2 DEF Held
  <2>2. held \in Seq(Days) /\ Len(held) = Len(seen) - 1
        /\ \A i \in 1 .. Len(seen) - 1 : held[i] = seen[i + 1]
    BY <2>1
  <2>3. \A i \in 1 .. Len(seen) - 1 : frame[seen[i + 1]].kind # "halt"
    <3>1. \A j \in 1 .. Len(seen) : j > 1 => frame[seen[j]].kind # "halt"
      BY <1>1, <1>2
    <3>2. \A i \in 1 .. Len(seen) - 1 : i + 1 \in 1 .. Len(seen) /\ i + 1 > 1
      BY <1>1
    <3>. QED
      BY <3>1, <3>2
  <2>. HIDE DEF held
  <2>. QED
    BY <1>1, <2>2, <2>3 DEF held
<1>3. CASE halts # {}
  <2>. DEFINE first == Min(halts)
  <2>1. first \in halts /\ \A k \in halts : first <= k
    <3>1. halts \subseteq Nat
      BY <1>1
    <3>. HIDE DEF halts
    <3>. QED
      BY <1>3, <3>1, MinIsMember
  <2>2. first \in 2 .. Len(seen)
    BY <1>1, <2>1
  <2>3. held = SubSeq(seen, 2, first - 1)
    BY <1>3 DEF Held
  <2>. HIDE DEF first, held
  <2>4. ASSUME NEW j \in 2 .. first - 1 PROVE frame[seen[j]].kind # "halt"
    <3>1. j \in DOMAIN seen /\ j > 1 /\ ~(first <= j)
      BY <1>1, <2>2
    <3>. QED
      BY <2>1, <3>1
  <2>5. /\ held \in Seq(Days) /\ Len(held) = first - 2
        /\ \A i \in 1 .. first - 2 : held[i] = seen[i + 1]
    BY <1>1, <2>2, <2>3
  <2>6. \A i \in 1 .. first - 2 : i + 1 \in 2 .. first - 1
    BY <2>2
  <2>. QED
    BY <1>1, <2>2, <2>4, <2>5, <2>6 DEF held
<1>. QED
  BY <1>2, <1>3

(* A hold is a result, of the days after the first row that was seen. *)
LEMMA HoldFacts ==
  ASSUME NEW frame \in Frames, NEW from \in Days, NEW to \in Days,
         CanBeHeld(frame, Within(frame, from, to))
  PROVE  LET seen == Within(frame, from, to)
             result == Hold(frame, seen)
             n == Len(result.path)
         IN  /\ result = [decision |-> seen[1], days |-> result.days,
                          path |-> result.path, reason |-> result.reason]
             /\ ~CannotBeSummarised(result.path) => IsResult(result)
             /\ n \in Nat /\ n >= 1 /\ n + 1 <= Len(seen)
             /\ \A i \in 1 .. n : /\ result.days[i] = seen[i + 1]
                                  /\ frame[seen[i + 1]].kind # "halt"
                                  /\ frame[seen[i + 1]].kind = "dead" => i = n
             /\ frame[seen[2]].kind # "dead"
<1>. DEFINE seen == Within(frame, from, to)
            held == Held(frame, seen)
            m == Len(held)
            returns == [i \in DOMAIN held |-> frame[held[i]].return]
            ending == IF m = Len(seen) - 1 THEN "window_end" ELSE "halted"
            result == Hold(frame, seen)
            path == Marked(returns)
<1>1. /\ seen \in Seq(Days) /\ Len(seen) \in Nat /\ Len(seen) <= LastDay + 1
      /\ \A i, j \in 1 .. Len(seen) : i < j => seen[i] < seen[j]
  BY WithinFacts
<1>2. Len(seen) >= 2 /\ held # <<>> /\ frame[Head(held)].kind # "dead"
  BY DEF CanBeHeld
<1>. HIDE DEF seen
<1>3. /\ held \in Seq(Days) /\ m \in 0 .. Len(seen) - 1
      /\ \A i \in 1 .. m : held[i] = seen[i + 1] /\ frame[seen[i + 1]].kind # "halt"
  BY <1>1, <1>2, HeldFacts
<1>4. result = Report(Head(seen), held, returns, ending)
  BY DEF Hold
<1>. HIDE DEF held
<1>5. m \in Nat /\ m >= 1 /\ m <= LastDay /\ m + 1 <= Len(seen) /\ DOMAIN held = 1 .. m
      /\ m \in 1 .. LastDay
  BY <1>1, <1>2, <1>3, ReadingAssumption
<1>. HIDE DEF m
<1>6. \A i \in 1 .. m : held[i] \in Days
  BY <1>3, <1>5 DEF m
<1>7. returns \in [1 .. m -> {r \in Int : r >= -2}]
      /\ \A i \in 1 .. m : returns[i] = frame[held[i]].return
  BY <1>5, <1>6, FrameFacts
<1>8. Head(seen) = seen[1] /\ seen[1] \in Days /\ Head(held) = held[1]
  BY <1>1, <1>2, <1>3, <1>5
<1>9. \A i \in 1 .. m : held[i] > seen[1]
  <2>1. ASSUME NEW i \in 1 .. m PROVE held[i] > seen[1]
    <3>1. 1 \in 1 .. Len(seen) /\ i + 1 \in 1 .. Len(seen) /\ 1 < i + 1
      BY <1>1, <1>5
    <3>2. seen[1] < seen[i + 1] /\ held[i] = seen[i + 1]
      BY <1>1, <1>3, <3>1
    <3>. QED
      BY <3>2
  <2>. QED
    BY <2>1
<1>10. ending \in {"window_end", "halted"}
  OBVIOUS
<1>. HIDE DEF ending, returns, result
<1>11. /\ result = [decision |-> seen[1], days |-> result.days,
                    path |-> path, reason |-> result.reason]
       /\ ~CannotBeSummarised(result.path) => IsResult(result)
       /\ \A i \in 1 .. Len(result.path) : result.days[i] = held[i]
  <2>1. Len(held) = m
    BY DEF m
  <2>. QED
    BY <1>3, <1>4, <1>5, <1>7, <1>8, <1>9, <1>10, <2>1, ReportFacts
<1>12. result.path = path
  BY <1>11
<1>13. /\ IsPath(path) /\ Len(path) <= m
       /\ \A i \in 1 .. Len(path) : path[i] = returns[i]
  BY <1>5, <1>7, MarkedFacts
<1>. HIDE DEF path
<1>14. Len(path) \in Nat /\ Len(path) >= 1 /\ Len(path) + 1 <= Len(seen)
  BY <1>1, <1>5, <1>13, SumsOfAPath
<1>15. ASSUME NEW i \in 1 .. Len(path)
       PROVE  /\ result.days[i] = seen[i + 1]
              /\ frame[seen[i + 1]].kind # "halt"
              /\ frame[seen[i + 1]].kind = "dead" => i = Len(path)
  <2>1. i \in 1 .. m
    BY <1>5, <1>13, <1>14
  <2>2. held[i] = seen[i + 1] /\ frame[seen[i + 1]].kind # "halt" /\ held[i] \in Days
    BY <1>3, <1>6, <2>1 DEF m
  <2>3. result.days[i] = held[i]
    BY <1>11, <1>12
  <2>4. frame[held[i]].kind = "dead" => path[i] = -2
    BY <1>7, <1>13, <2>1, <2>2, FrameFacts
  <2>5. path[i] = -2 => i = Len(path)
    BY <1>13 DEF IsPath
  <2>. QED
    BY <2>2, <2>3, <2>4, <2>5
<1>16. frame[seen[2]].kind # "dead"
  <2>1. held[1] = seen[1 + 1]
    BY <1>3, <1>5 DEF m
  <2>. QED
    BY <1>2, <1>8, <2>1
<1>. QED
  BY <1>11, <1>12, <1>14, <1>15, <1>16 DEF seen, result

-----------------------------------------------------------------------------
(* Turnover *)

Selections == [filled : BOOLEAN, turnover : 0 .. 4]

LEMMA TurnoverIsANumber ==
  ASSUME NEW s \in Seq(Selections)
  PROVE  Turnover(s) \in Nat
<1>. DEFINE f == [i \in DOMAIN s |-> s[i].turnover]
            n == Len(s)
            N == {k \in Nat : k <= n => SumTo(f, k) >= 0}
<1>1. n \in Nat /\ DOMAIN s = 1 .. n
  OBVIOUS
<1>2. DOMAIN f = 1 .. n /\ \A k \in 1 .. n : f[k] \in Int /\ f[k] >= 0
  <2>1. ASSUME NEW k \in 1 .. n PROVE s[k].turnover \in 0 .. 4
    <3>1. s[k] \in Selections
      BY <1>1
    <3>. QED
      BY <3>1 DEF Selections
  <2>. QED
    BY <1>1, <2>1
<1>3. Turnover(s) = SumTo(f, n)
  <2>1. Turnover(s) = SumFunctionOnSet(f, DOMAIN f)
    BY DEF Turnover, SumFunction
  <2>. HIDE DEF f
  <2>. QED
    BY <1>2, <2>1 DEF SumTo
<1>. HIDE DEF f, n
<1>4. /\ SumTo(f, 0) = 0 /\ \A k \in 0 .. n : SumTo(f, k) \in Int
      /\ \A k \in 1 .. n : SumTo(f, k) = SumTo(f, k - 1) + f[k]
  BY <1>1, <1>2, SumByMarks
<1>5. 0 \in N
  BY <1>4
<1>6. ASSUME NEW k \in N PROVE k + 1 \in N
  <2>. SUFFICES ASSUME k + 1 <= n PROVE SumTo(f, k + 1) >= 0
    OBVIOUS
  <2>1. k + 1 \in 1 .. n /\ (k + 1) - 1 = k /\ k \in 0 .. n /\ SumTo(f, k) >= 0
    BY <1>1
  <2>2. SumTo(f, k + 1) = SumTo(f, k) + f[k + 1] /\ SumTo(f, k) \in Int
    BY <1>4, <2>1
  <2>. QED
    BY <1>2, <2>1, <2>2
<1>7. N = Nat
  <2>1. N \in SUBSET Nat
    OBVIOUS
  <2>. HIDE DEF N
  <2>. QED
    BY <1>5, <1>6, <2>1, NatSetInduction
<1>8. n \in N /\ n \in 0 .. n
  BY <1>1, <1>7
<1>. QED
  BY <1>1, <1>3, <1>4, <1>8

LEMMA WalkFacts ==
  ASSUME NEW h \in Holdings, NEW walk \in Walks[h]
  PROVE  Measured(walk) \in Nat \union {None} /\ Rotation(walk) \in Nat
<1>. DEFINE R == Rebalances(h)
<1>1. R \in Nat
  <2>. DEFINE D == {d \in 0 .. LastDay - 1 : d % h = 0}
  <2>1. IsFiniteSet(0 .. LastDay - 1) /\ D \in SUBSET (0 .. LastDay - 1)
    <3>1. 0 \in Int /\ LastDay - 1 \in Int
      BY ReadingAssumption
    <3>2. IsFiniteSet(0 .. LastDay - 1)
      BY <3>1, FS_Interval
    <3>. QED
      BY <3>2
  <2>. HIDE DEF D
  <2>2. Cardinality(D) \in Nat
    BY <2>1, FS_Subset, FS_CardinalityType
  <2>. QED
    BY <2>2 DEF D, Rebalances
<1>2. walk \in [1 .. R -> Selections]
  BY DEF Walks, Selections
<1>. HIDE DEF R
<1>3. walk \in Seq(Selections)
  BY <1>1, <1>2
<1>4. Measured(walk) \in Nat \union {None}
  <2>1. Len(walk) >= 2 => Tail(walk) \in Seq(Selections)
    BY <1>3
  <2>2. Len(walk) >= 2 => Turnover(Tail(walk)) \in Nat
    BY <2>1, TurnoverIsANumber
  <2>3. Len(walk) \in Nat
    BY <1>3
  <2>. QED
    BY <2>2, <2>3 DEF Measured
<1>5. Rotation(walk) \in Nat
  <2>. DEFINE fills == {i \in DOMAIN walk : walk[i].filled}
              rest == SubSeq(walk, Min(fills) + 1, Len(walk))
  <2>1. CASE fills = {}
    BY <2>1 DEF Rotation
  <2>2. CASE fills # {}
    <3>1. Min(fills) \in fills
      <4>1. fills \subseteq Nat
        BY <1>3
      <4>. HIDE DEF fills
      <4>. QED
        BY <2>2, <4>1, MinIsMember
    <3>2. Min(fills) \in 1 .. Len(walk)
      BY <1>3, <3>1
    <3>3. Rotation(walk) = Turnover(rest)
      BY <2>2 DEF Rotation
    <3>. HIDE DEF fills
    <3>4. rest \in Seq(Selections)
      BY <1>3, <3>2
    <3>. HIDE DEF rest
    <3>. QED
      BY <3>3, <3>4, TurnoverIsANumber
  <2>. QED
    BY <2>1, <2>2
<1>. QED
  BY <1>4, <1>5

-----------------------------------------------------------------------------
(* The run *)

IsRun(result) ==
  /\ IsResult(result)
  /\ result.turnover \in Nat \union {None} /\ result.clearsBar \in BOOLEAN
  /\ result.clearsBar => TStatistic(result.path) = "positive"

(* b is Bitcoin held over the window of r, by the rows of a frame. *)
HeldOver(frame, r, b) ==
  LET seen == Within(frame, r.decision, Exit(r))
  IN  /\ frame \in Frames /\ CanBeHeld(frame, seen)
      /\ b = Hold(frame, seen) /\ ~CannotBeSummarised(b.path)

Recorded(r, b) ==
  [outcome |-> "recorded", slug |-> None, turnover |-> r.turnover,
   metrics |-> MetricsOf(r), clears |-> Clears(r, b), spans |-> Spans(b, r)]

(***************************************************************************)
(* The cell is read off the run and off Bitcoin over the run's window, and  *)
(* off nothing else: what a later step is handed is what the earlier ones   *)
(* made of the path and of the bars.                                        *)
(***************************************************************************)
IInv ==
  /\ step \in {"simulate", "market", "btc", "file", "done", "aborted"}
  /\ strategy \in {"cross_sectional", "buy_and_hold"} /\ holding \in Holdings
  /\ bars \in Frames \union {None} /\ rotation \in Nat
  /\ run # None \/ step \in {"market", "btc", "file"} => IsRun(run)
  /\ step \in {"simulate", "market", "btc"} => btc = None
  /\ btc # None => IsRun(run) /\ HeldOver(bars, run, btc)
  /\ step # "done" => cell = None
  /\ step = "done" =>
       /\ cell \in Filed
       /\ cell.outcome = "recorded" => IsRun(run) /\ cell = Recorded(run, btc)
       /\ cell.outcome = "refused" => ~cell.clears /\ ~cell.spans

(* What the report says of a path has one of the four shapes of a cell. *)
LEMMA MetricsHaveAShape ==
  ASSUME NEW r, IsResult(r)
  PROVE  /\ \E shape \in CellShapes : MetricsOf(r) = Metrics(shape)
         /\ TStatistic(r.path) # "none" => ~Liquidated(r.path) /\ MetricsOf(r).sharpe
<1>. DEFINE path == r.path
<1>1. IsPath(path) /\ ~CannotBeSummarised(path)
  BY DEF IsResult
<1>. HIDE DEF path
<1>2. /\ Dispersion(path) \in Int /\ Dispersion(path) >= 0
      /\ Liquidated(path) /\ Len(path) # 1 => Dispersion(path) > 0
  BY <1>1, SpreadOfAPath
<1>3. Liquidated(path) => Len(path) # 1
  BY <1>1 DEF CannotBeSummarised
<1>4. IsNumber(Sharpe(path)) <=> Dispersion(path) > 0
  <2>1. Len(path) \in Nat /\ Len(path) >= 1
    BY <1>1, SumsOfAPath
  <2>2. Sharpe(path).den = Len(path) * Dispersion(path)
    BY DEF Sharpe
  <2>3. ASSUME NEW a \in Nat, NEW b \in Nat, a >= 1
        PROVE  a * b > 0 <=> b > 0
    BY <2>3
  <2>. QED
    BY <1>2, <2>1, <2>2, <2>3 DEF IsNumber
<1>5. MetricsOf(r) = [sharpe |-> IsNumber(Sharpe(path)), t |-> TStatistic(path),
                      liquidated |-> Liquidated(path)]
  BY DEF MetricsOf, path
<1>6. IsNumber(Sharpe(path)) \in BOOLEAN /\ Liquidated(path) \in BOOLEAN
  BY DEF IsNumber, Liquidated
<1>7. CASE Liquidated(path)
  <2>1. IsNumber(Sharpe(path)) = TRUE /\ TStatistic(path) = "none" /\ Liquidated(path) = TRUE
    BY <1>2, <1>3, <1>4, <1>6, <1>7 DEF TStatistic
  <2>2. MetricsOf(r) = Metrics("wiped_out")
    BY <1>5, <2>1 DEF Metrics, HasSharpe, HasTStatistic, IsLiquidated
  <2>. QED
    BY <2>1, <2>2 DEF CellShapes, path
<1>8. CASE ~Liquidated(path) /\ Dispersion(path) = 0
  <2>1. IsNumber(Sharpe(path)) = FALSE /\ TStatistic(path) = "none" /\ Liquidated(path) = FALSE
    BY <1>2, <1>4, <1>6, <1>8 DEF TStatistic
  <2>2. MetricsOf(r) = Metrics("silent")
    BY <1>5, <2>1 DEF Metrics, HasSharpe, HasTStatistic, IsLiquidated
  <2>. QED
    BY <2>1, <2>2 DEF CellShapes, path
<1>9. CASE ~Liquidated(path) /\ Dispersion(path) # 0
  <2>1. IsNumber(Sharpe(path)) = TRUE /\ Liquidated(path) = FALSE
        /\ TStatistic(path) \in {"positive", "not_positive"}
    BY <1>2, <1>4, <1>6, <1>9 DEF TStatistic
  <2>2. MetricsOf(r) = Metrics("gained") \/ MetricsOf(r) = Metrics("lost")
    BY <1>5, <2>1 DEF Metrics, HasSharpe, HasTStatistic, IsLiquidated
  <2>. QED
    BY <1>5, <1>9, <2>1, <2>2 DEF CellShapes, path
<1>. QED
  BY <1>7, <1>8, <1>9

(* A record of a run is a cell; so is a refusal. *)
LEMMA RecordedIsFiled ==
  ASSUME NEW r, IsRun(r), NEW b
  PROVE  Recorded(r, b) \in Filed
<1>1. \E shape \in CellShapes : MetricsOf(r) = Metrics(shape)
  BY MetricsHaveAShape DEF IsRun
<1>2. Clears(r, b) \in BOOLEAN /\ Spans(b, r) \in BOOLEAN
  BY DEF Clears, Spans, IsRun, Above, NoDeeper
<1>3. r.turnover \in Nat \union {None}
  BY DEF IsRun
<1>. QED
  BY <1>1, <1>2, <1>3 DEF Recorded, Filed

LEMMA RefusedIsFiled ==
  ASSUME NEW slug \in {"turnover_budget_breached", "not_enough_bars"},
         NEW measured \in Nat \union {None}
  PROVE  [outcome |-> "refused", slug |-> slug, turnover |-> measured,
          metrics |-> NoMetrics, clears |-> FALSE, spans |-> FALSE] \in Filed
BY DEF Filed, NoMetrics, CellShapes

(* What a run is judged by, of a result that can be summarised. *)
LEMMA JudgedIsARun ==
  ASSUME NEW result, IsResult(result), NEW measured \in Nat \union {None},
         NEW r \in Judged(result, measured)
  PROVE  IsRun(r) /\ r.turnover = measured
<1>1. PICK clears \in IF TStatistic(result.path) = "positive" THEN BOOLEAN ELSE {FALSE} :
        r = [decision |-> result.decision, days |-> result.days, path |-> result.path,
             reason |-> result.reason, clearsBar |-> clears, turnover |-> measured]
  BY DEF Judged
<1>2. /\ r.decision = result.decision /\ r.days = result.days /\ r.path = result.path
      /\ r.reason = result.reason /\ r.clearsBar = clears /\ r.turnover = measured
  BY <1>1
<1>3. IsResult(r)
  BY <1>2 DEF IsResult
<1>4. r.clearsBar \in BOOLEAN /\ (r.clearsBar => TStatistic(r.path) = "positive")
  <2>1. CASE TStatistic(result.path) = "positive"
    BY <1>1, <1>2, <2>1
  <2>2. CASE TStatistic(result.path) # "positive"
    BY <1>1, <1>2, <2>2
  <2>. QED
    BY <2>1, <2>2
<1>. QED
  BY <1>2, <1>3, <1>4 DEF IsRun

(* The strategy's own walk makes a result of the marked days. *)
LEMMA WalkReportIsAResult ==
  ASSUME NEW returns \in [1 .. LastDay -> Returns]
  PROVE  LET result == Report(0, [k \in 1 .. LastDay |-> k], returns, "window_end")
         IN  ~CannotBeSummarised(result.path) => IsResult(result)
<1>. DEFINE days == [k \in 1 .. LastDay |-> k]
<1>1. LastDay \in 1 .. LastDay /\ LastDay \in Nat /\ 0 \in Days
  BY ReadingAssumption DEF Days
<1>2. returns \in [1 .. LastDay -> {r \in Int : r >= -2}]
  BY ReadingAssumption
<1>3. days \in Seq(Days) /\ Len(days) = LastDay /\ \A i \in 1 .. LastDay : days[i] > 0
  BY <1>1 DEF Days
<1>4. "window_end" \in {"window_end", "halted"}
  OBVIOUS
<1>. HIDE DEF days
<1>. QED
  BY <1>1, <1>2, <1>3, <1>4, ReportFacts DEF days

LEMMA RunDays ==
  ASSUME NEW r, IsResult(r)
  PROVE  /\ r.decision \in Days /\ Exit(r) \in Days
         /\ Len(r.days) \in Nat /\ Len(r.days) >= 1
         /\ Exit(r) = r.days[Len(r.days)] /\ Entry(r) = r.days[1]
<1>1. Len(r.path) \in Nat /\ Len(r.path) >= 1
  BY SumsOfAPath DEF IsResult
<1>. QED
  BY <1>1 DEF IsResult, Exit, Entry, Last

LEMMA Inductive == Spec => []IInv
<1>1. Init => IInv
  BY DEF Init, IInv
<1>2. IInv /\ [Next]_vars => IInv'
  <2>. SUFFICES ASSUME IInv, [Next]_vars
                PROVE  IInv'
    OBVIOUS
  <2>1. CASE SimulateCrossSectional
    <3>1. PICK walk \in Walks[holding], returns \in [1 .. LastDay -> Returns] :
            LET result == Report(0, [k \in 1 .. LastDay |-> k], returns, "window_end")
            IN  IF CannotBeSummarised(result.path) THEN Abort
                ELSE /\ run' \in Judged(result, Measured(walk))
                     /\ rotation' = Rotation(walk)
                     /\ IF Breaches(Measured(walk), holding, Budget)
                          THEN Refuse("turnover_budget_breached", Measured(walk))
                          ELSE step' = "market" /\ UNCHANGED cell
                     /\ UNCHANGED <<bars, btc>>
      BY <2>1 DEF SimulateCrossSectional
    <3>. DEFINE result == Report(0, [k \in 1 .. LastDay |-> k], returns, "window_end")
    <3>2. step = "simulate" /\ UNCHANGED <<strategy, holding>>
      BY <2>1 DEF SimulateCrossSectional
    <3>3. CASE CannotBeSummarised(result.path)
      <4>1. Abort
        BY <3>1, <3>3
      <4>. QED
        BY <3>2, <4>1 DEF Abort, IInv
    <3>4. CASE ~CannotBeSummarised(result.path)
      <4>1. Measured(walk) \in Nat \union {None} /\ Rotation(walk) \in Nat
        BY WalkFacts DEF IInv
      <4>2. IsResult(result)
        BY <3>4, WalkReportIsAResult
      <4>3. /\ run' \in Judged(result, Measured(walk)) /\ rotation' = Rotation(walk)
            /\ UNCHANGED <<bars, btc>>
            /\ IF Breaches(Measured(walk), holding, Budget)
                 THEN Refuse("turnover_budget_breached", Measured(walk))
                 ELSE step' = "market" /\ UNCHANGED cell
        BY <3>1, <3>4
      <4>. HIDE DEF result
      <4>4. IsRun(run')
        BY <4>1, <4>2, <4>3, JudgedIsARun
      <4>5. \/ /\ step' = "done" /\ cell' \in Filed /\ cell'.outcome = "refused"
               /\ cell'.clears = FALSE /\ cell'.spans = FALSE
            \/ step' = "market" /\ UNCHANGED cell
        <5>1. CASE Refuse("turnover_budget_breached", Measured(walk))
          BY <4>1, <5>1, RefusedIsFiled DEF Refuse
        <5>. QED
          BY <4>3, <5>1
      <4>. QED
        BY <3>2, <4>1, <4>3, <4>4, <4>5 DEF IInv
    <3>. QED
      BY <3>3, <3>4
  <2>2. CASE CapWeightedMarket
    <3>1. step = "market" /\ UNCHANGED <<strategy, holding, run, bars, btc, rotation>>
      BY <2>2 DEF CapWeightedMarket, Abort
    <3>2. \/ /\ step' = "done" /\ cell' \in Filed /\ cell'.outcome = "refused"
             /\ cell'.clears = FALSE /\ cell'.spans = FALSE
          \/ step' = "btc" /\ UNCHANGED cell
          \/ step' = "aborted" /\ UNCHANGED cell
      <4>1. CASE Abort
        BY <4>1 DEF Abort
      <4>2. ASSUME NEW walk \in Walks[holding],
                   Refuse("turnover_budget_breached", Measured(walk))
            PROVE  /\ step' = "done" /\ cell' \in Filed /\ cell'.outcome = "refused"
                   /\ cell'.clears = FALSE /\ cell'.spans = FALSE
        <5>1. Measured(walk) \in Nat \union {None}
          BY WalkFacts DEF IInv
        <5>. QED
          BY <4>2, <5>1, RefusedIsFiled DEF Refuse
      <4>. QED
        BY <2>2, <4>1, <4>2 DEF CapWeightedMarket
    <3>. QED
      BY <3>1, <3>2 DEF IInv
  <2>3. CASE SimulateBuyAndHold
    <3>1. step = "simulate" /\ UNCHANGED <<strategy, holding>>
      BY <2>3 DEF SimulateBuyAndHold
    <3>2. PICK frame \in Frames, isBtc \in BOOLEAN :
            LET seen == Within(frame, 0, LastDay)
            IN  \/ /\ ~CanBeHeld(frame, seen)
                   /\ Refuse("not_enough_bars", None)
                   /\ UNCHANGED <<run, bars, btc, rotation>>
                \/ /\ CanBeHeld(frame, seen)
                   /\ LET result == Hold(frame, seen)
                      IN  IF CannotBeSummarised(result.path) THEN Abort
                          ELSE /\ run' \in Judged(result, None)
                               /\ bars' = IF isBtc THEN frame ELSE None
                               /\ step' = "btc"
                               /\ UNCHANGED <<btc, cell, rotation>>
      BY <2>3 DEF SimulateBuyAndHold
    <3>. DEFINE seen == Within(frame, 0, LastDay)
                result == Hold(frame, seen)
    <3>3. CASE /\ ~CanBeHeld(frame, seen)
               /\ Refuse("not_enough_bars", None)
               /\ UNCHANGED <<run, bars, btc, rotation>>
      <4>1. /\ step' = "done" /\ cell' \in Filed /\ cell'.outcome = "refused"
            /\ cell'.clears = FALSE /\ cell'.spans = FALSE
        BY <3>3, RefusedIsFiled DEF Refuse
      <4>. QED
        BY <3>1, <3>3, <4>1 DEF IInv
    <3>4. CASE Abort
      BY <3>1, <3>4 DEF Abort, IInv
    <3>5. CASE /\ CanBeHeld(frame, seen) /\ ~CannotBeSummarised(result.path)
               /\ run' \in Judged(result, None)
               /\ bars' = IF isBtc THEN frame ELSE None
               /\ step' = "btc" /\ UNCHANGED <<btc, cell, rotation>>
      <4>1. 0 \in Days /\ LastDay \in Days
        BY ReadingAssumption DEF Days
      <4>2. IsResult(result)
        BY <3>5, <4>1, HoldFacts
      <4>. HIDE DEF result
      <4>3. IsRun(run')
        BY <3>5, <4>2, JudgedIsARun
      <4>4. bars' \in Frames \union {None}
        BY <3>5
      <4>. QED
        BY <3>1, <3>5, <4>3, <4>4 DEF IInv
    <3>. QED
      BY <3>2, <3>3, <3>4, <3>5
  <2>4. CASE BtcUnreadable
    BY <2>4 DEF BtcUnreadable, IInv
  <2>5. CASE BtcBuyAndHold
    <3>1. /\ step = "btc" /\ UNCHANGED <<strategy, holding>>
          /\ IsRun(run) /\ btc = None /\ cell = None
      BY <2>5 DEF BtcBuyAndHold, IInv
    <3>2. PICK frame \in IF bars = None THEN Frames ELSE {bars} :
            LET seen == RunWindow(frame)
            IN  \/ /\ ~CanBeHeld(frame, seen)
                   /\ bars' = frame /\ step' = "file"
                   /\ UNCHANGED <<run, btc, cell, rotation>>
                \/ /\ CanBeHeld(frame, seen)
                   /\ LET result == Hold(frame, seen)
                      IN  IF CannotBeSummarised(result.path) THEN Abort
                          ELSE /\ btc' = result /\ bars' = frame /\ step' = "file"
                               /\ UNCHANGED <<run, cell, rotation>>
      BY <2>5 DEF BtcBuyAndHold
    <3>. DEFINE seen == Within(frame, run.decision, Exit(run))
                result == Hold(frame, seen)
    <3>3. frame \in Frames
      BY <3>2 DEF IInv
    <3>4. RunWindow(frame) = seen
      BY DEF RunWindow
    <3>5. CASE /\ bars' = frame /\ step' = "file"
               /\ UNCHANGED <<run, btc, cell, rotation>>
      BY <3>1, <3>3, <3>5 DEF IInv
    <3>6. CASE Abort
      BY <3>1, <3>6 DEF Abort, IInv
    <3>7. CASE /\ CanBeHeld(frame, seen) /\ ~CannotBeSummarised(result.path)
               /\ btc' = result /\ bars' = frame /\ step' = "file"
               /\ UNCHANGED <<run, cell, rotation>>
      <4>1. HeldOver(bars', run', btc')
        BY <3>3, <3>7 DEF HeldOver, Exit
      <4>2. IsRun(run')
        BY <3>1, <3>7
      <4>. HIDE DEF result, seen
      <4>. QED
        BY <3>1, <3>3, <3>7, <4>1, <4>2 DEF IInv
    <3>. QED
      BY <3>2, <3>4, <3>5, <3>6, <3>7
  <2>6. CASE File
    <3>1. /\ step = "file" /\ step' = "done" /\ IsRun(run)
          /\ UNCHANGED <<strategy, holding, run, bars, btc, rotation>>
      BY <2>6 DEF File, IInv
    <3>2. cell' = Recorded(run, btc)
      BY <2>6 DEF File, Recorded
    <3>3. cell' \in Filed /\ cell'.outcome = "recorded"
      BY <3>1, <3>2, RecordedIsFiled DEF Recorded
    <3>4. cell' = Recorded(run', btc')
      BY <3>1, <3>2
    <3>. QED
      BY <3>1, <3>3, <3>4 DEF IInv
  <2>7. CASE UNCHANGED vars
    BY <2>7 DEF vars, IInv
  <2>. QED
    BY <2>1, <2>2, <2>3, <2>4, <2>5, <2>6, <2>7 DEF Next
<1>. QED
  BY <1>1, <1>2, PTL DEF Spec

(* A result is typed, and its path ends at its first total loss. *)
LEMMA ResultsAreTyped ==
  ASSUME NEW result, IsResult(result)
  PROVE  /\ result.reason \in {"window_end", "halted", "liquidated"}
         /\ result.decision \in Days /\ Len(result.days) = Len(result.path)
         /\ \A i \in DOMAIN result.path :
              /\ result.days[i] \in Days /\ result.days[i] > result.decision
              /\ result.path[i] = -2 <=>
                   i = Len(result.path) /\ result.reason = "liquidated"
<1>. DEFINE path == result.path
            days == result.days
            n == Len(path)
<1>1. /\ n \in Nat /\ n >= 1 /\ DOMAIN path = 1 .. n
      /\ \A i \in 1 .. n : path[i] = -2 => i = n
      /\ Last(path) = path[n]
  BY SumsOfAPath DEF IsResult, IsPath, Last
<1>2. result.reason = "liquidated" <=> path[n] = -2
  BY <1>1 DEF IsResult, Liquidated
<1>3. \A i \in 1 .. n : days[i] \in Days /\ days[i] > result.decision
  BY <1>1 DEF IsResult
<1>. QED
  BY <1>1, <1>2, <1>3 DEF IsResult

(* Bitcoin held over a run's window is a result. *)
LEMMA HeldOverIsAResult ==
  ASSUME NEW r, IsResult(r), NEW frame, NEW b, HeldOver(frame, r, b)
  PROVE  IsResult(b)
<1>1. r.decision \in Days /\ Exit(r) \in Days
  BY RunDays
<1>. QED
  BY <1>1, HoldFacts DEF HeldOver

(***************************************************************************)
(* The types hold of every reachable state: of a run that is walked or      *)
(* held, of Bitcoin over its window, and of the cell that is filed.         *)
(***************************************************************************)
THEOREM TypeCorrect == Spec => []TypeOK
<1>1. IInv => TypeOK
  <2>. SUFFICES ASSUME IInv
                PROVE  TypeOK
    OBVIOUS
  <2>1. \A result \in {run, btc} \ {None} : IsResult(result)
    <3>1. run # None => IsResult(run)
      BY DEF IInv, IsRun
    <3>2. btc # None => IsResult(btc)
      <4>1. btc # None => IsResult(run) /\ HeldOver(bars, run, btc)
        BY DEF IInv, IsRun
      <4>. QED
        BY <4>1, HeldOverIsAResult
    <3>. QED
      BY <3>1, <3>2
  <2>2. cell # None <=> step = "done"
    BY ReadingAssumption DEF IInv
  <2>3. cell \in Filed \union {None}
    BY DEF IInv
  <2>4. \A result \in {run, btc} \ {None} :
          /\ result.reason \in {"window_end", "halted", "liquidated"}
          /\ result.decision \in Days /\ Len(result.days) = Len(result.path)
          /\ \A i \in DOMAIN result.path :
               /\ result.days[i] \in Days /\ result.days[i] > result.decision
               /\ result.path[i] = -2 <=>
                    i = Len(result.path) /\ result.reason = "liquidated"
    BY <2>1, ResultsAreTyped
  <2>. QED
    BY <2>2, <2>3, <2>4 DEF IInv, TypeOK
<1>. QED
  BY <1>1, Inductive, PTL

-----------------------------------------------------------------------------
(* The hurdle and the benchmark *)

(* What a cell says where it is filed, and that only a record says it. *)
LEMMA OnlyRecordsSpeak ==
  ASSUME IInv, cell # None
  PROVE  /\ step = "done" /\ cell.outcome \in {"recorded", "refused"}
         /\ cell.outcome = "recorded" =>
              /\ IsRun(run) /\ cell.metrics = MetricsOf(run)
              /\ cell.clears = Clears(run, btc) /\ cell.spans = Spans(btc, run)
         /\ cell.outcome = "refused" => ~cell.clears /\ ~cell.spans
<1>1. step = "done" /\ cell \in Filed
  BY DEF IInv
<1>2. cell.outcome \in {"recorded", "refused"}
  BY <1>1 DEF Filed
<1>3. cell.outcome = "recorded" => IsRun(run) /\ cell = Recorded(run, btc)
  BY <1>1 DEF IInv
<1>4. cell.outcome = "refused" => ~cell.clears /\ ~cell.spans
  BY <1>1 DEF IInv
<1>. QED
  BY <1>1, <1>2, <1>3, <1>4 DEF Recorded

(***************************************************************************)
(* A run that clears the hurdle was read against a Bitcoin that was held    *)
(* and that moved; it survived, ended above where it began, and fell        *)
(* between no two marks further than Bitcoin did between some two of its    *)
(* own.                                                                     *)
(***************************************************************************)
THEOREM HurdleIsEvidenced == Spec => []HurdleNeedsEvidence
<1>1. IInv => HurdleNeedsEvidence
  <2>. SUFFICES ASSUME IInv, cell # None, cell.clears
                PROVE  LET ours == Equity(run.path)
                           theirs == Equity(btc.path)
                           end == Len(run.path)
                       IN  /\ btc # None
                           /\ \E k, l \in DOMAIN btc.path :
                                btc.path[k] # btc.path[l]
                           /\ run.reason # "liquidated" /\ ours[end] > TwoTo[LastDay]
                           /\ \A j \in DOMAIN ours : \A i \in 1 .. j :
                                \E l \in DOMAIN theirs : \E k \in 1 .. l :
                                  ours[j] * theirs[k] >= theirs[l] * ours[i]
    BY DEF HurdleNeedsEvidence
  <2>1. IsRun(run) /\ Clears(run, btc)
    BY OnlyRecordsSpeak
  <2>2. /\ btc # None /\ run.clearsBar
        /\ IsNumber(Sharpe(btc.path))
        /\ NoDeeper(Drawdown(run.path), Drawdown(btc.path))
    BY <2>1 DEF Clears, Above
  <2>3. IsResult(run) /\ TStatistic(run.path) = "positive"
    BY <2>1, <2>2 DEF IsRun
  <2>4. IsResult(btc)
    <3>1. HeldOver(bars, run, btc)
      BY <2>2 DEF IInv
    <3>. QED
      BY <2>3, <3>1, HeldOverIsAResult
  <2>5. ~Liquidated(run.path) /\ Growth(run.path) > TwoTo[Len(run.path)]
    BY <2>3 DEF TStatistic
  <2>6. run.reason # "liquidated"
    BY <2>3, <2>5 DEF IsResult
  <2>7. /\ IsPath(run.path) /\ ~CannotBeSummarised(run.path)
        /\ IsPath(btc.path) /\ ~CannotBeSummarised(btc.path)
    BY <2>3, <2>4 DEF IsResult
  <2>8. /\ DOMAIN Equity(run.path) = 1 .. Len(run.path)
        /\ Equity(run.path)[Len(run.path)] > TwoTo[LastDay]
        /\ DOMAIN Equity(btc.path) = 1 .. Len(btc.path)
    BY <2>5, <2>7, EquityByMarks
  <2>9. \A j \in 1 .. Len(run.path) : \A i \in 1 .. j :
          \E l \in 1 .. Len(btc.path) : \E k \in 1 .. l :
            Equity(run.path)[j] * Equity(btc.path)[k]
              >= Equity(btc.path)[l] * Equity(run.path)[i]
    BY <2>2, <2>7, NoDeeperMarkByMark
  <2>10. \E k, l \in DOMAIN btc.path : btc.path[k] # btc.path[l]
    <3>1. Len(btc.path) \in Nat /\ Len(btc.path) * Dispersion(btc.path) > 0
      BY <2>2, <2>7, SumsOfAPath DEF IsNumber, Sharpe
    <3>2. Dispersion(btc.path) # 0
      BY <3>1
    <3>. QED
      BY <2>7, <3>2, FlatDoesNotSpread
  <2>. QED
    BY <2>2, <2>6, <2>8, <2>9, <2>10
<1>. QED
  BY <1>1, Inductive, PTL

(***************************************************************************)
(* What is seen of an asset in a run's window, and up to which row of it    *)
(* the asset is held.                                                       *)
(***************************************************************************)
LEMMA HeldWithin ==
  ASSUME NEW r, IsResult(r), NEW frame, NEW b, HeldOver(frame, r, b)
  PROVE  /\ b.decision >= r.decision
         /\ \A i \in DOMAIN b.days : b.days[i] \in r.decision + 1 .. Exit(r)
         /\ \A day \in b.decision + 1 .. Exit(b) :
              /\ frame[day].kind # "halt"
              /\ frame[day].kind # "gap" => day \in Range(b.days)
         /\ Spans(b, r) =>
              /\ frame[Entry(r)].kind = "bar"
              /\ \A day \in Entry(r) .. Exit(r) - 1 :
                   frame[day].kind \notin {"halt", "dead"}
<1>. DEFINE from == r.decision
            to == Exit(r)
            seen == Within(frame, from, to)
            m == Len(seen)
            n == Len(b.path)
<1>1. /\ from \in Days /\ to \in Days /\ Days \subseteq Nat
      /\ frame \in Frames /\ CanBeHeld(frame, seen)
      /\ b = Hold(frame, seen) /\ ~CannotBeSummarised(b.path)
  BY RunDays DEF HeldOver, Days
<1>2. /\ seen \in Seq(Days) /\ m \in Nat
      /\ \A i \in 1 .. m : /\ seen[i] >= from /\ seen[i] <= to
                           /\ frame[seen[i]].kind # "gap"
      /\ \A i, j \in 1 .. m : i < j => seen[i] < seen[j]
      /\ \A d \in from .. to : frame[d].kind # "gap" =>
           \E i \in 1 .. m : seen[i] = d
  BY <1>1, WithinFacts
<1>3. /\ b = [decision |-> seen[1], days |-> b.days, path |-> b.path,
              reason |-> b.reason]
      /\ n \in Nat /\ n >= 1 /\ n + 1 <= m
      /\ \A i \in 1 .. n : /\ b.days[i] = seen[i + 1]
                           /\ frame[seen[i + 1]].kind # "halt"
                           /\ frame[seen[i + 1]].kind = "dead" => i = n
      /\ frame[seen[2]].kind # "dead"
  BY <1>1, HoldFacts
<1>4. IsResult(b)
  BY HeldOverIsAResult
<1>. HIDE DEF seen, m, n
<1>5. b.decision = seen[1]
  BY <1>3
<1>6. ASSUME NEW i \in 1 .. m
      PROVE  seen[i] \in Days /\ seen[i] \in Nat
  <2>1. seen[i] \in Days
    BY <1>2 DEF m
  <2>. QED
    BY <1>1, <2>1
<1>7. /\ DOMAIN b.days = 1 .. n /\ Exit(b) = b.days[n] /\ Entry(b) = b.days[1]
      /\ b.days[n] = seen[n + 1] /\ b.days[1] = seen[2]
  <2>1. Len(b.days) = n /\ DOMAIN b.days = 1 .. n
    BY <1>4 DEF IsResult, n
  <2>2. Exit(b) = b.days[n] /\ Entry(b) = b.days[1]
    BY <1>4, <2>1, RunDays
  <2>. QED
    BY <1>3, <2>1, <2>2
<1>8. ASSUME NEW i \in 1 .. n
      PROVE  b.days[i] \in from + 1 .. to
  <2>1. i + 1 \in 1 .. m /\ 1 \in 1 .. m /\ 1 < i + 1
    BY <1>2, <1>3
  <2>2. seen[1] < seen[i + 1] /\ seen[1] >= from /\ seen[i + 1] <= to
    BY <1>2, <2>1
  <2>3. seen[1] \in Nat /\ seen[i + 1] \in Nat /\ from \in Nat /\ to \in Nat
    BY <1>1, <1>6, <2>1
  <2>4. b.days[i] = seen[i + 1]
    BY <1>3
  <2>. QED
    BY <2>2, <2>3, <2>4
<1>9. ASSUME NEW day \in seen[1] + 1 .. seen[n + 1], frame[day].kind # "gap"
      PROVE  \E i \in 1 .. n : day = b.days[i] /\ day = seen[i + 1]
  <2>1. 1 \in 1 .. m /\ n + 1 \in 1 .. m
    BY <1>2, <1>3
  <2>2. seen[1] \in Nat /\ seen[n + 1] \in Nat /\ from \in Nat /\ to \in Nat
        /\ seen[1] >= from /\ seen[n + 1] <= to
    BY <1>1, <1>2, <1>6, <2>1
  <2>3. day \in from .. to /\ day > seen[1] /\ day <= seen[n + 1] /\ day \in Nat
    BY <2>2
  <2>4. PICK k \in 1 .. m : seen[k] = day
    BY <1>2, <1>9, <2>3
  <2>5. k # 1
    BY <2>2, <2>3, <2>4
  <2>6. ~(n + 1 < k)
    BY <1>2, <2>1, <2>2, <2>3, <2>4
  <2>7. k - 1 \in 1 .. n /\ (k - 1) + 1 = k
    BY <1>2, <1>3, <2>5, <2>6
  <2>8. b.days[k - 1] = seen[k]
    BY <1>3, <2>7
  <2>. QED
    BY <2>4, <2>7, <2>8
<1>10. ASSUME NEW day \in seen[1] + 1 .. seen[n + 1]
       PROVE  /\ frame[day].kind # "halt"
              /\ frame[day].kind # "gap" => day \in Range(b.days)
              /\ frame[day].kind = "dead" => day = seen[n + 1]
  <2>1. CASE frame[day].kind = "gap"
    BY <2>1
  <2>2. CASE frame[day].kind # "gap"
    <3>1. PICK i \in 1 .. n : day = b.days[i] /\ day = seen[i + 1]
      BY <1>9, <2>2
    <3>2. day \in Range(b.days)
      BY <1>7, <3>1 DEF Range
    <3>. QED
      BY <1>3, <3>1, <3>2
  <2>. QED
    BY <2>1, <2>2
<1>11. ASSUME Spans(b, r)
       PROVE  /\ frame[Entry(r)].kind = "bar"
              /\ \A day \in Entry(r) .. Exit(r) - 1 :
                   frame[day].kind \notin {"halt", "dead"}
  <2>1. Entry(r) = seen[2] /\ Exit(r) = seen[n + 1]
    BY <1>7, <1>11 DEF Spans
  <2>2. 1 \in 1 .. m /\ 2 \in 1 .. m /\ n + 1 \in 1 .. m /\ 1 < 2 /\ 1 \in 1 .. n
        /\ 1 + 1 = 2
    BY <1>2, <1>3
  <2>3. seen[1] \in Nat /\ seen[2] \in Nat /\ seen[n + 1] \in Nat
        /\ seen[1] < seen[2]
    BY <1>2, <1>6, <2>2
  <2>4. frame[seen[2]].kind = "bar"
    <3>1. frame[seen[2]].kind \notin {"gap", "halt", "dead"}
      BY <1>2, <1>3, <2>2
    <3>2. frame[seen[2]].kind \in {"gap", "halt", "dead", "bar"}
      BY <1>1, <1>6, <2>2, FrameFacts
    <3>. QED
      BY <3>1, <3>2
  <2>5. ASSUME NEW day \in seen[2] .. seen[n + 1] - 1
        PROVE  frame[day].kind \notin {"halt", "dead"}
    <3>1. day \in seen[1] + 1 .. seen[n + 1] /\ day # seen[n + 1]
      BY <2>3
    <3>. QED
      BY <1>10, <3>1
  <2>. QED
    BY <2>1, <2>4, <2>5
<1>12. b.decision >= r.decision
  BY <1>2, <1>3, <1>5
<1>. QED
  BY <1>5, <1>7, <1>8, <1>10, <1>11, <1>12

(***************************************************************************)
(* Bitcoin is held on days of the run only, on every day it has a row for   *)
(* between the two ends, and over no halt of its own; and where the two are *)
(* said to span one window, from the run's first day to its last.           *)
(***************************************************************************)
THEOREM BtcStaysWithinTheRun == Spec => []BtcIsHeldWithinTheRun
<1>1. IInv => BtcIsHeldWithinTheRun
  <2>. SUFFICES ASSUME IInv, btc # None
                PROVE  /\ btc.decision >= run.decision
                       /\ \A i \in DOMAIN btc.days :
                            btc.days[i] \in run.decision + 1 .. Last(run.days)
                       /\ \A day \in btc.decision + 1 .. Last(btc.days) :
                            /\ bars[day].kind # "halt"
                            /\ bars[day].kind # "gap" => day \in Range(btc.days)
                       /\ cell # None /\ cell.spans =>
                            /\ bars[Head(run.days)].kind = "bar"
                            /\ \A day \in Head(run.days) .. Last(run.days) - 1 :
                                 bars[day].kind \notin {"halt", "dead"}
    BY DEF BtcIsHeldWithinTheRun
  <2>1. IsResult(run) /\ HeldOver(bars, run, btc)
    BY DEF IInv, IsRun
  <2>2. cell # None /\ cell.spans => Spans(btc, run)
    BY OnlyRecordsSpeak
  <2>. QED
    BY <2>1, <2>2, HeldWithin DEF Entry, Exit
<1>. QED
  BY <1>1, Inductive, PTL

(***************************************************************************)
(* The sign of a recorded t-statistic is that of the compounded return, and *)
(* a positive one has a positive mean and a Sharpe ratio beside it.         *)
(***************************************************************************)
THEOREM SignIsCompounded == Spec => []SignIsOfTheCompoundedReturn
<1>1. IInv => SignIsOfTheCompoundedReturn
  <2>. SUFFICES ASSUME IInv, cell # None, cell.outcome = "recorded"
                PROVE  LET worth == Last(Equity(run.path))
                           even == TwoTo[LastDay]
                       IN  /\ cell.metrics.t = "positive" =>
                                worth > even /\ cell.metrics.sharpe /\ Sum(run.path) > 0
                           /\ cell.metrics.t = "not_positive" => worth > 0 /\ worth <= even
                           /\ cell.metrics.liquidated <=> worth = 0
    BY DEF SignIsOfTheCompoundedReturn
  <2>. DEFINE path == run.path
              n == Len(path)
              worth == Last(Equity(path))
              even == TwoTo[LastDay]
  <2>1. IsResult(run) /\ cell.metrics = MetricsOf(run)
    BY OnlyRecordsSpeak DEF IsRun
  <2>2. IsPath(path) /\ n \in Nat /\ n >= 1
    BY <2>1, SumsOfAPath DEF IsResult
  <2>3. /\ cell.metrics.t = TStatistic(path)
        /\ cell.metrics.liquidated = Liquidated(path)
        /\ TStatistic(path) # "none" => ~Liquidated(path) /\ cell.metrics.sharpe
    BY <2>1, MetricsHaveAShape DEF MetricsOf
  <2>4. worth = Equity(path)[n]
    BY <2>2, EquityByMarks DEF Last
  <2>5. /\ worth \in Int /\ worth >= 0
        /\ worth = 0 <=> Liquidated(path)
        /\ worth > even <=> Growth(path) > TwoTo[n]
    <3>1. n \in 1 .. n
      BY <2>2
    <3>. QED
      BY <2>2, <2>4, <3>1, EquityByMarks
  <2>6. even \in Int
    <3>1. LastDay \in Nat
      BY ReadingAssumption
    <3>2. TwoTo[LastDay] \in Nat
      BY <3>1, PowersOfTwo
    <3>. QED
      BY <3>2
  <2>7. CASE TStatistic(path) = "positive"
    <3>1. ~Liquidated(path) /\ Growth(path) > TwoTo[n]
      BY <2>7 DEF TStatistic
    <3>2. Sum(path) > 0
      BY <2>2, <3>1, GainHasAPositiveMean
    <3>. QED
      BY <2>3, <2>5, <2>7, <3>1, <3>2
  <2>8. CASE TStatistic(path) = "not_positive"
    <3>1. ~Liquidated(path) /\ ~(Growth(path) > TwoTo[n])
      BY <2>8 DEF TStatistic
    <3>. HIDE DEF worth, even, path
    <3>2. worth > 0 /\ worth <= even
      BY <2>5, <2>6, <3>1
    <3>. QED
      BY <2>3, <2>5, <2>8, <3>1, <3>2 DEF path, worth, even
  <2>9. CASE TStatistic(path) \notin {"positive", "not_positive"}
    BY <2>3, <2>5, <2>9
  <2>. QED
    BY <2>7, <2>8, <2>9
<1>. QED
  BY <1>1, Inductive, PTL

=============================================================================
