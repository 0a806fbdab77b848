------------------------------ MODULE GateProofs ------------------------------
(***************************************************************************)
(* What holds of the gate for every grid, table and tolerance.  The record  *)
(* is a function of the two Grids and the leg, so what a pass means is a    *)
(* fact about two sets of cells: those that agree in sign have a            *)
(* t-statistic, and those wiped out have none.                              *)
(***************************************************************************)
EXTENDS Gate, Lemmas, FiniteSetTheorems

USE GateAssumption

-----------------------------------------------------------------------------
(* Cells *)

(* The cells are finitely many, and so is every set of them. *)
LEMMA CellsAreFinite ==
  /\ IsFiniteSet(Cells) /\ Cardinality(Cells) = NCells
  /\ \A S \in SUBSET Cells :
       IsFiniteSet(S) /\ Cardinality(S) \in 0 .. NCells
<1>1. IsFiniteSet(Cells) /\ Cardinality(Cells) = NCells
  BY FS_Interval DEF Cells
<1>2. ASSUME NEW S \in SUBSET Cells
      PROVE  IsFiniteSet(S) /\ Cardinality(S) \in 0 .. NCells
  <2>1. IsFiniteSet(S) /\ Cardinality(S) <= NCells
    BY <1>1, FS_Subset
  <2>2. Cardinality(S) \in Nat
    BY <2>1, FS_CardinalityType
  <2>. QED
    BY <2>1, <2>2
<1>. QED
  BY <1>1, <1>2

(* Two disjoint sets of cells share the grid between them. *)
LEMMA DisjointCells ==
  ASSUME NEW S \in SUBSET Cells, NEW T \in SUBSET Cells, S \intersect T = {}
  PROVE  Cardinality(S) <= NCells - Cardinality(T)
<1>1. Cardinality(S \union T) = Cardinality(S) + Cardinality(T) - Cardinality({})
  BY CellsAreFinite, FS_Union
<1>2. Cardinality({}) = 0
  BY FS_EmptySet
<1>3. Cardinality(S \union T) <= NCells
  <2>1. S \union T \in SUBSET Cells
    OBVIOUS
  <2>. QED
    BY <2>1, CellsAreFinite
<1>4. Cardinality(S) \in Nat /\ Cardinality(T) \in Nat
  BY CellsAreFinite
<1>. QED
  BY <1>1, <1>2, <1>3, <1>4

(* A Grid handed over in its own order is aligned to itself. *)
LEMMA AlignedGrid ==
  ASSUME NEW grid \in Grids
  PROVE  Aligned(InGridOrder(grid)) = grid
<1>. DEFINE handed == InGridOrder(grid)
<1>1. DOMAIN handed = Cells
      /\ \A i \in Cells : handed[i] = [cell |-> i, outcome |-> grid[i]]
  BY DEF InGridOrder
<1>2. ASSUME NEW c \in Cells
      PROVE  (CHOOSE i \in DOMAIN handed : handed[i].cell = c) = c
  BY <1>1
<1>3. \A c \in Cells : Aligned(handed)[c] = grid[c]
  BY <1>1, <1>2 DEF Aligned
<1>4. Aligned(handed) = [c \in Cells |-> Aligned(handed)[c]]
  BY DEF Aligned
<1>5. grid = [c \in Cells |-> grid[c]]
  BY DEF Grids
<1>. QED
  BY <1>3, <1>4, <1>5

(* A cell has a Sharpe where its shape says so, and it is a number. *)
LEMMA OutcomeFacts ==
  ASSUME NEW grid \in Grids, NEW c \in Cells
  PROVE  /\ grid[c].shape \in CellShapes
         /\ HasSharpe(grid[c].shape) => grid[c].sharpe \in Sharpes
         /\ ~HasSharpe(grid[c].shape) => grid[c].sharpe = None
<1>1. grid[c] \in Outcomes
  BY DEF Grids
<1>. QED
  BY <1>1 DEF Outcomes

LEMMA ComparableCells ==
  ASSUME NEW grid \in Grids
  PROVE  /\ Comparable(grid) \subseteq Cells
         /\ \A c \in Cells : c \in Comparable(grid) <=> HasSharpe(grid[c].shape)
         /\ \A c \in Comparable(grid) : grid[c].sharpe \in Sharpes
<1>1. Comparable(grid) = {c \in Cells : grid[c].sharpe # None}
  BY DEF Comparable
<1>2. \A x \in Sharpes : x # None
  OBVIOUS
<1>. QED
  BY <1>1, <1>2, OutcomeFacts

(* The best Sharpe of a Grid in which some cell has one is one of them: the *)
(* cell with the most cells at or below it is at or above every other.      *)
LEMMA BestIsASharpe ==
  ASSUME NEW grid \in Grids
  PROVE  /\ Comparable(grid) = {} => Best(grid) = None
         /\ Comparable(grid) # {} => Best(grid) \in Sharpes
<1>1. Comparable(grid) = {} => Best(grid) = None
  BY DEF Best
<1>2. ASSUME Comparable(grid) # {}
      PROVE  Best(grid) \in Sharpes
  <2>. DEFINE C == Comparable(grid)
              s(c) == grid[c].sharpe
              Below(c) == {d \in C : s(d) <= s(c)}
              Counts == {Cardinality(Below(c)) : c \in C}
  <2>1. C \in SUBSET Cells /\ \A c \in C : s(c) \in Int /\ s(c) \in Sharpes
    BY ComparableCells
  <2>2. \A c \in C : Below(c) \in SUBSET Cells
    BY <2>1
  <2>3. \A c \in C : IsFiniteSet(Below(c)) /\ Cardinality(Below(c)) \in 0 .. NCells
    BY <2>2, CellsAreFinite
  <2>4. Counts \subseteq Int /\ Counts # {} /\ \A n \in Counts : n <= NCells
    <3>. HIDE DEF Below
    <3>1. \A c \in C : /\ Cardinality(Below(c)) \in Int
                       /\ Cardinality(Below(c)) <= NCells
      BY <2>3
    <3>2. \E c \in C : Cardinality(Below(c)) \in Counts
      BY <1>2
    <3>. QED
      BY <3>1, <3>2
  <2>5. Max(Counts) \in Counts /\ \A n \in Counts : n <= Max(Counts)
    <3>1. NCells \in Int
      OBVIOUS
    <3>. HIDE DEF Counts
    <3>. QED
      BY <2>4, <3>1, MaxOfBounded, Zenon
  <2>6. PICK c \in C : Max(Counts) = Cardinality(Below(c))
    BY <2>5
  <2>7. \A d \in C : Cardinality(Below(d)) <= Cardinality(Below(c))
    BY <2>5, <2>6
  <2>8. ASSUME NEW d \in C
        PROVE  s(d) <= s(c)
    <3>1. SUFFICES ASSUME s(c) < s(d)
                   PROVE  FALSE
      BY <2>1
    <3>2. Below(c) \subseteq Below(d) /\ d \in Below(d) /\ d \notin Below(c)
      BY <2>1, <3>1
    <3>3. Cardinality(Below(c)) <= Cardinality(Below(d))
          /\ (Cardinality(Below(d)) = Cardinality(Below(c)) => Below(d) = Below(c))
      <4>. HIDE DEF Below
      <4>. QED
        BY <2>3, <3>2, FS_Subset
    <3>4. Cardinality(Below(c)) = Cardinality(Below(d))
      <4>. HIDE DEF Below
      <4>. QED
        BY <2>3, <2>7, <3>3
    <3>. QED
      BY <3>2, <3>3, <3>4, Zenon
  <2>9. s(c) \in SharpesIn(grid) /\ \A x \in SharpesIn(grid) : s(c) >= x
    BY <2>1, <2>8 DEF SharpesIn
  <2>10. Max(SharpesIn(grid)) \in SharpesIn(grid)
    BY <2>9 DEF Max
  <2>. QED
    BY <1>2, <2>1, <2>10 DEF Best, SharpesIn
<1>. QED
  BY <1>1, <1>2

-----------------------------------------------------------------------------
(* Ranks *)

(* The ranks of a column are whole numbers, ties included. *)
LEMMA RanksAreNumbers ==
  ASSUME NEW x \in [Cells -> Int]
  PROVE  AverageRanks(x) \in [Cells -> Int]
<1>. DEFINE Below(c) == {d \in Cells : x[d] < x[c]}
            Level(c) == {d \in Cells : x[d] = x[c]}
<1>1. \A c \in Cells : Below(c) \in SUBSET Cells /\ Level(c) \in SUBSET Cells
  OBVIOUS
<1>2. AverageRanks(x) = [c \in Cells |-> 2 * Cardinality(Below(c))
                                           + Cardinality(Level(c)) + 1]
  BY DEF AverageRanks
<1>. HIDE DEF Below, Level
<1>3. \A c \in Cells : Cardinality(Below(c)) \in Int /\ Cardinality(Level(c)) \in Int
  BY <1>1, CellsAreFinite
<1>. QED
  BY <1>2, <1>3

(* The covariance of two columns of numbers is a number. *)
LEMMA CovarianceIsANumber ==
  ASSUME NEW x \in [Cells -> Int], NEW y \in [Cells -> Int]
  PROVE  Covariance(x, y) \in Int
<1>. DEFINE product == [c \in Cells |-> x[c] * y[c]]
<1>1. product \in [Cells -> Int]
  OBVIOUS
<1>2. ASSUME NEW z \in [Cells -> Int]
      PROVE  SumFunction(z) \in Int
  BY CellsAreFinite, SumFacts DEF SumFunction
<1>3. Covariance(x, y) = Cardinality(Cells) * SumFunction(product)
                           - SumFunction(x) * SumFunction(y)
  <2>1. [c \in DOMAIN x |-> x[c] * y[c]] = product /\ DOMAIN x = Cells
    OBVIOUS
  <2>. HIDE DEF product
  <2>. QED
    BY <2>1 DEF Covariance
<1>. HIDE DEF product
<1>. QED
  BY <1>1, <1>2, <1>3, CellsAreFinite

(* A column of one value has one rank, and correlates with no other. *)
LEMMA NothingToRank ==
  ASSUME NEW x \in [Cells -> Int], NEW y \in [Cells -> Int],
         \A c, d \in Cells : x[c] = x[d]
  PROVE  ~Correlated(Spearman(x, y))
<1>. DEFINE rank == AverageRanks(x)
            k == NCells + 1
            square == [c \in Cells |-> rank[c] * rank[c]]
<1>1. ASSUME NEW c \in Cells
      PROVE  rank[c] = k
  <2>. DEFINE below == {d \in Cells : x[d] < x[c]}
              level == {d \in Cells : x[d] = x[c]}
  <2>1. below = {} /\ level = Cells
    OBVIOUS
  <2>2. rank[c] = 2 * Cardinality(below) + Cardinality(level) + 1
    BY DEF AverageRanks
  <2>. HIDE DEF rank, below, level
  <2>3. Cardinality(below) = 0 /\ Cardinality(level) = NCells
    BY <2>1, CellsAreFinite, FS_EmptySet
  <2>. QED
    BY <2>2, <2>3
<1>2. rank \in [Cells -> Int] /\ AverageRanks(y) \in [Cells -> Int]
  BY RanksAreNumbers
<1>. HIDE DEF rank
<1>3. SumFunction(rank) = NCells * k
  <2>1. k \in Int
    OBVIOUS
  <2>. HIDE DEF k
  <2>2. SumFunctionOnSet(rank, Cells) = Cardinality(Cells) * k
    BY <1>1, <2>1, CellsAreFinite, SumOfEquals
  <2>. QED
    BY <1>2, <2>2, CellsAreFinite DEF SumFunction
<1>4. SumFunction(square) = NCells * (k * k)
  <2>1. \A c \in Cells : square[c] = k * k
    BY <1>1
  <2>2. DOMAIN square = Cells /\ k * k \in Int
    OBVIOUS
  <2>. HIDE DEF square
  <2>3. SumFunctionOnSet(square, Cells) = Cardinality(Cells) * (k * k)
    BY <2>1, <2>2, CellsAreFinite, SumOfEquals
  <2>. QED
    BY <2>2, <2>3, CellsAreFinite DEF SumFunction
<1>5. Covariance(rank, rank) = 0
  <2>1. [c \in DOMAIN rank |-> rank[c] * rank[c]] = square /\ DOMAIN rank = Cells
    BY <1>2
  <2>2. Covariance(rank, rank) = Cardinality(Cells) * SumFunction(square)
                                   - SumFunction(rank) * SumFunction(rank)
    <3>. HIDE DEF square
    <3>. QED
      BY <2>1 DEF Covariance
  <2>3. Covariance(rank, rank) = NCells * (NCells * (k * k)) - (NCells * k) * (NCells * k)
    BY <1>3, <1>4, <2>2, CellsAreFinite
  <2>4. \A n, m \in Int : n * (n * (m * m)) - (n * m) * (n * m) = 0
    OBVIOUS
  <2>. QED
    BY <2>3, <2>4
<1>6. Covariance(AverageRanks(y), AverageRanks(y)) \in Int
  BY <1>2, CovarianceIsANumber
<1>7. Spearman(x, y).spread
        = Covariance(rank, rank) * Covariance(AverageRanks(y), AverageRanks(y))
  BY DEF Spearman, rank
<1>. QED
  BY <1>5, <1>6, <1>7 DEF Correlated

-----------------------------------------------------------------------------
(* Verdicts *)

(* A verdict has its type, and compares a cell where it has a best. *)
LEMMA VerdictFacts ==
  ASSUME NEW grid \in Grids, NEW run \in Runs, NEW which \in Legs
  PROVE  LET verdict == Verdict(InGridOrder(grid), run, which)
         IN  /\ verdict \in Verdicts
             /\ verdict.best = None <=> verdict.compared = 0
             /\ verdict.compared = Cardinality(Comparable(grid))
             /\ verdict.warned = Warned(grid, which)
             /\ Passes(verdict) \in BOOLEAN
             /\ Passes(verdict) =>
                  /\ SpearmanPasses(grid, which)
                  /\ LiquidationsPass(grid, which)
                  /\ SignsPass(grid, which)
<1>. DEFINE verdict == Verdict(InGridOrder(grid), run, which)
<1>1. verdict = [spearman |-> SpearmanPasses(grid, which),
                 liquidations |-> LiquidationsPass(grid, which),
                 signs |-> SignsPass(grid, which),
                 level |-> LevelPasses(grid, run),
                 compared |-> Cardinality(Comparable(grid)),
                 liquidated |-> Cardinality(Wiped(grid)),
                 best |-> Best(grid),
                 warned |-> Warned(grid, which)]
  BY AlignedGrid, Zenon DEF Verdict
<1>2. /\ SpearmanPasses(grid, which) \in BOOLEAN
      /\ LiquidationsPass(grid, which) \in BOOLEAN
      /\ SignsPass(grid, which) \in BOOLEAN
      /\ LevelPasses(grid, run) \in BOOLEAN
      /\ Warned(grid, which) \in BOOLEAN
  BY DEF SpearmanPasses, LiquidationsPass, SignsPass, LevelPasses, Warned,
         Correlated, AtLeastTenths
<1>3. Cardinality(Comparable(grid)) \in 0 .. NCells
      /\ Cardinality(Wiped(grid)) \in 0 .. NCells
  <2>1. Comparable(grid) \in SUBSET Cells /\ Wiped(grid) \in SUBSET Cells
    BY ComparableCells DEF Wiped
  <2>. QED
    BY <2>1, CellsAreFinite
<1>4. Best(grid) \in Sharpes \union {None}
  BY BestIsASharpe
<1>5. Best(grid) = None <=> Cardinality(Comparable(grid)) = 0
  <2>1. Cardinality(Comparable(grid)) = 0 <=> Comparable(grid) = {}
    BY ComparableCells, CellsAreFinite, FS_EmptySet
  <2>. QED
    BY <2>1, BestIsASharpe
<1>6. verdict \in Verdicts
  BY <1>1, <1>2, <1>3, <1>4 DEF Verdicts
<1>7. Passes(verdict) \in BOOLEAN
      /\ (Passes(verdict) => /\ SpearmanPasses(grid, which)
                             /\ LiquidationsPass(grid, which)
                             /\ SignsPass(grid, which))
  BY <1>1, <1>2 DEF Passes
<1>. QED
  BY <1>1, <1>5, <1>6, <1>7

(***************************************************************************)
(* What a passing verdict says of the cells: all are compared and not all   *)
(* alike, the wiped out are disjoint from those that agree in sign, and     *)
(* their count is no further below the published one than the tolerance.    *)
(***************************************************************************)
LEMMA PassFacts ==
  ASSUME NEW grid \in Grids, NEW which \in Legs,
         SpearmanPasses(grid, which), LiquidationsPass(grid, which),
         SignsPass(grid, which)
  PROVE  /\ \A c \in Cells : HasSharpe(grid[c].shape)
         /\ \E c, d \in Cells : grid[c].sharpe # grid[d].sharpe
         /\ Cardinality(Wiped(grid)) \in 0 .. NCells
         /\ PublishedLiquidations(which) \in 0 .. NCells
         /\ Cardinality(Wiped(grid)) <= NCells - MinSignAgreement
         /\ Cardinality(Wiped(grid))
              >= PublishedLiquidations(which) - LiquidationTolerance
<1>. DEFINE wiped == Wiped(grid)
            agreeing == Agreeing(grid, which)
<1>1. \A c \in Cells : HasSharpe(grid[c].shape)
  BY ComparableCells DEF SpearmanPasses
<1>2. wiped \in SUBSET Cells /\ agreeing \in SUBSET Cells
  BY DEF Wiped, Agreeing
<1>3. wiped \intersect agreeing = {}
  BY DEF Wiped, Agreeing, HasTStatistic, IsLiquidated
<1>4. /\ Cardinality(wiped) \in 0 .. NCells
      /\ Cardinality(agreeing) \in 0 .. NCells
      /\ PublishedLiquidations(which) \in 0 .. NCells
  <2>1. {c \in Cells : Published[which][c].cumReturn <= -100} \in SUBSET Cells
    OBVIOUS
  <2>. QED
    BY <1>2, <2>1, CellsAreFinite DEF PublishedLiquidations
<1>5. Cardinality(wiped) <= NCells - Cardinality(agreeing)
  BY <1>2, <1>3, DisjointCells
<1>6. Cardinality(agreeing) >= MinSignAgreement
  BY DEF SignsPass
<1>7. Cardinality(wiped) <= NCells - MinSignAgreement
  BY <1>4, <1>5, <1>6
<1>8. Cardinality(wiped)
        >= PublishedLiquidations(which) - LiquidationTolerance
  BY <1>4 DEF LiquidationsPass, Distance
<1>9. \E c, d \in Cells : grid[c].sharpe # grid[d].sharpe
  <2>. DEFINE ours == SharpesOf(grid)
              theirs == [c \in Comparable(grid) |-> Published[which][c].sharpe]
  <2>1. Comparable(grid) = Cells /\ Correlated(Spearman(ours, theirs))
    BY DEF SpearmanPasses
  <2>2. ours \in [Cells -> Int] /\ \A c \in Cells : ours[c] = grid[c].sharpe
    BY <2>1, ComparableCells DEF SharpesOf
  <2>3. theirs \in [Cells -> Int]
    BY <2>1
  <2>. HIDE DEF ours, theirs
  <2>. QED
    BY <2>1, <2>2, <2>3, NothingToRank
<1>. QED
  BY <1>1, <1>4, <1>7, <1>8, <1>9

-----------------------------------------------------------------------------
(* The record *)

(* The Grids are there before the record, and the record is read off them. *)
RecordIsOfTheGrids ==
  /\ leg \in Legs
  /\ DOMAIN grids = Runs /\ \A run \in Runs : grids[run] \in Grids \union {<<>>}
  /\ grids["venue"] # <<>> => grids["faithful"] # <<>>
  /\ record # None =>
       /\ grids["venue"] # <<>>
       /\ DOMAIN record = {"verdict", "gap", "passes"}
       /\ record.verdict =
            [run \in Runs |-> Verdict(InGridOrder(grids[run]), run, leg)]
       /\ record.gap = Gap(grids["faithful"], grids["venue"])
       /\ record.passes = \A run \in Runs : Passes(record.verdict[run])

LEMMA Inductive == Spec => []RecordIsOfTheGrids
<1>1. Init => RecordIsOfTheGrids
  BY DEF Init, RecordIsOfTheGrids, Runs
<1>2. RecordIsOfTheGrids /\ [Next]_vars => RecordIsOfTheGrids'
  <2>. SUFFICES ASSUME RecordIsOfTheGrids, [Next]_vars
                PROVE  RecordIsOfTheGrids'
    OBVIOUS
  <2>. USE DEF RecordIsOfTheGrids
  <2>1. CASE RunFaithful
    BY <2>1 DEF RunFaithful, Runs
  <2>2. CASE RunVenue
    BY <2>2 DEF RunVenue, Runs
  <2>3. CASE WriteGate
    BY <2>3 DEF WriteGate
  <2>4. CASE UNCHANGED vars
    BY <2>4 DEF vars
  <2>. QED
    BY <2>1, <2>2, <2>3, <2>4 DEF Next
<1>. QED
  BY <1>1, <1>2, PTL DEF Spec

(* The type invariant of the gate. *)
THEOREM TypeCorrect == Spec => []TypeOK
<1>1. RecordIsOfTheGrids => TypeOK
  <2>. SUFFICES ASSUME RecordIsOfTheGrids
                PROVE  TypeOK
    OBVIOUS
  <2>1. SUFFICES ASSUME record # None
                 PROVE  /\ \A run \in Runs :
                             /\ grids[run] # <<>>
                             /\ record.verdict[run] \in Verdicts
                             /\ record.verdict[run].best = None
                                  <=> record.verdict[run].compared = 0
                             /\ record.gap.compared
                                  <= record.verdict[run].compared
                        /\ record.passes \in BOOLEAN
    BY DEF RecordIsOfTheGrids, TypeOK
  <2>2. \A run \in Runs : grids[run] # <<>> /\ grids[run] \in Grids
    BY <2>1 DEF RecordIsOfTheGrids, Runs
  <2>3. \A run \in Runs :
          record.verdict[run] = Verdict(InGridOrder(grids[run]), run, leg)
    BY <2>1 DEF RecordIsOfTheGrids
  <2>4. \A run \in Runs :
          /\ record.verdict[run] \in Verdicts
          /\ record.verdict[run].best = None <=> record.verdict[run].compared = 0
          /\ record.verdict[run].compared = Cardinality(Comparable(grids[run]))
    BY <2>2, <2>3, VerdictFacts DEF RecordIsOfTheGrids
  <2>5. record.gap.compared =
          Cardinality(Comparable(grids["faithful"])
                        \intersect Comparable(grids["venue"]))
    <3>1. "faithful" \in Runs /\ "venue" \in Runs
      BY DEF Runs
    <3>2. Aligned(InGridOrder(grids["faithful"])) = grids["faithful"]
          /\ Aligned(InGridOrder(grids["venue"])) = grids["venue"]
      BY <2>2, <3>1, AlignedGrid
    <3>. QED
      BY <2>1, <3>2 DEF RecordIsOfTheGrids, Gap
  <2>6. ASSUME NEW run \in Runs
        PROVE  record.gap.compared <= record.verdict[run].compared
    <3>. DEFINE both == Comparable(grids["faithful"])
                          \intersect Comparable(grids["venue"])
    <3>1. both \in SUBSET Comparable(grids[run])
      BY DEF Runs
    <3>2. IsFiniteSet(Comparable(grids[run]))
      BY <2>2, ComparableCells, CellsAreFinite
    <3>3. Cardinality(both) <= Cardinality(Comparable(grids[run]))
      BY <3>1, <3>2, FS_Subset
    <3>. QED
      BY <2>4, <2>5, <3>3
  <2>7. record.passes \in BOOLEAN
    BY <2>1 DEF RecordIsOfTheGrids
  <2>. QED
    BY <2>2, <2>4, <2>6, <2>7
<1>. QED
  BY <1>1, Inductive, PTL

(* What a gate that passes has read, from the record's being of the Grids. *)
LEMMA PassReadsTheGrids ==
  ASSUME RecordIsOfTheGrids, record # None, record.passes, NEW run \in Runs
  PROVE  /\ grids[run] \in Grids
         /\ SpearmanPasses(grids[run], leg)
         /\ LiquidationsPass(grids[run], leg)
         /\ SignsPass(grids[run], leg)
         /\ record.verdict[run].warned => Wiped(grids[run]) = {}
<1>1. grids[run] \in Grids
  BY DEF RecordIsOfTheGrids, Runs
<1>2. record.verdict[run] = Verdict(InGridOrder(grids[run]), run, leg)
  BY DEF RecordIsOfTheGrids
<1>3. Passes(record.verdict[run])
  BY DEF RecordIsOfTheGrids
<1>4. leg \in Legs
  BY DEF RecordIsOfTheGrids
<1>5. record.verdict[run].warned = Warned(grids[run], leg)
  BY <1>1, <1>2, <1>4, VerdictFacts
<1>. QED
  BY <1>1, <1>2, <1>3, <1>4, <1>5, VerdictFacts DEF Warned

(* A gate that passes has read every cell of both Grids, not all alike. *)
THEOREM PassesReadEveryCell == Spec => []PassNeedsEveryCell
<1>1. RecordIsOfTheGrids => PassNeedsEveryCell
  <2>. SUFFICES ASSUME RecordIsOfTheGrids, record # None, record.passes,
                       NEW run \in Runs
                PROVE  LET wiped == {c \in Cells : IsLiquidated(grids[run][c].shape)}
                       IN  /\ \A c \in Cells : HasSharpe(grids[run][c].shape)
                           /\ \E c, d \in Cells :
                                grids[run][c].sharpe # grids[run][d].sharpe
                           /\ Cardinality(wiped) <= NCells - MinSignAgreement
                           /\ Cardinality(wiped) >=
                                PublishedLiquidations(leg) - LiquidationTolerance
                           /\ record.verdict[run].warned =>
                                PublishedLiquidations(leg) <= LiquidationTolerance
    BY DEF PassNeedsEveryCell
  <2>1. Wiped(grids[run]) = {c \in Cells : IsLiquidated(grids[run][c].shape)}
    BY DEF Wiped
  <2>2. leg \in Legs
    BY DEF RecordIsOfTheGrids
  <2>3. /\ \A c \in Cells : HasSharpe(grids[run][c].shape)
        /\ \E c, d \in Cells : grids[run][c].sharpe # grids[run][d].sharpe
        /\ PublishedLiquidations(leg) \in 0 .. NCells
        /\ Cardinality(Wiped(grids[run])) <= NCells - MinSignAgreement
        /\ Cardinality(Wiped(grids[run]))
             >= PublishedLiquidations(leg) - LiquidationTolerance
    BY <2>2, PassReadsTheGrids, PassFacts
  <2>4. ASSUME record.verdict[run].warned
        PROVE  PublishedLiquidations(leg) <= LiquidationTolerance
    <3>1. Cardinality(Wiped(grids[run])) = 0
      BY <2>4, PassReadsTheGrids, FS_EmptySet
    <3>. QED
      BY <2>3, <3>1
  <2>. QED
    BY <2>1, <2>3, <2>4
<1>. QED
  BY <1>1, Inductive, PTL

(***************************************************************************)
(* With the four numbers of the code - 21 cells, 18 signs, 2 off the count, *)
(* and the five cells the long-short leg publishes as wiped out - a gate    *)
(* passes only where exactly three cells of each Grid were wiped out: three *)
(* is the fewest the count allows, and the most the signs do.  A Grid that  *)
(* reproduced the published five would fail.                                *)
(***************************************************************************)
ThreeWipedOut ==
  record # None /\ record.passes /\ PublishedLiquidations(leg) = 5 =>
    \A run \in Runs :
      Cardinality({c \in Cells : IsLiquidated(grids[run][c].shape)}) = 3

(* The published grid passes at exactly three Liquidations. *)
THEOREM PublishedGridPassesAtThree ==
  ASSUME NCells = 21, MinSignAgreement = 18, LiquidationTolerance = 2
  PROVE  Spec => []ThreeWipedOut
<1>1. RecordIsOfTheGrids => ThreeWipedOut
  <2>. SUFFICES ASSUME RecordIsOfTheGrids, record # None, record.passes,
                       PublishedLiquidations(leg) = 5, NEW run \in Runs
                PROVE  Cardinality({c \in Cells :
                                      IsLiquidated(grids[run][c].shape)}) = 3
    BY DEF ThreeWipedOut
  <2>1. Wiped(grids[run]) = {c \in Cells : IsLiquidated(grids[run][c].shape)}
    BY DEF Wiped
  <2>2. leg \in Legs
    BY DEF RecordIsOfTheGrids
  <2>3. /\ Cardinality(Wiped(grids[run])) \in 0 .. NCells
        /\ Cardinality(Wiped(grids[run])) <= NCells - MinSignAgreement
        /\ Cardinality(Wiped(grids[run]))
             >= PublishedLiquidations(leg) - LiquidationTolerance
    BY <2>2, PassReadsTheGrids, PassFacts
  <2>. QED
    BY <2>1, <2>3
<1>. QED
  BY <1>1, Inductive, PTL

-----------------------------------------------------------------------------
(* Reorderings *)

(* A column of the grid, its rows in another order. *)
Permuted(x, p) == [c \in Cells |-> x[p[c]]]

(* Every cell stands somewhere in a reordering. *)
LEMMA EveryCellStandsSomewhere ==
  ASSUME NEW p \in Reorderings
  PROVE  /\ p \in Bijection(Cells, Cells) /\ p \in [Cells -> Cells]
         /\ \A c, d \in Cells : p[c] = p[d] => c = d
         /\ \A c \in Cells : \E i \in Cells : p[i] = c
<1>1. p \in Injection(Cells, Cells)
  BY DEF Reorderings, Injection, IsInjective
<1>2. p \in Surjection(Cells, Cells)
  BY <1>1, CellsAreFinite, FS_Injection
<1>. QED
  BY <1>1, <1>2 DEF Reorderings, Surjection, Bijection

(* As many rows as cells meet a condition on the cell. *)
LEMMA AsManyReordered ==
  ASSUME NEW p \in Reorderings, NEW A \in SUBSET Cells
  PROVE  Cardinality({i \in Cells : p[i] \in A}) = Cardinality(A)
<1>. DEFINE B == {i \in Cells : p[i] \in A}
            f == [i \in B |-> p[i]]
<1>1. f \in [B -> A] /\ \A i, j \in B : f[i] = f[j] => i = j
  BY EveryCellStandsSomewhere
<1>2. \A c \in A : \E i \in B : f[i] = c
  BY EveryCellStandsSomewhere
<1>3. IsFiniteSet(B)
  BY CellsAreFinite
<1>4. ExistsBijection(B, A)
  <2>. HIDE DEF B, f
  <2>1. f \in Bijection(B, A)
    BY <1>1, <1>2 DEF Bijection, Injection, Surjection, IsInjective
  <2>. QED
    BY <2>1 DEF ExistsBijection
<1>. HIDE DEF B, f
<1>5. Cardinality(A) = Cardinality(B)
  BY <1>3, <1>4, FS_Bijection
<1>. QED
  BY <1>5 DEF B

(* A cell keeps its rank wherever it stands, ties included. *)
LEMMA RanksOfTheReordered ==
  ASSUME NEW p \in Reorderings, NEW x \in [Cells -> Int]
  PROVE  /\ AverageRanks(x) \in [Cells -> Int]
         /\ AverageRanks(Permuted(x, p)) = Permuted(AverageRanks(x), p)
<1>. DEFINE Below(c) == {d \in Cells : x[d] < x[c]}
            Level(c) == {d \in Cells : x[d] = x[c]}
            rank == [c \in Cells |-> 2 * Cardinality(Below(c))
                                       + Cardinality(Level(c)) + 1]
            y == Permuted(x, p)
<1>1. AverageRanks(x) = rank
  BY DEF AverageRanks
<1>2. \A c \in Cells : Cardinality(Below(c)) \in Int /\ Cardinality(Level(c)) \in Int
  <2>1. \A c \in Cells : Below(c) \in SUBSET Cells /\ Level(c) \in SUBSET Cells
    OBVIOUS
  <2>. HIDE DEF Below, Level
  <2>. QED
    BY <2>1, CellsAreFinite
<1>3. rank \in [Cells -> Int]
  <2>. HIDE DEF Below, Level
  <2>. QED
    BY <1>2
<1>4. AverageRanks(y)
        = [c \in Cells |-> 2 * Cardinality({d \in Cells : y[d] < y[c]})
                             + Cardinality({d \in Cells : y[d] = y[c]}) + 1]
  BY DEF AverageRanks, Permuted
<1>5. ASSUME NEW c \in Cells
      PROVE  /\ Cardinality({d \in Cells : y[d] < y[c]}) = Cardinality(Below(p[c]))
             /\ Cardinality({d \in Cells : y[d] = y[c]}) = Cardinality(Level(p[c]))
  <2>1. p[c] \in Cells /\ \A d \in Cells : p[d] \in Cells
    BY EveryCellStandsSomewhere
  <2>2. {d \in Cells : y[d] < y[c]} = {d \in Cells : p[d] \in Below(p[c])}
        /\ {d \in Cells : y[d] = y[c]} = {d \in Cells : p[d] \in Level(p[c])}
    BY <2>1 DEF Permuted
  <2>3. Below(p[c]) \in SUBSET Cells /\ Level(p[c]) \in SUBSET Cells
    OBVIOUS
  <2>. HIDE DEF Below, Level, y
  <2>. QED
    BY <2>2, <2>3, AsManyReordered
<1>6. \A c \in Cells : p[c] \in Cells
  BY EveryCellStandsSomewhere
<1>7. AverageRanks(y) = [c \in Cells |-> rank[p[c]]]
  <2>1. \A c \in Cells :
          2 * Cardinality({d \in Cells : y[d] < y[c]})
            + Cardinality({d \in Cells : y[d] = y[c]}) + 1 = rank[p[c]]
    <3>. HIDE DEF Below, Level, y
    <3>. QED
      BY <1>5, <1>6
  <2>. HIDE DEF rank
  <2>. QED
    BY <1>4, <2>1, Zenon
<1>. QED
  BY <1>1, <1>3, <1>7 DEF Permuted

(* A column sums alike in any order, and so do the products of two. *)
LEMMA CovarianceOfTheReordered ==
  ASSUME NEW p \in Reorderings, NEW x \in [Cells -> Int], NEW y \in [Cells -> Int]
  PROVE  Covariance(Permuted(x, p), Permuted(y, p)) = Covariance(x, y)
<1>1. ASSUME NEW z \in [Cells -> Int]
      PROVE  SumFunction(Permuted(z, p)) = SumFunction(z)
  <2>. DEFINE w == Permuted(z, p)
  <2>1. /\ DOMAIN w = Cells /\ DOMAIN z = Cells
        /\ \A c \in Cells : w[c] \in Int /\ w[c] = z[p[c]]
    BY EveryCellStandsSomewhere DEF Permuted
  <2>. HIDE DEF w
  <2>2. SumFunctionOnSet(w, Cells) = SumFunctionOnSet(z, Cells)
    <3>1. p \in Bijection(Cells, Cells) /\ IsFiniteSet(Cells)
      BY EveryCellStandsSomewhere, CellsAreFinite
    <3>2. \A c \in Cells : w[c] \in Int /\ w[c] = z[p[c]]
      BY <2>1
    <3>. QED
      BY ONLY <3>1, <3>2, SumReindexed
  <2>. QED
    BY <2>1, <2>2 DEF SumFunction, w
<1>. DEFINE product == [c \in Cells |-> x[c] * y[c]]
            px == Permuted(x, p)
            py == Permuted(y, p)
<1>2. DOMAIN px = Cells /\ [c \in DOMAIN px |-> px[c] * py[c]] = Permuted(product, p)
  BY EveryCellStandsSomewhere DEF Permuted
<1>3. product \in [Cells -> Int]
  OBVIOUS
<1>4. [c \in DOMAIN x |-> x[c] * y[c]] = product /\ DOMAIN x = Cells
  OBVIOUS
<1>5. Covariance(px, py) = Cardinality(Cells) * SumFunction(Permuted(product, p))
                             - SumFunction(px) * SumFunction(py)
  <2>. HIDE DEF px, py, product
  <2>. QED
    BY <1>2 DEF Covariance
<1>6. Covariance(x, y) = Cardinality(Cells) * SumFunction(product)
                           - SumFunction(x) * SumFunction(y)
  <2>. HIDE DEF product
  <2>. QED
    BY <1>4 DEF Covariance
<1>. HIDE DEF product
<1>. QED
  BY <1>1, <1>3, <1>5, <1>6

(* No reordering of two columns changes their rank correlation. *)
LEMMA SpearmanOfTheReordered ==
  ASSUME NEW p \in Reorderings, NEW x \in [Cells -> Int], NEW y \in [Cells -> Int]
  PROVE  Spearman(Permuted(x, p), Permuted(y, p)) = Spearman(x, y)
<1>1. /\ AverageRanks(x) \in [Cells -> Int] /\ AverageRanks(y) \in [Cells -> Int]
      /\ AverageRanks(Permuted(x, p)) = Permuted(AverageRanks(x), p)
      /\ AverageRanks(Permuted(y, p)) = Permuted(AverageRanks(y), p)
  BY RanksOfTheReordered
<1>. QED
  BY <1>1, CovarianceOfTheReordered DEF Spearman

(* A Grid handed over in another order covers the grid, aligned to itself. *)
LEMMA ReorderedGrid ==
  ASSUME NEW p \in Reorderings, NEW grid \in Grids
  PROVE  LET shuffled == [i \in Cells |-> InGridOrder(grid)[p[i]]]
         IN  CoversTheGrid(shuffled) /\ Aligned(shuffled) = grid
<1>. DEFINE shuffled == [i \in Cells |-> InGridOrder(grid)[p[i]]]
<1>1. DOMAIN shuffled = Cells
      /\ \A i \in Cells : shuffled[i] = [cell |-> p[i], outcome |-> grid[p[i]]]
  BY EveryCellStandsSomewhere DEF InGridOrder
<1>. HIDE DEF shuffled
<1>2. CoversTheGrid(shuffled)
  BY <1>1, EveryCellStandsSomewhere DEF CoversTheGrid
<1>3. ASSUME NEW c \in Cells
      PROVE  shuffled[CHOOSE i \in DOMAIN shuffled : shuffled[i].cell = c].outcome
               = grid[c]
  <2>1. \E i \in DOMAIN shuffled : shuffled[i].cell = c
    BY <1>1, EveryCellStandsSomewhere
  <2>. QED
    BY <1>1, <2>1
<1>4. Aligned(shuffled) = [c \in Cells |-> grid[c]]
  BY <1>3 DEF Aligned
<1>5. grid = [c \in Cells |-> grid[c]]
  BY DEF Grids
<1>. QED
  BY <1>2, <1>4, <1>5 DEF shuffled

(* The verdict is of the cells, and not of the list they come in. *)
THEOREM OrderIsIgnored == Spec => []VerdictIgnoresTheOrder
<1>1. RecordIsOfTheGrids => VerdictIgnoresTheOrder
  <2>. DEFINE cells == grids["faithful"]
              handed == InGridOrder(cells)
              column == [c \in Cells |-> Published[leg][c].sharpe]
  <2>. SUFFICES ASSUME RecordIsOfTheGrids, grids["faithful"] # <<>>
                PROVE
        /\ \A p \in Reorderings :
             LET shuffled == [i \in Cells |-> handed[p[i]]]
             IN  /\ CoversTheGrid(shuffled)
                 /\ \A run \in Runs :
                      Verdict(shuffled, run, leg) = Verdict(handed, run, leg)
                 /\ Comparable(cells) = Cells =>
                      Spearman([i \in Cells |-> cells[p[i]].sharpe],
                               [i \in Cells |-> column[p[i]]])
                        = Spearman(SharpesOf(cells), column)
        /\ \A c, d \in Cells :
             c # d => ~CoversTheGrid([handed EXCEPT ![c] = handed[d]])
    BY DEF VerdictIgnoresTheOrder
  <2>1. cells \in Grids /\ leg \in Legs
    BY DEF RecordIsOfTheGrids, Runs
  <2>. HIDE DEF cells
  <2>2. ASSUME NEW p \in Reorderings
        PROVE  LET shuffled == [i \in Cells |-> handed[p[i]]]
               IN  /\ CoversTheGrid(shuffled)
                   /\ \A run \in Runs :
                        Verdict(shuffled, run, leg) = Verdict(handed, run, leg)
    <3>. DEFINE shuffled == [i \in Cells |-> handed[p[i]]]
    <3>1. CoversTheGrid(shuffled) /\ Aligned(shuffled) = cells
      BY <2>1, ReorderedGrid
    <3>2. Aligned(handed) = cells
      BY <2>1, AlignedGrid
    <3>. HIDE DEF shuffled, handed
    <3>3. \A run \in Runs :
            Verdict(shuffled, run, leg) = Verdict(handed, run, leg)
      BY <3>1, <3>2, Zenon DEF Verdict
    <3>. QED
      BY <3>1, <3>3 DEF shuffled
  <2>3. ASSUME NEW p \in Reorderings, Comparable(cells) = Cells
        PROVE  Spearman([i \in Cells |-> cells[p[i]].sharpe],
                        [i \in Cells |-> column[p[i]]])
                 = Spearman(SharpesOf(cells), column)
    <3>. DEFINE x == SharpesOf(cells)
    <3>1. x \in [Cells -> Int] /\ \A c \in Cells : x[c] = cells[c].sharpe
      BY <2>1, <2>3, ComparableCells DEF SharpesOf
    <3>2. column \in [Cells -> Int]
      BY <2>1
    <3>3. [i \in Cells |-> cells[p[i]].sharpe] = Permuted(x, p)
      BY <3>1, EveryCellStandsSomewhere DEF Permuted
    <3>4. [i \in Cells |-> column[p[i]]] = Permuted(column, p)
      BY DEF Permuted
    <3>5. SharpesOf(cells) = x
      OBVIOUS
    <3>. HIDE DEF x, column
    <3>6. Spearman(Permuted(x, p), Permuted(column, p)) = Spearman(x, column)
      BY <3>1, <3>2, SpearmanOfTheReordered
    <3>. QED
      BY <3>3, <3>4, <3>5, <3>6, Zenon
  <2>4. ASSUME NEW c \in Cells, NEW d \in Cells, c # d
        PROVE  ~CoversTheGrid([handed EXCEPT ![c] = handed[d]])
    <3>. DEFINE twice == [handed EXCEPT ![c] = handed[d]]
    <3>1. /\ DOMAIN twice = Cells /\ twice[c] = handed[d] /\ twice[d] = handed[d]
      BY <2>4 DEF InGridOrder
    <3>. HIDE DEF twice, handed
    <3>. QED
      BY <2>4, <3>1 DEF CoversTheGrid, twice
  <2>. QED
    BY <2>2, <2>3, <2>4
<1>. QED
  BY <1>1, Inductive, PTL

=============================================================================
