--------------------------------- MODULE Gate ---------------------------------
(***************************************************************************)
(* The Replication Gate (gate.py, `run_gate` of runner.py): two Grids are   *)
(* run, each is read against one leg of the published table on four         *)
(* criteria, and the verdicts are filed with the gap between the runs.      *)
(***************************************************************************)
EXTENDS GridCells, Integers, FiniteSetsExt, Functions

CONSTANTS
  None,                   \* no number where one could have been
  NCells,                 \* cells of the published grid, in its order
  Sharpes,                \* levels a cell's net Sharpe can take
  Legs,                   \* legs of the published table
  Published,              \* per leg and cell, the paper's Sharpe and return
  MinSpearmanTenths, LiquidationTolerance, MinSignAgreement,
  BestSharpe, SharpeTolerance   \* the level, and how far from it one may be

Cells == 1 .. NCells
Runs == {"faithful", "venue"}

ASSUME GateAssumption ==
  /\ NCells \in Nat \ {0}
  /\ Sharpes \subseteq Int /\ None \notin Int
  /\ "long_short" \in Legs
  /\ \A leg \in Legs : Published[leg] \in
       [Cells -> [sharpe : Int, cumReturn : {r \in Int : r >= -100}]]
  /\ MinSpearmanTenths \in 0 .. 10 /\ LiquidationTolerance \in Nat
  /\ MinSignAgreement \in Nat
  /\ BestSharpe \in Int /\ SharpeTolerance \in Nat

VARIABLES
  leg,      \* the published leg both runs are read against
  grids,    \* per run, the cells its Grid came to; <<>> before it has run
  record    \* gate.json, or None

vars == <<leg, grids, record>>

--------------------------------------------------------------------------------
(***************************************************************************)
(* The cells, and their alignment with the published grid.                  *)
(***************************************************************************)

\* What `metrics` says of a cell: its shape, and its Sharpe if it has one.
Outcomes ==
  {[shape |-> s, sharpe |-> x] : s \in {t \in CellShapes : HasSharpe(t)},
                                 x \in Sharpes}
    \union {[shape |-> s, sharpe |-> None] :
              s \in {t \in CellShapes : ~HasSharpe(t)}}

Grids == [Cells -> Outcomes]

\* A Grid's cells in the grid's own order, each under its (lookback, holding).
InGridOrder(grid) == [i \in Cells |-> [cell |-> i, outcome |-> grid[i]]]

\* No cell twice, none missing, none from outside: anything else is a GateError.
CoversTheGrid(handed) ==
  /\ \A i, j \in DOMAIN handed : handed[i].cell = handed[j].cell => i = j
  /\ {handed[i].cell : i \in DOMAIN handed} = Cells

\* The cells handed over, by the cell each is of and not by position.
Aligned(handed) ==
  [c \in Cells |->
     handed[CHOOSE i \in DOMAIN handed : handed[i].cell = c].outcome]

Comparable(cells) == {c \in Cells : cells[c].sharpe # None}
SharpesOf(cells) == [c \in Comparable(cells) |-> cells[c].sharpe]

--------------------------------------------------------------------------------
(***************************************************************************)
(* Rank correlation.  Ranks are doubled, so that the average rank of a tie  *)
(* is whole; the coefficient is kept as a covariance and the product of the *)
(* variances, all three scaled by the number of points.                     *)
(***************************************************************************)
RanksByPosition(values) ==   \* Mutation: a tie is broken by place in the list
  [c \in DOMAIN values |->
     2 * Cardinality({d \in DOMAIN values :
                        \/ values[d] < values[c]
                        \/ values[d] = values[c] /\ d <= c})]

AverageRanks(values) ==
  [c \in DOMAIN values |->
     2 * Cardinality({d \in DOMAIN values : values[d] < values[c]})
       + Cardinality({d \in DOMAIN values : values[d] = values[c]}) + 1]

Covariance(x, y) ==
  Cardinality(DOMAIN x) * SumFunction([c \in DOMAIN x |-> x[c] * y[c]])
    - SumFunction(x) * SumFunction(y)

Spearman(ours, theirs) ==
  LET x == AverageRanks(ours)
      y == AverageRanks(theirs)
  IN  [covariance |-> Covariance(x, y),
       spread |-> Covariance(x, x) * Covariance(y, y)]

\* Fewer than two points, or a side without dispersion, has no correlation.
CorrelatedAnyhow(rho) == rho.spread >= 0   \* Mutation: none is as good as any
Correlated(rho) == rho.spread > 0

AtLeastTenths(rho, tenths) ==
  /\ rho.covariance >= 0
  /\ 100 * rho.covariance * rho.covariance >= tenths * tenths * rho.spread

--------------------------------------------------------------------------------
(***************************************************************************)
(* The four criteria and the verdict.                                       *)
(***************************************************************************)
Distance(a, b) == IF a >= b THEN a - b ELSE b - a

\* `PublishedCell.liquidated`: a cumulative return of -100%.
PublishedLiquidations(which) ==
  Cardinality({c \in Cells : Published[which][c].cumReturn <= -100})

Wiped(cells) == {c \in Cells : IsLiquidated(cells[c].shape)}

\* The sign of the t-statistic is that of the published cumulative return; a
\* cell without a t-statistic cannot agree.
Agreeing(cells, which) ==
  {c \in Cells : /\ HasTStatistic(cells[c].shape)
                 /\ (cells[c].shape = "gained")
                      <=> (Published[which][c].cumReturn > 0)}

SpearmanPasses(cells, which) ==
  /\ Comparable(cells) = Cells
  /\ LET rho == Spearman(SharpesOf(cells),
                         [c \in Comparable(cells) |-> Published[which][c].sharpe])
     IN  Correlated(rho) /\ AtLeastTenths(rho, MinSpearmanTenths)

LiquidationsPass(cells, which) ==
  Distance(Cardinality(Wiped(cells)), PublishedLiquidations(which))
    <= LiquidationTolerance

SignsPass(cells, which) ==
  Cardinality(Agreeing(cells, which)) >= MinSignAgreement

SharpesIn(cells) == {cells[c].sharpe : c \in Comparable(cells)}

BestOrZero(cells) ==   \* Mutation: the best of nothing is zero
  IF Comparable(cells) = {} THEN 0 ELSE Max(SharpesIn(cells))
Best(cells) ==
  IF Comparable(cells) = {} THEN None ELSE Max(SharpesIn(cells))

\* Measured on both runs, binding on the Faithful Run only.
LevelPasses(cells, run) ==
  \/ run = "venue"
  \/ Best(cells) # None /\ Distance(Best(cells), BestSharpe) <= SharpeTolerance

\* A verdict against the long-short leg in which nothing was wiped out.
Warned(cells, which) == which = "long_short" /\ Wiped(cells) = {}

\* `evaluate_gate`
Verdict(handed, run, which) ==
  LET cells == Aligned(handed)
  IN  [spearman |-> SpearmanPasses(cells, which),
       liquidations |-> LiquidationsPass(cells, which),
       signs |-> SignsPass(cells, which),
       level |-> LevelPasses(cells, run),
       compared |-> Cardinality(Comparable(cells)),
       liquidated |-> Cardinality(Wiped(cells)),
       best |-> Best(cells),
       warned |-> Warned(cells, which)]

Passes(verdict) ==
  verdict.spearman /\ verdict.liquidations /\ verdict.signs /\ verdict.level

\* `describe_gap`, signed venue minus faithful, over the cells both produced.
Gap(faithful, venue) ==
  LET ours == Aligned(InGridOrder(faithful))
      theirs == Aligned(InGridOrder(venue))
      paired == Comparable(ours) \intersect Comparable(theirs)
      difference == [c \in paired |-> theirs[c].sharpe - ours[c].sharpe]
  IN  [compared |-> Cardinality(paired),
       perCell |-> [c \in Cells |-> IF c \in paired THEN difference[c] ELSE None],
       best |-> IF Best(ours) = None \/ Best(theirs) = None THEN None
                ELSE Best(theirs) - Best(ours),
       absolute |-> SumFunction([c \in paired |-> Distance(difference[c], 0)]),
       ranked |-> Correlated(Spearman([c \in paired |-> ours[c].sharpe],
                                      [c \in paired |-> theirs[c].sharpe])),
       liquidated |-> Cardinality(Wiped(theirs)) - Cardinality(Wiped(ours))]

--------------------------------------------------------------------------------
(***************************************************************************)
(* One invocation of the gate.                                              *)
(***************************************************************************)
Init ==
  /\ leg \in Legs
  /\ grids = [run \in Runs |-> <<>>]
  /\ record = None

RunFaithful ==
  /\ grids["faithful"] = <<>>
  /\ \E grid \in Grids :
       grids' = [grids EXCEPT !["faithful"] = grid]
  /\ UNCHANGED <<leg, record>>

RunVenue ==
  /\ grids["faithful"] # <<>> /\ grids["venue"] = <<>>
  /\ \E grid \in Grids :
       grids' = [grids EXCEPT !["venue"] = grid]
  /\ UNCHANGED <<leg, record>>

\* Both verdicts and the gap, written once both Grids are there.
WriteGate ==
  /\ record = None /\ grids["venue"] # <<>>
  /\ LET verdict ==
           [run \in Runs |-> Verdict(InGridOrder(grids[run]), run, leg)]
     IN  record' = [verdict |-> verdict,
                    gap |-> Gap(grids["faithful"], grids["venue"]),
                    passes |-> \A run \in Runs : Passes(verdict[run])]
  /\ UNCHANGED <<leg, grids>>

Next == RunFaithful \/ RunVenue \/ WriteGate

Spec == Init /\ [][Next]_vars

--------------------------------------------------------------------------------
Verdicts ==
  [spearman : BOOLEAN, liquidations : BOOLEAN, signs : BOOLEAN,
   level : BOOLEAN, compared : 0 .. NCells, liquidated : 0 .. NCells,
   best : Sharpes \union {None}, warned : BOOLEAN]

(***************************************************************************)
(* The types.  A cell a verdict counts as compared and a best Sharpe come   *)
(* together, and the gap compares no more cells than either run produced.   *)
(***************************************************************************)
TypeOK ==
  /\ leg \in Legs
  /\ DOMAIN grids = Runs /\ \A run \in Runs : grids[run] \in Grids \union {<<>>}
  /\ record # None =>
       /\ \A run \in Runs :
            /\ grids[run] # <<>>
            /\ record.verdict[run] \in Verdicts
            /\ record.verdict[run].best = None
                 <=> record.verdict[run].compared = 0
            /\ record.gap.compared <= record.verdict[run].compared
       /\ record.passes \in BOOLEAN

(***************************************************************************)
(* A gate that passes has read every cell of both Grids: each has a Sharpe, *)
(* not all the same, so that there is a ranking to correlate; at least      *)
(* MinSignAgreement of them agree in sign, so that no more than the others  *)
(* were wiped out, and no fewer than the tolerance below the published      *)
(* count.  A run the verdict warns about passes only where that count is    *)
(* within the tolerance of none.                                            *)
(***************************************************************************)
PassNeedsEveryCell ==
  record # None /\ record.passes =>
    \A run \in Runs :
      LET wiped == {c \in Cells : IsLiquidated(grids[run][c].shape)}
      IN  /\ \A c \in Cells : HasSharpe(grids[run][c].shape)
          /\ \E c, d \in Cells : grids[run][c].sharpe # grids[run][d].sharpe
          /\ Cardinality(wiped) <= NCells - MinSignAgreement
          /\ Cardinality(wiped) >= PublishedLiquidations(leg) - LiquidationTolerance
          /\ record.verdict[run].warned =>
               PublishedLiquidations(leg) <= LiquidationTolerance

\* A grid's cells handed over in another order.
Reorderings == {p \in [Cells -> Cells] : \A c, d \in Cells : p[c] = p[d] => c = d}

(***************************************************************************)
(* The verdict is of the cells and not of the list they come in: handed     *)
(* over in any order they get the same verdict, a list in which one cell    *)
(* stands in another's place is refused, and no reordering of the two       *)
(* columns, ties included, changes their rank correlation.                  *)
(***************************************************************************)
VerdictIgnoresTheOrder ==
  grids["faithful"] # <<>> /\ grids["venue"] = <<>> =>
    LET cells == grids["faithful"]
        handed == InGridOrder(cells)
        column == [c \in Cells |-> Published[leg][c].sharpe]
    IN  /\ \A p \in Reorderings :
             LET shuffled == [i \in Cells |-> handed[p[i]]]
             IN  /\ CoversTheGrid(shuffled)
                 /\ \A run \in Runs :
                      Verdict(shuffled, run, leg) = Verdict(handed, run, leg)
                 /\ Comparable(cells) = Cells =>
                      Spearman([i \in Cells |-> cells[p[i]].sharpe],
                               [i \in Cells |-> column[p[i]]])
                        = Spearman(SharpesOf(cells), column)
        /\ \A c, d \in Cells :
             c # d => ~CoversTheGrid([handed EXCEPT ![c] = handed[d]])

================================================================================
