------------------------------- MODULE Reading --------------------------------
(***************************************************************************)
(* How a run is read once it has been walked: `simulate_cross_sectional`    *)
(* and `simulate_buy_and_hold` from the mark on, the report (report.py),    *)
(* the benchmarks and the hurdle (benchmarks.py), and the record or refusal *)
(* that leaves runner.py.  One run of one configuration.                    *)
(*                                                                         *)
(* What the walk of a book comes to is chosen here: a daily net return per  *)
(* mark and, per rebalance, whether anything was filled and what it traded. *)
(* A return of r stands for r/2, so -2 is a total loss; turnover is counted *)
(* in quarters of the book.                                                 *)
(***************************************************************************)
EXTENDS GridCells, Integers, SequencesExt

CONSTANTS
  None,                   \* no number where one could have been
  LastDay,                \* days 0 .. LastDay; day 0 is the first Decision Bar
  Holdings,               \* holding periods, in days
  DaysPerWeek,
  Budget, Ceiling,        \* weekly turnover budget, and the most it may be
  Returns                 \* daily net returns, in halves

Days == 0 .. LastDay

\* What may be filed of a run: a record, or a refusal by its slug.
Filed ==
  [outcome : {"recorded", "refused"},
   slug : {None, "turnover_budget_breached", "not_enough_bars"},
   turnover : Nat \union {None},
   metrics : {Metrics(shape) : shape \in CellShapes},
   clears : BOOLEAN, spans : BOOLEAN]

ASSUME ReadingAssumption ==
  /\ LastDay \in Nat \ {0} /\ Holdings \subseteq Nat \ {0}
  /\ DaysPerWeek \in Nat \ {0}
  /\ Budget \in Nat \ {0} /\ Ceiling \in Nat /\ Budget <= Ceiling
  /\ Returns \subseteq {r \in Int : r >= -2} /\ {-2, 0} \subseteq Returns
  /\ None \notin Filed

VARIABLES
  step,       \* what is done next
  strategy,   \* `strategy_kind`
  holding,    \* `holding_days`
  run,        \* the strategy's RunResult, or None
  bars,       \* BTC's daily bars once they are loaded, or None
  btc,        \* BTC's RunResult over the run's window, or None
  cell,       \* the cell as filed, or None
  rotation    \* history, read by no action: what rebalances traded after the
              \* first that filled anything

vars == <<step, strategy, holding, run, bars, btc, cell, rotation>>

--------------------------------------------------------------------------------
(***************************************************************************)
(* Paths.  A path is the sequence of its daily returns; after n marks a     *)
(* unit of money is worth the product of the 2 + r over 2^n.                *)
(***************************************************************************)
TwoTo[n \in Nat] == IF n = 0 THEN 1 ELSE 2 * TwoTo[n - 1]

\* The products, mark by mark.
Worth(path) ==
  LET worth[n \in 0 .. Len(path)] ==
        IF n = 0 THEN 1 ELSE worth[n - 1] * (2 + path[n])
  IN  worth

Growth(path) == Worth(path)[Len(path)]
Sum(path) == SumFunction(path)
SumOfSquares(path) == SumFunction([k \in DOMAIN path |-> path[k] * path[k]])

\* Equity on each mark, in units of 2^-LastDay.
Equity(path) == [k \in DOMAIN path |-> Worth(path)[k] * TwoTo[LastDay - k]]

\* `mark_daily`: the curve is cut at the first mark that reaches nothing.
Marked(returns) ==
  LET breached == {k \in DOMAIN returns : returns[k] = -2}
  IN  IF breached = {} THEN returns ELSE SubSeq(returns, 1, Min(breached))

Liquidated(path) == Last(path) = -2

\* Squared deviations from the mean, times the number of marks.
Dispersion(path) == Len(path) * SumOfSquares(path) - Sum(path) * Sum(path)

\* `_sharpe`: the signed square of mean over standard deviation, up to a
\* constant.  Not defined on a flat path, nor on a single mark.
Sharpe(path) ==
  [num |-> (IF Sum(path) < 0 THEN -1 ELSE 1)
             * Sum(path) * Sum(path) * (Len(path) - 1),
   den |-> Len(path) * Dispersion(path)]

IsNumber(sharpe) == sharpe.den > 0
AboveAnything(a, b) ==   \* Mutation: a Sharpe is above one that is missing
  IsNumber(a) /\ a.num * b.den > b.num * a.den
Above(a, b) == IsNumber(a) /\ IsNumber(b) /\ a.num * b.den > b.num * a.den

\* `_log_return_t_statistic`, by sign: the sum of log(1 + r/2) is positive
\* when the product of the 2 + r exceeds 2^n.
TOfSimpleReturns(path) ==   \* Mutation: the mean return's sign
  IF Liquidated(path) \/ Dispersion(path) = 0 THEN "none"
  ELSE IF Sum(path) > 0 THEN "positive" ELSE "not_positive"
TWithoutTheBreach(path) ==   \* Mutation: a wiped-out path has one as well
  IF Dispersion(path) = 0 THEN "none"
  ELSE IF Growth(path) > TwoTo[Len(path)] THEN "positive" ELSE "not_positive"
TStatistic(path) ==
  IF Liquidated(path) \/ Dispersion(path) = 0 THEN "none"
  ELSE IF Growth(path) > TwoTo[Len(path)] THEN "positive" ELSE "not_positive"

\* `_max_drawdown`: the mark lowest against the highest so far, and that peak.
Drawdown(path) ==
  LET equity == Equity(path)
      peak == [k \in DOMAIN path |-> Max({equity[i] : i \in 1 .. k})]
      trough == CHOOSE k \in DOMAIN path :
                  \A i \in DOMAIN path : equity[k] * peak[i] <= equity[i] * peak[k]
  IN  [worth |-> equity[trough], peak |-> peak[trough]]

NoDeeper(a, b) == a.worth * b.peak >= b.worth * a.peak

\* A path wiped out on its first mark has no peak to fall from: `_max_drawdown`
\* divides nothing by nothing and raises what no caller catches.
CannotBeSummarised(path) == Len(path) = 1 /\ Liquidated(path)

\* `summarise`: a Liquidation overrides why the series ends.
Report(decision, days, returns, reason) ==
  LET path == Marked(returns)
  IN  [decision |-> decision,
       days |-> SubSeq(days, 1, Len(path)),
       path |-> path,
       reason |-> IF Liquidated(path) THEN "liquidated" ELSE reason]

Entry(result) == Head(result.days)
Exit(result) == Last(result.days)

--------------------------------------------------------------------------------
(***************************************************************************)
(* The single hold.  A row of bars is missing, is one nothing could be      *)
(* filled at, opens and closes at nothing, or has a return.                 *)
(***************************************************************************)
Row(kind, return) == [kind |-> kind, return |-> return]
Rows ==
  {Row("gap", 0), Row("halt", 0), Row("dead", -2)}
    \union {Row("bar", r) : r \in Returns}

\* Of the row on day 0 all that is read is whether it is there: if it is, it
\* is the first, and the first is never filled on.
Frames == {f \in [Days -> Rows] : f[0].kind \in {"gap", "halt"}}

\* Days, the earliest first: the i-th has i - 1 before it.
InOrder(days) ==
  [i \in 1 .. Cardinality(days) |->
     CHOOSE d \in days : Cardinality({e \in days : e < d}) = i - 1]

\* The rows of a frame within a window, by day.
Within(frame, from, to) ==
  InOrder({d \in from .. to : frame[d].kind # "gap"})

\* `_hold_before_halt`: the days after the first, up to the first halt.
Held(frame, seen) ==
  LET halts == {i \in DOMAIN seen : i > 1 /\ frame[seen[i]].kind = "halt"}
  IN  IF halts = {} THEN Tail(seen) ELSE SubSeq(seen, 2, Min(halts) - 1)

\* Otherwise NotEnoughBars.
CanBeHeld(frame, seen) ==
  /\ Len(seen) >= 2
  /\ Held(frame, seen) # <<>>
  /\ frame[Head(Held(frame, seen))].kind # "dead"

Hold(frame, seen) ==
  LET held == Held(frame, seen)
  IN  Report(Head(seen), held, [i \in DOMAIN held |-> frame[held[i]].return],
             IF Len(held) = Len(seen) - 1 THEN "window_end" ELSE "halted")

--------------------------------------------------------------------------------
(***************************************************************************)
(* Turnover.  A rebalance either left a position or did not (`filled`), and *)
(* traded half of what changed hands.  A book can be closed by halts before *)
(* it is rebalanced, and a name selected can go unfilled.                   *)
(***************************************************************************)
Book(filled) == IF filled THEN 4 ELSE 0

Traded(before, selection) ==
  /\ 2 * selection.turnover <= Book(before) + Book(selection.filled)
  /\ selection.filled /\ ~before => selection.turnover > 0

\* One selection per Decision Bar that has a fill bar after it.
Rebalances(h) == Cardinality({d \in 0 .. LastDay - 1 : d % h = 0})

Walks ==
  [h \in Holdings |->
     {w \in [1 .. Rebalances(h) -> [filled : BOOLEAN, turnover : 0 .. 4]] :
        \A i \in DOMAIN w : Traded(i > 1 /\ w[i - 1].filled, w[i])}]

Turnover(selections) ==
  SumFunction([i \in DOMAIN selections |-> selections[i].turnover])

\* `rebalance_turnovers`: of all selections but the first, or None when there
\* is no other.  Their sum stands for the weekly figure: the number of
\* rebalances and the holding period are the same wherever it is compared.
Measured(walk) == IF Len(walk) < 2 THEN None ELSE Turnover(Tail(walk))

\* The mean per rebalance, put on a weekly footing, against a limit.
Breaches(measured, h, limit) ==
  /\ measured # None
  /\ measured * DaysPerWeek > limit * (Rebalances(h) - 1) * h

\* A book in cash, from the fill that left it so or from before it, earns
\* nothing.  The walk goes on behind a total loss, and prices may come back.
InStep(walk, returns, h) ==
  \A k \in DOMAIN returns :
    LET i == (k - 1) \div h + 1
        first == k = (i - 1) * h + 1
    IN  ~walk[i].filled /\ (first => i = 1 \/ ~walk[i - 1].filled)
          => returns[k] = 0

\* What was traded after the fill that opened the book.
Rotation(walk) ==
  LET fills == {i \in DOMAIN walk : walk[i].filled}
  IN  IF fills = {} THEN 0
      ELSE Turnover(SubSeq(walk, Min(fills) + 1, Len(walk)))

--------------------------------------------------------------------------------
(***************************************************************************)
(* What is filed.                                                           *)
(***************************************************************************)
NoMetrics == Metrics("silent")

\* The part of `metrics_of` a Grid is read across.
MetricsOf(result) ==
  [sharpe |-> IsNumber(Sharpe(result.path)),
   t |-> TStatistic(result.path),
   liquidated |-> Liquidated(result.path)]

\* `describe_refusal`: a breach carries the turnover that breached.
Refuse(slug, measured) ==
  /\ cell' = [outcome |-> "refused", slug |-> slug, turnover |-> measured,
              metrics |-> NoMetrics, clears |-> FALSE, spans |-> FALSE]
  /\ step' = "done"

\* `deployment_hurdle`: a condition that could not be decided is not met.
Clears(result, reference) ==
  /\ reference # None
  /\ Above(Sharpe(result.path), Sharpe(reference.path))
  /\ NoDeeper(Drawdown(result.path), Drawdown(reference.path))
  /\ result.clearsBar

Spans(reference, result) ==
  /\ reference # None
  /\ Entry(reference) = Entry(result) /\ Exit(reference) = Exit(result)

--------------------------------------------------------------------------------
(***************************************************************************)
(* One run.                                                                 *)
(***************************************************************************)
Init ==
  /\ strategy \in {"cross_sectional", "buy_and_hold"}
  /\ holding \in Holdings
  /\ step = "simulate"
  /\ run = None /\ bars = None /\ btc = None /\ cell = None /\ rotation = 0

\* Neither a result nor a refusal: the exception ends the invocation.
Abort == step' = "aborted" /\ UNCHANGED <<run, bars, btc, cell, rotation>>

\* Whether t exceeds 3 is open once it is positive.
Judged(result, measured) ==
  {[decision |-> result.decision, days |-> result.days, path |-> result.path,
    reason |-> result.reason, clearsBar |-> clears, turnover |-> measured] :
     clears \in IF TStatistic(result.path) = "positive" THEN BOOLEAN ELSE {FALSE}}

\* `simulate_cross_sectional`: the path is summarised, then the budget held.
SimulateCrossSectional ==
  /\ step = "simulate" /\ strategy = "cross_sectional"
  /\ \E walk \in Walks[holding], returns \in [1 .. LastDay -> Returns] :
       /\ InStep(walk, returns, holding)
       /\ LET result == Report(0, [k \in 1 .. LastDay |-> k], returns, "window_end")
          IN  IF CannotBeSummarised(result.path) THEN Abort
              ELSE /\ run' \in Judged(result, Measured(walk))
                   /\ rotation' = Rotation(walk)
                   /\ IF Breaches(Measured(walk), holding, Budget)
                        THEN Refuse("turnover_budget_breached", Measured(walk))
                        ELSE step' = "market" /\ UNCHANGED cell
                   /\ UNCHANGED <<bars, btc>>
  /\ UNCHANGED <<strategy, holding>>

\* `cap_weighted_market`: the same simulator over the whole Universe, without
\* the run's budget, so held to the ceiling.  A breach leaves as the run's own.
CapWeightedMarket ==
  /\ step = "market"
  /\ \/ \E returns \in [1 .. LastDay -> Returns] :
          CannotBeSummarised(Marked(returns)) /\ Abort
     \/ \E walk \in Walks[holding] :
          /\ IF Breaches(Measured(walk), holding, Ceiling)
               THEN Refuse("turnover_budget_breached", Measured(walk))
               ELSE step' = "btc" /\ UNCHANGED cell
          /\ UNCHANGED <<run, bars, btc, rotation>>
  /\ UNCHANGED <<strategy, holding>>

\* `_run_single_asset`.  The asset may be BTC, and its bars are then loaded.
SimulateBuyAndHold ==
  /\ step = "simulate" /\ strategy = "buy_and_hold"
  /\ \E frame \in Frames, isBtc \in BOOLEAN :
       LET seen == Within(frame, 0, LastDay)
       IN  \/ /\ ~CanBeHeld(frame, seen)
              /\ Refuse("not_enough_bars", None)
              /\ UNCHANGED <<run, bars, btc, rotation>>
           \/ /\ CanBeHeld(frame, seen)
              /\ LET result == Hold(frame, seen)
                 IN  IF CannotBeSummarised(result.path) THEN Abort
                     ELSE /\ run' \in Judged(result, None)
                          /\ bars' = IF isBtc THEN frame ELSE None
                          /\ step' = "btc"
                          /\ UNCHANGED <<btc, cell, rotation>>
  /\ UNCHANGED <<strategy, holding>>

\* `_btc_over_the_same_window`, BTC's bars not to be had.
BtcUnreadable ==
  /\ step = "btc" /\ bars = None
  /\ step' = "file"
  /\ UNCHANGED <<strategy, holding, run, bars, btc, cell, rotation>>

\* The rows BTC is held over: between the run's Decision Bar and its last mark.
WindowToTheEnd(frame) ==   \* Mutation: to the end of the configured window
  Within(frame, run.decision, LastDay)
RunWindow(frame) == Within(frame, run.decision, Exit(run))

BtcBuyAndHold ==
  /\ step = "btc"
  /\ \E frame \in IF bars = None THEN Frames ELSE {bars} :
       LET seen == RunWindow(frame)
       IN  \/ /\ ~CanBeHeld(frame, seen)
              /\ bars' = frame /\ step' = "file"
              /\ UNCHANGED <<run, btc, cell, rotation>>
           \/ /\ CanBeHeld(frame, seen)
              /\ LET result == Hold(frame, seen)
                 IN  IF CannotBeSummarised(result.path) THEN Abort
                     ELSE /\ btc' = result /\ bars' = frame /\ step' = "file"
                          /\ UNCHANGED <<run, cell, rotation>>
  /\ UNCHANGED <<strategy, holding>>

\* The record, and the cell a Grid makes of it (`_recorded_cell`).
File ==
  /\ step = "file"
  /\ cell' = [outcome |-> "recorded", slug |-> None, turnover |-> run.turnover,
              metrics |-> MetricsOf(run), clears |-> Clears(run, btc),
              spans |-> Spans(btc, run)]
  /\ step' = "done"
  /\ UNCHANGED <<strategy, holding, run, bars, btc, rotation>>

Next ==
  \/ SimulateCrossSectional \/ CapWeightedMarket \/ SimulateBuyAndHold
  \/ BtcUnreadable \/ BtcBuyAndHold \/ File

Spec == Init /\ [][Next]_vars

--------------------------------------------------------------------------------
(***************************************************************************)
(* The types.  A filed cell's metrics have one of the four shapes a Grid is *)
(* read across; a path ends at its first total loss and says so; the run of *)
(* a refused cell is kept only to say what it had traded.                   *)
(***************************************************************************)
TypeOK ==
  /\ step \in {"simulate", "market", "btc", "file", "done", "aborted"}
  /\ strategy \in {"cross_sectional", "buy_and_hold"} /\ holding \in Holdings
  /\ bars \in Frames \union {None} /\ rotation \in Nat
  /\ \A result \in {run, btc} \ {None} :
       /\ result.reason \in {"window_end", "halted", "liquidated"}
       /\ result.decision \in Days /\ Len(result.days) = Len(result.path)
       /\ \A i \in DOMAIN result.path :
            /\ result.days[i] \in Days /\ result.days[i] > result.decision
            /\ result.path[i] = -2 <=>
                 i = Len(result.path) /\ result.reason = "liquidated"
  /\ cell # None <=> step = "done"
  /\ cell \in Filed \union {None}

(***************************************************************************)
(* A run that clears the hurdle was read against a Bitcoin that was held    *)
(* and that moved, so that it has a Sharpe to be above; it survived, ended  *)
(* above where it began, and between no two marks fell further than Bitcoin *)
(* did between some two of its own.                                         *)
(***************************************************************************)
HurdleNeedsEvidence ==
  cell # None /\ cell.clears =>
    LET ours == Equity(run.path)
        theirs == Equity(btc.path)
        end == Len(run.path)
    IN  /\ btc # None /\ \E k, l \in DOMAIN btc.path : btc.path[k] # btc.path[l]
        /\ run.reason # "liquidated" /\ ours[end] > TwoTo[LastDay]
        /\ \A j \in DOMAIN ours : \A i \in 1 .. j :
             \E l \in DOMAIN theirs : \E k \in 1 .. l :
               ours[j] * theirs[k] >= theirs[l] * ours[i]

(***************************************************************************)
(* Bitcoin is held on days of the run only: after its Decision Bar, never   *)
(* past its last mark, whether it ran out, halted or was wiped out there,   *)
(* and never over a halt of Bitcoin's own.  Where the two are said to span  *)
(* one window, Bitcoin could be bought the day the run was and its path     *)
(* reached the run's last day.                                              *)
(***************************************************************************)
BtcIsHeldWithinTheRun ==
  btc # None =>
    /\ btc.decision >= run.decision
    /\ \A i \in DOMAIN btc.days :
         btc.days[i] \in run.decision + 1 .. Last(run.days)
    /\ \A day \in btc.decision + 1 .. Last(btc.days) :
         /\ bars[day].kind # "halt"
         /\ bars[day].kind # "gap" => day \in Range(btc.days)
    /\ cell # None /\ cell.spans =>
         /\ bars[Head(run.days)].kind = "bar"
         /\ \A day \in Head(run.days) .. Last(run.days) - 1 :
              bars[day].kind \notin {"halt", "dead"}

(***************************************************************************)
(* The sign the gate compares is that of the compounded return: a cell has  *)
(* a positive t-statistic only if it ended above where it began, and its    *)
(* mean and Sharpe are then positive too; one that ended no higher has none *)
(* or a non-positive one, however large its mean return.                    *)
(***************************************************************************)
SignIsOfTheCompoundedReturn ==
  cell # None /\ cell.outcome = "recorded" =>
    LET worth == Last(Equity(run.path))
        even == TwoTo[LastDay]
    IN  /\ cell.metrics.t = "positive" =>
             worth > even /\ cell.metrics.sharpe /\ Sum(run.path) > 0
        /\ cell.metrics.t = "not_positive" => worth > 0 /\ worth <= even
        /\ cell.metrics.liquidated <=> worth = 0

--------------------------------------------------------------------------------
(***************************************************************************)
(* What the documentation says, and the code does otherwise.                *)
(***************************************************************************)

(***************************************************************************)
(* benchmarks.py says of the cap-weighted market that it decides nothing: a *)
(* run is refused for turnover only where its own breached its budget.      *)
(***************************************************************************)
MarketDecidesNothing ==
  cell # None /\ cell.slug = "turnover_budget_breached" =>
    Breaches(run.turnover, holding, Budget)

(***************************************************************************)
(* `rebalance_turnovers` says the buy of the opening position from cash is  *)
(* left out of the rate: a run that traded nothing after it breaches no     *)
(* budget.                                                                  *)
(***************************************************************************)
OpeningFillIsNotBudgeted ==
  cell # None /\ cell.slug = "turnover_budget_breached"
    /\ Breaches(run.turnover, holding, Budget) => rotation > 0

================================================================================
