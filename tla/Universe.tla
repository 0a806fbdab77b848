------------------------------- MODULE Universe -------------------------------
(***************************************************************************)
(* The point-in-time Universe: the panel of data/universe.py (or of         *)
(* `panel_universe`, data/cmc_prices.py) as `load_cross_section_inputs`     *)
(* builds it, and the policy of sim/universe_policy.py on top of it.        *)
(*                                                                         *)
(* A panel gives every symbol the days on which it counts as tradeable.     *)
(* The days the archive still publishes one file at a time are left out:    *)
(* the bars come from whole months, and the panel is narrowed to the bars.  *)
(***************************************************************************)
EXTENDS SymbolMap

CONSTANTS
  DaysPerMonth,   \* days of one monthly partition
  Excluded,       \* stablecoins and wrapped assets
  VenueListed,    \* what the bracket's venue lists
  Bracket,        \* "binance-full" or "tokocrypto"
  FloorUsd,       \* the liquidity floor, or Missing
  WindowDays      \* bars the floor takes its median over

ASSUME UniverseAssumption ==
  /\ DaysPerMonth \in Nat \ {0}
  /\ Bracket \in {"binance-full", "tokocrypto"}
  /\ FloorUsd \in Nat \union {Missing}
  /\ WindowDays \in Nat \ {0}

BarDays(bars, s) == {t \in Days : bars[s][t].close # Missing}
Loaded(bars) == {s \in Symbols : BarDays(bars, s) # {}}
BarIndex(bars) == UNION {BarDays(bars, s) : s \in Symbols}

(* `_assert_contiguous`: a hole in a symbol's bars fails the run.            *)
GapInWindow(bars) ==
  \E s \in Loaded(bars) : Min(BarDays(bars, s)) .. Max(BarDays(bars, s)) # BarDays(bars, s)

-----------------------------------------------------------------------------
(* What existed *)

MonthOf(t) == t \div DaysPerMonth
CoveredMonths(bars, s) == {MonthOf(t) : t \in BarDays(bars, s)}

build_universe_panel(bars) ==
  [s \in Symbols |->
     {t \in Days : /\ MonthOf(t) \in CoveredMonths(bars, s)
                   /\ Min(BarDays(bars, s)) <= t /\ t <= Max(BarDays(bars, s))}]

panel_universe(bars) == [s \in Symbols |-> BarDays(bars, s)]

ExistedOn(source, bars) ==
  IF source = "cmc-panel" THEN panel_universe(bars) ELSE build_universe_panel(bars)

-----------------------------------------------------------------------------
(* What we would consider holding *)

AllowedSymbols ==
  IF Bracket = "tokocrypto" THEN (Symbols \intersect VenueListed) \ Excluded
                            ELSE Symbols \ Excluded

dollar_volume(bars) ==
  [s \in Symbols |-> [t \in Days |->
     IF Missing \in {bars[s][t].close, bars[s][t].volume} THEN Missing
     ELSE bars[s][t].close * bars[s][t].volume]]

(* The k-th smallest value of f over a set of days (the smallest is the 0th) *)
(* and twice the median, which for an even number of days is between two.    *)
KthSmallest(f, days, k) ==
  CHOOSE x \in {f[t] : t \in days} :
    /\ Cardinality({t \in days : f[t] < x}) <= k
    /\ k < Cardinality({t \in days : f[t] <= x})
TwiceMedian(f, days) ==
  LET n == Cardinality(days)
  IN KthSmallest(f, days, (n - 1) \div 2) + KthSmallest(f, days, n \div 2)

TrailingWindowClosed(t) ==   \* Mutation: the Decision Bar's own session counts
  {u \in Days : t - WindowDays < u /\ u <= t}
TrailingWindow(t) == {u \in Days : t - WindowDays <= u /\ u < t}

(* The volumes of a window clear the floor: every bar is there, and their    *)
(* median is high enough.                                                    *)
WindowVolumes(bars, s, t) == [u \in TrailingWindow(t) |-> dollar_volume(bars)[s][u]]
ClearsFloor(volumes) ==
  LET seen == {u \in DOMAIN volumes : volumes[u] # Missing}
  IN Cardinality(seen) >= WindowDays /\ TwiceMedian(volumes, seen) >= 2 * FloorUsd

(* The floor answers for the days some symbol has a bar on, and no other.    *)
FloorMask(bars, s, t) ==
  FloorUsd = Missing \/ (t \in BarIndex(bars) /\ ClearsFloor(WindowVolumes(bars, s, t)))

apply_universe_policy(existed, bars) ==
  [s \in Symbols |->
     {t \in existed[s] : s \in AllowedSymbols /\ FloorMask(bars, s, t)}]
=============================================================================
