------------------------------- MODULE Planning -------------------------------
(***************************************************************************)
(* How a cross-sectional run decides what to hold: the inputs it loads      *)
(* (`load_cross_section_inputs` of runner.py) and the plan                  *)
(* `simulate_cross_sectional` forms from them before anything is filled.    *)
(*                                                                         *)
(* A configuration is run, its data are restated - a bar or a vendor row is *)
(* derived, pulled or corrected anew - and it is run again, so that a       *)
(* property can compare what two versions of history are made to decide.    *)
(***************************************************************************)
EXTENDS Universe

CONSTANTS
  Lookback, HoldingDays,   \* `lookback_days` and `holding_days`
  QuantileNum, QuantileDen,   \* the quantile, as a fraction
  MinUniverse,             \* fewer eligible names than this hold cash
  MaxStaleness,            \* days a capitalisation may be carried
  Histories,               \* the archive bars a first run may find
  Panels, Tables,          \* vendor panels and override tables it may find
  BarsSeen, RowsSeen,      \* what a restated bar or row may become
  MaxRestated              \* bound on the data restated between the runs

ASSUME PlanningAssumption ==
  /\ Lookback \in Nat \ {0} /\ HoldingDays \in Nat \ {0}
  /\ QuantileDen \in Nat \ {0} /\ QuantileNum \in 1 .. QuantileDen
  /\ MinUniverse \in Nat \ {0} /\ MaxStaleness \in Nat
  /\ Histories \subseteq BarFrames /\ Panels \subseteq VendorPanel
  /\ BarsSeen \subseteq Bars /\ RowsSeen \subseteq VendorRows \union {NoRow}
  /\ \A table \in Tables :
       table \subseteq Links /\ \A link \in table : link.from < link.until
  /\ MaxRestated \in Nat

VARIABLES
  inputs,     \* price source, archive bars, vendor rows, override table
  outcome,    \* what the run came to
  before,     \* inputs and outcome of the run before it
  restated    \* data restated since

vars == <<inputs, outcome, before, restated>>

-----------------------------------------------------------------------------
(* The calendar *)

FirstBar(bars) == Min(BarIndex(bars))
FinalBar(bars) == Max(BarIndex(bars))

DecisionBars(bars) ==
  {d \in FirstBar(bars) + Lookback + 1 .. FinalBar(bars) - 1 :
     (d - FirstBar(bars) - Lookback - 1) % HoldingDays = 0}

-----------------------------------------------------------------------------
(* Signal, capitalisation, eligibility *)

Formation(d) == d - 1

(* The two closes of the look-back, none unless both are known and the first *)
(* is positive.  The past return is their ratio less one.                    *)
Unranked == <<Missing, Missing>>
past_return(bars, d) ==
  [s \in Symbols |->
     LET start == bars[s][Formation(d) - Lookback].close
         end == bars[s][Formation(d)].close
     IN IF start > 0 /\ end # Missing THEN <<start, end>> ELSE Unranked]

(* The capitalisation last published strictly before d, if it is not stale.  *)
CarriedCap(caps, s, d) ==
  LET published == {t \in Days : t < d /\ caps[s][t] # Missing}
  IN IF published = {} \/ Max(published) < d - MaxStaleness THEN Missing
     ELSE caps[s][Max(published)]

market_caps_before(caps, d) == [s \in Symbols |-> CarriedCap(caps, s, d)]

TradeableBar(bar) == bar.close # Missing /\ bar.volume > 0

Eligible(tradeable, bars, signal, caps, d) ==
  {s \in Symbols : /\ d \in tradeable[s]
                   /\ TradeableBar(bars[s][Formation(d)])
                   /\ signal[s] # Unranked
                   /\ caps[s] > 0}

-----------------------------------------------------------------------------
(* Selection and weights *)

Ahead(signal, a, b) ==
  LET x == signal[a][2] * signal[b][1]
      y == signal[b][2] * signal[a][1]
  IN x > y \/ (x = y /\ a < b)

(* Of the names sorted, the first are those fewer than so many are ahead of. *)
Top(signal, eligible, size) ==
  {s \in eligible : Cardinality({r \in eligible : Ahead(signal, r, s)}) < size}

QuantileSize(n) == (n * QuantileNum + QuantileDen - 1) \div QuantileDen
TopQuantileDown(signal, eligible) ==   \* Mutation: rounded down
  Top(signal, eligible, (Cardinality(eligible) * QuantileNum) \div QuantileDen)
select_top_quantile(signal, eligible) ==
  Top(signal, eligible, QuantileSize(Cardinality(eligible)))

(* A weight is a symbol's share of the capitalisation selected.              *)
WeightsForAll(caps, selected) ==   \* Mutation: selected or not
  [shares |-> caps, total |-> MapThenSumSet(LAMBDA s : caps[s], selected)]
value_weights(caps, selected) ==
  [shares |-> [s \in selected |-> caps[s]],
   total |-> MapThenSumSet(LAMBDA s : caps[s], selected)]

PlannedRebalance(eligible, signal, caps) ==
  LET selected == IF Cardinality(eligible) < MinUniverse THEN {}
                  ELSE select_top_quantile(signal, eligible)
  IN [selected |-> selected, weights |-> value_weights(caps, selected),
      n_eligible |-> Cardinality(eligible)]

PlannedOn(tradeable, bars, caps, d) ==
  LET signal == past_return(bars, d)
      carried == market_caps_before(caps, d)
  IN PlannedRebalance(Eligible(tradeable, bars, signal, carried, d), signal, carried)

-----------------------------------------------------------------------------
(* A run *)

LinksOf(in) == VendorLinks(in.rows, in.table)
CapsOf(in) == market_cap_panel(in.rows, LinksOf(in))
BarsOf(in) ==
  IF in.source = "cmc-panel" THEN panel_bars(in.rows, LinksOf(in)) ELSE in.bars
TradeableOf(in) ==
  apply_universe_policy(ExistedOn(in.source, BarsOf(in)), BarsOf(in))

(* The loading of the inputs may refuse, each source with reasons of its     *)
(* own, and so may the calendar; the first that applies is raised.           *)
PanelRefusal(rows) ==
  IF Snapshots(rows) = {} THEN "NoPanelPrices"
  ELSE IF TooCoarse(rows) THEN "PanelGrainTooCoarse" ELSE "none"
ArchiveRefusal(bars) ==
  IF Loaded(bars) = {} THEN "RawWindowMissing"
  ELSE IF GapInWindow(bars) THEN "GapInWindow" ELSE "none"
SourceRefusal(in) ==
  IF in.source = "cmc-panel" THEN PanelRefusal(in.rows) ELSE ArchiveRefusal(in.bars)
Refusal(in) ==
  IF SourceRefusal(in) # "none" THEN SourceRefusal(in)
  ELSE IF AmbiguousTicker(LinksOf(in)) THEN "AmbiguousTicker"
  ELSE IF Loaded(BarsOf(in)) = {} THEN "NoPanelPrices"
  ELSE IF DecisionBars(BarsOf(in)) = {} THEN "NotEnoughHistory" ELSE "planned"

PlanOf(in) ==
  [d \in DecisionBars(BarsOf(in)) |->
     PlannedOn(TradeableOf(in), BarsOf(in), CapsOf(in), d)]
ResultOf(in) ==
  [status |-> Refusal(in), plan |-> IF Refusal(in) = "planned" THEN PlanOf(in) ELSE <<>>]

Pending == [status |-> "pending", plan |-> <<>>]

NoBars == [s \in Symbols |-> [t \in Days |-> NoBar]]

Init ==
  /\ inputs \in [source : {"archive"}, bars : Histories, rows : Panels, table : Tables]
         \union [source : {"cmc-panel"}, bars : {NoBars}, rows : Panels, table : Tables]
  /\ outcome = Pending
  /\ before = [inputs |-> inputs, outcome |-> Pending]
  /\ restated = 0

PlanRebalances ==
  /\ outcome = Pending
  /\ outcome' = ResultOf(inputs)
  /\ UNCHANGED <<inputs, before, restated>>

(* After a run one datum of its price source, or a vendor row, is restated,  *)
(* and the configuration is run again.                                       *)
Restate(in) ==
  /\ outcome # Pending /\ restated < MaxRestated
  /\ inputs' = in
  /\ before' = [inputs |-> inputs, outcome |-> outcome]
  /\ outcome' = Pending
  /\ restated' = restated + 1

RestateBar ==
  /\ inputs.source = "archive"
  /\ \E s \in Symbols, t \in Days, bar \in BarsSeen :
       Restate([inputs EXCEPT !.bars[s][t] = bar])

RestateRow ==
  \E id \in Ids, t \in Days, row \in RowsSeen :
    Restate([inputs EXCEPT !.rows[t][id] = row])

Next == PlanRebalances \/ RestateBar \/ RestateRow

Spec == Init /\ [][Next]_vars

-----------------------------------------------------------------------------
(* Properties *)

Statuses == {"pending", "planned", "NoPanelPrices", "PanelGrainTooCoarse",
             "RawWindowMissing", "GapInWindow", "AmbiguousTicker", "NotEnoughHistory"}
Inputs == [source : {"archive", "cmc-panel"}, bars : BarFrames, rows : VendorPanel,
           table : Tables]
RebalanceOk(r) ==
  /\ r.selected \subseteq Symbols
  /\ DOMAIN r.weights.shares = r.selected
  /\ r.n_eligible \in 0 .. Cardinality(Symbols)
OutcomeOk(o) ==
  /\ o.status \in Statuses
  /\ o.status = "planned" => /\ DOMAIN o.plan \subseteq Days
                             /\ \A d \in DOMAIN o.plan : RebalanceOk(o.plan[d])

(* Type invariant of the runs and their data. *)
TypeOK ==
  /\ inputs \in Inputs /\ before.inputs \in Inputs
  /\ OutcomeOk(outcome) /\ OutcomeOk(before.outcome)
  /\ restated \in 0 .. MaxRestated

Planned == outcome.status = "planned"
BothPlan(d) ==
  /\ Planned /\ before.outcome.status = "planned"
  /\ d \in DOMAIN outcome.plan /\ d \in DOMAIN before.outcome.plan

RowsAgreeBefore(d) ==
  \A t \in Days : t < d => inputs.rows[t] = before.inputs.rows[t]
AgreeBefore(d) ==
  /\ RowsAgreeBefore(d)
  /\ \A s \in Symbols, t \in Days : t < d => inputs.bars[s][t] = before.inputs.bars[s][t]
SameNamesTradeOn(d) ==
  \A s \in Symbols :
    BarsOf(inputs)[s][d] = NoBar <=> BarsOf(before.inputs)[s][d] = NoBar

(* No look-ahead: of the Decision Bar and everything after it, the rebalance *)
(* depends only on which names have a bar on the Decision Bar.  Prices,      *)
(* volumes, capitalisations, renames and delistings from then on do not move *)
(* it: signal, capitalisations, floor, Universe and symbol map are all cut   *)
(* at the same bar.                                                          *)
DecisionReadsOnlyPresence ==
  \A d \in Days :
    BothPlan(d) /\ AgreeBefore(d) /\ SameNamesTradeOn(d)
      => outcome.plan[d] = before.outcome.plan[d]

(* A map the overlap check lets through gives a name one asset, and an asset *)
(* one name, on every day, though it compares neighbouring links only.       *)
OneAssetPerName ==
  Planned =>
    \A a, b \in LinksOf(inputs), t \in Days :
      /\ a # b /\ Covers(a, t) /\ Covers(b, t)
      => a.base # b.base /\ a.id # b.id

(* From a snapshot to the next an id goes by the name it had on the first:   *)
(* its spells neither leave a hole there nor run into one another.           *)
SpellsLeaveNoHole ==
  \A id \in Ids : \A t \in SeenOn(inputs.rows, id) :
    \A u \in t .. NextAfter(t, Snapshots(inputs.rows)) - 1 :
      {l.base : l \in {k \in symbol_spells(inputs.rows) : k.id = id /\ Covers(k, u)}}
        = {inputs.rows[t][id].ticker}

(* As the vendor's panel grows, the asset a name stood for on an earlier day *)
(* stays the asset it stood for: neither lost nor made another's.            *)
PanelGrewFrom(d) ==
  /\ RowsAgreeBefore(d)
  /\ \A id \in Ids : SeenOn(before.inputs.rows, id) \subseteq SeenOn(inputs.rows, id)
NamesAreNeverReassigned ==
  Planned /\ before.outcome.status = "planned" =>
    \A d \in Days : PanelGrewFrom(d) =>
      \A s \in Symbols, t \in Days :
        LET now == IdOf(LinksOf(inputs), s, t)
            then == IdOf(LinksOf(before.inputs), s, t)
        IN t < d /\ then # Missing => now = then

(* The top quantile, rounded up: just as many names as the quantile asks     *)
(* for, and none left out that did better than one chosen.  It is taken on   *)
(* every Decision Bar with a bar after it to fill on, and each has its whole *)
(* look-back behind it, so past_return never refuses.                        *)
TopQuantileIsSelected ==
  Planned => \A d \in DOMAIN outcome.plan :
    LET bars == BarsOf(inputs)
        caps == market_caps_before(CapsOf(inputs), d)
        eligible == Eligible(TradeableOf(inputs), bars, past_return(bars, d), caps, d)
        selected == outcome.plan[d].selected
        n == Cardinality(eligible) * QuantileNum
    IN /\ selected \subseteq eligible
       /\ Cardinality(eligible) >= MinUniverse =>
            /\ n <= Cardinality(selected) * QuantileDen
            /\ Cardinality(selected) * QuantileDen < n + QuantileDen
       /\ \A a \in selected, b \in eligible \ selected :
            LET now(s) == bars[s][d - 1].close
                then(s) == bars[s][d - 1 - Lookback].close
            IN now(a) * then(b) >= now(b) * then(a)
       /\ FirstBar(bars) <= d - 1 - Lookback /\ d + 1 <= FinalBar(bars)
       /\ d + HoldingDays \in DOMAIN outcome.plan \/ d + HoldingDays >= FinalBar(bars)

(* vendor-symbol-map.toml:43: no two assets that shared a name are spliced   *)
(* into "a return that no position could have earned" - the two closes of a  *)
(* selected signal are of one asset.                                         *)
NoReturnAcrossARename ==
  Planned => \A d \in DOMAIN outcome.plan : \A s \in outcome.plan[d].selected :
    LET start == IdOf(LinksOf(inputs), s, Formation(d) - Lookback)
        end == IdOf(LinksOf(inputs), s, Formation(d))
    IN Missing \notin {start, end} => start = end
=============================================================================
