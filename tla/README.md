# Verification of crypto-momentum

TLA+ models of the backtester in `src/`, the TLC configurations that check them on
small instances, and TLAPS proofs of the properties that matter most for every
value of the constants.

    tlc -workers 2 -config MCWalk.cfg MCWalk          # one run
    tlapm WalkProofs.tla                              # one proof module

`PROJECT.json` lists the runs, the source lines every definition stands for, the
hazards, the findings and the theorems.

## The system

The program simulates momentum portfolios on daily crypto bars and keeps an honest
record of everything it was ever asked to try. A command (`momentum run`, `grid`,
`gate`) loads a config, reads git's HEAD, loads bars from a store of downloaded
archives, plans the rebalances, walks the window day by day, measures the path and
writes a result file and one line in the trials log.

| Component | Source (`src/src/crypto_momentum/`) | State | Operations | Hard behaviour | What makes it correct |
|---|---|---|---|---|---|
| walk | `sim/cross_sectional.py` `_walk`, `_rebalance`, `_marked` | units, cash, last tradeable closes, records, equity | morning exits, rebalance, evening exits, mark, close of the book, cut | the book changes three times a day in an order that matters; zero prices; float residues; a total loss in mid-window | every position explained by a record; a halted name exits at the last price before its halt; no look-ahead; the path ends at the Liquidation |
| planning | `sim/cross_sectional.py` (decision bars, signal, quantile, weights, turnover budget), the loading of a run's inputs in `runner.py` | none | `_decision_bars`, `_plan_rebalances`, `select_top_quantile`, `value_weights`, budget check | ties, one-name quantiles, stale capitalisations, five places that cut history each in its own way | no rebalance depends on what came after its Decision Bar |
| marking | `sim/marking.py` | none | `mark_daily`, `is_tradeable_bar`, `halted_at` | missing, zero and NaN prices | one marking rule for both simulations |
| runner | `runner.py` | the files below, a run's locals | `run_config`, `run_grid`, `run_gate`, `_run_one` | several reads of a moving tree; several writes that a crash separates; refusals in mid-grid; overlapping invocations | every attempt counted once; counts true; results filed where their provenance says |
| trials log | `trials.py` | `trials.jsonl` | append, read | shared by overlapping runs | its counts stay true, and its lines have their results |
| result store | `results.py` | `results/<commit>/...` | write a cell, a grid, a gate | files replaced in place | a grid's files lie together |
| provenance | `provenance.py` | none (git's) | `describe_head` | two git commands, not atomic | a dirty run is filed apart |
| raw store and fetch | `data/raw_store.py`, `immutable.py`, `fetch.py`, `binance_archive.py` | once-written objects, their manifests | `has`, `write`, `read`, fetch and verify | kill half-way through a write; two invocations fetching one object | what is stored is what the archive published |
| derived data | `derive.py` | derived bars | rebuild | one bad month fails the symbol | reproducible from raw alone |
| vendor panel and prices | `data/cmc_panel.py`, `cmc_prices.py` | a once-written CSV | pull, read | partial pull | a bad pull leaves the store empty |
| archive listing | `data/archive_listing.py` | none | paged listing | a bucket that grows between two pages, truncation markers | every key is seen once |
| symbol map, market caps | `data/symbol_map.py`, `market_caps.py` | none | spells and links of an id, the dated join | reused tickers, renames inside a look-back, overlaps checked between neighbours only, a panel that grows | one asset per name and day, and the same one in every later panel |
| universe, its policy | `data/universe.py`, `sim/universe_policy.py`, `policy.py` | none | enumeration of the archive, membership as of a date, exclusions, bracket, liquidity floor | months and days listed one after the other, whole months narrowed to bars, a trailing window | no published day is lost; an earlier membership never moves with a later bar |
| replication gate | `gate.py`, `sim/published.py`, `sim/grid.py` | none | alignment with the published grid, four criteria per run, the gap between the runs | refused, flat and wiped-out cells each lack other numbers; ties; two columns paired by position | a pass has read every cell; a verdict does not depend on the order of its cells |
| single-asset hold | `sim/buy_and_hold.py` | none | hold from the fill bar to the window's end, a halt or a loss of everything | rows missing, halts before the fill, prices of zero | held on its own days only |
| report, benchmarks, hurdle, costs | `sim/report.py`, `benchmarks.py`, `costs.py` | none | statistics of a finished path, the turnover budget, Bitcoin over the run's window, the market portfolio, the hurdle | numbers that are undefined on flat, short or wiped-out paths; benchmarks that fail after the run has succeeded | no comparison passes on a number that is not there |
| config, command line, scripts | `config.py`, `cli.py`, `src/scripts` | none | parsing, printing | none | |

How they interact: the command line calls the runner; the runner calls provenance,
the raw store and derivation (for bars), planning, the walk and the report in that
order, synchronously, then the result store and the trials log. Nothing runs in
threads. Concurrency comes from outside a process: two invocations on one
workspace, and a researcher who edits and commits while a run is under way. `git`
tracks the trials log, which makes the program itself an editor of the tree whose
state it reports; several of the findings follow from that.

## The modules

### `Walk` (with `MCWalk`, `WalkProofs`)

The loop of `_walk`, one action per part of a day's work:

| Action | Code |
|---|---|
| `OpenSession` | the next mark of the loop; the bar of every symbol, chosen freely |
| `Morning` | `exit_position` for every held symbol without an open |
| `Rebalance`, `RebalanceNothing` | `_rebalance`, with and without something to trade with |
| `Evening` | `exit_position` for every held symbol whose bar was not tradeable |
| `Mark` | the close carried forward, the mark, and on the last day the close of the book |
| `Report` | the cut of `_marked`, and the one of `mark_daily` after it |

`held` is the key set of `units`, `last` is `last_tradeable_close`, `selections` and
`halt_exits` are the records of the same name. The plan is formed before the walk,
so it is any assignment of selections to Decision Bars that the formation-bar rule
allows.

Abstractions. A price is missing, zero or positive: no branch looks further. Money is nothing, a
rounding residue or real money, because the subtraction `net_value - invested`
leaves a float residue of either sign in cash and the breach test compares with
zero; a negative residue counts as nothing, as the test does. Returns that compound
a residue back to exactly -100% are the choice `rounded` in `Report`.
`WorthAtOpen = Nothing` is `_rebalance`'s early return. A record keeps who was
bought and who was not, and an exit keeps the moment its price was seen, which the
code does not store: it is what the price properties are about.

### `Runner` (with `MCRunner`, `RunnerProofs`)

One process per invocation, its program counter between any two reads or writes
that another process can see:

| Action | Code |
|---|---|
| `RunConfig`, `RunGrid`, `RunGate` | the three commands; a gate first checks its pair |
| `LoadConfig`, `HashConfig` | the config parsed, then its bytes hashed |
| `ReadHead`, `ReadStatus` | `describe_head`: `git rev-parse`, then `git status` |
| `ReadCounts` | the trials log read for the counts of the run about to be made |
| `Refuse` | one of `CELL_REFUSALS`: a line appended, no result |
| `WriteResult`, `AppendRecorded` | the result file, then its line |
| `WriteGrid`, `WriteGate` | `grid.json` and `gate.json` |
| `Abort` | external: a kill, or any exception that is not a refusal |
| `Edit`, `Commit` | external: the researcher |

Files are sets of records with a `path`, writing replaces; a text is a version
number, so "the config that ran", "the bytes that were hashed" and "what the commit
holds" can be told apart. The simulation is the choice between `Refuse`,
`WriteResult` and `Abort`: its content is `Walk`. The loading of inputs ends, for the
runner, in one of those three as well; `RawStore` has its content.

### `RawStore`, `WriteOnce` (with `MCRawStore`, `RawStoreProofs`)

The loading of one symbol's bars, one process per invocation, one action per system
call that another invocation can see:

| Action | Code |
|---|---|
| `Start` | `load_bars` (which asks for its whole window), `_load_symbol_bars`, `rebuild_all_derived` |
| `Look` | the months one after the other: listed by the archive (`_load_symbol_bars`), or stored (`rebuild_all_derived`, one `has` each); with none, `RawWindowMissing` |
| `Has` | `RawStore.has` |
| `Download`, `Verify`, `Unavailable` | `fetch_archive_file`: the month, then its checksum; either may fail |
| `CheckAbsent` | the look of `RawStore.write`, repeated by `write_immutable` |
| `Open`, `Fill` | `write_bytes` of the payload, then `write_text` of the manifest: each truncates, then writes |
| `Seal` | the two `chmod`s |
| `Read`, `StoreDerived` | `build_daily_bars`, its check for holes, `write_bars` |
| `Kill`, `Publish` | external: a kill; the archive |

The symbol stands for the whole Universe of its run: where another symbol has bars, one without is
left out and nothing fails, and nothing more happens to it. How the archive is listed, page by page, is in `Listing`; here a month
is listed if it is published when `Look` comes to it.
A file holds a published version or is torn, and a torn zip cannot be read. What
an operating system does is modelled as it is: a file made read-only cannot be opened
for writing (the program is not run as root), but one opened before goes on being
written. A month's bars have no gap inside it; holes come from missing months. Derived
bars are replaced in one step: nothing in the program reads them back. `published` is
the archive, which may publish a month again.

`WriteOnce` is what the layer promises: a file appears, is at most rewritten while
those who found it missing are at it, becomes final once, and is never touched again.
`ImplementsWriteOnce` maps its `content` to `disk` and its `final` to the files that are
read-only and held open by nobody. The plain reading of "write once, then never
again" would make a file final when it is made read-only, and two racing writers
break that: the second may have opened the payload before the first sealed it.

The vendor panel is written through the same `write_immutable`.

### `SymbolMap`, `Universe`, `Planning` (with `MCPlanning`, `PlanningProofs`)

How a run decides what to hold. The first two modules are definitions without state;
`Planning` EXTENDS them and runs them twice.

- `SymbolMap`: spells (`symbol_spells`), the links made of them and of the override table
  (`VendorLinks`), the check of neighbouring links (`AmbiguousTicker`), and the two joins by
  row date, `market_cap_panel` and `panel_bars`. A row is one vendor asset's entry on one
  day; a venue symbol is its base asset; an open end is the day after the last.
- `Universe`: what existed on a day (`build_universe_panel` narrowed to bars, or
  `panel_universe`), and the policy on top: exclusions, the bracket and the liquidity floor's
  trailing median, read over a window that stops short of the day.
- `Planning`: the Decision Bars, `past_return`, `market_caps_before`, eligibility,
  `select_top_quantile`, `value_weights`, and `Refusal`, every exception that can keep
  a run from its plan, in the order they are raised.

| Action | Code |
|---|---|
| `PlanRebalances` | the inputs loaded, the plan formed, or the run refused |
| `RestateBar`, `RestateRow` | external: one bar is derived anew, or one vendor row pulled or corrected, and the configuration is run again |

Look-ahead compares two runs: `before` keeps the inputs and the outcome of the run before
the restatement, so that a property can say that a rebalance is the same though everything
from its Decision Bar on has changed. What it may depend on there is which names have a bar
on the Decision Bar: the gate is read on that day by design.

Abstractions. A past return is the pair of its closes, compared by cross-multiplication:
exact ratios, where the code divides floats, so a tie of the model may be broken by rounding in the code.
A weight is a share and the total it is of. A panel-priced bar is its close and volume. The
days the archive publishes one file at a time are left out (the bars come from whole months,
and the panel is narrowed to them), and so are rows outside the run's window. Counts
that only describe a run in its metadata are left out.

### `Listing` (with `MCListing`, `ListingProofs`)

How `build_archive_universe` finds out what there is, over a bucket that is being
published to:

| Action | Code |
|---|---|
| `NextPage` | one more page of `walk_listing`, from the marker of the one before |
| `GiveUp` | `MalformedListing`, or a request that fails: nothing is returned |
| `SymbolsListed` | the last page of `symbols_in_archive`: on to the first symbol |
| `MonthsListed` | the last page of a symbol's months: the symbol dropped, or its days asked for behind the last month |
| `DaysListed` | the last page of its days: its coverage complete, on to the next symbol or to the panel |
| `Publish`, `NewDay` | external: one object of the archive, midnight |

An entry is a number in the bucket's key order: a partition's checksum right after the
partition, partitions by date. A page is what the bucket holds after the marker
when it is asked, cut at `MaxKeys`. `stood` (kept in a coverage as `since`) is
history: the bucket when a symbol's listing began, which is what a reader of the panel
may expect to find in it.

What is assumed of the archive, and shows in the actions: an object appears when what it holds is
over and is not removed, days stay when their month is rolled up, a symbol's months are published in
order, nothing is late by more than a day (or a month by one that is about to end), and an enumeration
sees one midnight at most. Only `NoDayIsLost` needs more of it than that nothing is removed:
with a month of a gap behind a later one, that month's days are listed by nobody.

### `Reading`, `Gate`, `GridCells` (with `MCReading`, `MCGate`, `ReadingProofs`, `GateProofs`)

What is made of a run once it has been walked, and of two Grids once they are filled.
`GridCells` is what the two share: the four shapes of a cell (silent, gained, lost, wiped out) as
its metrics show them. `TypeOK` of `Reading` shows that every cell it files has one of them, and
`Gate` takes Grids of any cells that have one.

| Action of `Reading` | Code |
|---|---|
| `SimulateCrossSectional` | `simulate_cross_sectional` from the mark on: `_marked`, `summarise`, then the turnover budget |
| `SimulateBuyAndHold` | `_run_single_asset`: `simulate_buy_and_hold`, or `NotEnoughBars` |
| `CapWeightedMarket` | `cap_weighted_market`, the same simulator without the run's budget |
| `BtcBuyAndHold`, `BtcUnreadable` | `_btc_over_the_same_window` |
| `File` | `deployment_hurdle`, `metrics_of` and `_recorded_cell` |

| Action of `Gate` | Code |
|---|---|
| `RunFaithful`, `RunVenue` | the two `run_grid` calls of `run_gate`, the cells of each chosen freely |
| `WriteGate` | `evaluate_gate` of both, `describe_gap`, the record |

Abstractions. A path is a sequence of daily net returns in halves, chosen freely for a book (its
walk is `Walk`) and read off a row of bars for a hold; costs are inside the returns. Equity,
drawdown, Sharpe and the sign of the mean log return are then exact: ratios are compared
by cross-multiplication, and a sum of logarithms by the product of the factors (`Worth`, a recursive
function, against the powers of two `TwoTo`). The long-run variance of
Newey and West is positive exactly when the returns differ at all, so only the sign of t and
whether there is one are kept; whether a positive t exceeds 3 is open. A rebalance is what it traded, in quarters of the
book, and whether it filled anything. `rotation` is history: what was traded after the fill that
opened the book, wherever that fill came. In `Gate` a Sharpe is a whole number, ranks are doubled, and rho is a
covariance against the product of two variances, so that its comparison with 0.7 is exact. The two
`GateError`s of a wrong run name and of two legs cannot happen from `run_gate` and are left out; the one about
the grid's cells is `CoversTheGrid`. What the criteria say in words is left out.

`Walk`, `Runner`, `RawStore`, `Planning`, `Listing`, `Reading` and `Gate` share no variable. The months a run
loads (`CoveredMonths` of `Universe`) are those a coverage of `Listing` says exist. `Walk` takes any plan the
formation-bar rule allows, and a plan of `Planning` is one (`PlanningProofs!PlansAreWalked`). The walk writes nothing, and the
loading of bars writes nothing the runner reads back, so for the runner both are
part of the choice between a result, a refusal and an exception; `Reading` has the part of that choice that
comes after the walk, and `Gate` the content of the verdict whose filing is in `Runner`.

## What the runs check

| Run | Instance | Shows |
|---|---|---|
| `walk` | 2 symbols, 3 days, a rebalance every 2 | the book is explained by its records, what is held has a current price and what halts is exited at the last one before the halt, every plan is walked once and in order, the reported path ends at its first Liquidation, and every walk ends flat |
| `runner` | a run, grid or gate alone, 2 further commits, 1 edit for each of 2 files; or a grid beside a run or a grid, 1 further commit; kills | nothing uncommitted is filed as a commit's (or a later one's), a grid's summary lies beside its cells and agrees with its lines, honest counts, at most one uncounted result per invocation and no line without its result, every invocation ends |
| `raw_store` | 2 loaders of any kind, 3 months, the first published twice, kills | only verified bytes are stored, files are torn only by a kill or by writers of different versions, nothing is derived across a hole, the layer implements `WriteOnce`, every load ends |
| `listing` | 3 symbols, two of them of the asked asset, months of 3 days, 7 days, pages of 2, 2 objects published and one midnight meanwhile | no listing skips, invents or repeats an entry, no coverage misses what could be verified when its listing began, no published day is lost between months and days |
| `planning` | 3 names and 3 ids, 5 days, months of 3 days, look-back 1, holding 1, quantile 1/2, staleness 2, floor over 2 bars; 67 archive histories or none, 6 vendor panels, 3 override tables, any one bar or row restated | no look-ahead, one asset per name and day, spells without holes, names that keep their assets as the panel grows, the top quantile and no other, on Decision Bars that have all the bars they need |
| `reading` | 4 days, holding periods of 1 and 3, a week of 2 days, budget a quarter and ceiling a half of the book; five daily returns, rows of bars with gaps, halts and prices of zero | the hurdle is cleared only on a comparison that could be made, against a Bitcoin that moved, Bitcoin is held within the run's own days, a cell carries the sign of its compounded return and one of four shapes |
| `gate` | 3 cells, 2 levels of Sharpe, both legs, one with 2 wiped-out cells of 3 and one with a tie; 2 signs of 3, a count one off | a gate that passes has read every cell and had cells to rank, a verdict ignores the order of its cells |

Five more runs each refute one sentence of the documentation; see Findings.

**Bounds.** Symbols do not interact except through cash, so two (one that halts,
one that trades) show every interaction; with `LastDay = 3` and `HoldingDays = 2`
the window has a fill, a day without one, a second fill that is also the last day, so a
position can be bought, held overnight, halt in the morning or evening, before or on
a rebalance, and the book can be lost before and after one. `NCells = 2` gives
a grid a first and a last cell. Three commits let HEAD move both between the two git commands and
again between two reads of HEAD; one edit per file is enough to tell
an edited text from a committed one. `MCRunner` checks both instances in one run. The overlapping runs edit nothing (edits do not
touch the log) and differ in whether they re-run the same grid, so that they also
overwrite each other's files. `Invocations` are a program's start times: they are
not symmetric (they are asked different commands), and no symmetry is used. Three months
are the fewest with a hole in the middle; one republication is enough for two writers
to hold different versions of a file, and months do not interact, so one month has it.

Three names are the fewest with a quantile that is neither one name nor all of them, and
three ids let a name pass from one asset to another while a third trades. Five days hold two Decision Bars
with a look-back of one, and cross a month's end. The histories include a halt, a delisting,
prices of zero, a late start and none at all; the panels a rename, a name given to
another asset, an asset that vanishes and comes back, and sparse capitalisations; the tables
one that follows the rename and one that forgets to end a link. Every refusal occurs.
One datum is restated: the properties that compare two runs ask what a difference can
reach, and the proofs remove the bound.

Seven days of months of three hold a month rolled up long ago, one just over, and one
running, and the window reaches a day past the archive. Pages of two put
a partition and its checksum, and two partitions, on either side of a page's end. A symbol always
trades; another does, is delisted, comes late, or leaves a month out. Two objects
published meanwhile are a partition and its checksum, or a day and the month before it.
Four pages are one more than the longest listing takes, so `MaxPages` is
only met through `GiveUp`, which may come at any page.

Four days hold three rebalances with daily holding, so that an opening fill can come first or second
with a rotation after it, and one when the holding period is three, which measures nothing. The returns include a total loss, and gains that
make the mean positive on a path that lost; no path but a flat one returns to where it began, so
the code's strict comparison with zero is not probed at equality. Three cells are the fewest in which a
sign may disagree, a count may be one off and a correlation of 0.7 is neither forced nor out of reach; the
proportions are those of 18 of 21 and two off five, and `ThreeWipedOut` of `GateProofs` has the numbers of the code.

**Deadlock** is not checked: a walk is over when reported, the runner's system
when every invocation is, planning when the data have been restated once,
an enumeration when the panel is built or given up, a run when its cell is filed or an
exception ends it, and a gate when it is written.

**Fairness.** The walk is a sequential loop, so `WF(Next)`. Each invocation (and each loader of `RawStore`) that was
started takes its next step, `WF(Step(i))`: a process with an enabled step runs on.
Nobody has to start, edit, commit, publish or kill, so no liveness property owes
anything to a crash or to the researcher.

## What is proved

Proofs are for any set of symbols, window and holding period, and any number of
invocations, configs, cells, commits and edits, from `WalkAssumption`,
`RunnerAssumption` and `RawStoreAssumption` only; those about planning for any names, ids, calendar,
look-back, floor, bracket, histories, panels and tables, from `SymbolMapAssumption`,
`UniverseAssumption` and `PlanningAssumption`; those about the listing for any symbols, calendar,
page size and window, from `ListingAssumption`; those about the gate for any published table, number of cells,
levels and tolerances, from `GateAssumption`; those about the reading of a run for any window, holding periods,
daily returns, budget and ceiling, from `ReadingAssumption`. `PlanningAssumption` assumes that no override link ends before it
starts, which no check of the loader enforces and the committed table satisfies; `ReadingAssumption` that a return is at
worst a total loss (and that a day may bring none, or that), and that `None` is no record that can be filed.

The invariants and action properties the passing runs check, and the refinement of `WriteOnce`, are all theorems.

- `WalkProofs!TypeCorrect`, `BookIsExplained`, `RuinStays`, `PathEndsAtLiquidation`,
  `RebalancesFollowPlan`. `PositionsAccountedFor`
  is not inductive: that an evening exit is dated after the latest entry needs
  `DatesInv` (records and exits are dated up to today), and that a rebalance comes once on
  its day needs `PhaseInv` (where in the day which records exist). The invariant proved is
  `IInv`: the type invariant, those two, `LastPriceIsCurrent`,
  `PositionsAccountedFor` and `ExitPricesWereReachable`, which support each other (the last of the exits at a Halt only; what it leaves out is a finding).
  `RuinStays` needs none of them beyond the types. `PathEndsAtLiquidation` needs
  `MarksInv` (the marks keep up with the calendar) to know that an uncut path spans the window.
  `RebalancesFollowPlan` needs `DueInv`: with `n` rebalances recorded the next is due on day
  `n * HoldingDays + 1` and today is no later than that, so a day is a fill day exactly when it is
  that day. The products of two variables stay behind `Due` and its lemmas; that the last record
  leaves none out is a bijection from the records to the Decision Bars (`FiniteSetTheorems`).
- `RunnerProofs!TypeCorrect`: the types need `TodoInv` (a process that works on a
  config has one left; one that judges a gate has none).
- `RunnerProofs!RecordedResultsAreFiled`: a line is appended by the step after its result was written, and
  under what that step wrote (`RecordedWasFiled`); between the two, and for ever after, every path at which a result lies
  keeps one, whoever writes over it (`ResultsStay`).
- `RunnerProofs!CountsAreHonest`: `CountInv` adds `PendingCounts`, the same statement
  for the counts an invocation has read and not yet written; the argument is that a
  prefix of the log stays a prefix while others append, and that an invocation's own
  lines are in the log when it next reads it.
- `RunnerProofs!DirtyRunsAreFiledApart`: `VersionInv` follows a text from the load
  (`LoadedInv`: what was loaded is no newer than the working copy, and once the
  status came back clean some commit from the one read on holds it) to the result
  file (`FiledInv`), with the lemma that what a commit holds it holds for ever.
- `RunnerProofs!GridsLieBesideTheirCells`, `OnlyTheLastIsUncounted`, `SummariesAreLogged`.
  All rest on `ShapeInv`: where an invocation is in a grid, and that its outcomes so far are those of
  the cells before. `BesideInv` says that each of them recorded is filed where the grid will be (a
  result may be replaced by another invocation's, never removed); `UncountedInv` that what is on disk
  without a line is at most the result just written; `LinesHold` that of the grid it is at an
  invocation has appended one line for each outcome, none for the cells after, and none for
  configs it has yet to run, which are others than those of its filed grids. As many cells, each with a line, are as
  many configurations: an injection into the log's fingerprints (`CellsAreTried`).
- `RawStoreProofs!TypeCorrect`, `OnlyVerifiedBytes`, `PayloadsPrecedeManifests`,
  `RawLayerWritesOnce`. `IInv` adds to the types what an invocation holds: what it
  carries past the checksum is a published version (`FetchInv`), and what it has open,
  or is about to seal, exists (`PresentInv`). Every step only adds files and versions
  (`NothingRemoved`), so one invocation's step keeps the others' part. For the
  refinement, letting go of a file (`LetGo`) leaves it to another holder or makes it
  final, and opening is barred once it is sealed.
- `RawStoreProofs!OnlyKillsAndRacesTear` adds that only a whole file has a version (`ContentInv`),
  so that filling a file leaves it torn only over another version than one's own, and two were
  verified only if two were published. `BarsHaveNoHoles` adds that an invocation has read exactly
  its months before the one it is at (`BarsInv`).
- `PlanningProofs!NoLookAhead`. The invariant `IInv` only says that inputs are well typed and
  that an outcome is `ResultOf` its inputs; the content is the lemmas that two inputs which
  agree before a day give the same signal, capitalisations, floor, Universe and
  eligibility on it. The long one is `RowOfAgrees`: a name's row on an earlier day is the
  same, though every spell's end may have moved, because a spell that reaches a day does
  so whatever comes after it (`SpellReaches`) and the two maps are unambiguous.
- `PlanningProofs!NamesAreUnambiguous`. The check compares neighbours in the order of starts;
  that two distant links do not overlap follows by taking, among the links between them, one
  that starts first (`NoTwoClaims`), which needs that no link ends before it starts.
- `PlanningProofs!NamesKeepTheirAssets`: a spell of the earlier panel that covers a day
  before the growth starts on the same day and still covers it in the later one (`SpellSurvives`).
- `PlanningProofs!NamesSpanTheirSnapshots` is true of any panel: the run a row belongs to keeps its
  ticker, since the first row with another would start a run (`RunKeepsItsName`), and its spell is
  the only one that reaches the days up to the next snapshot (`RunSpans`).
- `PlanningProofs!TypeCorrect`, `QuantilesAreExact`. Ranking is by the strict order `Ahead` (by return, then by
  name), and `Top` is what has fewer than `QuantileSize` names ahead of it. In a finite strict order
  the number ahead is a bijection onto the first naturals (`RankIsABijection` of `Lemmas`), so exactly that many are
  selected, whatever ties there are, and who is left out has a selected name ahead. That cross-multiplied returns
  are totally ordered needs that a close is positive.
- `PlanningProofs!PlansAreWalked` joins `Planning` to `Walk`, instantiated with the days from the plan's first
  Decision Bar to the last bar: the plan is an initial state of `Walk`, its Decision Bars are
  `DecisionDays`, and the bar before each shows every selected name the price and volume that `OpenSession` takes for
  granted. So what is proved of the walk for any plan is proved of the plans that are formed.

- `ListingProofs!TypeCorrect`, `ListingsMissNothing`, `CoveragesAreComplete`, `NoPublishedDayIsLost`. A page is
  closed downwards after its marker and not empty when it is truncated (`PageFacts`), so
  that moving the marker to its greatest entry passes over nothing. `IInv` adds to the three
  that the bucket has only grown since `stood`, and what the months read
  for the symbol at hand are worth (`MonthsRead`). At its last page a listing has all that
  stood when it began (`KeysFacts`), and what it verifies is what is published with its
  checksum (`VerifiedKeys`). That no day is lost between the listing of months and that of days
  rests on the calendar (`DaysInv`): only the last month that is over can be published while a
  Universe is enumerated, so a traded day before the last month covered is of a month whose
  partition and checksum were there from the start.

- `GateProofs!TypeCorrect`, `PassesReadEveryCell`, `PublishedGridPassesAtThree`. That `record` is what
  `WriteGate` makes of the two Grids is the invariant (`RecordIsOfTheGrids`); the rest is counting. `AlignedGrid` says that a Grid handed over in its own
  order is aligned as it is. A cell that was wiped out has no t-statistic, so wiped-out and agreeing
  cells are disjoint, and their counts add up to no more than the grid (`FiniteSetTheorems`). A Grid whose Sharpes are all
  alike has one rank and no variance, so a pass had something to rank (`NothingToRank`, by `SumOfEquals` of `Lemmas`).
  With 18 of 21 signs required at most three cells may be wiped out, and with a published count of five
  and a tolerance of two at least three must be: on the paper's long-short leg the only Grid that can pass has
  exactly three, and the paper's own five do not (`PublishedGridPassesAtThree`).
- `GateProofs!OrderIsIgnored`. An alignment reads the cell of each key, wherever it stands, so a reordered Grid
  has the same cell by key and other positions. Counts are then counts of the same keys, and the rank
  correlation is a sum over positions: it is reindexed along the bijection of the positions
  (`SumReindexed` of `Lemmas`), first for the ranks, then for the covariances, then for rho.

- `ReadingProofs!TypeCorrect`, `HurdleIsEvidenced`, `BtcStaysWithinTheRun`, `SignIsCompounded`. `IInv` says
  that a run's path ends at its first total loss, that Bitcoin's was held over rows of the run's window, and
  that a recorded cell is what `File` makes of the two. Most of the work is about paths: what a path is worth after `k` days is the
  product of its factors (`WorthByMarks`), and `2 + r <= 2^(1+r)` bounds that product by a power of the sum of the
  returns, so a gain has a positive mean (`GainHasAPositiveMean`); a path with a mean and a loss
  of everything has dispersion. The deepest drawdown is one of the ratios between two marks and none is deeper,
  which carries the hurdle's comparison from one number to every fall. A flat path has no dispersion
  (`FlatDoesNotSpread`), so a Bitcoin that was beaten had a Sharpe and moved. What is held are
  the rows after the first one seen, up to the first halt or loss.
- `WalkProofs!WalkRunsDown`, `RunnerProofs!InvocationsRunDown`, `RawStoreProofs!LoadsRunDown` are the part of the liveness
  properties that is no liveness: a natural number of steps left, which each step (and each death) of a
  walk, an invocation or a load lowers, and which no other actor can raise while it is under way. Six a day for a walk,
  which never waits at a night that no day follows and has closed its book when it reports; three a cell for a grid, refused or
  recorded; for a load each month is at most ten calls and then one read, however often it is published again. What TLC
  adds is that a step is enabled whenever one is left, and fairness that it is taken.


`Lemmas` holds what no component owns: least and greatest members, ranks in a strict order, induction and
recursion over the naturals, induction over finite sets, and sums (in any order, and of equal terms). The library's induction theorems take an operator
as a parameter, which these provers cannot instantiate; here they are stated of sets (a set of naturals with 0 that is closed
under the successor is all of them: `NatSetInduction`, `SubsetInduction`), and that a recursive function exists
is a lemma about functions of functions (`RecursionExists`). That is how `Worth`, `TwoTo`
and the library's sums are reasoned about. No module declares a `RECURSIVE` operator.

Only model-checked: the three liveness properties, `WalkEndsFlat`, `InvocationsEnd` and `LoadsEnd`. They need weak
fairness and `ENABLED`, which are beyond this prover; their other half is proved, as above. The five
findings are counterexamples on small instances, and need no more.

## Findings

Each is a run that TLC finds violated by what the code does, with the sentence it
holds the code to quoted in `PROJECT.json`.

| Run | What the code does |
|---|---|
| `gate_beside_its_grids` | the verdict is filed under a HEAD read after the grids dirtied the tree, apart from the Faithful Run's grid |
| `no_return_across_a_rename` | a name that passes from one asset to another inside a look-back is ranked on the ratio of the two assets' prices: with the committed override table, LUNAUSDT after 2022-05-31 on Terra 2.0's price over Terra Classic's |
| `trades_at_nothing_are_marked` | a holding whose bar opens and closes at zero on real volume is sold in the morning at yesterday's close, as if it had halted, where CONTEXT.md and marking.py call that a trade at nothing, to be marked as the loss it is |
| `market_decides_nothing` | the market portfolio, documented as deciding nothing, is held to the turnover ceiling inside the run: its breach refuses the run and is filed with the market's turnover as the run's own |
| `opening_fill_is_not_budgeted` | the opening fill is left out of the turnover by position: when the first Decision Bar held cash the real one is counted, and can refuse a run that traded nothing else |

Observed while modelling, and visible in the modules, but not claimed by a run:

- Rebalances, halt exits and exposure go on after the mark that lost everything; only the equity is cut.
- A commit between `git rev-parse` and `git status` files a run of uncommitted texts as the old commit's.
- A kill while a payload is written leaves a torn file without a manifest, which every later run takes
  for the month and fails on.
- A run that dies between its result file and its line leaves
  a result no line counts, though the log is said to list every run ever made (`AtMostOneUncounted` bounds the
  damage).
- The program is imported before HEAD is read (for a gate's second grid, long before), so a commit in
  between files a result of older code under the newer commit.
- A capitalisation carried across a rename weights the new asset by the old one's, until the staleness limit.
- A path wiped out on its first mark has no peak to fall from: `_max_drawdown` divides nothing by nothing and raises
  what `CELL_REFUSALS` does not list, so a cell, a market portfolio or a Bitcoin of that kind ends the whole grid (`Abort` of `Reading`).
- The drawdown is measured from the first mark on, so a loss between the fill and the first mark does not count.
- An opening buy records a turnover of half a book, where its documentation says all of it.
- The gate passes, against the long-short leg, at exactly three wiped-out cells: at the published five the signs fail.
- `best_net_sharpe_gap` is the difference of two bests also where the runs have no cell in common.

`UncommittedIsFiledApart` is the part of the documented promise about dirty trees that does hold:
what is filed as clean was at least committed, there or later. It says nothing of the two commits above.
`ExitPricesWereReachable` speaks of exits at a Halt (no close, or no volume); a bar that opens at zero and closes higher
on volume is none, and no document says what becomes of it.
`DecisionReadsOnlyPresence` says that a capitalisation is read before the Decision Bar; how many days before is the
staleness limit, which `CarriedCap` models and no property restates.

## What is not modelled, and why

The size of a statistic is not modelled where nothing branches on it: annualisation, Cost Drag,
the lag count. The table of cost models, the pairs of the grid and the numbers of the published table
are constants. The config reader keeps no state; the command line parses arguments, prints and maps exceptions
to exit codes; the scripts are one-off helpers. The counts that describe a panel in its metadata (the
archive's frontier, delisted symbols, the two brackets' sizes) are copied into records and read by nothing. A trials line torn in the middle of its
write is not modelled: a line is one small buffered write, taken as atomic.

## Plan

`Walk`, `Runner`, `RawStore`, `SymbolMap`, `Universe`, `Planning`, `Listing`, `Reading` and `Gate` are done. What is left, in this order:

1. `Gate` composed with `Runner`, whose gates file any verdict.
2. The metadata of `Listing`'s panel: the frontier of the archive and the count of delisted
   symbols, which takes live ones for delisted in the first days of a month.
3. Several names with an excluded one, and the two brackets side by side
   (`universe_bracket`): the lower bound's Universe is a subset of the upper's.
4. Proofs: that the months `Universe` narrows a panel to are those of `Listing`'s coverages, as
   `PlansAreWalked` joins `Planning` to `Walk`.
