-------------------------------- MODULE Walk --------------------------------
(***************************************************************************)
(* The daily walk of a cross-sectional run: `_walk` and `_rebalance` of     *)
(* sim/cross_sectional.py, and the cut `_marked`/`mark_daily` make in the   *)
(* equity it produced.                                                     *)
(*                                                                         *)
(* Day 0 is the first Decision Bar; the walk marks days 1 .. LastDay.  The  *)
(* market shows one bar per symbol and day.  Of a price the control flow    *)
(* tells apart only whether it is missing, zero or positive, and of an      *)
(* amount of money whether it is nothing (<= 0), the rounding residue the   *)
(* float subtraction `net_value - invested` leaves behind, or real money.   *)
(* Costs are below 1/2 per side, so paying them never changes that class.   *)
(***************************************************************************)
EXTENDS Naturals, Sequences, FiniteSets

CONSTANTS
  Symbols,      \* venue symbols the run has bars for
  LastDay,      \* the last day of the window: bounds the walk
  HoldingDays   \* days between two Decision Bars (`holding_days`)

ASSUME WalkAssumption ==
  /\ LastDay \in Nat \ {0}       \* _decision_bars refuses a shorter window
  /\ HoldingDays \in Nat \ {0}   \* simulate_cross_sectional refuses 0

VARIABLES
  plan,         \* what each Decision Bar selected, formed before any fill
  day,          \* the mark being walked
  phase,        \* how far into the day the walk is
  bar,          \* today's bar of every symbol
  held,         \* the keys of `units`
  last,         \* last_tradeable_close: where an exit would be priced
  stake,        \* the class of money the held units were bought with
  cash,         \* the class of the cash beside them
  equity,       \* the class of every mark so far
  selections,   \* one record per rebalance walked
  halt_exits,   \* one record per halt exit
  reported      \* the marks of the path handed to the report

vars == <<plan, day, phase, bar, held, last, stake, cash, equity, selections,
          halt_exits, reported>>

-----------------------------------------------------------------------------
(* The calendar and the market *)

Days == 0 .. LastDay
DecisionDays == {d \in 0 .. (LastDay - 1) : d % HoldingDays = 0}
FillDay(t) == t \in Nat \ {0} /\ t - 1 \in DecisionDays

NoBar == [open |-> "none", close |-> "none", volume |-> FALSE]
Printed == [open : {"zero", "positive"}, close : {"zero", "positive"},
            volume : BOOLEAN]
Bars == Printed \union {NoBar}

(* Mutation: any row of the frame is taken for an opening price. *)
AnyOpen(b) == TRUE
HasOpen(b) == b.open = "positive"
TradedAllDay(b) == b.close # "none" /\ b.volume

(* Money, by class.  A sum of amounts is of the class of its largest term. *)
Nothing == 0
Residue == 1
Money == 2
Classes == {Nothing, Residue, Money}

Larger(a, b) == IF a > b THEN a ELSE b
Invested(priced) == IF priced = {} THEN Nothing ELSE stake

WorthAtOpen == Larger(cash, Invested({s \in held : bar[s].open = "positive"}))
WorthAtClose == Larger(cash, Invested({s \in held : bar[s].close = "positive"}))

(* A price with the moment it was seen: the only prices an exit may use. *)
Unpriced == [day |-> 0, at |-> "never", price |-> "none"]
Stamps == [day : Nat, at : {"open", "close"}, price : {"zero", "positive"}]

Phases == {"night", "morning", "rebalance", "evening", "mark", "walked", "reported"}

Selection == [entry : Nat, symbols : SUBSET Symbols, unfilled : SUBSET Symbols]
HaltExit == [symbol : Symbols, day : Nat, priced : Stamps]

-----------------------------------------------------------------------------
(* The steps of the walk *)

Init ==
  /\ plan \in [DecisionDays -> SUBSET Symbols]
  /\ day = 0
  /\ phase = "night"
  /\ bar = [s \in Symbols |-> NoBar]
  /\ held = {}
  /\ last = [s \in Symbols |-> Unpriced]
  /\ stake = Nothing
  /\ cash = Money
  /\ equity = <<>>
  /\ selections = <<>>
  /\ halt_exits = {}
  /\ reported = <<>>

(* The market shows the next day.  A name can only be selected on a Decision *)
(* Bar if the bar before it, the formation bar, was tradeable.               *)
OpenSession ==
  /\ phase = "night" /\ day < LastDay
  /\ bar' \in [Symbols -> Bars]
  /\ day + 2 \in DecisionDays =>
       \A s \in plan[day + 2] : TradedAllDay(bar'[s])
  /\ day' = day + 1
  /\ phase' = "morning"
  /\ UNCHANGED <<plan, held, last, stake, cash, equity, selections, halt_exits,
                 reported>>

(* `exit_position` for every symbol of `gone`, at its last tradeable price. *)
ExitKeepingUnits(gone) ==   \* Mutation: sold, but still on the book
  /\ held' = held
  /\ cash' = Larger(cash, Invested({s \in gone : last[s].price = "positive"}))
  /\ halt_exits' = halt_exits \union
       {[symbol |-> s, day |-> day, priced |-> last[s]] : s \in gone}

ExitPositions(gone) ==
  /\ held' = held \ gone
  /\ cash' = Larger(cash, Invested({s \in gone : last[s].price = "positive"}))
  /\ halt_exits' = halt_exits \union
       {[symbol |-> s, day |-> day, priced |-> last[s]] : s \in gone}

Morning ==
  /\ phase = "morning"
  /\ ExitPositions({s \in held : ~HasOpen(bar[s])})
  /\ phase' = IF FillDay(day) THEN "rebalance" ELSE "evening"
  /\ UNCHANGED <<plan, day, bar, last, stake, equity, selections, reported>>

Fillable(bars) == {s \in plan[day - 1] : HasOpen(bars[s])}

(* Mutation: a rebalance that bought nothing leaves no record. *)
RecordFillsOnly(symbols, unfilled) ==
  selections' = IF symbols = {} THEN selections
    ELSE Append(selections, [entry |-> day, symbols |-> symbols, unfilled |-> unfilled])
Record(symbols, unfilled) ==
  selections' = Append(selections,
    [entry |-> day, symbols |-> symbols, unfilled |-> unfilled])

(* The book's last tradeable prices after today's fills, and after the close. *)
LeftUnpriced(bought) == last   \* Mutation: a fill is not a price to exit at
PricedAtOpen(bought) ==
  [s \in Symbols |->
     IF s \in bought THEN [day |-> day, at |-> "open", price |-> bar[s].open]
                     ELSE last[s]]

LeftAtTheFill == last          \* Mutation: the close is not carried forward
PricedAtClose ==
  [s \in Symbols |->
     IF s \in held THEN [day |-> day, at |-> "close", price |-> bar[s].close]
                   ELSE last[s]]

(* `_rebalance` with something to trade with.  A selected symbol without an *)
(* open stays in cash; a fully filled plan leaves only what rounding left.   *)
Rebalance ==
  /\ phase = "rebalance"
  /\ WorthAtOpen > Nothing
  /\ held' = Fillable(bar)
  /\ stake' = WorthAtOpen
  /\ IF Fillable(bar) = {} \/ Fillable(bar) # plan[day - 1]
       THEN cash' = WorthAtOpen
       ELSE cash' \in {Nothing, Residue}
  /\ last' = PricedAtOpen(Fillable(bar))
  /\ Record(Fillable(bar), plan[day - 1] \ Fillable(bar))
  /\ phase' = "evening"
  /\ UNCHANGED <<plan, day, bar, equity, halt_exits, reported>>

(* `_rebalance` with nothing left: the book is emptied and the record made. *)
RebalanceNothing ==
  /\ phase = "rebalance"
  /\ WorthAtOpen = Nothing
  /\ held' = {}
  /\ cash' = Nothing
  /\ Record({}, plan[day - 1])
  /\ phase' = "evening"
  /\ UNCHANGED <<plan, day, bar, last, stake, equity, halt_exits, reported>>

Evening ==
  /\ phase = "evening"
  /\ ExitPositions({s \in held : ~TradedAllDay(bar[s])})
  /\ phase' = "mark"
  /\ UNCHANGED <<plan, day, bar, last, stake, equity, selections, reported>>

(* At the end of the window the book is sold at the last close. *)
BookLeftOpen == UNCHANGED <<cash, held>>   \* Mutation
CloseBook == cash' = WorthAtClose /\ held' = {}

Mark ==
  /\ phase = "mark"
  /\ last' = PricedAtClose
  /\ equity' = Append(equity, WorthAtClose)
  /\ IF day = LastDay
       THEN CloseBook /\ phase' = "walked"
       ELSE phase' = "night" /\ UNCHANGED <<cash, held>>
  /\ UNCHANGED <<plan, day, bar, stake, selections, halt_exits, reported>>

(* The days whose mark breached a 100% loss, for `_marked`, and the marks    *)
(* `mark_daily` may find breached too when it compounds the returns anew: a  *)
(* float return from real money down to a residue can be exactly -100%.  The *)
(* first of them is the Liquidation, and the path ends there at nothing.     *)
Breached == {i \in DOMAIN equity : equity[i] = Nothing}
RoundedAway == {i \in DOMAIN equity : equity[i] = Residue /\ (i = 1 \/ equity[i - 1] = Money)}
IsLast(i, D) == i \in D /\ \A j \in D : j <= i   \* Mutation
IsFirst(i, D) == i \in D /\ \A j \in D : i <= j
CutAt(i) == Append(SubSeq(equity, 1, i - 1), Nothing)

Report ==
  /\ phase = "walked"
  /\ \E rounded \in SUBSET RoundedAway :
       LET breached == Breached \union rounded IN
       \/ breached = {} /\ reported' = equity
       \/ \E i \in breached : IsFirst(i, breached) /\ reported' = CutAt(i)
  /\ phase' = "reported"
  /\ UNCHANGED <<plan, day, bar, held, last, stake, cash, equity, selections,
                 halt_exits>>

Next ==
  \/ OpenSession
  \/ Morning
  \/ Rebalance
  \/ RebalanceNothing
  \/ Evening
  \/ Mark
  \/ Report

Spec == Init /\ [][Next]_vars

(* The walk is one sequential loop: it takes a step whenever it has one. *)
FairSpec == Spec /\ WF_vars(Next)

-----------------------------------------------------------------------------
(* Properties *)

TypeOK ==
  /\ plan \in [DecisionDays -> SUBSET Symbols]
  /\ day \in Days
  /\ phase \in Phases
  /\ bar \in [Symbols -> Bars]
  /\ held \in SUBSET Symbols
  /\ last \in [Symbols -> Stamps \union {Unpriced}]
  /\ stake \in Classes
  /\ cash \in Classes
  /\ equity \in Seq(Classes)
  /\ selections \in Seq(Selection)
  /\ halt_exits \in SUBSET HaltExit
  /\ reported \in Seq(Classes)

(* Whatever is on the book can be sold: `last_tradeable_close` holds a price *)
(* for it, and it is the last one an order could have filled at, so this     *)
(* morning's open for a name bought this morning and yesterday's close for   *)
(* any other.  A missing entry would be a KeyError in `exit_position`, an    *)
(* older one an exit at a price the market had already left.                 *)
LastPriceIsCurrent ==
  \A s \in held :
    \/ last[s].at = "close" /\ last[s].day = day
         /\ phase = "night"
    \/ last[s].at = "close" /\ last[s].day + 1 = day
         /\ phase \in {"morning", "rebalance"} \union
                      (IF FillDay(day) THEN {} ELSE {"evening", "mark"})
    \/ last[s].at = "open" /\ last[s].day = day
         /\ FillDay(day) /\ phase \in {"evening", "mark"}

(* The exits booked since the latest rebalance. *)
LatestEntry == selections[Len(selections)].entry
ExitedSince(t) == {e.symbol : e \in {x \in halt_exits : x.day >= t}}

(* The record explains the book.  Between the first fill and the close of    *)
(* the book, what is held is exactly what the latest Selection says it       *)
(* bought, less what a HaltExit booked since: no position appears without a  *)
(* rebalance, none vanishes without an exit, none is exited twice.           *)
PositionsAccountedFor ==
  IF selections = <<>> THEN held = {}
  ELSE phase \notin {"walked", "reported"} =>
         held = selections[Len(selections)].symbols \ ExitedSince(LatestEntry)

(* Every planned rebalance is walked once, on the day after its Decision     *)
(* Bar and in order, also after a refusal to fill or a loss of everything,   *)
(* and every selected name is recorded as bought or as unfilled, never both. *)
SelectionsFollowPlan ==
  /\ \A i \in DOMAIN selections :
       LET sel == selections[i] IN
       /\ sel.entry = (i - 1) * HoldingDays + 1
       /\ sel.symbols \union sel.unfilled = plan[sel.entry - 1]
       /\ sel.symbols \intersect sel.unfilled = {}
  /\ phase \in {"walked", "reported"} => Len(selections) = Cardinality(DecisionDays)

(* A bar at which the asset could not be traded: the glossary's Halt.        *)
ExitedToday == {e \in halt_exits : e.day = day}
Halted(e) == ~TradedAllDay(bar[e.symbol])

(* A position held through a Halt is booked at the last price before the     *)
(* halt showed: the close of the day before, or this morning's open if, and  *)
(* only if, a rebalance bought the name this morning.  An exit at a bar that *)
(* is no Halt is not called right here: see TradesAtNothingAreMarked.        *)
ExitPricesWereReachable ==
  \A e \in {x \in ExitedToday : Halted(x)} :
    IF e.priced.at = "open"
      THEN e.priced.day = day /\ \E i \in DOMAIN selections :
             selections[i].entry = day /\ e.symbol \in selections[i].symbols
      ELSE e.priced.day + 1 = day

(* A book with no money and no position stays that way: no later plan, open  *)
(* or close brings back what was lost.                                       *)
RuinIsForever ==
  [][cash = Nothing /\ held = {} => cash' = Nothing /\ held' = {}]_vars

(* The path handed to the report is marked every day up to its end and was   *)
(* worth something on each day before its last; only the last may be the     *)
(* Liquidation.                                                              *)
ReportedPathEndsAtLiquidation ==
  phase = "reported" =>
    /\ reported # <<>>
    /\ \A i \in DOMAIN reported : reported[i] = Nothing => i = Len(reported)
    /\ Len(reported) < LastDay => reported[Len(reported)] = Nothing

(* Every walk ends: with a report, the book closed. *)
WalkEndsFlat == <>(phase = "reported" /\ held = {})

-----------------------------------------------------------------------------
(* What the documentation says and the walk does not do *)

(* "A price of zero on real volume is not a halt but a trade at nothing, and *)
(* is marked as the loss it is" (CONTEXT.md), "rather than being booked as   *)
(* an exit at the last price that happened to be positive" (marking.py).     *)
TradedAtNothing(b) == b.close = "zero" /\ b.volume
TradesAtNothingAreMarked ==
  \A e \in ExitedToday :
    TradedAtNothing(bar[e.symbol]) => e.priced.price # "positive"
=============================================================================
