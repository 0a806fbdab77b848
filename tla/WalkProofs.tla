----------------------------- MODULE WalkProofs -----------------------------
(***************************************************************************)
(* Proofs about Walk for every set of symbols, window and holding period.   *)
(*                                                                         *)
(* Neither TypeOK nor the statements about prices and positions are         *)
(* inductive alone.  An exit has a well-typed price only because everything *)
(* held is priced (LastPriceIsCurrent); that holds after the mark only      *)
(* because what did not trade left in the evening; and a name is not        *)
(* exited again after a rebalance bought it back only because whatever left *)
(* in the morning had no open to be bought at.  IInv joins them.            *)
(***************************************************************************)
EXTENDS Walk, TLAPS, FiniteSetTheorems

(* What the phase says about the book, the exits and the records. *)
PhaseInv ==
  /\ phase = "rebalance" => FillDay(day)
  /\ phase = "mark" => \A s \in held : TradedAllDay(bar[s])
  /\ phase \in {"evening", "mark"} /\ FillDay(day) =>
       selections # <<>> /\ LatestEntry = day
  /\ phase \in {"walked", "reported"} => held = {}

(* When exits and records were made. *)
DatesInv ==
  /\ \A e \in halt_exits : e.day <= day
  /\ phase = "morning" => \A e \in halt_exits : e.day < day
  /\ phase = "rebalance" =>
       \A e \in halt_exits : e.day = day => ~HasOpen(bar[e.symbol])
  /\ \A i \in DOMAIN selections : selections[i].entry <= day

IInv ==
  /\ TypeOK
  /\ PhaseInv
  /\ DatesInv
  /\ LastPriceIsCurrent
  /\ PositionsAccountedFor
  /\ ExitPricesWereReachable

-----------------------------------------------------------------------------

LEMMA WorthIsAClass ==
  ASSUME TypeOK PROVE WorthAtOpen \in Classes /\ WorthAtClose \in Classes
BY DEF TypeOK, WorthAtOpen, WorthAtClose, Larger, Invested, Classes, Nothing,
       Residue, Money

(* Only held names are exited, and what is held has a price to exit at. *)
LEMMA ExitsAreWellTyped ==
  ASSUME TypeOK, LastPriceIsCurrent, NEW gone \in SUBSET held, ExitPositions(gone)
  PROVE  held' \in SUBSET Symbols /\ cash' \in Classes /\ halt_exits' \in SUBSET HaltExit
<1>1. held' \in SUBSET Symbols
  BY DEF TypeOK, ExitPositions
<1>2. cash' \in Classes
  BY DEF TypeOK, ExitPositions, Larger, Invested, Classes, Nothing, Residue, Money
<1>3. ASSUME NEW s \in gone
      PROVE  [symbol |-> s, day |-> day, priced |-> last[s]] \in HaltExit
  <2>1. s \in Symbols /\ s \in held
    BY DEF TypeOK
  <2>2. last[s].at \in {"open", "close"}
    BY <2>1 DEF LastPriceIsCurrent
  <2>3. last[s] \in Stamps
    BY <2>1, <2>2 DEF TypeOK, Unpriced
  <2>4. QED
    BY <2>1, <2>3 DEF TypeOK, HaltExit, Days
<1>4. QED
  BY <1>1, <1>2, <1>3 DEF TypeOK, ExitPositions

LEMMA TypeInvariance == IInv /\ [Next]_vars => TypeOK'
<1> SUFFICES ASSUME IInv, [Next]_vars PROVE TypeOK'
  OBVIOUS
<1> USE DEF IInv
<1>1. CASE OpenSession
  BY <1>1, WalkAssumption DEF OpenSession, TypeOK, Days, Phases
<1>2. CASE Morning
  <2>1. {s \in held : ~HasOpen(bar[s])} \in SUBSET held
    OBVIOUS
  <2>2. held' \in SUBSET Symbols /\ cash' \in Classes /\ halt_exits' \in SUBSET HaltExit
    BY <1>2, <2>1, ExitsAreWellTyped DEF Morning
  <2>3. QED
    BY <1>2, <2>2 DEF Morning, TypeOK, Phases
<1>3. CASE Rebalance
  <2>1. day \in Nat /\ day - 1 \in DecisionDays /\ plan[day - 1] \in SUBSET Symbols
    BY <1>3 DEF Rebalance, PhaseInv, FillDay, TypeOK, Days
  <2>2. Fillable(bar) \in SUBSET Symbols
    BY <2>1 DEF Fillable
  <2>3. PricedAtOpen(Fillable(bar)) \in [Symbols -> Stamps \union {Unpriced}]
    BY <2>1, <2>2 DEF PricedAtOpen, Fillable, HasOpen, TypeOK, Stamps
  <2>4. selections' \in Seq(Selection)
    BY <1>3, <2>1, <2>2 DEF Rebalance, Record, Selection, TypeOK
  <2>5. cash' \in Classes /\ stake' \in Classes
    BY <1>3, WorthIsAClass DEF Rebalance, Classes, Nothing, Residue, Money
  <2>6. QED
    BY <1>3, <2>2, <2>3, <2>4, <2>5 DEF Rebalance, TypeOK, Phases
<1>4. CASE RebalanceNothing
  <2>1. day \in Nat /\ plan[day - 1] \in SUBSET Symbols
    BY <1>4 DEF RebalanceNothing, PhaseInv, FillDay, TypeOK, Days
  <2>2. selections' \in Seq(Selection)
    BY <1>4, <2>1 DEF RebalanceNothing, Record, Selection, TypeOK
  <2>3. QED
    BY <1>4, <2>2 DEF RebalanceNothing, TypeOK, Phases, Classes
<1>5. CASE Evening
  <2>1. {s \in held : ~TradedAllDay(bar[s])} \in SUBSET held
    OBVIOUS
  <2>2. held' \in SUBSET Symbols /\ cash' \in Classes /\ halt_exits' \in SUBSET HaltExit
    BY <1>5, <2>1, ExitsAreWellTyped DEF Evening
  <2>3. QED
    BY <1>5, <2>2 DEF Evening, TypeOK, Phases
<1>6. CASE Mark
  <2>1. day \in Nat
    BY DEF TypeOK, Days
  <2>2. ASSUME NEW s \in held
        PROVE  s \in Symbols /\ bar[s].close \in {"zero", "positive"}
    BY <1>6 DEF Mark, PhaseInv, TradedAllDay, TypeOK, Bars, Printed, NoBar
  <2>3. PricedAtClose \in [Symbols -> Stamps \union {Unpriced}]
    BY <2>1, <2>2 DEF PricedAtClose, TypeOK, Stamps
  <2>4. equity' \in Seq(Classes) /\ WorthAtClose \in Classes
    BY <1>6, WorthIsAClass DEF Mark, TypeOK
  <2>5. QED
    BY <1>6, <2>3, <2>4 DEF Mark, CloseBook, TypeOK, Phases
<1>7. CASE Report
  <2>1. equity \in Seq(Classes) /\ Breached \subseteq 1 .. Len(equity)
        /\ RoundedAway \subseteq 1 .. Len(equity)
    BY DEF TypeOK, Breached, RoundedAway
  <2>2. ASSUME NEW i \in 1 .. Len(equity) PROVE CutAt(i) \in Seq(Classes)
    <3>1. i - 1 \in Nat /\ i - 1 <= Len(equity)
      BY <2>1
    <3>2. SubSeq(equity, 1, i - 1) \in Seq(Classes)
      BY <2>1, <3>1
    <3>3. QED
      BY <3>2 DEF CutAt, Classes
  <2> HIDE DEF CutAt
  <2>3. reported' \in Seq(Classes)
    BY <1>7, <2>1, <2>2 DEF Report
  <2>4. QED
    BY <1>7, <2>3 DEF Report, TypeOK, Phases
<1>8. CASE UNCHANGED vars
  BY <1>8 DEF vars, TypeOK
<1>9. QED
  BY <1>1, <1>2, <1>3, <1>4, <1>5, <1>6, <1>7, <1>8 DEF Next
(* The record just made is the latest one, and the earlier ones are kept. *)
LEMMA RecordIsLatest ==
  ASSUME TypeOK, NEW symbols, NEW unfilled, Record(symbols, unfilled)
  PROVE  /\ selections' # <<>>
         /\ LatestEntry' = day
         /\ selections'[Len(selections')].symbols = symbols
         /\ Len(selections') \in DOMAIN selections'
         /\ \A i \in DOMAIN selections : i \in DOMAIN selections'
                                        /\ selections'[i] = selections[i]
<1> DEFINE sel == [entry |-> day, symbols |-> symbols, unfilled |-> unfilled]
<1>1. selections \in Seq(Selection) /\ selections' = Append(selections, sel)
  BY DEF TypeOK, Record
<1>2. sel.entry = day /\ sel.symbols = symbols
  OBVIOUS
<1> HIDE DEF sel
<1>3. /\ Len(selections') = Len(selections) + 1
      /\ selections'[Len(selections')] = sel
      /\ Len(selections') \in DOMAIN selections'
      /\ \A i \in DOMAIN selections : i \in DOMAIN selections'
                                     /\ selections'[i] = selections[i]
  BY <1>1
<1>4. selections' # <<>>
  BY <1>1, <1>3
<1>5. QED
  BY <1>2, <1>3, <1>4 DEF LatestEntry

LEMMA PhaseInvariance == IInv /\ [Next]_vars => PhaseInv'
<1> SUFFICES ASSUME IInv, [Next]_vars PROVE PhaseInv'
  OBVIOUS
<1> USE DEF IInv, PhaseInv
<1>1. CASE OpenSession
  BY <1>1 DEF OpenSession
<1>2. CASE Morning
  BY <1>2 DEF Morning, ExitPositions, FillDay
<1>3. CASE Rebalance
  <2>1. selections' # <<>> /\ LatestEntry' = day
    BY <1>3, RecordIsLatest DEF Rebalance
  <2>2. QED
    BY <1>3, <2>1 DEF Rebalance
<1>4. CASE RebalanceNothing
  <2>1. selections' # <<>> /\ LatestEntry' = day
    BY <1>4, RecordIsLatest DEF RebalanceNothing
  <2>2. QED
    BY <1>4, <2>1 DEF RebalanceNothing
<1>5. CASE Evening
  BY <1>5 DEF Evening, ExitPositions, FillDay, LatestEntry
<1>6. CASE Mark
  BY <1>6 DEF Mark, CloseBook
<1>7. CASE Report
  BY <1>7 DEF Report
<1>8. CASE UNCHANGED vars
  BY <1>8 DEF vars, FillDay, LatestEntry
<1>9. QED
  BY <1>1, <1>2, <1>3, <1>4, <1>5, <1>6, <1>7, <1>8 DEF Next

LEMMA DatesInvariance == IInv /\ [Next]_vars => DatesInv'
<1> SUFFICES ASSUME IInv, [Next]_vars PROVE DatesInv'
  OBVIOUS
<1> USE DEF IInv, DatesInv
<1>0. day \in Nat /\ \A e \in halt_exits : e.day \in Nat
  BY DEF TypeOK, Days, HaltExit
<1>1. CASE OpenSession
  <2>1. ASSUME NEW i \in DOMAIN selections PROVE selections[i].entry \in Nat
    <3>1. selections[i] \in Selection
      BY DEF TypeOK
    <3>2. QED
      BY <3>1 DEF Selection
  <2>2. QED
    BY <1>0, <1>1, <2>1 DEF OpenSession
<1>2. CASE Morning
  <2>1. \A e \in halt_exits' : e \in halt_exits \/ (e.day = day /\ ~HasOpen(bar[e.symbol]))
    BY <1>2 DEF Morning, ExitPositions
  <2>2. QED
    BY <1>0, <1>2, <2>1 DEF Morning
<1>3. CASE Rebalance
  <2>1. \A i \in DOMAIN selections' : selections'[i].entry <= day
    BY <1>0, <1>3 DEF Rebalance, Record, TypeOK
  <2>2. QED
    BY <1>3, <2>1 DEF Rebalance
<1>4. CASE RebalanceNothing
  <2>1. \A i \in DOMAIN selections' : selections'[i].entry <= day
    BY <1>0, <1>4 DEF RebalanceNothing, Record, TypeOK
  <2>2. QED
    BY <1>4, <2>1 DEF RebalanceNothing
<1>5. CASE Evening
  <2>1. \A e \in halt_exits' : e \in halt_exits \/ e.day = day
    BY <1>5 DEF Evening, ExitPositions
  <2>2. QED
    BY <1>0, <1>5, <2>1 DEF Evening
<1>6. CASE Mark
  BY <1>6 DEF Mark, CloseBook
<1>7. CASE Report
  BY <1>7 DEF Report
<1>8. CASE UNCHANGED vars
  BY <1>8 DEF vars
<1>9. QED
  BY <1>1, <1>2, <1>3, <1>4, <1>5, <1>6, <1>7, <1>8 DEF Next

LEMMA PriceInvariance == IInv /\ [Next]_vars => LastPriceIsCurrent'
<1> SUFFICES ASSUME IInv, [Next]_vars PROVE LastPriceIsCurrent'
  OBVIOUS
<1> USE DEF IInv, LastPriceIsCurrent, FillDay
<1>0. day \in Nat /\ held \in SUBSET Symbols
  BY DEF TypeOK, Days
<1>1. CASE OpenSession
  BY <1>0, <1>1 DEF OpenSession
<1>2. CASE Morning
  BY <1>0, <1>2 DEF Morning, ExitPositions
<1>3. CASE Rebalance
  <2>1. Fillable(bar) \in SUBSET Symbols
    BY <1>0, <1>3 DEF Rebalance, Fillable, PhaseInv, TypeOK
  <2>2. \A s \in held' : last'[s].at = "open" /\ last'[s].day = day
    BY <1>3, <2>1 DEF Rebalance, PricedAtOpen
  <2>3. QED
    BY <1>3, <2>2 DEF Rebalance, PhaseInv
<1>4. CASE RebalanceNothing
  BY <1>4 DEF RebalanceNothing
<1>5. CASE Evening
  BY <1>0, <1>5 DEF Evening, ExitPositions
<1>6. CASE Mark
  <2>1. \A s \in held' : last'[s].at = "close" /\ last'[s].day = day
    BY <1>0, <1>6 DEF Mark, CloseBook, PricedAtClose
  <2>2. day = LastDay => held' = {}
    BY <1>6 DEF Mark, CloseBook
  <2>3. QED
    BY <1>6, <2>1, <2>2 DEF Mark
<1>7. CASE Report
  BY <1>7 DEF Report, PhaseInv
<1>8. CASE UNCHANGED vars
  BY <1>8 DEF vars
<1>9. QED
  BY <1>1, <1>2, <1>3, <1>4, <1>5, <1>6, <1>7, <1>8 DEF Next

(* What a halt exit does to the account of the book. *)
LEMMA ExitsAreAccountedFor ==
  ASSUME IInv, NEW gone \in SUBSET held, ExitPositions(gone),
         UNCHANGED selections, phase' \notin {"walked", "reported"},
         phase \notin {"walked", "reported"}
  PROVE  PositionsAccountedFor'
<1> USE DEF IInv
<1>1. CASE selections = <<>>
  BY <1>1 DEF PositionsAccountedFor, ExitPositions
<1>2. CASE selections # <<>>
  <2>1. Len(selections) \in DOMAIN selections
    BY <1>2 DEF TypeOK
  <2>2. LatestEntry <= day /\ LatestEntry' = LatestEntry
    BY <2>1 DEF DatesInv, LatestEntry
  <2>3. ExitedSince(LatestEntry)' = ExitedSince(LatestEntry) \union gone
    <3>1. LatestEntry \in Nat /\ day \in Nat
      <4>1. selections[Len(selections)] \in Selection
        BY <2>1 DEF TypeOK
      <4>2. QED
        BY <4>1 DEF LatestEntry, TypeOK, Selection, Days
    <3> DEFINE new == {[symbol |-> s, day |-> day, priced |-> last[s]] : s \in gone}
    <3>2. \A x \in new : x.day >= LatestEntry
      BY <2>2, <3>1
    <3>3. {x \in halt_exits \union new : x.day >= LatestEntry} =
            {x \in halt_exits : x.day >= LatestEntry} \union new
      BY <3>2
    <3>4. {x.symbol : x \in new} = gone
      <4>1. \A s \in gone : [symbol |-> s, day |-> day, priced |-> last[s]] \in new
        OBVIOUS
      <4>2. \A x \in new : x.symbol \in gone
        OBVIOUS
      <4>3. ASSUME NEW s \in gone PROVE s \in {x.symbol : x \in new}
        <5>1. [symbol |-> s, day |-> day, priced |-> last[s]].symbol = s
          OBVIOUS
        <5> HIDE DEF new
        <5>2. QED
          BY <4>1, <5>1
      <4>4. QED
        BY <4>2, <4>3
    <3>5. halt_exits' = halt_exits \union new
      BY DEF ExitPositions
    <3> HIDE DEF new
    <3>6. ExitedSince(LatestEntry)' =
            {e.symbol : e \in {x \in halt_exits \union new : x.day >= LatestEntry}}
      BY <2>2, <3>5 DEF ExitedSince
    <3>7. QED
      BY <3>3, <3>4, <3>6 DEF ExitedSince
  <2>4. QED
    BY <1>2, <2>3 DEF PositionsAccountedFor, ExitPositions
<1>3. QED
  BY <1>1, <1>2

LEMMA AccountInvariance == IInv /\ [Next]_vars => PositionsAccountedFor'
<1> SUFFICES ASSUME IInv, [Next]_vars PROVE PositionsAccountedFor'
  OBVIOUS
<1> USE DEF IInv
<1>1. CASE OpenSession
  BY <1>1 DEF OpenSession, PositionsAccountedFor, ExitedSince, LatestEntry
<1>2. CASE Morning
  <2>1. {s \in held : ~HasOpen(bar[s])} \in SUBSET held
    OBVIOUS
  <2>2. phase' \notin {"walked", "reported"} /\ UNCHANGED selections
    BY <1>2 DEF Morning
  <2>3. QED
    BY <1>2, <2>1, <2>2, ExitsAreAccountedFor DEF Morning
<1>3. CASE Rebalance
  <2>1. /\ selections' # <<>>
        /\ LatestEntry' = day
        /\ selections'[Len(selections')].symbols = Fillable(bar)
    BY <1>3, RecordIsLatest DEF Rebalance
  <2>2. ExitedSince(day) \intersect Fillable(bar) = {}
    <3>1. \A e \in halt_exits : e.day >= day => e.day = day
      BY DEF DatesInv, TypeOK, HaltExit, Days
    <3>2. QED
      BY <1>3, <3>1 DEF ExitedSince, Fillable, Rebalance, DatesInv
  <2>3. ExitedSince(LatestEntry)' = ExitedSince(day)
    BY <1>3, <2>1 DEF Rebalance, ExitedSince
  <2>4. QED
    BY <1>3, <2>1, <2>2, <2>3 DEF Rebalance, PositionsAccountedFor
<1>4. CASE RebalanceNothing
  <2>1. /\ selections' # <<>>
        /\ selections'[Len(selections')].symbols = {}
    BY <1>4, RecordIsLatest DEF RebalanceNothing
  <2>2. QED
    BY <1>4, <2>1 DEF RebalanceNothing, PositionsAccountedFor
<1>5. CASE Evening
  <2>1. {s \in held : ~TradedAllDay(bar[s])} \in SUBSET held
    OBVIOUS
  <2>2. phase' \notin {"walked", "reported"} /\ UNCHANGED selections
    BY <1>5 DEF Evening
  <2>3. QED
    BY <1>5, <2>1, <2>2, ExitsAreAccountedFor DEF Evening
<1>6. CASE Mark
  BY <1>6 DEF Mark, CloseBook, PositionsAccountedFor, ExitedSince, LatestEntry
<1>7. CASE Report
  BY <1>7 DEF Report, PositionsAccountedFor, ExitedSince, LatestEntry
<1>8. CASE UNCHANGED vars
  BY <1>8 DEF vars, PositionsAccountedFor, ExitedSince, LatestEntry
<1>9. QED
  BY <1>1, <1>2, <1>3, <1>4, <1>5, <1>6, <1>7, <1>8 DEF Next

(* Exits of names still on the book are booked at the last reachable price. *)
LEMMA NewExitsAreReachable ==
  ASSUME IInv, NEW gone \in SUBSET held, ExitPositions(gone),
         UNCHANGED <<selections, day, bar>>, phase \in {"morning", "evening"}
  PROVE  ExitPricesWereReachable'
<1> USE DEF IInv
<1>1. ASSUME NEW s \in gone, last[s].at = "open"
      PROVE  /\ last[s].day = day
             /\ \E i \in DOMAIN selections :
                  selections[i].entry = day /\ s \in selections[i].symbols
  <2>1. s \in held
    OBVIOUS
  <2>2. last[s].day = day /\ FillDay(day) /\ phase = "evening"
    BY <1>1, <2>1 DEF LastPriceIsCurrent
  <2>3. selections # <<>> /\ LatestEntry = day
    BY <2>2 DEF PhaseInv
  <2>4. Len(selections) \in DOMAIN selections
    BY <2>3 DEF TypeOK
  <2>5. s \in selections[Len(selections)].symbols
    BY <2>1, <2>2, <2>3 DEF PositionsAccountedFor
  <2>6. QED
    BY <2>2, <2>3, <2>4, <2>5 DEF LatestEntry
<1>2. ASSUME NEW s \in gone, last[s].at # "open"
      PROVE  last[s].day + 1 = day
  BY <1>2 DEF LastPriceIsCurrent
<1>3. \A e \in halt_exits' :
        e \in halt_exits \/ \E s \in gone : e.symbol = s /\ e.day = day /\ e.priced = last[s]
  BY DEF ExitPositions
<1>5. ASSUME NEW e \in halt_exits', e.day = day, Halted(e)
      PROVE  IF e.priced.at = "open"
               THEN e.priced.day = day /\ \E i \in DOMAIN selections :
                      selections[i].entry = day /\ e.symbol \in selections[i].symbols
               ELSE e.priced.day + 1 = day
  BY <1>1, <1>2, <1>3, <1>5 DEF ExitPricesWereReachable, ExitedToday
<1>6. QED
  BY <1>5 DEF ExitPricesWereReachable, ExitedToday, Halted

LEMMA ReachableInvariance == IInv /\ [Next]_vars => ExitPricesWereReachable'
<1> SUFFICES ASSUME IInv, [Next]_vars PROVE ExitPricesWereReachable'
  OBVIOUS
<1> USE DEF IInv
<1>1. CASE Morning
  <2>1. {s \in held : ~HasOpen(bar[s])} \in SUBSET held
    OBVIOUS
  <2>2. QED
    BY <1>1, <2>1, NewExitsAreReachable DEF Morning
<1>2. CASE Evening
  <2>1. {s \in held : ~TradedAllDay(bar[s])} \in SUBSET held
    OBVIOUS
  <2>2. QED
    BY <1>2, <2>1, NewExitsAreReachable DEF Evening
<1>3. CASE Rebalance
  <2>1. \A i \in DOMAIN selections : i \in DOMAIN selections'
                                    /\ selections'[i] = selections[i]
    BY <1>3, RecordIsLatest DEF Rebalance
  <2>2. QED
    BY <1>3, <2>1 DEF Rebalance, ExitPricesWereReachable, ExitedToday, Halted
<1>4. CASE RebalanceNothing
  <2>1. \A i \in DOMAIN selections : i \in DOMAIN selections'
                                    /\ selections'[i] = selections[i]
    BY <1>4, RecordIsLatest DEF RebalanceNothing
  <2>2. QED
    BY <1>4, <2>1 DEF RebalanceNothing, ExitPricesWereReachable, ExitedToday, Halted
<1>5. CASE OpenSession   \* the exits so far are of earlier days
  <2>1. \A e \in halt_exits : e.day \in Nat /\ e.day <= day
    BY DEF TypeOK, HaltExit, DatesInv
  <2>2. ExitedToday' = {}
    BY <1>5, <2>1 DEF OpenSession, ExitedToday, TypeOK, Days
  <2>3. QED
    BY <2>2 DEF ExitPricesWereReachable
<1>6. CASE UNCHANGED <<selections, halt_exits, day, bar>>
  BY <1>6 DEF ExitPricesWereReachable, ExitedToday, Halted
<1>7. QED
  BY <1>1, <1>2, <1>3, <1>4, <1>5, <1>6 DEF Next, vars, Mark, Report

LEMMA InitIInv == Init => IInv
<1> SUFFICES ASSUME Init PROVE IInv
  OBVIOUS
<1>1. TypeOK
  BY WalkAssumption DEF Init, TypeOK, Days, Phases, Bars, Classes, Money, Nothing
<1>2. PhaseInv /\ DatesInv
  BY DEF Init, PhaseInv, DatesInv
<1>3. LastPriceIsCurrent /\ PositionsAccountedFor /\ ExitPricesWereReachable
  BY DEF Init, LastPriceIsCurrent, PositionsAccountedFor, ExitPricesWereReachable, ExitedToday
<1>4. QED
  BY <1>1, <1>2, <1>3 DEF IInv

-----------------------------------------------------------------------------

(* Every variable of the walk keeps its type, in any market. *)
THEOREM TypeCorrect == Spec => []TypeOK
<1>1. IInv /\ [Next]_vars => IInv'
  BY TypeInvariance, PhaseInvariance, DatesInvariance, PriceInvariance,
     AccountInvariance, ReachableInvariance DEF IInv
<1>2. IInv => TypeOK
  BY DEF IInv
<1>3. QED
  BY InitIInv, <1>1, <1>2, PTL DEF Spec

(* Whatever is on the book has a price it can be exited at, the last one an  *)
(* order could have filled at; every exit of a halted name used such a price *)
(* of its day; and the record of selections and exits explains the book.     *)
THEOREM BookIsExplained ==
  Spec => [](LastPriceIsCurrent /\ ExitPricesWereReachable /\ PositionsAccountedFor)
<1>1. IInv /\ [Next]_vars => IInv'
  BY TypeInvariance, PhaseInvariance, DatesInvariance, PriceInvariance,
     AccountInvariance, ReachableInvariance DEF IInv
<1>2. IInv => LastPriceIsCurrent /\ ExitPricesWereReachable /\ PositionsAccountedFor
  BY DEF IInv
<1>3. QED
  BY InitIInv, <1>1, <1>2, PTL DEF Spec

(* A book with no money and no position never has either again. *)
THEOREM RuinStays == Spec => RuinIsForever
<1>1. TypeOK /\ [Next]_vars =>
        [cash = Nothing /\ held = {} => cash' = Nothing /\ held' = {}]_vars
  <2> SUFFICES ASSUME Next, cash = Nothing, held = {}
               PROVE  cash' = Nothing /\ held' = {}
    OBVIOUS
  <2>1. WorthAtOpen = Nothing /\ WorthAtClose = Nothing
    BY DEF WorthAtOpen, WorthAtClose, Larger, Invested, Nothing
  <2>2. ASSUME NEW gone, gone = {}, ExitPositions(gone)
        PROVE  cash' = Nothing /\ held' = {}
    BY <2>2 DEF ExitPositions, Larger, Invested, Nothing
  <2>3. CASE Morning
    BY <2>2, <2>3 DEF Morning
  <2>4. CASE Evening
    BY <2>2, <2>4 DEF Evening
  <2>5. CASE OpenSession \/ Report
    BY <2>5 DEF OpenSession, Report
  <2>6. CASE Rebalance
    BY <2>1, <2>6 DEF Rebalance, Nothing
  <2>7. CASE RebalanceNothing
    BY <2>7 DEF RebalanceNothing
  <2>8. CASE Mark
    BY <2>1, <2>8 DEF Mark, CloseBook
  <2>9. QED
    BY <2>3, <2>4, <2>5, <2>6, <2>7, <2>8 DEF Next
<1>2. QED
  BY TypeCorrect, <1>1, PTL DEF Spec, RuinIsForever

-----------------------------------------------------------------------------
(* The reported path.  The marks keep up with the calendar, one a day, so   *)
(* the whole path has LastDay of them and a shorter one has been cut.       *)
MarksInv ==
  /\ phase \in {"night", "walked", "reported"} => Len(equity) = day
  /\ phase \in {"morning", "rebalance", "evening", "mark"} => Len(equity) + 1 = day
  /\ phase \in {"walked", "reported"} => day = LastDay

(* A path without a breached day is handed over whole: no mark of it is     *)
(* nothing, so it ends at the end of the window.                            *)
LEMMA WholePath ==
  ASSUME TypeOK, MarksInv, phase = "walked", Breached = {}
  PROVE  /\ equity # <<>>
         /\ \A i \in DOMAIN equity : equity[i] # Nothing
         /\ Len(equity) = LastDay
<1>1. equity \in Seq(Classes) /\ Len(equity) = LastDay
  BY DEF TypeOK, MarksInv
<1>2. equity # <<>>
  BY <1>1, WalkAssumption
<1>3. QED
  BY <1>1, <1>2 DEF Breached

(* A path cut at its first breached day is worth something on every day     *)
(* before it, and nothing on that day.                                      *)
LEMMA CutPath ==
  ASSUME TypeOK, NEW D, Breached \subseteq D, D \subseteq DOMAIN equity,
         NEW i, IsFirst(i, D)
  PROVE  /\ CutAt(i) # <<>>
         /\ Len(CutAt(i)) = i
         /\ CutAt(i)[i] = Nothing
         /\ \A j \in DOMAIN CutAt(i) : CutAt(i)[j] = Nothing => j = i
<1>1. equity \in Seq(Classes) /\ i \in 1 .. Len(equity)
  BY DEF TypeOK, IsFirst
<1>2. \A j \in 1 .. (i - 1) : equity[j] # Nothing
  <2> SUFFICES ASSUME NEW j \in 1 .. (i - 1), equity[j] = Nothing PROVE FALSE
    OBVIOUS
  <2>1. j \in DOMAIN equity
    BY <1>1
  <2>2. j \in D
    BY <2>1 DEF Breached
  <2>3. QED
    BY <1>1, <2>2 DEF IsFirst
<1> DEFINE before == SubSeq(equity, 1, i - 1)
<1>3. /\ before \in Seq(Classes)
      /\ Len(before) = i - 1
      /\ \A j \in 1 .. (i - 1) : before[j] = equity[j]
  BY <1>1
<1>4. CutAt(i) = Append(before, Nothing)
  BY DEF CutAt
<1> HIDE DEF before
<1>5. /\ Len(CutAt(i)) = i
      /\ CutAt(i)[i] = Nothing
      /\ DOMAIN CutAt(i) = 1 .. i
      /\ \A j \in 1 .. (i - 1) : CutAt(i)[j] = equity[j]
  BY <1>1, <1>3, <1>4
<1>6. CutAt(i) # <<>>
  BY <1>1, <1>5
<1>7. ASSUME NEW j \in 1 .. i, j # i PROVE CutAt(i)[j] # Nothing
  BY <1>1, <1>2, <1>5, <1>7
<1>8. QED
  BY <1>5, <1>6, <1>7

LEMMA MarksInvariance == TypeOK /\ MarksInv /\ [Next]_vars => MarksInv'
<1> SUFFICES ASSUME TypeOK, MarksInv, [Next]_vars PROVE MarksInv'
  OBVIOUS
<1>1. day \in Nat /\ equity \in Seq(Classes) /\ WorthAtClose \in Classes
  BY WorthIsAClass DEF TypeOK, Days
<1>2. CASE OpenSession
  BY <1>1, <1>2 DEF OpenSession, MarksInv
<1>3. CASE Morning
  BY <1>1, <1>3 DEF Morning, MarksInv
<1>4. CASE Rebalance
  BY <1>1, <1>4 DEF Rebalance, MarksInv
<1>5. CASE RebalanceNothing
  BY <1>1, <1>5 DEF RebalanceNothing, MarksInv
<1>6. CASE Evening
  BY <1>1, <1>6 DEF Evening, MarksInv
<1>7. CASE Mark
  <2>1. Len(equity') = Len(equity) + 1 /\ Len(equity) + 1 = day /\ day' = day
    BY <1>1, <1>7 DEF Mark, MarksInv
  <2>2. phase' = (IF day = LastDay THEN "walked" ELSE "night")
    BY <1>7 DEF Mark
  <2>3. QED
    BY <2>1, <2>2 DEF MarksInv
<1>8. CASE Report
  BY <1>1, <1>8 DEF Report, MarksInv
<1>9. CASE UNCHANGED vars
  BY <1>9 DEF vars, MarksInv
<1>10. QED
  BY <1>2, <1>3, <1>4, <1>5, <1>6, <1>7, <1>8, <1>9 DEF Next

LEMMA PathInvariance ==
  TypeOK /\ MarksInv /\ ReportedPathEndsAtLiquidation /\ [Next]_vars
    => ReportedPathEndsAtLiquidation'
<1> SUFFICES ASSUME TypeOK, MarksInv, ReportedPathEndsAtLiquidation, [Next]_vars
             PROVE  ReportedPathEndsAtLiquidation'
  OBVIOUS
<1>1. CASE Report
  <2>1. phase = "walked" /\ Len(equity) = LastDay
    BY <1>1 DEF Report, MarksInv
  <2>2. PICK rounded \in SUBSET RoundedAway :
          \/ Breached \union rounded = {} /\ reported' = equity
          \/ \E i \in Breached \union rounded :
               IsFirst(i, Breached \union rounded) /\ reported' = CutAt(i)
    BY <1>1 DEF Report
  <2>3. CASE Breached \union rounded = {} /\ reported' = equity
    <3>1. Breached = {}
      BY <2>3
    <3>2. QED
      BY <2>1, <2>3, <3>1, WholePath DEF ReportedPathEndsAtLiquidation
  <2>4. ASSUME NEW i \in Breached \union rounded,
               IsFirst(i, Breached \union rounded), reported' = CutAt(i)
        PROVE  ReportedPathEndsAtLiquidation'
    <3>1. Breached \union rounded \subseteq DOMAIN equity
      BY DEF Breached, RoundedAway
    <3>2. /\ CutAt(i) # <<>>
          /\ Len(CutAt(i)) = i
          /\ CutAt(i)[i] = Nothing
          /\ \A j \in DOMAIN CutAt(i) : CutAt(i)[j] = Nothing => j = i
      BY <2>4, <3>1, CutPath
    <3>3. QED
      BY <2>4, <3>2 DEF ReportedPathEndsAtLiquidation
  <2>5. QED
    BY <2>2, <2>3, <2>4
<1>2. CASE UNCHANGED vars
  BY <1>2 DEF vars, ReportedPathEndsAtLiquidation
<1>3. ASSUME phase' # "reported" PROVE ReportedPathEndsAtLiquidation'
  BY <1>3 DEF ReportedPathEndsAtLiquidation
<1>4. ASSUME Next, ~Report PROVE phase' # "reported"
  BY <1>4 DEF Next, OpenSession, Morning, Rebalance, RebalanceNothing, Evening, Mark
<1>5. QED
  BY <1>1, <1>2, <1>3, <1>4

(* Every path handed to the report is marked on each day up to its end, was  *)
(* worth something on each day before its last, and falls short of the       *)
(* window only at a Liquidation: the cut of `_marked` and `mark_daily` never *)
(* leaves a worthless day behind it nor drops a day in front of it.          *)
THEOREM PathEndsAtLiquidation == Spec => []ReportedPathEndsAtLiquidation
<1>1. Init => MarksInv /\ ReportedPathEndsAtLiquidation
  BY DEF Init, MarksInv, ReportedPathEndsAtLiquidation
<1>2. TypeOK /\ MarksInv /\ ReportedPathEndsAtLiquidation /\ [Next]_vars
        => MarksInv' /\ ReportedPathEndsAtLiquidation'
  BY MarksInvariance, PathInvariance
<1>3. QED
  BY TypeCorrect, <1>1, <1>2, PTL DEF Spec

-----------------------------------------------------------------------------
(* The calendar of the rebalances.  A product of two variables is beyond    *)
(* what the solver decides on its own, so the arithmetic of the Decision    *)
(* Bars stands here, and the steps of the walk see only Due.                *)
Due(n) == n * HoldingDays

LEMMA DueIsANumber ==
  ASSUME NEW n \in Nat
  PROVE  Due(n) \in Nat /\ Due(n + 1) = Due(n) + HoldingDays /\ Due(0) = 0
BY WalkAssumption, SMTT(30) DEF Due

(* Two multiples less than HoldingDays apart are the same. *)
LEMMA OneDueAtATime ==
  ASSUME NEW n \in Nat, NEW q \in Nat, Due(n) < Due(q) + HoldingDays, Due(q) <= Due(n)
  PROVE  q = n
<1> HoldingDays \in Nat \ {0}
  BY WalkAssumption
<1>1. CASE q > n
  <2>1. PICK k \in Nat : q = n + 1 + k
    BY <1>1
  <2>2. q * HoldingDays = n * HoldingDays + HoldingDays + k * HoldingDays
        /\ k * HoldingDays >= 0
    BY <2>1, SMTT(30)
  <2>3. QED
    BY <2>2 DEF Due
<1>2. CASE q < n
  <2>1. PICK k \in Nat : n = q + 1 + k
    BY <1>2
  <2>2. n * HoldingDays = q * HoldingDays + HoldingDays + k * HoldingDays
        /\ k * HoldingDays >= 0
    BY <2>1, SMTT(30)
  <2>3. QED
    BY <2>2 DEF Due
<1>3. QED
  BY <1>1, <1>2

(* A smaller multiple is of a smaller number. *)
LEMMA DueInOrder ==
  ASSUME NEW q \in Nat, NEW n \in Nat, q < n
  PROVE  Due(q) + HoldingDays <= Due(n)
<1>1. PICK k \in Nat : n = q + 1 + k
  OBVIOUS
<1>2. n * HoldingDays = q * HoldingDays + HoldingDays + k * HoldingDays
      /\ k * HoldingDays >= 0
  BY <1>1, WalkAssumption, SMTT(30)
<1>3. QED
  BY <1>2, WalkAssumption DEF Due

(* The Decision Bars are the multiples of HoldingDays inside the window. *)
LEMMA DecisionsAreDue ==
  /\ \A d \in DecisionDays : d \in Nat /\ d < LastDay /\ \E q \in Nat : d = Due(q)
  /\ \A q \in Nat : Due(q) < LastDay => Due(q) \in DecisionDays
<1>1. ASSUME NEW d \in DecisionDays
      PROVE  d \in Nat /\ d < LastDay /\ \E q \in Nat : d = Due(q)
  <2>1. d \in Nat /\ d < LastDay /\ d % HoldingDays = 0
    BY WalkAssumption DEF DecisionDays
  <2>2. d \div HoldingDays \in Nat
        /\ d = HoldingDays * (d \div HoldingDays) + (d % HoldingDays)
    BY <2>1, WalkAssumption, SMTT(30)
  <2> DEFINE q == d \div HoldingDays
  <2>3. d = q * HoldingDays
    BY <2>1, <2>2, WalkAssumption, SMTT(30)
  <2> HIDE DEF q
  <2>4. q \in Nat
    BY <2>2 DEF q
  <2>5. QED
    BY <2>1, <2>3, <2>4 DEF Due
<1>2. ASSUME NEW q \in Nat, Due(q) < LastDay PROVE Due(q) \in DecisionDays
  <2>1. (q * HoldingDays) % HoldingDays = 0
    BY WalkAssumption, SMTT(30)
  <2>2. Due(q) \in Nat
    BY DueIsANumber
  <2>3. QED
    BY <1>2, <2>1, <2>2, WalkAssumption DEF Due, DecisionDays
<1>3. QED
  BY <1>1, <1>2

(* While the n-th is the next one due, a day is a fill day only after it. *)
LEMMA FillsWhenDue ==
  ASSUME NEW n \in Nat, NEW d \in 1 .. LastDay, Due(n) < d - 1 + HoldingDays, d - 1 <= Due(n)
  PROVE  FillDay(d) <=> d = Due(n) + 1
<1>1. Due(n) \in Nat /\ d - 1 \in Nat /\ d \in Nat \ {0}
  BY DueIsANumber, WalkAssumption
<1>2. ASSUME FillDay(d) PROVE d = Due(n) + 1
  <2>1. PICK q \in Nat : d - 1 = Due(q)
    BY <1>2, DecisionsAreDue DEF FillDay
  <2>2. q = n
    BY <2>1, OneDueAtATime
  <2>3. QED
    BY <1>1, <2>1, <2>2
<1>3. ASSUME d = Due(n) + 1 PROVE FillDay(d)
  <2>1. Due(n) = d - 1 /\ Due(n) < LastDay
    BY <1>1, <1>3, WalkAssumption
  <2>2. QED
    BY <1>1, <2>1, DecisionsAreDue DEF FillDay
<1>4. QED
  BY <1>2, <1>3

(* When the next one due is past the window, all of them have been. *)
LEMMA AllDecisionsAreBehind ==
  ASSUME NEW n \in Nat, Due(n) < LastDay + HoldingDays, LastDay <= Due(n)
  PROVE  Cardinality(DecisionDays) = n
<1> DEFINE f == [i \in 1 .. n |-> Due(i - 1)]
<1>1. ASSUME NEW i \in 1 .. n
      PROVE  i - 1 \in Nat /\ Due(i - 1) \in DecisionDays
  <2>1. i - 1 \in Nat /\ i - 1 < n
    OBVIOUS
  <2>2. Due(i - 1) + HoldingDays <= Due(n) /\ Due(i - 1) \in Nat /\ Due(n) \in Nat
    BY <2>1, DueInOrder, DueIsANumber
  <2>3. QED
    BY <2>1, <2>2, DecisionsAreDue, WalkAssumption
<1>2. ASSUME NEW i \in 1 .. n, NEW j \in 1 .. n, Due(i - 1) = Due(j - 1)
      PROVE  i = j
  <2>1. i - 1 \in Nat /\ j - 1 \in Nat /\ Due(i - 1) \in Nat
    BY DueIsANumber
  <2>2. i - 1 = j - 1
    BY <1>2, <2>1, OneDueAtATime, WalkAssumption
  <2>3. QED
    BY <2>2
<1>3. ASSUME NEW d \in DecisionDays PROVE \E i \in 1 .. n : Due(i - 1) = d
  <2>1. PICK q \in Nat : d = Due(q) /\ d < LastDay
    BY DecisionsAreDue
  <2>2. Due(q) \in Nat /\ Due(n) \in Nat
    BY DueIsANumber
  <2>3. CASE q < n
    BY <2>1, <2>3
  <2>4. CASE q = n
    BY <2>1, <2>2, <2>4, WalkAssumption
  <2>5. CASE n < q
    <3>1. Due(n) + HoldingDays <= Due(q)
      BY <2>5, DueInOrder
    <3>2. QED
      BY <2>1, <2>2, <3>1, WalkAssumption
  <2>6. QED
    BY <2>3, <2>4, <2>5
<1>4. f \in Bijection(1 .. n, DecisionDays)
  <2>1. f \in [1 .. n -> DecisionDays]
    BY <1>1
  <2>2. f \in Injection(1 .. n, DecisionDays)
    BY <1>2, <2>1 DEF Injection, IsInjective
  <2>3. f \in Surjection(1 .. n, DecisionDays)
    BY <1>3, <2>1 DEF Surjection
  <2>4. QED
    BY <2>2, <2>3 DEF Bijection
<1>5. ExistsBijection(1 .. n, DecisionDays)
  BY <1>4 DEF ExistsBijection
<1>6. IsFiniteSet(1 .. n) /\ Cardinality(1 .. n) = n
  BY FS_Interval
<1>7. QED
  BY <1>5, <1>6, FS_Bijection

(* The calendar and the records: as many rebalances are recorded as were due *)
(* before today, or up to today once its own has been walked.               *)
DueInv ==
  LET n == Len(selections) IN
  /\ phase \in {"night", "evening", "mark", "walked", "reported"} =>
       Due(n) < day + HoldingDays /\ day <= Due(n)
  /\ phase \in {"morning", "rebalance"} =>
       0 < day /\ Due(n) + 1 < day + HoldingDays /\ day <= Due(n) + 1
  /\ phase = "rebalance" => day = Due(n) + 1

LEMMA DueInvariance == TypeOK /\ DueInv /\ [Next]_vars => DueInv'
<1> SUFFICES ASSUME TypeOK, DueInv, [Next]_vars PROVE DueInv'
  OBVIOUS
<1> DEFINE n == Len(selections)
<1>1. /\ day \in Nat /\ day <= LastDay /\ LastDay \in Nat
      /\ HoldingDays \in Nat \ {0}
      /\ n \in Nat
      /\ Due(n) \in Nat /\ Due(n + 1) = Due(n) + HoldingDays
  <2>1. n \in Nat
    BY DEF TypeOK
  <2>2. QED
    BY <2>1, DueIsANumber, WalkAssumption DEF TypeOK, Days
<1> HIDE DEF n
<1>2. /\ phase \in {"night", "evening", "mark", "walked", "reported"} =>
           Due(n) < day + HoldingDays /\ day <= Due(n)
      /\ phase \in {"morning", "rebalance"} =>
           0 < day /\ Due(n) + 1 < day + HoldingDays /\ day <= Due(n) + 1
      /\ phase = "rebalance" => day = Due(n) + 1
  BY DEF DueInv, n
<1>3. ASSUME n' = n,
             \/ phase' \in {"evening", "mark", "walked", "reported", "night"}
                /\ Due(n) < day' + HoldingDays /\ day' <= Due(n)
             \/ phase' \in {"morning", "rebalance"} /\ 0 < day'
                /\ Due(n) + 1 < day' + HoldingDays /\ day' <= Due(n) + 1
                /\ (phase' = "rebalance" => day' = Due(n) + 1)
      PROVE  DueInv'
  BY <1>3 DEF DueInv, n
<1>4. CASE OpenSession
  <2>1. phase = "night" /\ phase' = "morning" /\ day' = day + 1 /\ n' = n
    BY <1>4 DEF OpenSession, n
  <2>2. QED
    BY <1>1, <1>2, <1>3, <2>1
<1>5. CASE Morning
  <2>1. phase = "morning" /\ day' = day /\ n' = n
        /\ phase' = (IF FillDay(day) THEN "rebalance" ELSE "evening")
    BY <1>5 DEF Morning, n
  <2>2. FillDay(day) <=> day = Due(n) + 1
    BY <1>1, <1>2, <2>1, FillsWhenDue
  <2>3. QED
    BY <1>1, <1>2, <1>3, <2>1, <2>2
<1>6. CASE Rebalance \/ RebalanceNothing
  <2>1. phase = "rebalance" /\ phase' = "evening" /\ day' = day
    BY <1>6 DEF Rebalance, RebalanceNothing
  <2>2. \E symbols, unfilled : Record(symbols, unfilled)
    BY <1>6 DEF Rebalance, RebalanceNothing
  <2>3. n' = n + 1
    BY <2>2 DEF Record, TypeOK, n
  <2>4. Due(n') < day' + HoldingDays /\ day' <= Due(n')
    BY <1>1, <1>2, <2>1, <2>3
  <2>5. QED
    BY <2>1, <2>4 DEF DueInv, n
<1>7. CASE Evening
  <2>1. phase = "evening" /\ phase' = "mark" /\ day' = day /\ n' = n
    BY <1>7 DEF Evening, n
  <2>2. QED
    BY <1>2, <1>3, <2>1
<1>8. CASE Mark
  <2>1. phase = "mark" /\ phase' \in {"walked", "night"} /\ day' = day /\ n' = n
    BY <1>8 DEF Mark, n
  <2>2. QED
    BY <1>2, <1>3, <2>1
<1>9. CASE Report
  <2>1. phase = "walked" /\ phase' = "reported" /\ day' = day /\ n' = n
    BY <1>9 DEF Report, n
  <2>2. QED
    BY <1>2, <1>3, <2>1
<1>10. CASE UNCHANGED vars
  BY <1>10 DEF vars, DueInv
<1>11. QED
  BY <1>4, <1>5, <1>6, <1>7, <1>8, <1>9, <1>10 DEF Next

(* A rebalance records the day it was due on, and splits its plan in two. *)
LEMMA RecordFollowsPlan ==
  ASSUME TypeOK, DueInv, SelectionsFollowPlan, phase = "rebalance", plan' = plan,
         NEW symbols, NEW unfilled, Record(symbols, unfilled),
         symbols \union unfilled = plan[day - 1], symbols \intersect unfilled = {},
         phase' = "evening"
  PROVE  SelectionsFollowPlan'
<1>1. selections \in Seq(Selection) /\ day = Due(Len(selections)) + 1
  BY DEF TypeOK, DueInv
<1>2. /\ Len(selections') = Len(selections) + 1
      /\ \A i \in 1 .. Len(selections) : selections'[i] = selections[i]
      /\ selections'[Len(selections) + 1]
           = [entry |-> day, symbols |-> symbols, unfilled |-> unfilled]
      /\ DOMAIN selections' = 1 .. (Len(selections) + 1)
      /\ DOMAIN selections = 1 .. Len(selections)
  BY <1>1 DEF Record
<1>3. ASSUME NEW i \in DOMAIN selections'
      PROVE  /\ selections'[i].entry = (i - 1) * HoldingDays + 1
             /\ selections'[i].symbols \union selections'[i].unfilled
                  = plan[selections'[i].entry - 1]
             /\ selections'[i].symbols \intersect selections'[i].unfilled = {}
  <2>1. CASE i \in 1 .. Len(selections)
    BY <1>2, <2>1 DEF SelectionsFollowPlan
  <2>2. CASE i = Len(selections) + 1
    <3>1. i - 1 = Len(selections)
      BY <1>1, <2>2
    <3>2. day = (i - 1) * HoldingDays + 1
      BY <1>1, <3>1 DEF Due
    <3>3. QED
      BY <1>2, <2>2, <3>2
  <2>3. QED
    BY <1>1, <1>2, <2>1, <2>2
<1>4. QED
  BY <1>3 DEF SelectionsFollowPlan

LEMMA PlanInvariance ==
  TypeOK /\ MarksInv /\ DueInv /\ SelectionsFollowPlan /\ [Next]_vars
    => SelectionsFollowPlan'
<1> SUFFICES ASSUME TypeOK, MarksInv, DueInv, SelectionsFollowPlan, [Next]_vars
             PROVE  SelectionsFollowPlan'
  OBVIOUS
<1>1. CASE Rebalance
  <2>1. Fillable(bar) \union (plan[day - 1] \ Fillable(bar)) = plan[day - 1]
    BY DEF Fillable
  <2>2. QED
    BY <1>1, <2>1, RecordFollowsPlan DEF Rebalance
<1>2. CASE RebalanceNothing
  BY <1>2, RecordFollowsPlan DEF RebalanceNothing
<1>3. CASE Mark
  <2>1. selections' = selections /\ plan' = plan
        /\ phase = "mark" /\ phase' = (IF day = LastDay THEN "walked" ELSE "night")
    BY <1>3 DEF Mark
  <2>2. ASSUME day = LastDay PROVE Cardinality(DecisionDays) = Len(selections)
    <3>1. Len(selections) \in Nat
          /\ Due(Len(selections)) < LastDay + HoldingDays
          /\ LastDay <= Due(Len(selections))
      BY <2>1, <2>2 DEF TypeOK, DueInv
    <3>2. QED
      BY <3>1, AllDecisionsAreBehind
  <2>3. QED
    BY <2>1, <2>2 DEF SelectionsFollowPlan
<1>4. CASE Report
  BY <1>4 DEF Report, SelectionsFollowPlan
<1>5. CASE OpenSession \/ Morning \/ Evening \/ UNCHANGED vars
  <2>1. selections' = selections /\ plan' = plan
        /\ (phase' \in {"walked", "reported"} => phase' = phase)
    BY <1>5 DEF OpenSession, Morning, Evening, vars
  <2>2. QED
    BY <2>1 DEF SelectionsFollowPlan
<1>6. QED
  BY <1>1, <1>2, <1>3, <1>4, <1>5 DEF Next

(* Every planned rebalance is walked exactly once, in order, on the day after *)
(* its Decision Bar, also where it could fill nothing or had nothing left to  *)
(* fill with, and every name it selected is recorded as bought or unfilled.   *)
THEOREM RebalancesFollowPlan == Spec => []SelectionsFollowPlan
<1>1. Init => MarksInv /\ DueInv /\ SelectionsFollowPlan
  <2>1. Due(0) = 0
    BY DueIsANumber
  <2>2. QED
    BY <2>1, WalkAssumption DEF Init, MarksInv, DueInv, SelectionsFollowPlan
<1>2. TypeOK /\ MarksInv /\ DueInv /\ SelectionsFollowPlan /\ [Next]_vars
        => MarksInv' /\ DueInv' /\ SelectionsFollowPlan'
  BY MarksInvariance, DueInvariance, PlanInvariance
<1>3. QED
  BY TypeCorrect, <1>1, <1>2, PTL DEF Spec
-----------------------------------------------------------------------------
(* The walk runs down.  Of "every walk ends flat" what can be proved: how   *)
(* many steps are left falls with each, the walk does not stop at a night   *)
(* that no day follows, and where it ends the book is closed.               *)
LeftToday == [night |-> 1, morning |-> 5, rebalance |-> 4, evening |-> 3,
              mark |-> 2, walked |-> 1, reported |-> 0]
StepsLeft == 6 * (LastDay - day) + LeftToday[phase]

NightsPass == phase = "night" => day < LastDay

LEMMA StepsAreCounted == TypeOK => StepsLeft \in Nat
<1> SUFFICES ASSUME TypeOK PROVE StepsLeft \in Nat
  OBVIOUS
<1>1. LeftToday[phase] \in Nat
  BY DEF TypeOK, Phases, LeftToday
<1>2. LastDay - day \in Nat
  BY WalkAssumption DEF TypeOK, Days
<1> HIDE DEF LeftToday
<1>3. QED
  BY <1>1, <1>2 DEF StepsLeft

LEMMA NightInvariance == TypeOK /\ NightsPass /\ [Next]_vars => NightsPass'
<1> SUFFICES ASSUME TypeOK, NightsPass, [Next]_vars PROVE NightsPass'
  OBVIOUS
<1>1. CASE Mark
  BY <1>1, WalkAssumption DEF Mark, TypeOK, Days, NightsPass
<1>2. CASE OpenSession \/ Morning \/ Rebalance \/ RebalanceNothing \/ Evening \/ Report
  <2>1. phase' # "night"
    BY <1>2 DEF OpenSession, Morning, Rebalance, RebalanceNothing, Evening, Report
  <2>2. QED
    BY <2>1 DEF NightsPass
<1>3. CASE UNCHANGED vars
  BY <1>3 DEF vars, NightsPass
<1>4. QED
  BY <1>1, <1>2, <1>3 DEF Next

(* Each step takes the walk one nearer to its end. *)
LEMMA EachStepCounts == TypeOK /\ Next => StepsLeft' < StepsLeft
<1> SUFFICES ASSUME TypeOK, Next PROVE StepsLeft' < StepsLeft
  OBVIOUS
<1>1. day \in Nat /\ LastDay \in Nat
  BY WalkAssumption DEF TypeOK, Days
<1>2. CASE OpenSession
  <2>1. day' = day + 1 /\ LeftToday[phase] = 1 /\ LeftToday[phase]' = 5
    BY <1>2 DEF OpenSession, LeftToday
  <2>2. QED
    BY <1>1, <2>1 DEF StepsLeft
<1>3. CASE ~OpenSession
  <2>1. /\ day' = day /\ LeftToday[phase] \in Nat /\ LeftToday[phase]' \in Nat
        /\ LeftToday[phase]' < LeftToday[phase]
    <3>1. CASE Morning
      BY <3>1 DEF Morning, LeftToday
    <3>2. CASE Rebalance \/ RebalanceNothing
      BY <3>2 DEF Rebalance, RebalanceNothing, LeftToday
    <3>3. CASE Evening
      BY <3>3 DEF Evening, LeftToday
    <3>4. CASE Mark
      BY <3>4 DEF Mark, LeftToday
    <3>5. CASE Report
      BY <3>5 DEF Report, LeftToday
    <3>6. QED
      BY <1>3, <3>1, <3>2, <3>3, <3>4, <3>5 DEF Next
  <2>2. QED
    BY <1>1, <2>1 DEF StepsLeft
<1>4. QED
  BY <1>2, <1>3

(* A walk has at most StepsLeft steps before it, in any market: six a day.   *)
(* It passes from every night to a next day, and once it has reported the    *)
(* book is closed.  With fairness, this is that every walk ends flat.        *)
THEOREM WalkRunsDown ==
  Spec => /\ [](StepsLeft \in Nat /\ NightsPass /\ (phase = "reported" => held = {}))
          /\ [][StepsLeft' < StepsLeft]_vars
<1>1. IInv /\ [Next]_vars => IInv'
  BY TypeInvariance, PhaseInvariance, DatesInvariance, PriceInvariance,
     AccountInvariance, ReachableInvariance DEF IInv
<1>2. IInv => TypeOK /\ StepsLeft \in Nat /\ (phase = "reported" => held = {})
  BY StepsAreCounted DEF IInv, PhaseInv
<1>3. Init => NightsPass
  BY WalkAssumption DEF Init, NightsPass
<1>4. TypeOK /\ [Next]_vars => [StepsLeft' < StepsLeft]_vars
  BY EachStepCounts
<1>5. QED
  BY InitIInv, NightInvariance, <1>1, <1>2, <1>3, <1>4, PTL DEF Spec
=============================================================================
