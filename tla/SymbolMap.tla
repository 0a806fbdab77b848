------------------------------ MODULE SymbolMap ------------------------------
(***************************************************************************)
(* Which vendor asset a venue name stood for on a day: data/symbol_map.py,  *)
(* and the joins made with it, `market_cap_panel` of data/market_caps.py    *)
(* and `panel_bars` of data/cmc_prices.py.                                  *)
(*                                                                         *)
(* The vendor's panel is a table of rows by day and permanent id; a day on  *)
(* which some id has a row is a snapshot.  Days are numbered, a day past    *)
(* the last stands for "still open", and a venue symbol is its base asset   *)
(* (every pair is quoted in one asset).  Nothing here keeps state.          *)
(***************************************************************************)
EXTENDS Integers, FiniteSets, FiniteSetsExt

CONSTANTS
  Ids,       \* the vendor's permanent asset ids (`cmc_id`)
  Symbols,   \* the venue symbols a config names, numbered alphabetically
  Tickers,   \* the vendor's names for assets, those of Symbols among them
  LastDay    \* the last day of the window: bounds the calendar

ASSUME SymbolMapAssumption ==
  /\ Ids \subseteq Nat /\ Tickers \subseteq Nat /\ Symbols \subseteq Tickers
  /\ IsFiniteSet(Symbols)
  /\ LastDay \in Nat

Days == 1 .. LastDay
Open == LastDay + 1
Missing == -1

NoRow == [ticker |-> Missing, cap |-> Missing, price |-> Missing, volume |-> Missing]
VendorRows == [ticker : Tickers, cap : Nat \union {Missing},
               price : Nat \union {Missing}, volume : Nat \union {Missing}]
VendorPanel == [Days -> [Ids -> VendorRows \union {NoRow}]]

SeenOn(rows, id) == {t \in Days : rows[t][id] # NoRow}
Snapshots(rows) == UNION {SeenOn(rows, id) : id \in Ids}

NextAfter(t, days) ==
  LET later == {u \in days : u > t} IN IF later = {} THEN Open ELSE Min(later)
LastBefore(t, days) ==
  LET earlier == {u \in days : u < t} IN IF earlier = {} THEN Missing ELSE Max(earlier)

-----------------------------------------------------------------------------
(* Spells: how long an id went by one name *)

(* A run of one ticker starts at the id's first row and wherever its ticker  *)
(* is not that of its row before; absences in between do not end it.         *)
RunStarts(rows, id) ==
  {t \in SeenOn(rows, id) :
     LET before == LastBefore(t, SeenOn(rows, id))
     IN before = Missing \/ rows[before][id].ticker # rows[t][id].ticker}

(* A run lasts until the id's next run, the last one until the first         *)
(* snapshot the id is gone from.                                             *)
UntilLastSeen(rows, id, t) ==   \* Mutation: to the last row of the run
  Max({u \in SeenOn(rows, id) : u < NextAfter(t, RunStarts(rows, id))}) + 1
SpellEnd(rows, id, t) ==
  LET next == NextAfter(t, RunStarts(rows, id))
  IN IF next # Open THEN next ELSE NextAfter(Max(SeenOn(rows, id)), Snapshots(rows))

Links == [id : Ids, base : Tickers, from : Int, until : Int]

symbol_spells(rows) ==
  UNION {{[id |-> id, base |-> rows[t][id].ticker, from |-> t,
           until |-> SpellEnd(rows, id, t)] : t \in RunStarts(rows, id)} : id \in Ids}

-----------------------------------------------------------------------------
(* The map: spells of names the venue uses, corrected by the override table *)

Covers(link, t) == link.from <= t /\ t < link.until
Overlap(a, b) == a.from < b.until /\ b.from < a.until

HandResolved(table) == {link.id : link \in table}

VendorLinks(rows, table) ==
  {link \in symbol_spells(rows) :
     link.id \notin HandResolved(table) /\ link.base \in Symbols} \union table

(* Of the links of one name, or of one id, only neighbours in the order of   *)
(* `valid_from` are compared; ties are neighbours of each other.             *)
Neighbours(a, b, group) ==
  /\ a # b /\ a.from <= b.from
  /\ ~ \E c \in group \ {a, b} : a.from < c.from /\ c.from < b.from

ClaimedTwice(group) == \E a, b \in group : Neighbours(a, b, group) /\ Overlap(a, b)

AmbiguousId(links) ==     \* Mutation: only the ids are checked
  \E id \in Ids : ClaimedTwice({l \in links : l.id = id})
AmbiguousName(links) ==   \* Mutation: only the names are checked
  \E base \in Tickers : ClaimedTwice({l \in links : l.base = base})
AmbiguousTicker(links) ==
  \/ \E base \in Tickers : ClaimedTwice({l \in links : l.base = base})
  \/ \E id \in Ids : ClaimedTwice({l \in links : l.id = id})

(* `cmc_id_for`: every id a link gives the name on a day, and the one it is. *)
IdsOf(links, base, t) == {l.id : l \in {k \in links : k.base = base /\ Covers(k, t)}}
IdOf(links, base, t) ==
  IF IdsOf(links, base, t) = {} THEN Missing
  ELSE CHOOSE id \in IdsOf(links, base, t) : TRUE

-----------------------------------------------------------------------------
(* The vendor's panel on venue symbols, joined at each row's own date *)

RowOf(rows, links, s, t) ==
  LET id == IdOf(links, s, t) IN IF id = Missing THEN NoRow ELSE rows[t][id]

market_cap_panel(rows, links) ==
  [s \in Symbols |-> [t \in Days |-> RowOf(rows, links, s, t).cap]]

(* A bar: open, high and low follow the close here, and a missing close is a *)
(* missing bar.                                                              *)
NoBar == [close |-> Missing, volume |-> Missing]
Bars == [close : Nat, volume : Nat \union {Missing}] \union {NoBar}
BarFrames == [Symbols -> [Days -> Bars]]

panel_bars(rows, links) ==
  [s \in Symbols |-> [t \in Days |->
     LET row == RowOf(rows, links, s, t)
     IN IF row.price > 0 THEN [close |-> row.price, volume |-> row.volume] ELSE NoBar]]

(* The vendor must have a snapshot on every day between its first and last.  *)
TooCoarse(rows) ==
  \/ Cardinality(Snapshots(rows)) < 2
  \/ \E t \in Snapshots(rows) : NextAfter(t, Snapshots(rows)) \notin {t + 1, Open}
=============================================================================
