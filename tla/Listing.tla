------------------------------- MODULE Listing -------------------------------
(***************************************************************************)
(* How the Universe is enumerated from the archive's bucket:                *)
(* `build_archive_universe` and `coverage_for_symbol` of data/universe.py   *)
(* over `walk_listing` of data/archive_listing.py.                          *)
(*                                                                         *)
(* A listing is read one page at a time, one prefix after another, while    *)
(* the archive goes on publishing: a day's file when the day is over, a     *)
(* month's when the month is, each beside a checksum, and a day's file is   *)
(* kept when its month is rolled up.                                        *)
(***************************************************************************)
EXTENDS Integers, Sequences, FiniteSets, FiniteSetsExt

CONSTANTS
  NSymbols,       \* symbols, numbered in the order of their names
  Quoted,         \* the symbols quoted in the asset asked for
  LastDay,        \* bounds the calendar
  DaysPerMonth,   \* days of one monthly partition
  WindowStart, WindowEnd,   \* the days the panel is asked for
  ArchiveFloor,   \* the first day the archive publishes
  MaxKeys,        \* entries on a page
  MaxPages,       \* pages before a listing is given up (_MAX_PAGES)
  Trades,         \* the days each symbol may turn out to have traded on
  MaxPublished    \* bounds what is published while the Universe is built

Symbols == 1 .. NSymbols
Days == 0 .. LastDay
MonthOf(t) == t \div DaysPerMonth
FirstDayOf(month) == month * DaysPerMonth
Months == 0 .. MonthOf(LastDay)

ASSUME ListingAssumption ==
  /\ NSymbols \in Nat
  /\ Quoted \subseteq Symbols
  /\ LastDay \in Nat /\ DaysPerMonth \in Nat \ {0}
  /\ WindowStart \in Int /\ WindowEnd \in Int /\ ArchiveFloor \in Int
  /\ MaxKeys \in Nat \ {0} /\ MaxPages \in Nat \ {0}
  /\ Trades \subseteq [Symbols -> SUBSET Days]
  /\ MaxPublished \in Nat

Kinds == {"zip", "checksum"}
Objects ==
  [dir : {"monthly"}, symbol : Symbols, at : Months, kind : Kinds]
    \union [dir : {"daily"}, symbol : Symbols, at : Days, kind : Kinds]

VARIABLES
  bucket,      \* the objects published
  trades,      \* the days each symbol trades on
  today,       \* the day that is not over yet
  began,       \* the day on which the enumeration began
  published,   \* objects published since
  step,        \* what is being listed: "symbols", "months" or "days", or the end
  symbol,      \* whose partitions are listed
  months,      \* the months they cover (of `coverage_for_symbol`)
  marker,      \* the marker of the next page
  pages,       \* the pages of this listing
  todo,        \* the symbols not listed yet
  coverages,   \* the coverage of those that were
  panel,       \* the Universe: the days each symbol is tradeable
  stood        \* history: the bucket when this symbol's listing began

archive == <<bucket, trades, today, began, published>>
client == <<step, symbol, months, marker, pages, todo, coverages, panel, stood>>
vars == <<archive, client>>

-----------------------------------------------------------------------------
(* The bucket *)

(* Where an entry comes in its listing: a partition's checksum right after   *)
(* the partition, and partitions in the order of their dates.                *)
Position(o) == 2 * o.at + (IF o.kind = "zip" THEN 0 ELSE 1)
BeforeAll == -1

Entries(what, s, objects) ==
  CASE what = "symbols" -> {o.symbol : o \in {p \in objects : p.dir = "monthly"}}
    [] what = "months" ->
         {Position(o) : o \in {p \in objects : p.dir = "monthly" /\ p.symbol = s}}
    [] what = "days" ->
         {Position(o) : o \in {p \in objects : p.dir = "daily" /\ p.symbol = s}}

(* The months, or days, of a symbol published with their checksums.          *)
Checked(dir, s, objects) ==
  {o.at : o \in {p \in objects :
     /\ p.dir = dir /\ p.symbol = s /\ p.kind = "zip"
     /\ [p EXCEPT !.kind = "checksum"] \in objects}}

(* A page is the first entries after the marker, and says whether it is all. *)
After(entries, mark) == {p \in entries : p > mark}
Page(entries, mark) ==
  {p \in After(entries, mark) :
     Cardinality({q \in After(entries, mark) : q < p}) < MaxKeys}
Truncated(entries, mark) == Page(entries, mark) # After(entries, mark)

-----------------------------------------------------------------------------
(* What a listing says *)

Listed(read) == UNION {read[n] : n \in DOMAIN read}

(* `_verified_partitions`: both the partition and its checksum.              *)
ZippedOnly(keys) == {p \div 2 : p \in {q \in keys : q % 2 = 0}}  \* Mutation
Verified(keys) == {p \div 2 : p \in {q \in keys : q % 2 = 0 /\ q + 1 \in keys}}

(* The days asked for are those after the last month covered: the marker     *)
(* sorts behind every day of it.                                             *)
AfterNextMonth(covered) ==   \* Mutation: behind every day of the month after
  2 * FirstDayOf(Max(covered) + 2) - 1
AfterLastMonth(covered) == 2 * FirstDayOf(Max(covered) + 1) - 1

build_universe_panel(covers) ==
  [s \in {c.symbol : c \in covers} |->
     {t \in WindowStart .. WindowEnd :
        t >= ArchiveFloor /\ \E c \in covers :
          c.symbol = s /\ (MonthOf(t) \in c.months \/ t \in c.daily_only_dates)}]

-----------------------------------------------------------------------------
(* The enumeration *)

Listings == {"symbols", "months", "days"}
Here == Entries(step, symbol, bucket)
LastPage == step \in Listings /\ ~ Truncated(Here, marker)
Keys == Listed(Append(pages, Page(Here, marker)))

(* A listing opens with a marker of its own and has no pages yet.            *)
Open(mark) == pages' = <<>> /\ marker' = mark

(* On to the first symbol left, or to the panel when there is none.          *)
ListAgain(left, covers) ==   \* Mutation: the symbol stays among those left
  /\ coverages' = covers
  /\ months' = {}
  /\ Open(BeforeAll)
  /\ \/ /\ left = {}
        /\ step' = "built" /\ panel' = build_universe_panel(covers)
        /\ UNCHANGED <<symbol, todo, stood>>
     \/ /\ left # {}
        /\ step' = "months"
        /\ symbol' = Min(left) /\ todo' = left /\ stood' = bucket
        /\ UNCHANGED panel
ListSymbol(left, covers) ==
  /\ coverages' = covers
  /\ months' = {}
  /\ Open(BeforeAll)
  /\ \/ /\ left = {}
        /\ step' = "built" /\ panel' = build_universe_panel(covers)
        /\ UNCHANGED <<symbol, todo, stood>>
     \/ /\ left # {}
        /\ step' = "months"
        /\ symbol' = Min(left) /\ todo' = left \ {Min(left)} /\ stood' = bucket
        /\ UNCHANGED panel

(* `walk_listing` takes another page while the last one was not all.         *)
PageAgain ==   \* Mutation: from the marker before the page
  /\ step \in Listings /\ Truncated(Here, marker) /\ Len(pages) + 1 < MaxPages
  /\ pages' = Append(pages, Page(Here, marker))
  /\ UNCHANGED <<archive, step, symbol, months, marker, todo, coverages, panel, stood>>
NextPage ==
  /\ step \in Listings /\ Truncated(Here, marker) /\ Len(pages) + 1 < MaxPages
  /\ pages' = Append(pages, Page(Here, marker))
  /\ marker' = Max(Page(Here, marker))
  /\ UNCHANGED <<archive, step, symbol, months, todo, coverages, panel, stood>>

(* A page that is not a listing, does not advance, or was one too many.      *)
GiveUp ==
  /\ step \in Listings
  /\ step' = "failed"
  /\ UNCHANGED <<archive, symbol, months, marker, pages, todo, coverages, panel, stood>>

SymbolsListed ==
  /\ step = "symbols" /\ LastPage
  /\ ListSymbol(Keys \intersect Quoted, coverages)
  /\ UNCHANGED archive

(* A symbol without a verified month is dropped, and its days are not read.  *)
MonthsListed ==
  /\ step = "months" /\ LastPage
  /\ \/ /\ Verified(Keys) = {} /\ ListSymbol(todo, coverages)
     \/ /\ Verified(Keys) # {}
        /\ months' = Verified(Keys)
        /\ step' = "days" /\ Open(AfterLastMonth(Verified(Keys)))
        /\ UNCHANGED <<symbol, todo, coverages, panel, stood>>
  /\ UNCHANGED archive

Coverage ==
  [symbol |-> symbol, months |-> months, daily_only_dates |-> Verified(Keys),
   since |-> stood]
DaysListed ==
  /\ step = "days" /\ LastPage
  /\ ListSymbol(todo, coverages \union {Coverage})
  /\ UNCHANGED archive

-----------------------------------------------------------------------------
(* The archive: an object is published once what it holds is over, a month   *)
(* only after the symbol's earlier ones.                                     *)

TradedIn(s, month) == \E t \in trades[s] : MonthOf(t) = month
Due(o, now) ==
  \/ o.dir = "daily" /\ o.at \in trades[o.symbol] /\ o.at < now
  \/ o.dir = "monthly" /\ TradedIn(o.symbol, o.at) /\ FirstDayOf(o.at + 1) <= now

Publish ==
  /\ published < MaxPublished
  /\ \E o \in Objects \ bucket :
       /\ Due(o, today)
       /\ o.dir = "monthly" =>
            \A month \in Months :
              month < o.at /\ TradedIn(o.symbol, month)
                => month \in Checked("monthly", o.symbol, bucket)
       /\ bucket' = bucket \union {o}
  /\ published' = published + 1
  /\ UNCHANGED <<trades, today, began, client>>

(* Late at the outset are files of the day before, and of the month before   *)
(* unless the one after it is about to end.                                  *)
MayBeLate(o) ==
  \/ o.dir = "daily" /\ o.at = today - 1
  \/ /\ o.dir = "monthly" /\ o.at = MonthOf(today) - 1
     /\ MonthOf(today + 1) = MonthOf(today)

(* An enumeration sees midnight once at the most.                            *)
NewDay ==
  /\ today = began /\ today < LastDay
  /\ today' = today + 1
  /\ UNCHANGED <<bucket, trades, began, published, client>>

Init ==
  /\ trades \in Trades /\ today \in Days /\ began = today /\ published = 0
  /\ \E late \in SUBSET {o \in Objects : Due(o, today) /\ MayBeLate(o)} :
       bucket = {o \in Objects : Due(o, today)} \ late
  /\ step = "symbols" /\ symbol = BeforeAll /\ months = {}
  /\ marker = BeforeAll /\ pages = <<>> /\ todo = {} /\ coverages = {} /\ panel = <<>>
  /\ stood = bucket

Next ==
  \/ NextPage \/ GiveUp \/ SymbolsListed \/ MonthsListed \/ DaysListed
  \/ Publish \/ NewDay

Spec == Init /\ [][Next]_vars

-----------------------------------------------------------------------------
(* Properties *)

Coverages ==
  [symbol : Symbols, months : SUBSET Months, daily_only_dates : SUBSET Days,
   since : SUBSET Objects]

(* Type invariant of the bucket and of the enumeration's locals. *)
TypeOK ==
  /\ bucket \subseteq Objects /\ stood \subseteq Objects
  /\ trades \in Trades /\ today \in Days /\ began \in Days /\ published \in Nat
  /\ step \in Listings \union {"built", "failed"}
  /\ symbol \in Symbols \union {BeforeAll} /\ todo \subseteq Symbols
  /\ months \subseteq Months /\ marker \in Int /\ pages \in Seq(SUBSET Int)
  /\ coverages \subseteq Coverages
  /\ step \in {"months", "days"} => symbol \in Symbols \ todo
  /\ step = "days" => months # {}

Opening == IF step = "days" THEN AfterLastMonth(months) ELSE BeforeAll

(* However the bucket grows between two pages, a listing skips nothing that  *)
(* stood when it began, invents nothing, and returns nothing twice: every    *)
(* page lies after the one before it.                                        *)
WalkMissesNothing ==
  step \in Listings =>
    /\ \A p \in Entries(step, symbol, stood) :
         Opening < p /\ p <= marker => p \in Listed(pages)
    /\ Listed(pages) \subseteq Entries(step, symbol, bucket)
    /\ \A n \in DOMAIN pages : \A p \in pages[n] :
         p <= marker /\ \A m \in 1 .. n - 1 : \A q \in pages[m] : q < p

(* A coverage holds every month that could be verified when its listing      *)
(* began, and every such day after its last month - and no month or day that *)
(* the archive does not publish with its checksum.                           *)
CoverageIsComplete ==
  \A c \in coverages :
    /\ Checked("monthly", c.symbol, c.since) \subseteq c.months
    /\ c.months \subseteq Checked("monthly", c.symbol, bucket)
    /\ c.daily_only_dates \subseteq Checked("daily", c.symbol, bucket)
    /\ \A t \in Checked("daily", c.symbol, c.since) :
         t >= FirstDayOf(Max(c.months) + 1) => t \in c.daily_only_dates

(* Between the listing of a symbol's months and that of its days no day is   *)
(* lost, though its month may be rolled up in that very moment: what was     *)
(* published either way when they began is tradeable in the panel.           *)
NoDayIsLost ==
  step = "built" =>
    \A c \in coverages : \A t \in WindowStart .. WindowEnd :
      /\ t >= ArchiveFloor
      /\ \/ t \in Checked("daily", c.symbol, c.since)
         \/ MonthOf(t) \in Checked("monthly", c.symbol, c.since)
      => t \in panel[c.symbol]
=============================================================================
