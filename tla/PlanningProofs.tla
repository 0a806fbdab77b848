---------------------------- MODULE PlanningProofs ----------------------------
(***************************************************************************)
(* Theorems of Planning, for any assets, names, panels, look-backs, holding *)
(* periods, quantiles and windows: no decision looks ahead, a name is one   *)
(* asset, and a growing panel never makes it another.                       *)
(*                                                                         *)
(* The argument follows the data.  What a rebalance reads of the vendor's   *)
(* panel it reads through the symbol map, and the map of a later panel is   *)
(* another map; but where an asset has a row, the link that covers the row  *)
(* follows from the rows before it alone (SpellReaches), so the rows        *)
(* themselves come out the same (RowOfAgrees), and with them bars,          *)
(* capitalisations, floor and signal.                                       *)
(***************************************************************************)
EXTENDS Planning, Lemmas, TLAPS

-----------------------------------------------------------------------------
(* Least and greatest members *)

LEMMA MaxIsMember ==
  ASSUME NEW S, S \subseteq Days, S # {}
  PROVE  Max(S) \in S /\ \A y \in S : y <= Max(S)
<1>1. LastDay \in Int /\ S \subseteq Int /\ \A x \in S : x <= LastDay
  BY SymbolMapAssumption DEF Days
<1>. QED
  BY <1>1, MaxOfBounded

LEMMA DaysAreDays ==
  /\ Days \subseteq Nat /\ LastDay \in Nat /\ Open \in Int /\ Open \notin Days
  /\ \A u \in Days : u \in Int /\ 1 <= u /\ u <= LastDay /\ u < Open
BY SymbolMapAssumption DEF Days, Open

(* The next day of a set after t, or Open, and no day of it in between. *)
LEMMA NextAfterIsNext ==
  ASSUME NEW S, S \subseteq Days, NEW t \in Days
  PROVE  /\ NextAfter(t, S) \in Int /\ t < NextAfter(t, S)
         /\ NextAfter(t, S) # Open => NextAfter(t, S) \in S
         /\ \A u \in S : t < u => NextAfter(t, S) <= u /\ NextAfter(t, S) # Open
<1>. DEFINE L == {u \in S : u > t}
<1>1. /\ Open \in Int /\ t \in Int /\ t < Open
      /\ \A u \in S : u \in Int /\ u \in Nat /\ u < Open
  BY DaysAreDays
<1>2. CASE L = {}
  BY <1>1, <1>2 DEF NextAfter
<1>3. CASE L # {}
  <2>1. Min(L) \in L /\ \A u \in L : Min(L) <= u
    <3>1. L \subseteq Nat
      BY <1>1
    <3>. QED
      BY <1>3, <3>1, MinIsMember
  <2>2. NextAfter(t, S) = Min(L)
    BY <1>3 DEF NextAfter
  <2>3. Min(L) \in S /\ t < Min(L)
    BY <1>1, <2>1
  <2>4. \A u \in S : t < u => u \in L
    BY <1>1
  <2>5. \A u \in S : t < u => Min(L) <= u
    BY <2>1, <2>4
  <2>6. Min(L) \in Int
    BY <1>1, <2>3
  <2>7. Min(L) # Open
    BY <1>1, <2>3
  <2>. QED
    BY <2>2, <2>3, <2>5, <2>6, <2>7
<1>. QED
  BY <1>2, <1>3

-----------------------------------------------------------------------------
(* Spells: what a panel's past says of an asset's name *)

AgreeUpTo(rows1, rows2, d) == \A t \in Days : t < d => rows1[t] = rows2[t]

LEMMA SeenAreDays ==
  ASSUME NEW rows, NEW id
  PROVE  /\ SeenOn(rows, id) \subseteq Days
         /\ RunStarts(rows, id) \subseteq SeenOn(rows, id)
BY DEF SeenOn, RunStarts

LEMMA SnapshotsAreDays ==
  ASSUME NEW rows
  PROVE  Snapshots(rows) \subseteq Days
BY SeenAreDays DEF Snapshots

(* A run that starts before d starts in either of two panels that agree      *)
(* before d.                                                                 *)
LEMMA RunStartsAgree ==
  ASSUME NEW rows1, NEW rows2, NEW d \in Days, AgreeUpTo(rows1, rows2, d),
         NEW id, NEW t \in RunStarts(rows1, id), t < d
  PROVE  t \in RunStarts(rows2, id)
<1>. DEFINE before1 == {u \in SeenOn(rows1, id) : u < t}
            before2 == {u \in SeenOn(rows2, id) : u < t}
<1>1. t \in Days /\ t \in Int /\ d \in Int /\ \A u \in Days : u \in Int /\ 1 <= u
  BY SeenAreDays, DaysAreDays
<1>2. \A u \in Days : u <= t => rows1[u] = rows2[u]
  BY <1>1 DEF AgreeUpTo
<1>3. t \in SeenOn(rows1, id) /\ t \in SeenOn(rows2, id)
  BY <1>1, <1>2, SeenAreDays DEF SeenOn
<1>4. before1 = before2
  <2>1. \A u \in Days : u < t => (u \in SeenOn(rows1, id) <=> u \in SeenOn(rows2, id))
    BY <1>1, <1>2 DEF SeenOn
  <2>2. \A u : u \in before1 <=> u \in before2
    BY <2>1, SeenAreDays
  <2>. QED
    BY <2>2, Zenon
<1>5. LastBefore(t, SeenOn(rows1, id)) = LastBefore(t, SeenOn(rows2, id))
  BY <1>4 DEF LastBefore
<1>6. CASE before1 = {}
  <2>1. LastBefore(t, SeenOn(rows2, id)) = Missing
    BY <1>4, <1>6 DEF LastBefore
  <2>. QED
    BY <1>3, <2>1 DEF RunStarts
<1>7. CASE before1 # {}
  <2>1. LastBefore(t, SeenOn(rows1, id)) = Max(before1)
    BY <1>7 DEF LastBefore
  <2>2. Max(before1) \in before1
    BY <1>7, SeenAreDays, MaxIsMember
  <2>3. PICK u \in Days : u = Max(before1) /\ u < t
    BY <2>2, SeenAreDays
  <2>4. u # Missing /\ rows1[u] = rows2[u] /\ rows1[t] = rows2[t]
    BY <1>1, <1>2 , <2>3 DEF Missing
  <2>5. rows1[u][id].ticker # rows1[t][id].ticker
    BY <2>1, <2>3, <2>4 DEF RunStarts
  <2>. QED
    BY <1>3, <1>5, <2>1, <2>3, <2>4, <2>5 DEF RunStarts
<1>. QED
  BY <1>6, <1>7

(* A spell ends after it starts. *)
LEMMA SpellsLast ==
  ASSUME NEW rows, NEW id \in Ids, NEW t \in RunStarts(rows, id)
  PROVE  SpellEnd(rows, id, t) \in Int /\ t < SpellEnd(rows, id, t)
<1>. DEFINE next == NextAfter(t, RunStarts(rows, id))
            last == Max(SeenOn(rows, id))
<1>1. t \in Days /\ t \in SeenOn(rows, id) /\ RunStarts(rows, id) \subseteq Days
  BY SeenAreDays
<1>2. next \in Int /\ t < next
  BY <1>1, NextAfterIsNext
<1>3. last \in SeenOn(rows, id) /\ t <= last
  BY <1>1, SeenAreDays, MaxIsMember
<1>4. last \in Days
  BY <1>3, SeenAreDays
<1>5. NextAfter(last, Snapshots(rows)) \in Int /\ last < NextAfter(last, Snapshots(rows))
  BY <1>4, SnapshotsAreDays, NextAfterIsNext
<1>6. t \in Int /\ last \in Int
  BY <1>1, <1>4, DaysAreDays
<1>. QED
  BY <1>2, <1>3, <1>5, <1>6 DEF SpellEnd

(* Where an asset has a row, the spell over the row starts and reaches it in *)
(* any panel that is the same up to it.                                      *)
LEMMA SpellReaches ==
  ASSUME NEW rows1, NEW rows2, NEW d \in Days, AgreeUpTo(rows1, rows2, d),
         NEW id \in Ids, NEW f \in RunStarts(rows1, id),
         NEW t \in SeenOn(rows1, id), t < d,
         f <= t, t < SpellEnd(rows1, id, f)
  PROVE  f \in RunStarts(rows2, id) /\ t < SpellEnd(rows2, id, f)
<1>. DEFINE next1 == NextAfter(f, RunStarts(rows1, id))
            next2 == NextAfter(f, RunStarts(rows2, id))
            last2 == Max(SeenOn(rows2, id))
<1>1. f \in Days /\ t \in Days /\ f \in Int /\ t \in Int /\ d \in Int
  BY SeenAreDays, DaysAreDays
<1>2. f \in RunStarts(rows2, id)
  BY <1>1, RunStartsAgree
<1>3. AgreeUpTo(rows2, rows1, d)
  BY DEF AgreeUpTo
<1>4. t \in SeenOn(rows2, id)
  BY <1>1, SeenAreDays DEF SeenOn, AgreeUpTo
<1>5. CASE next2 # Open
  <2>1. next2 \in RunStarts(rows2, id) /\ f < next2 /\ next2 \in Int
    BY <1>1, <1>5, SeenAreDays, NextAfterIsNext
  <2>2. ASSUME next2 <= t PROVE FALSE
    <3>1. next2 \in RunStarts(rows1, id)
      BY <1>1, <1>3, <2>1, <2>2, RunStartsAgree
    <3>2. next1 <= next2 /\ next1 # Open /\ next1 \in Int
      BY <1>1, <2>1, <3>1, SeenAreDays, NextAfterIsNext
    <3>3. SpellEnd(rows1, id, f) = next1
      BY <3>2 DEF SpellEnd
    <3>. QED
      BY <1>1, <2>1, <2>2, <3>2, <3>3
  <2>3. SpellEnd(rows2, id, f) = next2
    BY <1>5 DEF SpellEnd
  <2>. QED
    BY <1>1, <1>2, <2>1, <2>2, <2>3
<1>6. CASE next2 = Open
  <2>1. SpellEnd(rows2, id, f) = NextAfter(last2, Snapshots(rows2))
    BY <1>6 DEF SpellEnd
  <2>2. last2 \in Days /\ last2 \in Int /\ t <= last2
    BY DaysAreDays, <1>4, SeenAreDays, MaxIsMember
  <2>3. NextAfter(last2, Snapshots(rows2)) \in Int
        /\ last2 < NextAfter(last2, Snapshots(rows2))
    BY <2>2, SnapshotsAreDays, NextAfterIsNext
  <2>. QED
    BY <1>1, <1>2, <2>1, <2>2, <2>3
<1>. QED
  BY <1>5, <1>6

-----------------------------------------------------------------------------
(* Links: one asset per name *)

ProperLinks(links) == links \subseteq Links /\ \A l \in links : l.from < l.until

LEMMA LinksAreProper ==
  ASSUME NEW rows \in VendorPanel, NEW table \in Tables
  PROVE  ProperLinks(VendorLinks(rows, table))
<1>1. ASSUME NEW link \in symbol_spells(rows)
      PROVE  link \in Links /\ link.from < link.until
  <2>0. PICK id \in Ids :
          link \in {[id |-> id, base |-> rows[t][id].ticker, from |-> t,
                     until |-> SpellEnd(rows, id, t)] : t \in RunStarts(rows, id)}
    BY DEF symbol_spells
  <2>1. PICK t \in RunStarts(rows, id) :
          link = [id |-> id, base |-> rows[t][id].ticker, from |-> t,
                  until |-> SpellEnd(rows, id, t)]
    BY <2>0
  <2>2. t \in Days /\ t \in Int /\ rows[t][id] # NoRow
    BY SeenAreDays, DaysAreDays DEF SeenOn
  <2>3. rows[t][id] \in VendorRows
    BY <2>2 DEF VendorPanel
  <2>4. rows[t][id].ticker \in Tickers
    BY <2>3 DEF VendorRows
  <2>5. SpellEnd(rows, id, t) \in Int /\ t < SpellEnd(rows, id, t)
    BY SpellsLast
  <2>. QED
    BY <2>1, <2>2, <2>4, <2>5 DEF Links
<1>2. \A link \in table : link \in Links /\ link.from < link.until
  BY PlanningAssumption
<1>. QED
  BY <1>1, <1>2 DEF ProperLinks, VendorLinks

(* Comparing neighbours is enough: where two links of one group cover a day, *)
(* the first of them overlaps the next that starts after it.                 *)
LEMMA NoTwoClaims ==
  ASSUME NEW group, ProperLinks(group), ~ ClaimedTwice(group),
         NEW a \in group, NEW b \in group, NEW t \in Days,
         Covers(a, t), Covers(b, t), a.from <= b.from
  PROVE  a = b
<1>1. SUFFICES ASSUME a # b PROVE FALSE
  OBVIOUS
<1>2. /\ \A c \in group : c.from \in Int /\ c.until \in Int /\ c.from < c.until
      /\ t \in Int
  BY DaysAreDays DEF ProperLinks, Links
<1>3. a.from <= t /\ t < a.until /\ b.from <= t /\ t < b.until
  BY DEF Covers
<1>4. CASE Neighbours(a, b, group)
  <2>1. Overlap(a, b)
    BY <1>2, <1>3 DEF Overlap
  <2>. QED
    BY <1>4, <2>1 DEF ClaimedTwice
<1>5. CASE ~ Neighbours(a, b, group)
  <2>. DEFINE later == {c.from : c \in {e \in group : a.from < e.from}}
  <2>1. PICK c0 \in group : a.from < c0.from /\ c0.from < b.from
    BY <1>1, <1>5 DEF Neighbours
  <2>2. PICK x \in later : \A y \in later : x <= y
    <3>1. later # {} /\ later \subseteq Int
      BY <1>2, <2>1
    <3>2. \A y \in later : a.from <= y
      BY <1>2
    <3>3. a.from \in Int
      BY <1>2
    <3>. HIDE DEF later
    <3>. QED
      BY <3>1, <3>2, <3>3, LeastOfInts
  <2>3. PICK c \in group : a.from < c.from /\ x = c.from
    BY <2>2
  <2>4. \A e \in group : a.from < e.from => c.from <= e.from
    BY <2>2, <2>3
  <2>5. a # c /\ c.from < b.from
    BY <1>2, <2>1, <2>3, <2>4
  <2>6. Neighbours(a, c, group)
    BY <1>2, <2>3, <2>4, <2>5 DEF Neighbours
  <2>7. Overlap(a, c)
    BY <1>2, <1>3, <2>3, <2>5 DEF Overlap
  <2>. QED
    BY <2>6, <2>7 DEF ClaimedTwice
<1>. QED
  BY <1>4, <1>5

LEMMA OneLinkADay ==
  ASSUME NEW links, ProperLinks(links), ~ AmbiguousTicker(links),
         NEW a \in links, NEW b \in links, NEW t \in Days,
         Covers(a, t), Covers(b, t), a.base = b.base \/ a.id = b.id
  PROVE  a = b
<1>1. /\ a.from \in Int /\ b.from \in Int
      /\ a.base \in Tickers /\ a.id \in Ids
  BY DEF ProperLinks, Links
<1>2. ASSUME NEW group, group \subseteq links, a \in group, b \in group,
             ~ ClaimedTwice(group)
      PROVE  a = b
  <2>1. ProperLinks(group)
    BY <1>2 DEF ProperLinks
  <2>2. CASE a.from <= b.from
    BY <1>2, <2>1, <2>2, NoTwoClaims
  <2>3. CASE b.from <= a.from
    BY <1>2, <2>1, <2>3, NoTwoClaims
  <2>. QED
    BY <1>1, <2>2, <2>3
<1>3. CASE a.base = b.base
  <2>. DEFINE group == {l \in links : l.base = a.base}
  <2>1. ~ ClaimedTwice(group)
    BY <1>1 DEF AmbiguousTicker
  <2>2. group \subseteq links /\ a \in group /\ b \in group
    BY <1>3
  <2>. HIDE DEF group
  <2>. QED
    BY <1>2, <2>1, <2>2
<1>4. CASE a.id = b.id
  <2>. DEFINE group == {l \in links : l.id = a.id}
  <2>1. ~ ClaimedTwice(group)
    BY <1>1 DEF AmbiguousTicker
  <2>2. group \subseteq links /\ a \in group /\ b \in group
    BY <1>4
  <2>. HIDE DEF group
  <2>. QED
    BY <1>2, <2>1, <2>2
<1>. QED
  BY <1>3, <1>4

(* What `cmc_id_for` finds is what some link says of that day. *)
LEMMA IdIsOfALink ==
  ASSUME NEW links, NEW base, NEW t, IdOf(links, base, t) # Missing
  PROVE  \E l \in links : l.base = base /\ Covers(l, t) /\ l.id = IdOf(links, base, t)
<1>1. IdsOf(links, base, t) # {}
  BY DEF IdOf
<1>2. IdOf(links, base, t) \in IdsOf(links, base, t)
  BY <1>1 DEF IdOf
<1>. QED
  BY <1>2 DEF IdsOf

(* In an unambiguous map it is what every such link says. *)
LEMMA IdOfLink ==
  ASSUME NEW links, ProperLinks(links), ~ AmbiguousTicker(links),
         NEW l \in links, NEW t \in Days, Covers(l, t)
  PROVE  IdOf(links, l.base, t) = l.id /\ l.id # Missing
<1>1. l.id \in IdsOf(links, l.base, t)
  BY DEF IdsOf
<1>2. IdOf(links, l.base, t) \in IdsOf(links, l.base, t)
  BY <1>1 DEF IdOf
<1>3. PICK k \in links : k.base = l.base /\ Covers(k, t) /\ k.id = IdOf(links, l.base, t)
  BY <1>2 DEF IdsOf
<1>4. k = l
  BY <1>3, OneLinkADay
<1>5. l.id \in Nat
  BY SymbolMapAssumption DEF ProperLinks, Links
<1>6. l.id # Missing
  BY <1>5 DEF Missing
<1>. QED
  BY <1>3, <1>4, <1>6

-----------------------------------------------------------------------------
(* Rows: what is read through the map does not depend on what comes later *)

(* A link over a row that is there is a link of every panel that agrees up   *)
(* to that row.                                                              *)
LEMMA LinkCarriesOver ==
  ASSUME NEW rows1, NEW rows2, NEW table, NEW d \in Days, AgreeUpTo(rows1, rows2, d),
         NEW l \in VendorLinks(rows1, table), l.id \in Ids,
         NEW t \in SeenOn(rows1, l.id), t < d, Covers(l, t)
  PROVE  \E k \in VendorLinks(rows2, table) :
           k.base = l.base /\ k.id = l.id /\ Covers(k, t)
<1>1. CASE l \in table
  BY <1>1 DEF VendorLinks
<1>2. CASE l \notin table
  <2>1. l \in symbol_spells(rows1) /\ l.id \notin HandResolved(table) /\ l.base \in Symbols
    BY <1>2 DEF VendorLinks
  <2>2. PICK id \in Ids :
          l \in {[id |-> id, base |-> rows1[f][id].ticker, from |-> f,
                  until |-> SpellEnd(rows1, id, f)] : f \in RunStarts(rows1, id)}
    BY <2>1 DEF symbol_spells
  <2>3. PICK f \in RunStarts(rows1, id) :
          l = [id |-> id, base |-> rows1[f][id].ticker, from |-> f,
               until |-> SpellEnd(rows1, id, f)]
    BY <2>2
  <2>4. l.id = id /\ l.base = rows1[f][id].ticker /\ f <= t /\ t < SpellEnd(rows1, id, f)
    BY <2>3 DEF Covers
  <2>5. f \in RunStarts(rows2, id) /\ t < SpellEnd(rows2, id, f)
    BY <2>4, SpellReaches
  <2>6. rows2[f] = rows1[f]
    <3>1. f \in Days /\ t \in Days
      BY SeenAreDays
    <3>2. f < d
      BY <2>4, <3>1, DaysAreDays
    <3>. QED
      BY <3>1, <3>2 DEF AgreeUpTo
  <2>. DEFINE k == [id |-> id, base |-> rows2[f][id].ticker, from |-> f,
                    until |-> SpellEnd(rows2, id, f)]
  <2>7. k \in symbol_spells(rows2)
    BY <2>5 DEF symbol_spells
  <2>8. k.base = l.base /\ k.id = l.id /\ Covers(k, t)
    BY <2>4, <2>5, <2>6 DEF Covers
  <2>9. k \in VendorLinks(rows2, table)
    BY <2>1, <2>7, <2>8 DEF VendorLinks
  <2>. QED
    BY <2>8, <2>9
<1>. QED
  BY <1>1, <1>2

Readable(rows, table) ==
  rows \in VendorPanel /\ ~ AmbiguousTicker(VendorLinks(rows, table))

LEMMA RowCarriesOver ==
  ASSUME NEW rows1, NEW rows2, NEW table \in Tables, NEW d \in Days,
         AgreeUpTo(rows1, rows2, d), Readable(rows1, table), Readable(rows2, table),
         NEW s \in Symbols, NEW t \in Days, t < d,
         RowOf(rows1, VendorLinks(rows1, table), s, t) # NoRow
  PROVE  RowOf(rows2, VendorLinks(rows2, table), s, t)
           = RowOf(rows1, VendorLinks(rows1, table), s, t)
<1>. DEFINE links1 == VendorLinks(rows1, table)
            links2 == VendorLinks(rows2, table)
<1>1. ProperLinks(links1) /\ ProperLinks(links2)
  BY LinksAreProper DEF Readable
<1>2. IdOf(links1, s, t) # Missing /\ RowOf(rows1, links1, s, t) = rows1[t][IdOf(links1, s, t)]
  BY DEF RowOf
<1>3. PICK l \in links1 : l.base = s /\ Covers(l, t) /\ l.id = IdOf(links1, s, t)
  BY <1>2, IdIsOfALink
<1>4. l.id \in Ids /\ rows1[t][l.id] # NoRow
  BY <1>1, <1>2, <1>3 DEF ProperLinks, Links
<1>5. t \in SeenOn(rows1, l.id)
  BY <1>4 DEF SeenOn
<1>6. PICK k \in links2 : k.base = l.base /\ k.id = l.id /\ Covers(k, t)
  BY <1>3, <1>4, <1>5, LinkCarriesOver
<1>7. IdOf(links2, s, t) = l.id /\ l.id # Missing
  BY <1>1, <1>3, <1>6, IdOfLink DEF Readable
<1>8. rows2[t] = rows1[t]
  BY DEF AgreeUpTo
<1>. QED
  BY <1>2, <1>3, <1>7, <1>8 DEF RowOf

LEMMA RowOfAgrees ==
  ASSUME NEW rows1, NEW rows2, NEW table \in Tables, NEW d \in Days,
         AgreeUpTo(rows1, rows2, d), Readable(rows1, table), Readable(rows2, table),
         NEW s \in Symbols, NEW t \in Days, t < d
  PROVE  RowOf(rows1, VendorLinks(rows1, table), s, t)
           = RowOf(rows2, VendorLinks(rows2, table), s, t)
<1>1. AgreeUpTo(rows2, rows1, d)
  BY DEF AgreeUpTo
<1>2. CASE RowOf(rows1, VendorLinks(rows1, table), s, t) # NoRow
  BY <1>2, RowCarriesOver
<1>3. CASE RowOf(rows2, VendorLinks(rows2, table), s, t) # NoRow
  BY <1>1, <1>3, RowCarriesOver
<1>. QED
  BY <1>2, <1>3

-----------------------------------------------------------------------------
(* Two runs whose data agree before d *)

(* The two load the same source, with the same table, and neither refuses.   *)
Comparable(in1, in2, d) ==
  /\ in1 \in Inputs /\ in2 \in Inputs
  /\ in1.source = in2.source /\ in1.table = in2.table
  /\ Refusal(in1) = "planned" /\ Refusal(in2) = "planned"
  /\ AgreeUpTo(in1.rows, in2.rows, d)
  /\ \A s \in Symbols, t \in Days : t < d => in1.bars[s][t] = in2.bars[s][t]

LEMMA WhatPlannedMeans ==
  ASSUME NEW in \in Inputs, Refusal(in) = "planned"
  PROVE  /\ Readable(in.rows, in.table)
         /\ in.source = "archive" => ~ GapInWindow(in.bars)
         /\ Loaded(BarsOf(in)) # {} /\ DecisionBars(BarsOf(in)) # {}
BY DEF Refusal, SourceRefusal, ArchiveRefusal, PanelRefusal, Inputs, Readable, LinksOf

LEMMA CapsAgree ==
  ASSUME NEW in1, NEW in2, NEW d \in Days, Comparable(in1, in2, d),
         NEW s \in Symbols, NEW t \in Days, t < d
  PROVE  CapsOf(in1)[s][t] = CapsOf(in2)[s][t]
<1>1. Readable(in1.rows, in1.table) /\ Readable(in2.rows, in1.table) /\ in1.table \in Tables
  BY WhatPlannedMeans DEF Comparable, Inputs
<1>2. RowOf(in1.rows, LinksOf(in1), s, t) = RowOf(in2.rows, LinksOf(in2), s, t)
  BY <1>1, RowOfAgrees DEF Comparable, LinksOf
<1>. QED
  BY <1>2 DEF CapsOf, market_cap_panel

LEMMA BarsAgree ==
  ASSUME NEW in1, NEW in2, NEW d \in Days, Comparable(in1, in2, d),
         NEW s \in Symbols, NEW t \in Days, t < d
  PROVE  BarsOf(in1)[s][t] = BarsOf(in2)[s][t]
<1>1. CASE in1.source = "cmc-panel"
  <2>1. Readable(in1.rows, in1.table) /\ Readable(in2.rows, in1.table) /\ in1.table \in Tables
    BY WhatPlannedMeans DEF Comparable, Inputs
  <2>2. RowOf(in1.rows, LinksOf(in1), s, t) = RowOf(in2.rows, LinksOf(in2), s, t)
    BY <2>1, RowOfAgrees DEF Comparable, LinksOf
  <2>3. panel_bars(in1.rows, LinksOf(in1))[s][t] = panel_bars(in2.rows, LinksOf(in2))[s][t]
    BY <2>2 DEF panel_bars
  <2>. QED
    BY <1>1, <2>3 DEF BarsOf, Comparable
<1>2. CASE in1.source # "cmc-panel"
  BY <1>2 DEF BarsOf, Comparable
<1>. QED
  BY <1>1, <1>2

LEMMA BarOrNoBar ==
  ASSUME NEW in \in Inputs, NEW s \in Symbols, NEW t \in Days
  PROVE  t \in BarDays(BarsOf(in), s) <=> BarsOf(in)[s][t] # NoBar
<1>1. CASE in.source = "cmc-panel"
  <2>. DEFINE row == RowOf(in.rows, LinksOf(in), s, t)
  <2>1. BarsOf(in)[s][t]
          = IF row.price > 0 THEN [close |-> row.price, volume |-> row.volume] ELSE NoBar
    BY <1>1 DEF BarsOf, panel_bars
  <2>2. row.price > 0 => row.price # Missing
    BY DEF Missing
  <2>. HIDE DEF row
  <2>. QED
    BY <2>1, <2>2 DEF BarDays, NoBar
<1>2. CASE in.source # "cmc-panel"
  <2>1. BarsOf(in)[s][t] \in Bars
    BY <1>2 DEF BarsOf, Inputs, BarFrames
  <2>. QED
    BY <2>1 DEF BarDays, Bars, NoBar, Missing
<1>. QED
  BY <1>1, <1>2

(* Either source says a symbol existed on the very days it has a bar on. *)
LEMMA ExistedWithBars ==
  ASSUME NEW in \in Inputs, Refusal(in) = "planned", NEW s \in Symbols, NEW t \in Days
  PROVE  t \in ExistedOn(in.source, BarsOf(in))[s] <=> t \in BarDays(BarsOf(in), s)
<1>1. CASE in.source = "cmc-panel"
  BY <1>1 DEF ExistedOn, panel_universe
<1>2. CASE in.source # "cmc-panel"
  <2>. DEFINE days == BarDays(in.bars, s)
  <2>1. BarsOf(in) = in.bars /\ in.source = "archive"
    BY <1>2 DEF BarsOf, Inputs
  <2>2. t \in build_universe_panel(in.bars)[s]
          <=> MonthOf(t) \in {MonthOf(u) : u \in days} /\ Min(days) <= t /\ t <= Max(days)
    BY DEF build_universe_panel, CoveredMonths
  <2>3. CASE days = {}
    BY <1>2, <2>1, <2>2, <2>3 DEF ExistedOn
  <2>4. CASE days # {}
    <3>1. Min(days) .. Max(days) = days
      BY <2>1, <2>4, WhatPlannedMeans DEF GapInWindow, Loaded
    <3>2. days \subseteq Days
      BY DEF BarDays
    <3>3. Min(days) \in days /\ Max(days) \in days
      BY <2>4, <3>2, DaysAreDays, MinIsMember, MaxIsMember
    <3>4. Min(days) \in Int /\ Max(days) \in Int /\ t \in Int
      BY <3>2, <3>3, DaysAreDays
    <3>5. t \in days <=> Min(days) <= t /\ t <= Max(days)
      BY <3>1, <3>4
    <3>. QED
      BY <1>2, <2>1, <2>2, <3>5 DEF ExistedOn
  <2>. QED
    BY <2>3, <2>4
<1>. QED
  BY <1>1, <1>2

SameNames(in1, in2, d) ==
  \A s \in Symbols : BarsOf(in1)[s][d] = NoBar <=> BarsOf(in2)[s][d] = NoBar

LEMMA TradeableAgrees ==
  ASSUME NEW in1, NEW in2, NEW d \in Days, Comparable(in1, in2, d),
         SameNames(in1, in2, d), NEW s \in Symbols
  PROVE  d \in TradeableOf(in1)[s] <=> d \in TradeableOf(in2)[s]
<1>. DEFINE bars1 == BarsOf(in1)
            bars2 == BarsOf(in2)
<1>1. \A r \in Symbols : d \in BarDays(bars1, r) <=> d \in BarDays(bars2, r)
  BY BarOrNoBar DEF SameNames, Comparable
<1>2. d \in ExistedOn(in1.source, bars1)[s] <=> d \in ExistedOn(in2.source, bars2)[s]
  BY <1>1, ExistedWithBars DEF Comparable
<1>3. d \in BarIndex(bars1) <=> d \in BarIndex(bars2)
  BY <1>1 DEF BarIndex
<1>4. \A u \in TrailingWindow(d) : dollar_volume(bars1)[s][u] = dollar_volume(bars2)[s][u]
  <2>1. TAKE u \in TrailingWindow(d)
  <2>2. u \in Days /\ u < d
    BY DEF TrailingWindow
  <2>3. bars1[s][u] = bars2[s][u]
    BY <2>2, BarsAgree
  <2>. HIDE DEF bars1, bars2
  <2>. QED
    BY <2>2, <2>3 DEF dollar_volume
<1>5. WindowVolumes(bars1, s, d) = WindowVolumes(bars2, s, d)
  <2>. HIDE DEF bars1, bars2
  <2>. QED
    BY <1>4 DEF WindowVolumes
<1>6. FloorMask(bars1, s, d) <=> FloorMask(bars2, s, d)
  BY <1>3, <1>5 DEF FloorMask
<1>. QED
  BY <1>2, <1>6 DEF TradeableOf, apply_universe_policy

(* A Decision Bar has its whole look-back in the calendar. *)
LEMMA LookbackIsThere ==
  ASSUME NEW bars, Loaded(bars) # {}, NEW d \in DecisionBars(bars)
  PROVE  Formation(d) \in Days /\ Formation(d) - Lookback \in Days
         /\ Formation(d) < d /\ Formation(d) - Lookback < d /\ d \in Days
<1>1. BarIndex(bars) # {} /\ BarIndex(bars) \subseteq Days
  BY DEF Loaded, BarIndex, BarDays
<1>2. FirstBar(bars) \in Days /\ FinalBar(bars) \in Days
  BY <1>1, DaysAreDays, MinIsMember, MaxIsMember DEF FirstBar, FinalBar
<1>3. FirstBar(bars) \in Int /\ 1 <= FirstBar(bars) /\ FinalBar(bars) <= LastDay
  BY <1>2, DaysAreDays
<1>4. FinalBar(bars) \in Int
  BY <1>2, DaysAreDays
<1>5. LastDay \in Int /\ Lookback \in Int /\ 1 <= Lookback
  BY SymbolMapAssumption, PlanningAssumption
<1>6. d \in Int /\ FirstBar(bars) + Lookback + 1 <= d /\ d <= FinalBar(bars) - 1
  BY <1>3, <1>4, <1>5 DEF DecisionBars
<1>. QED
  BY <1>3, <1>4, <1>5, <1>6 DEF Formation, Days

LEMMA CarriedCapAgrees ==
  ASSUME NEW in1, NEW in2, NEW d \in Days, Comparable(in1, in2, d), NEW s \in Symbols
  PROVE  CarriedCap(CapsOf(in1), s, d) = CarriedCap(CapsOf(in2), s, d)
<1>. DEFINE caps1 == CapsOf(in1)
            caps2 == CapsOf(in2)
            published1 == {t \in Days : t < d /\ caps1[s][t] # Missing}
            published2 == {t \in Days : t < d /\ caps2[s][t] # Missing}
<1>1. \A t \in Days : t < d => caps1[s][t] = caps2[s][t]
  BY CapsAgree
<1>. HIDE DEF caps1, caps2
<1>2. published1 = published2
  BY <1>1
<1>3. CASE published1 = {}
  BY <1>2, <1>3 DEF CarriedCap, caps1, caps2
<1>4. CASE published1 # {}
  <2>1. Max(published1) \in published1
    BY <1>4, MaxIsMember
  <2>2. caps1[s][Max(published1)] = caps2[s][Max(published1)]
    BY <1>1, <2>1
  <2>3. CarriedCap(caps1, s, d) = IF Max(published1) < d - MaxStaleness THEN Missing
                                  ELSE caps1[s][Max(published1)]
    BY <1>4 DEF CarriedCap
  <2>4. CarriedCap(caps2, s, d) = IF Max(published2) < d - MaxStaleness THEN Missing
                                  ELSE caps2[s][Max(published2)]
    BY <1>2, <1>4 DEF CarriedCap
  <2>. HIDE DEF published1, published2
  <2>5. CarriedCap(caps1, s, d) = CarriedCap(caps2, s, d)
    BY <1>2, <2>2, <2>3, <2>4
  <2>. QED
    BY <2>5 DEF caps1, caps2
<1>. QED
  BY <1>3, <1>4

(* The whole rebalance comes out the same. *)
LEMMA PlanAgrees ==
  ASSUME NEW in1, NEW in2, NEW d \in Days, Comparable(in1, in2, d), SameNames(in1, in2, d),
         d \in DecisionBars(BarsOf(in1)), d \in DecisionBars(BarsOf(in2))
  PROVE  PlanOf(in1)[d] = PlanOf(in2)[d]
<1>. DEFINE bars1 == BarsOf(in1)
            bars2 == BarsOf(in2)
            caps1 == CapsOf(in1)
            caps2 == CapsOf(in2)
            tradeable1 == TradeableOf(in1)
            tradeable2 == TradeableOf(in2)
<1>1. /\ Formation(d) \in Days /\ Formation(d) - Lookback \in Days
      /\ Formation(d) < d /\ Formation(d) - Lookback < d
  BY LookbackIsThere, WhatPlannedMeans DEF Comparable
<1>2. \A s \in Symbols : /\ bars1[s][Formation(d)] = bars2[s][Formation(d)]
                         /\ bars1[s][Formation(d) - Lookback] = bars2[s][Formation(d) - Lookback]
  BY <1>1, BarsAgree
<1>3. \A s \in Symbols : CarriedCap(caps1, s, d) = CarriedCap(caps2, s, d)
  BY CarriedCapAgrees
<1>4. \A s \in Symbols : d \in tradeable1[s] <=> d \in tradeable2[s]
  BY TradeableAgrees
<1>5. PlanOf(in1)[d] = PlannedOn(tradeable1, bars1, caps1, d)
      /\ PlanOf(in2)[d] = PlannedOn(tradeable2, bars2, caps2, d)
  BY DEF PlanOf
<1>. HIDE DEF bars1, bars2, caps1, caps2, tradeable1, tradeable2
<1>6. past_return(bars1, d) = past_return(bars2, d)
  BY <1>2 DEF past_return
<1>7. market_caps_before(caps1, d) = market_caps_before(caps2, d)
  BY <1>3 DEF market_caps_before
<1>. DEFINE signal == past_return(bars1, d)
            carried == market_caps_before(caps1, d)
<1>. HIDE DEF signal, carried
<1>8. Eligible(tradeable1, bars1, signal, carried, d) = Eligible(tradeable2, bars2, signal, carried, d)
  BY <1>2, <1>4 DEF Eligible
<1>9. PlannedOn(tradeable1, bars1, caps1, d)
        = PlannedRebalance(Eligible(tradeable1, bars1, signal, carried, d), signal, carried)
  BY DEF PlannedOn, signal, carried
<1>10. PlannedOn(tradeable2, bars2, caps2, d)
         = PlannedRebalance(Eligible(tradeable2, bars2, signal, carried, d), signal, carried)
  BY <1>6, <1>7 DEF PlannedOn, signal, carried
<1>. QED
  BY <1>5, <1>8, <1>9, <1>10

-----------------------------------------------------------------------------
(* The runs *)

(* What a run came to is the result of its inputs, and the run before it is  *)
(* of the same configuration: only its data are others.                      *)
RunOf(in, o) == o = Pending \/ o = ResultOf(in)
IInv ==
  /\ inputs \in Inputs /\ before.inputs \in Inputs
  /\ inputs.source = before.inputs.source /\ inputs.table = before.inputs.table
  /\ RunOf(inputs, outcome) /\ RunOf(before.inputs, before.outcome)
  /\ restated \in 0 .. MaxRestated

LEMMA IInvInit == Init => IInv
<1>. SUFFICES ASSUME Init PROVE IInv
  OBVIOUS
<1>1. NoBars \in BarFrames
  BY DEF NoBars, BarFrames, Bars
<1>2. inputs \in Inputs
  BY <1>1, PlanningAssumption DEF Init, Inputs
<1>3. restated \in 0 .. MaxRestated
  BY PlanningAssumption DEF Init
<1>. QED
  BY <1>2, <1>3 DEF Init, IInv, RunOf

(* A restatement exchanges one datum and keeps source and table. *)
LEMMA IInvRestate ==
  ASSUME IInv, NEW in \in Inputs, Restate(in),
         in.source = inputs.source, in.table = inputs.table
  PROVE  IInv'
<1>1. inputs' = in /\ outcome' = Pending
      /\ before'.inputs = inputs /\ before'.outcome = outcome
  BY DEF Restate
<1>2. restated' \in 0 .. MaxRestated
  BY PlanningAssumption DEF Restate, IInv
<1>. QED
  BY <1>1, <1>2 DEF IInv, RunOf, ResultOf

LEMMA IInvNext == IInv /\ [Next]_vars => IInv'
<1>. SUFFICES ASSUME IInv, [Next]_vars PROVE IInv'
  OBVIOUS
<1>1. CASE PlanRebalances
  BY <1>1 DEF PlanRebalances, IInv, RunOf, ResultOf
<1>2. CASE RestateBar
  <2>1. PICK s \in Symbols, t \in Days, bar \in BarsSeen :
          Restate([inputs EXCEPT !.bars[s][t] = bar])
    BY <1>2 DEF RestateBar
  <2>. DEFINE in == [inputs EXCEPT !.bars[s][t] = bar]
  <2>2. bar \in Bars
    BY PlanningAssumption
  <2>3. in \in Inputs /\ in.source = inputs.source /\ in.table = inputs.table
    BY <2>2 DEF IInv, Inputs, BarFrames
  <2>. HIDE DEF in
  <2>. QED
    BY <2>1, <2>3, IInvRestate DEF in
<1>3. CASE RestateRow
  <2>1. PICK id \in Ids, t \in Days, row \in RowsSeen :
          Restate([inputs EXCEPT !.rows[t][id] = row])
    BY <1>3 DEF RestateRow
  <2>. DEFINE in == [inputs EXCEPT !.rows[t][id] = row]
  <2>2. row \in VendorRows \union {NoRow}
    BY PlanningAssumption
  <2>3. in \in Inputs /\ in.source = inputs.source /\ in.table = inputs.table
    BY <2>2 DEF IInv, Inputs, VendorPanel
  <2>. HIDE DEF in
  <2>. QED
    BY <2>1, <2>3, IInvRestate DEF in
<1>4. CASE UNCHANGED vars
  BY <1>4 DEF vars, IInv, RunOf, ResultOf
<1>. QED
  BY <1>1, <1>2, <1>3, <1>4 DEF Next

LEMMA Invariant == Spec => []IInv
BY IInvInit, IInvNext, PTL DEF Spec

LEMMA PlannedRun ==
  ASSUME NEW in, NEW o, RunOf(in, o), o.status = "planned"
  PROVE  Refusal(in) = "planned" /\ o.plan = PlanOf(in)
BY DEF RunOf, ResultOf, Pending

(* No look-ahead: whatever is restated from a Decision Bar on, the rebalance *)
(* decided on it is the same, as long as the same names have a bar on it -   *)
(* for any market, panel, configuration and number of restatements.          *)
THEOREM NoLookAhead == Spec => []DecisionReadsOnlyPresence
<1>1. IInv => DecisionReadsOnlyPresence
  <2>. SUFFICES ASSUME IInv, NEW d \in Days,
                       BothPlan(d), AgreeBefore(d), SameNamesTradeOn(d)
                PROVE  outcome.plan[d] = before.outcome.plan[d]
    BY DEF DecisionReadsOnlyPresence
  <2>1. Refusal(inputs) = "planned" /\ outcome.plan = PlanOf(inputs)
    BY PlannedRun DEF IInv, BothPlan, Planned
  <2>2. Refusal(before.inputs) = "planned" /\ before.outcome.plan = PlanOf(before.inputs)
    BY PlannedRun DEF IInv, BothPlan
  <2>3. Comparable(inputs, before.inputs, d)
    BY <2>1, <2>2 DEF Comparable, IInv, AgreeBefore, RowsAgreeBefore, AgreeUpTo
  <2>4. d \in DecisionBars(BarsOf(inputs)) /\ d \in DecisionBars(BarsOf(before.inputs))
    BY <2>1, <2>2 DEF BothPlan, PlanOf
  <2>5. SameNames(inputs, before.inputs, d)
    BY DEF SameNamesTradeOn, SameNames
  <2>. QED
    BY <2>1, <2>2, <2>3, <2>4, <2>5, PlanAgrees
<1>. QED
  BY <1>1, Invariant, PTL

(* A run that plans has a map in which no two links that cover a day share   *)
(* their name or their asset, though the code compares neighbours only -     *)
(* as long as the override table holds no link that ends before it starts.   *)
THEOREM NamesAreUnambiguous == Spec => []OneAssetPerName
<1>1. IInv => OneAssetPerName
  <2>. SUFFICES ASSUME IInv, Planned,
                       NEW a \in LinksOf(inputs), NEW b \in LinksOf(inputs), NEW t \in Days,
                       a # b, Covers(a, t), Covers(b, t)
                PROVE  a.base # b.base /\ a.id # b.id
    BY DEF OneAssetPerName
  <2>1. Refusal(inputs) = "planned"
    BY PlannedRun DEF IInv, Planned
  <2>2. ~ AmbiguousTicker(LinksOf(inputs)) /\ ProperLinks(LinksOf(inputs))
    BY <2>1, WhatPlannedMeans, LinksAreProper DEF IInv, Readable, LinksOf, Inputs
  <2>. QED
    BY <2>2, OneLinkADay
<1>. QED
  BY <1>1, Invariant, PTL

(* A spell of an earlier panel covers what it covered when the panel grows.  *)
LEMMA SpellSurvives ==
  ASSUME NEW rows1, NEW rows2, NEW d \in Days, AgreeUpTo(rows1, rows2, d),
         NEW id \in Ids, SeenOn(rows1, id) \subseteq SeenOn(rows2, id),
         NEW f \in RunStarts(rows1, id), NEW t \in Days, t < d,
         f <= t, t < SpellEnd(rows1, id, f)
  PROVE  f \in RunStarts(rows2, id) /\ t < SpellEnd(rows2, id, f)
<1>. DEFINE next1 == NextAfter(f, RunStarts(rows1, id))
            next2 == NextAfter(f, RunStarts(rows2, id))
            last1 == Max(SeenOn(rows1, id))
            last2 == Max(SeenOn(rows2, id))
<1>1. f \in Days /\ f \in Int /\ t \in Int /\ d \in Int
  BY SeenAreDays, DaysAreDays
<1>2. f \in RunStarts(rows2, id)
  BY <1>1, RunStartsAgree
<1>3. AgreeUpTo(rows2, rows1, d)
  BY DEF AgreeUpTo
<1>4. CASE next2 # Open
  <2>1. next2 \in RunStarts(rows2, id) /\ f < next2 /\ next2 \in Int
    BY <1>1, <1>4, SeenAreDays, NextAfterIsNext
  <2>2. ASSUME next2 <= t PROVE FALSE
    <3>1. next2 \in RunStarts(rows1, id)
      BY <1>1, <1>3, <2>1, <2>2, RunStartsAgree
    <3>2. next1 <= next2 /\ next1 # Open /\ next1 \in Int
      BY <1>1, <2>1, <3>1, SeenAreDays, NextAfterIsNext
    <3>3. SpellEnd(rows1, id, f) = next1
      BY <3>2 DEF SpellEnd
    <3>. QED
      BY <1>1, <2>1, <2>2, <3>2, <3>3
  <2>3. SpellEnd(rows2, id, f) = next2
    BY <1>4 DEF SpellEnd
  <2>. QED
    BY <1>1, <1>2, <2>1, <2>2, <2>3
<1>5. CASE next2 = Open
  <2>1. SpellEnd(rows2, id, f) = NextAfter(last2, Snapshots(rows2))
    BY <1>5 DEF SpellEnd
  <2>2. last2 \in Days /\ last2 \in SeenOn(rows2, id)
        /\ \A u \in SeenOn(rows2, id) : u <= last2
    BY <1>2, SeenAreDays, MaxIsMember
  <2>3. NextAfter(last2, Snapshots(rows2)) \in Int
        /\ last2 < NextAfter(last2, Snapshots(rows2))
    BY <2>2, SnapshotsAreDays, NextAfterIsNext
  <2>4. last2 \in Int
    BY <2>2, DaysAreDays
  <2>5. CASE t <= last2
    BY <1>1, <1>2, <2>1, <2>3, <2>4, <2>5
  <2>6. CASE last2 < t
    <3>1. next1 = Open
      <4>1. ASSUME next1 # Open PROVE FALSE
        <5>1. next1 \in RunStarts(rows1, id) /\ next1 \in Int
          BY <1>1, <4>1, SeenAreDays, NextAfterIsNext
        <5>2. next1 <= last2
          BY <2>2, <5>1, SeenAreDays
        <5>3. SpellEnd(rows1, id, f) = next1
          BY <4>1 DEF SpellEnd
        <5>. QED
          BY <1>1, <2>4, <2>6, <5>1, <5>2, <5>3
      <4>. QED
        BY <4>1
    <3>2. SpellEnd(rows1, id, f) = NextAfter(last1, Snapshots(rows1))
      BY <3>1 DEF SpellEnd
    <3>3. last1 \in Days /\ last1 \in SeenOn(rows1, id)
          /\ \A u \in SeenOn(rows1, id) : u <= last1
      BY SeenAreDays, MaxIsMember
    <3>4. last2 \in SeenOn(rows1, id)
      BY <1>1, <2>2, <2>4, <2>6 DEF SeenOn, AgreeUpTo
    <3>5. last1 = last2
      <4>1. last1 <= last2 /\ last2 <= last1
        BY <2>2, <3>3, <3>4
      <4>2. last1 \in Int
        BY <3>3, DaysAreDays
      <4>. QED
        BY <2>4, <4>1, <4>2
    <3>. DEFINE gone == NextAfter(last2, Snapshots(rows2))
    <3>6. ASSUME gone <= t PROVE FALSE
      <4>1. gone # Open
        BY <1>1, <2>3, <3>6, DaysAreDays
      <4>2. gone \in Snapshots(rows2) /\ gone \in Days
        BY <2>2, <4>1, SnapshotsAreDays, NextAfterIsNext
      <4>3. gone < d
        BY <1>1, <2>3, <3>6
      <4>4. gone \in Snapshots(rows1)
        <5>1. PICK id2 \in Ids : gone \in SeenOn(rows2, id2)
          BY <4>2 DEF Snapshots
        <5>2. rows1[gone] = rows2[gone]
          BY <4>2, <4>3 DEF AgreeUpTo
        <5>3. gone \in SeenOn(rows1, id2)
          BY <5>1, <5>2 DEF SeenOn
        <5>. QED
          BY <5>3 DEF Snapshots
      <4>5. NextAfter(last1, Snapshots(rows1)) <= gone
        BY <2>2, <2>3, <3>5, <4>4, SnapshotsAreDays, NextAfterIsNext
      <4>6. NextAfter(last1, Snapshots(rows1)) \in Int
        BY <3>3, SnapshotsAreDays, NextAfterIsNext
      <4>. QED
        BY <1>1, <2>3, <3>2, <3>6, <4>5, <4>6
    <3>. QED
      BY <1>1, <1>2, <2>1, <2>3, <3>6
  <2>. QED
    BY <1>1, <2>4, <2>5, <2>6
<1>. QED
  BY <1>4, <1>5

(* So what a name stood for on a day of an earlier panel, it stands for in   *)
(* every panel that grew from it - in one the map is not refused for.        *)
THEOREM NamesKeepTheirAssets == Spec => []NamesAreNeverReassigned
<1>1. IInv => NamesAreNeverReassigned
  <2>. DEFINE rows1 == before.inputs.rows
              rows2 == inputs.rows
              links1 == LinksOf(before.inputs)
              links2 == LinksOf(inputs)
  <2>. SUFFICES ASSUME IInv, Planned, before.outcome.status = "planned",
                       NEW d \in Days, PanelGrewFrom(d),
                       NEW s \in Symbols, NEW t \in Days, t < d,
                       IdOf(links1, s, t) # Missing
                PROVE  IdOf(links2, s, t) = IdOf(links1, s, t)
    BY DEF NamesAreNeverReassigned
  <2>1. Refusal(inputs) = "planned" /\ Refusal(before.inputs) = "planned"
    BY PlannedRun DEF IInv, Planned
  <2>2. /\ ~ AmbiguousTicker(links2) /\ ProperLinks(links2) /\ ProperLinks(links1)
    BY <2>1, WhatPlannedMeans, LinksAreProper DEF IInv, Readable, LinksOf, Inputs
  <2>3. AgreeUpTo(rows1, rows2, d) /\ \A id \in Ids : SeenOn(rows1, id) \subseteq SeenOn(rows2, id)
    BY DEF PanelGrewFrom, RowsAgreeBefore, AgreeUpTo
  <2>4. PICK l \in links1 : l.base = s /\ Covers(l, t) /\ l.id = IdOf(links1, s, t)
    BY IdIsOfALink
  <2>5. l \in VendorLinks(rows1, inputs.table)
    BY <2>4 DEF LinksOf, IInv
  <2>6. \E k \in links2 : k.base = s /\ k.id = l.id /\ Covers(k, t)
    <3>1. CASE l \in inputs.table
      BY <2>4, <3>1 DEF LinksOf, VendorLinks
    <3>2. CASE l \notin inputs.table
      <4>1. l \in symbol_spells(rows1) /\ l.id \notin HandResolved(inputs.table)
            /\ l.base \in Symbols
        BY <2>5, <3>2 DEF VendorLinks
      <4>2. PICK id \in Ids :
              l \in {[id |-> id, base |-> rows1[f][id].ticker, from |-> f,
                      until |-> SpellEnd(rows1, id, f)] : f \in RunStarts(rows1, id)}
        BY <4>1 DEF symbol_spells
      <4>3. PICK f \in RunStarts(rows1, id) :
              l = [id |-> id, base |-> rows1[f][id].ticker, from |-> f,
                   until |-> SpellEnd(rows1, id, f)]
        BY <4>2
      <4>4. l.id = id /\ l.base = rows1[f][id].ticker /\ f <= t /\ t < SpellEnd(rows1, id, f)
        BY <2>4, <4>3 DEF Covers
      <4>5. f \in RunStarts(rows2, id) /\ t < SpellEnd(rows2, id, f)
        BY <2>3, <4>4, SpellSurvives
      <4>6. rows2[f] = rows1[f]
        <5>1. f \in Days
          BY <4>5 DEF RunStarts, SeenOn
        <5>2. f \in Int
          BY <5>1, DaysAreDays
        <5>3. t \in Int
          BY DaysAreDays
        <5>4. d \in Int
          BY DaysAreDays
        <5>5. f < d
          BY <4>4, <5>2, <5>3, <5>4
        <5>. QED
          BY <2>3, <5>1, <5>5 DEF AgreeUpTo
      <4>. DEFINE k == [id |-> id, base |-> rows2[f][id].ticker, from |-> f,
                        until |-> SpellEnd(rows2, id, f)]
      <4>7. k \in symbol_spells(rows2)
        BY <4>5 DEF symbol_spells
      <4>8. k.base = l.base /\ k.id = l.id /\ Covers(k, t)
        BY <4>4, <4>5, <4>6 DEF Covers
      <4>9. k \in links2
        BY <4>1, <4>7, <4>8 DEF LinksOf, VendorLinks
      <4>. QED
        BY <2>4, <4>8, <4>9
    <3>. QED
      BY <3>1, <3>2
  <2>7. PICK k \in links2 : k.base = s /\ k.id = l.id /\ Covers(k, t)
    BY <2>6
  <2>8. IdOf(links2, k.base, t) = k.id
    BY <2>2, <2>7, IdOfLink
  <2>. QED
    BY <2>4, <2>7, <2>8
<1>. QED
  BY <1>1, Invariant, PTL

-----------------------------------------------------------------------------
(* No hole between two snapshots *)

(* The run an id's row belongs to: the last that starts no later. *)
RunAt(rows, id, t) == Max({r \in RunStarts(rows, id) : r <= t})

LEMMA FirstRowStartsARun ==
  ASSUME NEW rows, NEW id, NEW t \in SeenOn(rows, id)
  PROVE  \E r \in RunStarts(rows, id) : r <= t
<1>. DEFINE first == Min(SeenOn(rows, id))
<1>1. first \in SeenOn(rows, id) /\ \A u \in SeenOn(rows, id) : first <= u
  BY SeenAreDays, DaysAreDays, MinIsMember
<1>. HIDE DEF first
<1>2. first \in Int /\ \A u \in SeenOn(rows, id) : u \in Int
  BY <1>1, SeenAreDays, DaysAreDays
<1>3. {u \in SeenOn(rows, id) : u < first} = {}
  <2>1. ASSUME NEW u \in SeenOn(rows, id) PROVE ~ (u < first)
    <3>1. first <= u /\ u \in Int /\ first \in Int
      BY <1>1, <1>2
    <3>. QED
      BY <3>1
  <2>. QED
    BY <2>1
<1>4. LastBefore(first, SeenOn(rows, id)) = Missing
  BY <1>3 DEF LastBefore
<1>. QED
  BY <1>1, <1>4 DEF RunStarts

LEMMA RunAtFacts ==
  ASSUME NEW rows, NEW id, NEW t \in SeenOn(rows, id)
  PROVE  /\ RunAt(rows, id, t) \in RunStarts(rows, id)
         /\ RunAt(rows, id, t) <= t
         /\ \A r \in RunStarts(rows, id) : r <= t => r <= RunAt(rows, id, t)
<1>. DEFINE S == {r \in RunStarts(rows, id) : r <= t}
<1>1. S \subseteq Days /\ S # {}
  BY FirstRowStartsARun, SeenAreDays
<1>2. Max(S) \in S /\ \A y \in S : y <= Max(S)
  BY <1>1, MaxIsMember
<1>. QED
  BY <1>2 DEF RunAt

(* Of the rows between the start of a run and t the first with another       *)
(* ticker would start a run of its own.                                      *)
LEMMA RunKeepsItsName ==
  ASSUME NEW rows, NEW id, NEW t \in SeenOn(rows, id)
  PROVE  rows[RunAt(rows, id, t)][id].ticker = rows[t][id].ticker
<1>. DEFINE f == RunAt(rows, id, t)
            Seen == SeenOn(rows, id)
            Other == {r \in Seen : f < r /\ r <= t /\ rows[r][id].ticker # rows[f][id].ticker}
            first == Min(Other)
<1>1. /\ f \in RunStarts(rows, id) /\ f <= t
      /\ \A r \in RunStarts(rows, id) : r <= t => r <= f
  BY RunAtFacts
<1>. HIDE DEF f
<1>2. /\ Seen \subseteq Days /\ f \in Seen /\ f \in Int /\ t \in Int
      /\ \A u \in Seen : u \in Int /\ u \in Nat
  BY <1>1, SeenAreDays, DaysAreDays
<1>3. CASE Other = {}
  <2>1. f = t \/ f < t
    BY <1>1, <1>2
  <2>2. rows[f][id].ticker = rows[t][id].ticker
    BY <1>2, <1>3, <2>1
  <2>. QED
    BY <2>2 DEF f
<1>4. CASE Other # {}
  <2>1. first \in Other /\ \A u \in Other : first <= u
    BY <1>2, <1>4, MinIsMember
  <2>. HIDE DEF first
  <2>2. /\ first \in Seen /\ f < first /\ first <= t /\ first \in Int
        /\ rows[first][id].ticker # rows[f][id].ticker
    BY <1>2, <2>1
  <2>. DEFINE earlier == {u \in Seen : u < first}
              p == LastBefore(first, Seen)
  <2>3. f \in earlier /\ earlier \subseteq Days
    BY <1>2, <2>2
  <2>4. p = Max(earlier)
    BY <2>3 DEF LastBefore
  <2>5. p \in earlier /\ f <= p
    BY <2>3, <2>4, MaxIsMember
  <2>. HIDE DEF p
  <2>6. p \in Seen /\ p < first /\ p \in Int
    BY <1>2, <2>5
  <2>7. rows[p][id].ticker = rows[f][id].ticker
    <3>1. CASE p = f
      BY <3>1
    <3>2. CASE p # f
      <4>1. f < p /\ p <= t /\ ~ (first <= p)
        BY <1>2, <2>2, <2>5, <2>6, <3>2
      <4>. QED
        BY <2>1, <2>6, <4>1
    <3>. QED
      BY <3>1, <3>2
  <2>8. first \in RunStarts(rows, id)
    <3>1. rows[p][id].ticker # rows[first][id].ticker
      BY <2>2, <2>7
    <3>. QED
      BY <2>2, <3>1 DEF RunStarts, p
  <2>. QED
    BY <1>1, <1>2, <2>2, <2>8
<1>. QED
  BY <1>3, <1>4

(* Until the next snapshot that run's spell is the one, and the only one.    *)
LEMMA RunSpans ==
  ASSUME NEW rows, NEW id \in Ids, NEW t \in SeenOn(rows, id), NEW u \in Int,
         t <= u, u < NextAfter(t, Snapshots(rows)), NEW g \in RunStarts(rows, id)
  PROVE  g <= u /\ u < SpellEnd(rows, id, g) <=> g = RunAt(rows, id, t)
<1>. DEFINE f == RunAt(rows, id, t)
            next(r) == NextAfter(r, RunStarts(rows, id))
            later == NextAfter(t, Snapshots(rows))
            last == Max(SeenOn(rows, id))
<1>1. /\ f \in RunStarts(rows, id) /\ f <= t
      /\ \A r \in RunStarts(rows, id) : r <= t => r <= f
  BY RunAtFacts
<1>. HIDE DEF f
<1>2. /\ t \in Days /\ t \in Int /\ f \in Days /\ f \in Int /\ g \in Days /\ g \in Int
      /\ RunStarts(rows, id) \subseteq Days /\ SeenOn(rows, id) \subseteq Days
      /\ RunStarts(rows, id) \subseteq SeenOn(rows, id)
  BY <1>1, SeenAreDays, DaysAreDays
<1>3. /\ later \in Int
      /\ \A r \in SeenOn(rows, id) : t < r => later <= r
  <2>1. SeenOn(rows, id) \subseteq Snapshots(rows)
    BY DEF Snapshots
  <2>. QED
    BY <1>2, <2>1, SnapshotsAreDays, NextAfterIsNext
<1>4. \A r \in RunStarts(rows, id) :
        /\ next(r) \in Int /\ r < next(r)
        /\ next(r) # Open => next(r) \in RunStarts(rows, id)
        /\ \A v \in RunStarts(rows, id) : r < v => next(r) <= v /\ next(r) # Open
  BY <1>2, NextAfterIsNext
<1>. HIDE DEF later
<1>5. CASE g = f
  <2>1. CASE next(f) # Open
    <3>1. next(f) \in RunStarts(rows, id) /\ f < next(f) /\ next(f) \in Int
      BY <1>1, <1>4, <2>1
    <3>2. t < next(f)
      BY <1>1, <1>2, <3>1
    <3>3. later <= next(f)
      BY <1>2, <1>3, <3>1, <3>2
    <3>4. SpellEnd(rows, id, f) = next(f)
      BY <2>1 DEF SpellEnd
    <3>. QED
      BY <1>1, <1>2, <1>3, <1>5, <3>1, <3>3, <3>4 DEF later, f
  <2>2. CASE next(f) = Open
    <3>1. last \in SeenOn(rows, id) /\ t <= last /\ last \in Days
      BY <1>2, MaxIsMember
    <3>. HIDE DEF last
    <3>2. /\ NextAfter(last, Snapshots(rows)) \in Int /\ last < NextAfter(last, Snapshots(rows))
          /\ last \in Int
      BY <3>1, SnapshotsAreDays, NextAfterIsNext, DaysAreDays
    <3>3. later <= NextAfter(last, Snapshots(rows))
      <4>1. CASE last = t
        BY <1>3, <4>1 DEF later
      <4>2. CASE last # t
        BY <1>2, <1>3, <3>1, <3>2, <4>2
      <4>. QED
        BY <4>1, <4>2
    <3>4. SpellEnd(rows, id, f) = NextAfter(last, Snapshots(rows))
      BY <2>2 DEF SpellEnd, last
    <3>. QED
      BY <1>1, <1>2, <1>3, <1>5, <3>2, <3>3, <3>4 DEF later, f
  <2>. QED
    BY <2>1, <2>2
<1>6. CASE g < f
  <2>1. next(g) <= f /\ next(g) # Open /\ next(g) \in Int
    BY <1>1, <1>4, <1>6
  <2>2. SpellEnd(rows, id, g) = next(g)
    BY <2>1 DEF SpellEnd
  <2>. QED
    BY <1>1, <1>2, <1>6, <2>1, <2>2 DEF f
<1>7. CASE f < g
  <2>1. t < g
    BY <1>1, <1>2, <1>7
  <2>2. later <= g
    BY <1>2, <1>3, <2>1
  <2>. QED
    BY <1>2, <1>3, <1>7, <2>2 DEF later, f
<1>. QED
  BY <1>2, <1>5, <1>6, <1>7

(* From a snapshot to the next an asset goes by the one name it had on the   *)
(* first, whatever panel is pulled, restated or extended: `symbol_spells`    *)
(* neither leaves a hole nor lets two spells of an asset overlap there.      *)
THEOREM NamesSpanTheirSnapshots == Spec => []SpellsLeaveNoHole
<1>1. SpellsLeaveNoHole
  <2>. DEFINE rows == inputs.rows
  <2>. SUFFICES ASSUME NEW id \in Ids, NEW t \in SeenOn(rows, id),
                       NEW u \in t .. NextAfter(t, Snapshots(rows)) - 1
                PROVE  {l.base : l \in {k \in symbol_spells(rows) : k.id = id /\ Covers(k, u)}}
                         = {rows[t][id].ticker}
    BY DEF SpellsLeaveNoHole
  <2>1. t \in Days /\ t \in Int /\ NextAfter(t, Snapshots(rows)) \in Int
    BY SeenAreDays, SnapshotsAreDays, DaysAreDays, NextAfterIsNext
  <2>. HIDE DEF rows
  <2>2. u \in Int /\ t <= u /\ u < NextAfter(t, Snapshots(rows))
    BY <2>1
  <2>. DEFINE f == RunAt(rows, id, t)
              spell(g) == [id |-> id, base |-> rows[g][id].ticker, from |-> g,
                           until |-> SpellEnd(rows, id, g)]
              covering == {k \in symbol_spells(rows) : k.id = id /\ Covers(k, u)}
  <2>3. f \in RunStarts(rows, id)
    BY RunAtFacts
  <2>4. rows[f][id].ticker = rows[t][id].ticker
    BY RunKeepsItsName
  <2>5. \A g \in RunStarts(rows, id) : Covers(spell(g), u) <=> g = f
    BY <2>2, RunSpans DEF Covers
  <2>. HIDE DEF f
  <2>6. ASSUME NEW k \in covering PROVE k.base = rows[f][id].ticker
    <3>1. PICK i \in Ids :
            k \in {[id |-> i, base |-> rows[g][i].ticker, from |-> g,
                   until |-> SpellEnd(rows, i, g)] : g \in RunStarts(rows, i)}
      BY <2>6 DEF symbol_spells
    <3>2. i = id
      BY <2>6, <3>1
    <3>. PICK g \in RunStarts(rows, id) : k = spell(g)
      BY <3>1, <3>2
    <3>3. g = f
      BY <2>5, <2>6
    <3>. QED
      BY <3>3
  <2>7. spell(f) \in covering
    <3>1. spell(f) \in symbol_spells(rows)
      BY <2>3 DEF symbol_spells
    <3>. QED
      BY <2>3, <2>5, <3>1
  <2>8. spell(f).base = rows[f][id].ticker
    OBVIOUS
  <2>. HIDE DEF covering, spell
  <2>9. {l.base : l \in covering} = {rows[f][id].ticker}
    BY <2>6, <2>7, <2>8
  <2>. QED
    BY <2>4, <2>9 DEF covering
<1>. QED
  BY <1>1, PTL

-----------------------------------------------------------------------------
(* Selection *)

(* A close that is known is a number, and what was read of the panel was     *)
(* positive.                                                                 *)
LEMMA ClosesAreNumbers ==
  ASSUME NEW in \in Inputs, NEW s \in Symbols, NEW t \in Days
  PROVE  BarsOf(in)[s][t].close \in Nat \union {Missing}
<1>1. CASE in.source = "cmc-panel"
  <2>. DEFINE links == LinksOf(in)
              row == RowOf(in.rows, links, s, t)
  <2>1. BarsOf(in)[s][t]
          = IF row.price > 0 THEN [close |-> row.price, volume |-> row.volume] ELSE NoBar
    BY <1>1 DEF BarsOf, panel_bars
  <2>2. row.price \in Nat \union {Missing}
    <3>1. CASE IdOf(links, s, t) = Missing
      BY <3>1 DEF RowOf, NoRow
    <3>2. CASE IdOf(links, s, t) # Missing
      <4>1. PICK l \in links : l.id = IdOf(links, s, t)
        BY <3>2, IdIsOfALink
      <4>2. ProperLinks(links)
        BY LinksAreProper DEF Inputs, LinksOf
      <4>3. l.id \in Ids
        BY <4>2 DEF ProperLinks, Links
      <4>4. row \in VendorRows \union {NoRow}
        BY <3>2, <4>1, <4>3 DEF RowOf, Inputs, VendorPanel
      <4>. HIDE DEF row
      <4>. QED
        BY <4>4 DEF VendorRows, NoRow
    <3>. QED
      BY <3>1, <3>2
  <2>. HIDE DEF row
  <2>. QED
    BY <2>1, <2>2 DEF NoBar, Missing
<1>2. CASE in.source # "cmc-panel"
  <2>1. BarsOf(in)[s][t] \in Bars
    BY <1>2 DEF BarsOf, Inputs, BarFrames
  <2>. QED
    BY <2>1 DEF Bars, NoBar
<1>. QED
  BY <1>1, <1>2

(* A ranked name has two closes, the first of them positive. *)
HasReturn(signal, s) ==
  /\ signal[s][1] \in Nat /\ signal[s][1] > 0
  /\ signal[s][2] \in Nat

LEMMA RankedNamesHaveReturns ==
  ASSUME NEW in \in Inputs, Loaded(BarsOf(in)) # {}, NEW d \in DecisionBars(BarsOf(in)),
         NEW s \in Symbols, past_return(BarsOf(in), d)[s] # Unranked
  PROVE  /\ HasReturn(past_return(BarsOf(in), d), s)
         /\ past_return(BarsOf(in), d)[s][1] = BarsOf(in)[s][d - 1 - Lookback].close
         /\ past_return(BarsOf(in), d)[s][2] = BarsOf(in)[s][d - 1].close
<1>. DEFINE bars == BarsOf(in)
            start == bars[s][Formation(d) - Lookback].close
            end == bars[s][Formation(d)].close
<1>1. Formation(d) \in Days /\ Formation(d) - Lookback \in Days
  BY LookbackIsThere
<1>2. start \in Nat \union {Missing} /\ end \in Nat \union {Missing}
  BY <1>1, ClosesAreNumbers
<1>3. past_return(bars, d)[s] = IF start > 0 /\ end # Missing THEN <<start, end>> ELSE Unranked
  BY DEF past_return
<1>4. start > 0 /\ end # Missing /\ past_return(bars, d)[s] = <<start, end>>
  BY <1>3
<1>5. start = bars[s][d - 1 - Lookback].close /\ end = bars[s][d - 1].close
  BY DEF Formation
<1>. HIDE DEF bars, start, end
<1>6. start \in Nat /\ start > 0 /\ end \in Nat
  BY <1>2, <1>4 DEF Missing
<1>7. HasReturn(past_return(bars, d), s)
      /\ past_return(bars, d)[s][1] = start /\ past_return(bars, d)[s][2] = end
  BY <1>4, <1>6 DEF HasReturn
<1>. QED
  BY <1>5, <1>7 DEF bars

(* Ratios compared by cross-multiplication are in order. *)
LEMMA RatiosInOrder ==
  ASSUME NEW a1 \in Nat, NEW b1 \in Nat, NEW c1 \in Nat, a1 > 0, b1 > 0, c1 > 0,
         NEW a2 \in Nat, NEW b2 \in Nat, NEW c2 \in Nat,
         a2 * b1 >= b2 * a1, b2 * c1 >= c2 * b1
  PROVE  /\ a2 * c1 >= c2 * a1
         /\ a2 * b1 > b2 * a1 \/ b2 * c1 > c2 * b1 => a2 * c1 > c2 * a1
<1>1. (a2 * b1) * c1 >= (b2 * a1) * c1
  OBVIOUS
<1>2. (b2 * c1) * a1 >= (c2 * b1) * a1
  OBVIOUS
<1>3. (a2 * c1) * b1 >= (c2 * a1) * b1
  BY <1>1, <1>2
<1>4. a2 * b1 > b2 * a1 => (a2 * b1) * c1 > (b2 * a1) * c1
  OBVIOUS
<1>5. b2 * c1 > c2 * b1 => (b2 * c1) * a1 > (c2 * b1) * a1
  OBVIOUS
<1>6. a2 * b1 > b2 * a1 \/ b2 * c1 > c2 * b1 => (a2 * c1) * b1 > (c2 * a1) * b1
  BY <1>1, <1>2, <1>4, <1>5
<1>. QED
  BY <1>3, <1>6

Order(signal, S) == {p \in S \X S : Ahead(signal, p[1], p[2])}

(* The order of `select_top_quantile`, the return and on a tie the symbol,   *)
(* ranks any names that have a return.                                       *)
LEMMA ReturnsRank ==
  ASSUME NEW signal, NEW S \in SUBSET Symbols, \A s \in S : HasReturn(signal, s)
  PROVE  /\ Ranked(S, Order(signal, S))
         /\ \A s \in S : AheadOf(S, Order(signal, S), s) = {r \in S : Ahead(signal, r, s)}
<1>. DEFINE R == Order(signal, S)
<1>1. \A a, b \in S : <<a, b>> \in R <=> Ahead(signal, a, b)
  BY DEF Order
<1>2. \A s \in S : s \in Nat
  BY SymbolMapAssumption
<1>3. ASSUME NEW a \in S PROVE ~ Ahead(signal, a, a)
  <2>1. signal[a][2] * signal[a][1] \in Nat
    BY DEF HasReturn
  <2>. QED
    BY <1>2, <2>1 DEF Ahead
<1>4. ASSUME NEW a \in S, NEW b \in S, a # b
      PROVE  Ahead(signal, a, b) \/ Ahead(signal, b, a)
  <2>. DEFINE x == signal[a][2] * signal[b][1]
              y == signal[b][2] * signal[a][1]
  <2>1. x \in Nat /\ y \in Nat
    BY DEF HasReturn
  <2>. QED
    BY <1>2, <1>4, <2>1 DEF Ahead
<1>5. ASSUME NEW a \in S, NEW b \in S, NEW c \in S, Ahead(signal, a, b), Ahead(signal, b, c)
      PROVE  Ahead(signal, a, c)
  <2>. DEFINE a1 == signal[a][1]  a2 == signal[a][2]
              b1 == signal[b][1]  b2 == signal[b][2]
              c1 == signal[c][1]  c2 == signal[c][2]
  <2>1. /\ a1 \in Nat /\ a1 > 0 /\ a2 \in Nat
        /\ b1 \in Nat /\ b1 > 0 /\ b2 \in Nat
        /\ c1 \in Nat /\ c1 > 0 /\ c2 \in Nat
    BY DEF HasReturn
  <2>2. a2 * b1 > b2 * a1 \/ (a2 * b1 = b2 * a1 /\ a < b)
    BY <1>5 DEF Ahead
  <2>3. b2 * c1 > c2 * b1 \/ (b2 * c1 = c2 * b1 /\ b < c)
    BY <1>5 DEF Ahead
  <2>. HIDE DEF a1, a2, b1, b2, c1, c2
  <2>4. a2 * b1 \in Nat /\ b2 * a1 \in Nat /\ b2 * c1 \in Nat /\ c2 * b1 \in Nat
        /\ a2 * c1 \in Nat /\ c2 * a1 \in Nat
    BY <2>1
  <2>5. a2 * b1 >= b2 * a1 /\ b2 * c1 >= c2 * b1
    BY <2>2, <2>3, <2>4
  <2>6. /\ a2 * c1 >= c2 * a1
        /\ a2 * b1 > b2 * a1 \/ b2 * c1 > c2 * b1 => a2 * c1 > c2 * a1
    BY <2>1, <2>5, RatiosInOrder
  <2>7. a2 * c1 > c2 * a1 \/ (a2 * c1 = c2 * a1 /\ a < c)
    BY <1>2, <2>2, <2>3, <2>4, <2>6
  <2>. QED
    BY <2>7 DEF Ahead, a1, a2, c1, c2
<1>. HIDE DEF R
<1>6. Ranked(S, R)
  BY <1>1, <1>3, <1>4, <1>5 DEF Ranked
<1>7. \A s \in S : AheadOf(S, R, s) = {r \in S : Ahead(signal, r, s)}
  BY <1>1 DEF AheadOf
<1>. QED
  BY <1>6, <1>7 DEF R

LEMMA QuantileSizeFacts ==
  ASSUME NEW n \in Nat
  PROVE  /\ QuantileSize(n) \in 0 .. n
         /\ n * QuantileNum <= QuantileSize(n) * QuantileDen
         /\ QuantileSize(n) * QuantileDen < n * QuantileNum + QuantileDen
<1>. DEFINE a == n * QuantileNum + QuantileDen - 1
            q == a \div QuantileDen
<1>1. /\ QuantileDen \in Nat /\ QuantileDen > 0
      /\ QuantileNum \in Nat /\ QuantileNum <= QuantileDen
  BY PlanningAssumption
<1>2. n * QuantileNum \in Nat /\ a \in Nat
  BY <1>1
<1>. HIDE DEF a
<1>3. q \in Nat /\ q * QuantileDen <= a /\ a < q * QuantileDen + QuantileDen
  BY <1>1, <1>2
<1>. HIDE DEF q
<1>4. q * QuantileDen \in Nat
  BY <1>1, <1>3
<1>5. n * QuantileNum <= q * QuantileDen /\ q * QuantileDen < n * QuantileNum + QuantileDen
  BY <1>1, <1>2, <1>3, <1>4 DEF a
<1>6. q <= n
  <2>1. n * QuantileNum <= n * QuantileDen
    BY <1>1
  <2>2. q * QuantileDen < n * QuantileDen + QuantileDen
    <3>1. n * QuantileDen \in Nat
      BY <1>1
    <3>. QED
      BY <1>1, <1>2, <1>4, <1>5, <2>1, <3>1
  <2>. QED
    BY <1>1, <1>3, <2>2
<1>. QED
  BY <1>3, <1>5, <1>6 DEF QuantileSize, q, a

(* The top of names that have a return: as many as asked for, and whoever    *)
(* is left out did no better than any of them.                               *)
LEMMA TopFacts ==
  ASSUME NEW signal, NEW S \in SUBSET Symbols, \A s \in S : HasReturn(signal, s)
  PROVE  /\ IsFiniteSet(S) /\ Cardinality(S) \in Nat
         /\ select_top_quantile(signal, S) \subseteq S
         /\ Cardinality(select_top_quantile(signal, S)) = QuantileSize(Cardinality(S))
         /\ \A a \in select_top_quantile(signal, S),
               b \in S \ select_top_quantile(signal, S) :
               signal[a][2] * signal[b][1] >= signal[b][2] * signal[a][1]
<1>. DEFINE k == QuantileSize(Cardinality(S))
            R == Order(signal, S)
            T == select_top_quantile(signal, S)
<1>1. IsFiniteSet(S) /\ Cardinality(S) \in Nat
  BY FS_Subset, FS_CardinalityType, SymbolMapAssumption
<1>2. Ranked(S, R) /\ \A s \in S : AheadOf(S, R, s) = {r \in S : Ahead(signal, r, s)}
  BY ReturnsRank
<1>3. T = {s \in S : Cardinality(AheadOf(S, R, s)) < k}
  BY <1>2 DEF select_top_quantile, Top
<1>4. k \in 0 .. Cardinality(S)
  BY <1>1, QuantileSizeFacts
<1>. HIDE DEF k, R, T
<1>5. Cardinality(T) = k
  BY <1>1, <1>2, <1>3, <1>4, TopOfAnOrder
<1>6. ASSUME NEW a \in T, NEW b \in S \ T
      PROVE  signal[a][2] * signal[b][1] >= signal[b][2] * signal[a][1]
  <2>1. a \in S /\ Cardinality(AheadOf(S, R, a)) < k /\ ~ (Cardinality(AheadOf(S, R, b)) < k)
    BY <1>3
  <2>2. <<b, a>> \notin R
    <3>1. IsFiniteSet(AheadOf(S, R, a)) /\ IsFiniteSet(AheadOf(S, R, b))
      BY <1>1, FS_Subset DEF AheadOf
    <3>2. Cardinality(AheadOf(S, R, a)) \in Nat /\ Cardinality(AheadOf(S, R, b)) \in Nat
      BY <3>1, FS_CardinalityType
    <3>3. <<b, a>> \in R => Cardinality(AheadOf(S, R, b)) < Cardinality(AheadOf(S, R, a))
      BY <1>1, <1>2, <2>1, RanksRise
    <3>4. k \in Nat
      BY <1>1, <1>4
    <3>. QED
      BY <2>1, <3>2, <3>3, <3>4
  <2>3. ~ Ahead(signal, b, a)
    BY <2>1, <2>2 DEF R, Order
  <2>4. signal[a][2] * signal[b][1] \in Nat /\ signal[b][2] * signal[a][1] \in Nat
    BY <2>1 DEF HasReturn
  <2>. QED
    BY <2>3, <2>4 DEF Ahead
<1>7. T \subseteq S
  BY <1>3
<1>. QED
  BY <1>1, <1>5, <1>6, <1>7 DEF T, k

(* What a run planned for a Decision Bar, and what its names are ranked by.  *)
SignalOf(in, d) == past_return(BarsOf(in), d)
EligibleOf(in, d) ==
  Eligible(TradeableOf(in), BarsOf(in), SignalOf(in, d),
           market_caps_before(CapsOf(in), d), d)

LEMMA PlannedFacts ==
  ASSUME NEW in \in Inputs, Refusal(in) = "planned", NEW d \in DecisionBars(BarsOf(in))
  PROVE  /\ PlanOf(in)[d] = PlannedRebalance(EligibleOf(in, d), SignalOf(in, d),
                                            market_caps_before(CapsOf(in), d))
         /\ EligibleOf(in, d) \in SUBSET Symbols
         /\ \A s \in EligibleOf(in, d) :
              /\ HasReturn(SignalOf(in, d), s)
              /\ SignalOf(in, d)[s][1] = BarsOf(in)[s][d - 1 - Lookback].close
              /\ SignalOf(in, d)[s][2] = BarsOf(in)[s][d - 1].close
<1>1. PlanOf(in)[d] = PlannedRebalance(EligibleOf(in, d), SignalOf(in, d),
                                       market_caps_before(CapsOf(in), d))
  BY DEF PlanOf, PlannedOn, EligibleOf, SignalOf
<1>2. EligibleOf(in, d) \in SUBSET Symbols
      /\ \A s \in EligibleOf(in, d) : SignalOf(in, d)[s] # Unranked
  BY DEF EligibleOf, Eligible
<1>3. Loaded(BarsOf(in)) # {}
  BY WhatPlannedMeans
<1>4. ASSUME NEW s \in EligibleOf(in, d)
      PROVE  /\ HasReturn(SignalOf(in, d), s)
             /\ SignalOf(in, d)[s][1] = BarsOf(in)[s][d - 1 - Lookback].close
             /\ SignalOf(in, d)[s][2] = BarsOf(in)[s][d - 1].close
  BY <1>2, <1>3, RankedNamesHaveReturns DEF SignalOf
<1>. QED
  BY <1>1, <1>2, <1>4

(* What is selected of the eligible names. *)
LEMMA SelectedFacts ==
  ASSUME NEW signal, NEW caps, NEW S \in SUBSET Symbols, \A s \in S : HasReturn(signal, s)
  PROVE  LET rebalance == PlannedRebalance(S, signal, caps)
             T == rebalance.selected
         IN  /\ rebalance.n_eligible = Cardinality(S) /\ DOMAIN rebalance.weights.shares = T
             /\ Cardinality(S) \in 0 .. Cardinality(Symbols)
             /\ T \subseteq S
             /\ Cardinality(S) < MinUniverse => T = {}
             /\ Cardinality(S) >= MinUniverse => Cardinality(T) = QuantileSize(Cardinality(S))
             /\ \A a \in T, b \in S \ T :
                  signal[a][2] * signal[b][1] >= signal[b][2] * signal[a][1]
<1>. DEFINE rebalance == PlannedRebalance(S, signal, caps)
            T == IF Cardinality(S) < MinUniverse THEN {} ELSE select_top_quantile(signal, S)
<1>1. /\ rebalance.selected = T /\ rebalance.n_eligible = Cardinality(S)
      /\ DOMAIN rebalance.weights.shares = T
  BY DEF PlannedRebalance, value_weights
<1>2. Cardinality(S) \in 0 .. Cardinality(Symbols)
  <2>1. IsFiniteSet(Symbols) /\ Cardinality(Symbols) \in Nat
    BY SymbolMapAssumption, FS_CardinalityType
  <2>2. IsFiniteSet(S) /\ Cardinality(S) <= Cardinality(Symbols)
    BY <2>1, FS_Subset
  <2>3. Cardinality(S) \in Nat
    BY <2>2, FS_CardinalityType
  <2>. QED
    BY <2>1, <2>2, <2>3
<1>3. /\ select_top_quantile(signal, S) \subseteq S
      /\ Cardinality(select_top_quantile(signal, S)) = QuantileSize(Cardinality(S))
      /\ \A a \in select_top_quantile(signal, S), b \in S \ select_top_quantile(signal, S) :
           signal[a][2] * signal[b][1] >= signal[b][2] * signal[a][1]
  BY TopFacts
<1>4. MinUniverse \in Nat
  BY PlanningAssumption
<1>5. /\ T \subseteq S
      /\ Cardinality(S) < MinUniverse => T = {}
      /\ Cardinality(S) >= MinUniverse => Cardinality(T) = QuantileSize(Cardinality(S))
      /\ \A a \in T, b \in S \ T :
           signal[a][2] * signal[b][1] >= signal[b][2] * signal[a][1]
  BY <1>2, <1>3, <1>4
<1>. HIDE DEF rebalance, T
<1>6. /\ rebalance.selected \subseteq S
      /\ Cardinality(S) < MinUniverse => rebalance.selected = {}
      /\ Cardinality(S) >= MinUniverse =>
           Cardinality(rebalance.selected) = QuantileSize(Cardinality(S))
      /\ \A a \in rebalance.selected, b \in S \ rebalance.selected :
           signal[a][2] * signal[b][1] >= signal[b][2] * signal[a][1]
  BY <1>1, <1>5
<1>. QED
  BY <1>1, <1>2, <1>6 DEF rebalance

(* Between two Decision Bars lie HoldingDays days. *)
LEMMA NextDecisionBar ==
  ASSUME NEW bars, Loaded(bars) # {}, NEW d \in DecisionBars(bars),
         d + HoldingDays < FinalBar(bars)
  PROVE  d + HoldingDays \in DecisionBars(bars)
<1>. DEFINE first == FirstBar(bars) + Lookback + 1
            n == d - first
            q == n \div HoldingDays
<1>1. FirstBar(bars) \in Int /\ FinalBar(bars) \in Int
  <2>1. BarIndex(bars) # {} /\ BarIndex(bars) \subseteq Days
    BY DEF Loaded, BarIndex, BarDays
  <2>2. FirstBar(bars) \in Days /\ FinalBar(bars) \in Days
    BY <2>1, DaysAreDays, MinIsMember, MaxIsMember DEF FirstBar, FinalBar
  <2>. QED
    BY <2>2, DaysAreDays
<1>2. Lookback \in Nat /\ HoldingDays \in Nat /\ HoldingDays > 0
  BY PlanningAssumption
<1>. HIDE DEF first
<1>3. first \in Int
  BY <1>1, <1>2 DEF first
<1>4. d \in Int /\ first <= d /\ n % HoldingDays = 0
  BY <1>1, <1>2 DEF DecisionBars, first
<1>5. n \in Nat
  BY <1>3, <1>4
<1>. HIDE DEF n
<1>6. q \in Nat /\ n = HoldingDays * q + (n % HoldingDays)
  BY <1>2, <1>5, SMTT(30)
<1>. HIDE DEF q
<1>7. n + HoldingDays = (q + 1) * HoldingDays
  BY <1>2, <1>4, <1>6
<1>8. ((q + 1) * HoldingDays) % HoldingDays = 0
  BY <1>2, <1>6, SMTT(30)
<1>9. (d + HoldingDays) - FirstBar(bars) - Lookback - 1 = n + HoldingDays
  BY <1>1, <1>2, <1>4 DEF n, first
<1>10. ((d + HoldingDays) - FirstBar(bars) - Lookback - 1) % HoldingDays = 0
  BY <1>7, <1>8, <1>9
<1>11. d + HoldingDays \in FirstBar(bars) + Lookback + 1 .. FinalBar(bars) - 1
  BY <1>1, <1>2, <1>4 DEF first
<1>. QED
  BY <1>10, <1>11 DEF DecisionBars

(* The top quantile, for any universe, quantile, holding period and look-back: *)
(* as many names as it asks for, rounded up, and none left out that did        *)
(* better than one chosen; on every Decision Bar that can be filled.           *)
THEOREM QuantilesAreExact == Spec => []TopQuantileIsSelected
<1>1. IInv => TopQuantileIsSelected
  <2>. SUFFICES ASSUME IInv, Planned, NEW d \in DOMAIN outcome.plan
                PROVE  LET bars == BarsOf(inputs)
                           caps == market_caps_before(CapsOf(inputs), d)
                           eligible == Eligible(TradeableOf(inputs), bars,
                                                past_return(bars, d), caps, d)
                           selected == outcome.plan[d].selected
                           n == Cardinality(eligible) * QuantileNum
                       IN /\ selected \subseteq eligible
                          /\ Cardinality(eligible) >= MinUniverse =>
                               /\ n <= Cardinality(selected) * QuantileDen
                               /\ Cardinality(selected) * QuantileDen < n + QuantileDen
                          /\ \A a \in selected, b \in eligible \ selected :
                               LET now(s) == bars[s][d - 1].close
                                   then(s) == bars[s][d - 1 - Lookback].close
                               IN now(a) * then(b) >= now(b) * then(a)
                          /\ FirstBar(bars) <= d - 1 - Lookback /\ d + 1 <= FinalBar(bars)
                          /\ \/ d + HoldingDays \in DOMAIN outcome.plan
                             \/ d + HoldingDays >= FinalBar(bars)
    BY DEF TopQuantileIsSelected
  <2>. DEFINE bars == BarsOf(inputs)
              eligible == EligibleOf(inputs, d)
              signal == SignalOf(inputs, d)
              selected == outcome.plan[d].selected
  <2>1. Refusal(inputs) = "planned" /\ outcome.plan = PlanOf(inputs) /\ inputs \in Inputs
    BY PlannedRun DEF IInv, Planned
  <2>2. DOMAIN outcome.plan = DecisionBars(bars) /\ d \in DecisionBars(bars)
    BY <2>1 DEF PlanOf
  <2>3. /\ outcome.plan[d] = PlannedRebalance(eligible, signal,
                                             market_caps_before(CapsOf(inputs), d))
        /\ eligible \in SUBSET Symbols
        /\ \A s \in eligible : /\ HasReturn(signal, s)
                              /\ signal[s][1] = bars[s][d - 1 - Lookback].close
                              /\ signal[s][2] = bars[s][d - 1].close
    BY <2>1, <2>2, PlannedFacts
  <2>4. Eligible(TradeableOf(inputs), bars, past_return(bars, d),
                 market_caps_before(CapsOf(inputs), d), d) = eligible
    BY DEF EligibleOf, SignalOf
  <2>. HIDE DEF eligible, signal
  <2>5. /\ Cardinality(eligible) \in Nat
        /\ selected \subseteq eligible
        /\ Cardinality(eligible) >= MinUniverse =>
             Cardinality(selected) = QuantileSize(Cardinality(eligible))
        /\ \A a \in selected, b \in eligible \ selected :
             signal[a][2] * signal[b][1] >= signal[b][2] * signal[a][1]
    BY <2>3, SelectedFacts, FS_Subset, FS_CardinalityType, SymbolMapAssumption
  <2>. HIDE DEF selected
  <2>6. \A a \in selected, b \in eligible \ selected :
          bars[a][d - 1].close * bars[b][d - 1 - Lookback].close
            >= bars[b][d - 1].close * bars[a][d - 1 - Lookback].close
    BY <2>3, <2>5
  <2>7. Cardinality(eligible) >= MinUniverse =>
          /\ Cardinality(eligible) * QuantileNum <= Cardinality(selected) * QuantileDen
          /\ Cardinality(selected) * QuantileDen
               < Cardinality(eligible) * QuantileNum + QuantileDen
    BY <2>5, QuantileSizeFacts
  <2>8. Loaded(bars) # {}
    BY <2>1, WhatPlannedMeans
  <2>9. FirstBar(bars) \in Int /\ FinalBar(bars) \in Int
    <3>1. BarIndex(bars) # {} /\ BarIndex(bars) \subseteq Days
      BY <2>8 DEF Loaded, BarIndex, BarDays
    <3>2. FirstBar(bars) \in Days /\ FinalBar(bars) \in Days
      BY <3>1, DaysAreDays, MinIsMember, MaxIsMember DEF FirstBar, FinalBar
    <3>. QED
      BY <3>2, DaysAreDays
  <2>10. Lookback \in Nat /\ HoldingDays \in Nat
    BY PlanningAssumption
  <2>11. d \in Int /\ FirstBar(bars) + Lookback + 1 <= d /\ d <= FinalBar(bars) - 1
    BY <2>2, <2>9, <2>10 DEF DecisionBars
  <2>12. d + HoldingDays \in DOMAIN outcome.plan \/ d + HoldingDays >= FinalBar(bars)
    BY <2>2, <2>8, <2>9, <2>10, <2>11, NextDecisionBar
  <2>. HIDE DEF bars
  <2>13. FirstBar(bars) <= d - 1 - Lookback /\ d + 1 <= FinalBar(bars)
    BY <2>9, <2>10, <2>11
  <2>. QED
    BY <2>4, <2>5, <2>6, <2>7, <2>12, <2>13 DEF bars, selected
<1>. QED
  BY <1>1, Invariant, PTL

-----------------------------------------------------------------------------
(* Types *)

LEMMA ResultsAreTyped ==
  ASSUME NEW in \in Inputs, NEW o, RunOf(in, o)
  PROVE  OutcomeOk(o)
<1>1. CASE o = Pending
  BY <1>1 DEF OutcomeOk, Pending, Statuses
<1>2. CASE o = ResultOf(in)
  <2>1. o.status = Refusal(in) /\ Refusal(in) \in Statuses
    BY <1>2 DEF ResultOf, Refusal, SourceRefusal, PanelRefusal, ArchiveRefusal, Statuses
  <2>2. ASSUME o.status = "planned"
        PROVE  /\ DOMAIN o.plan \subseteq Days
               /\ \A d \in DOMAIN o.plan : RebalanceOk(o.plan[d])
    <3>1. Refusal(in) = "planned" /\ o.plan = PlanOf(in)
      BY <2>2, PlannedRun
    <3>2. DOMAIN o.plan = DecisionBars(BarsOf(in))
      BY <3>1 DEF PlanOf
    <3>3. \A d \in DecisionBars(BarsOf(in)) : d \in Days
      BY <3>1, WhatPlannedMeans, LookbackIsThere
    <3>4. ASSUME NEW d \in DecisionBars(BarsOf(in))
          PROVE  RebalanceOk(o.plan[d])
      <4>. DEFINE signal == SignalOf(in, d)
                  eligible == EligibleOf(in, d)
                  caps == market_caps_before(CapsOf(in), d)
                  rebalance == PlannedRebalance(eligible, signal, caps)
      <4>1. /\ o.plan[d] = rebalance /\ eligible \in SUBSET Symbols
            /\ \A s \in eligible : HasReturn(signal, s)
        BY <3>1, PlannedFacts
      <4>. HIDE DEF signal, eligible, caps
      <4>2. /\ rebalance.n_eligible = Cardinality(eligible)
            /\ DOMAIN rebalance.weights.shares = rebalance.selected
            /\ Cardinality(eligible) \in 0 .. Cardinality(Symbols)
            /\ rebalance.selected \subseteq eligible
        BY <4>1, SelectedFacts
      <4>. HIDE DEF rebalance
      <4>. QED
        BY <4>1, <4>2 DEF RebalanceOk
    <3>. QED
      BY <3>2, <3>3, <3>4
  <2>. QED
    BY <2>1, <2>2 DEF OutcomeOk
<1>. QED
  BY <1>1, <1>2 DEF RunOf

(* The types, for any inputs: a run plans or refuses with one of its reasons, *)
(* and a plan is of days, of names and of their weights.                      *)
THEOREM TypeCorrect == Spec => []TypeOK
<1>1. IInv => TypeOK
  BY ResultsAreTyped DEF IInv, TypeOK
<1>. QED
  BY <1>1, Invariant, PTL

-----------------------------------------------------------------------------
(* The walk of a plan *)

(* `Walk` as it starts, over the days from a first Decision Bar to the last   *)
(* bar of the window.                                                         *)
Starts(length, plan, bar) ==
  INSTANCE Walk WITH
    LastDay <- length, day <- 0, phase <- "night", held <- {}, stake <- 0, cash <- 2,
    last <- [s \in Symbols |-> [day |-> 0, at |-> "never", price |-> "none"]],
    equity <- <<>>, selections <- <<>>, halt_exits <- {}, reported <- <<>>

NothingShown ==
  [s \in Symbols |-> [open |-> "none", close |-> "none", volume |-> FALSE]]

(* What the walk tells apart of a bar; of its open the plan knows nothing.    *)
Shows(seen, bar) ==
  /\ seen.close = (IF bar.close = Missing THEN "none"
                   ELSE IF bar.close = 0 THEN "zero" ELSE "positive")
  /\ seen.volume = (bar.volume > 0)

FirstDecision(bars) == FirstBar(bars) + Lookback + 1
WalkLength(bars) == FinalBar(bars) - FirstDecision(bars)

(* The selections of a plan, by the walk's days.                              *)
SelectedBy(plan, first, length) ==
  [k \in {n \in 0 .. length - 1 : n % HoldingDays = 0} |-> plan[first + k].selected]

LEMMA SpanFacts ==
  ASSUME NEW bars, Loaded(bars) # {}, DecisionBars(bars) # {}
  PROVE  /\ FirstDecision(bars) \in Int /\ WalkLength(bars) \in Nat \ {0}
         /\ \A k \in Int : (k \in 0 .. WalkLength(bars) - 1 /\ k % HoldingDays = 0)
                             <=> FirstDecision(bars) + k \in DecisionBars(bars)
         /\ \A d \in DecisionBars(bars) : d - FirstDecision(bars) \in Int
<1>. DEFINE first == FirstDecision(bars)
            final == FinalBar(bars)
<1>1. FirstBar(bars) \in Int /\ final \in Int
  <2>1. BarIndex(bars) # {} /\ BarIndex(bars) \subseteq Days
    BY DEF Loaded, BarIndex, BarDays
  <2>2. FirstBar(bars) \in Days /\ FinalBar(bars) \in Days
    BY <2>1, DaysAreDays, MinIsMember, MaxIsMember DEF FirstBar, FinalBar
  <2>. QED
    BY <2>2, DaysAreDays
<1>2. first \in Int /\ first = FirstBar(bars) + Lookback + 1
  BY <1>1, PlanningAssumption DEF FirstDecision
<1>3. DecisionBars(bars) = {d \in first .. final - 1 : (d - first) % HoldingDays = 0}
  <2>1. \A d \in Int : d - FirstBar(bars) - Lookback - 1 = d - first
    BY <1>1, <1>2, PlanningAssumption
  <2>. QED
    BY <1>2, <2>1 DEF DecisionBars
<1>. HIDE DEF first, final
<1>4. WalkLength(bars) = final - first
  BY DEF WalkLength, first, final
<1>5. final - first \in Nat \ {0}
  BY <1>1, <1>2, <1>3
<1>6. ASSUME NEW k \in Int
      PROVE  (k \in 0 .. (final - first) - 1 /\ k % HoldingDays = 0)
               <=> first + k \in DecisionBars(bars)
  <2>1. (first + k) - first = k
    BY <1>2
  <2>2. k \in 0 .. (final - first) - 1 <=> first + k \in first .. final - 1
    BY <1>1, <1>2
  <2>. QED
    BY <1>3, <2>1, <2>2
<1>7. \A d \in DecisionBars(bars) : d - first \in Int
  BY <1>1, <1>2, <1>3
<1>. QED
  BY <1>2, <1>4, <1>5, <1>6, <1>7 DEF first

(* What is proved of the walk is proved of the plans that are formed.  Every *)
(* plan starts a walk of Walk, over a window Walk allows: its Decision Bars   *)
(* are Walk's, each with a day to fill on, and what it selects on one showed  *)
(* the day before, the formation bar, the tradeable bar that Walk takes for   *)
(* granted (`OpenSession`).                                                   *)
THEOREM PlansAreWalked ==
  Spec => [](Planned =>
    LET bars == BarsOf(inputs)
        first == FirstDecision(bars)
        length == WalkLength(bars)
        plan == SelectedBy(outcome.plan, first, length)
    IN  /\ length \in Nat \ {0}
        /\ DOMAIN outcome.plan = {first + k : k \in DOMAIN plan}
        /\ \A n \in Nat : n = length =>
             /\ Starts(n, plan, NothingShown)!Init
             /\ \A k \in Starts(n, plan, NothingShown)!DecisionDays :
                  \A s \in plan[k], seen \in Starts(n, plan, NothingShown)!Bars :
                    Shows(seen, bars[s][(first + k) - 1])
                      => Starts(n, plan, NothingShown)!TradedAllDay(seen))
<1>1. ASSUME IInv, Planned
      PROVE  LET bars == BarsOf(inputs)
                 first == FirstDecision(bars)
                 length == WalkLength(bars)
                 plan == SelectedBy(outcome.plan, first, length)
             IN  /\ length \in Nat \ {0}
                 /\ DOMAIN outcome.plan = {first + k : k \in DOMAIN plan}
                 /\ \A n \in Nat : n = length =>
                      /\ Starts(n, plan, NothingShown)!Init
                      /\ \A k \in Starts(n, plan, NothingShown)!DecisionDays :
                           \A s \in plan[k], seen \in Starts(n, plan, NothingShown)!Bars :
                             Shows(seen, bars[s][(first + k) - 1])
                               => Starts(n, plan, NothingShown)!TradedAllDay(seen)
  <2>. DEFINE bars == BarsOf(inputs)
              first == FirstDecision(bars)
              length == WalkLength(bars)
              plan == SelectedBy(outcome.plan, first, length)
              days == {k \in 0 .. length - 1 : k % HoldingDays = 0}
  <2>1. Refusal(inputs) = "planned" /\ outcome.plan = PlanOf(inputs) /\ inputs \in Inputs
    BY <1>1, PlannedRun DEF IInv, Planned
  <2>2. DOMAIN outcome.plan = DecisionBars(bars)
    BY <2>1 DEF PlanOf
  <2>3. Loaded(bars) # {} /\ DecisionBars(bars) # {}
    BY <2>1, WhatPlannedMeans DEF Refusal
  <2>4. /\ first \in Int /\ length \in Nat \ {0}
        /\ \A k \in Int : k \in days <=> first + k \in DecisionBars(bars)
        /\ \A d \in DecisionBars(bars) : d - first \in Int
    BY <2>3, SpanFacts
  <2>5. DOMAIN plan = days /\ \A k \in days : plan[k] = outcome.plan[first + k].selected
    BY DEF SelectedBy
  <2>6. ASSUME NEW k \in days, NEW s \in plan[k]
        PROVE  s \in Symbols /\ TradeableBar(bars[s][(first + k) - 1])
    <3>. DEFINE d == first + k
                eligible == EligibleOf(inputs, d)
                signal == SignalOf(inputs, d)
    <3>1. k \in Int /\ d \in DecisionBars(bars)
      BY <2>4
    <3>2. /\ outcome.plan[d] = PlannedRebalance(eligible, signal,
                                                market_caps_before(CapsOf(inputs), d))
          /\ eligible \in SUBSET Symbols /\ \A r \in eligible : HasReturn(signal, r)
      BY <2>1, <3>1, PlannedFacts
    <3>3. outcome.plan[d].selected \subseteq eligible
      <4>. HIDE DEF eligible, signal
      <4>. QED
        BY <3>2, SelectedFacts
    <3>4. s \in eligible
      BY <2>5, <3>3
    <3>5. TradeableBar(bars[s][(first + k) - 1])
      BY <3>4 DEF EligibleOf, Eligible, Formation
    <3>6. s \in Symbols
      BY <3>2, <3>4
    <3>. QED
      BY <3>5, <3>6
  <2>. HIDE DEF bars, first, length, plan
  <2>7. DOMAIN outcome.plan = {first + k : k \in DOMAIN plan}
    <3>1. ASSUME NEW d \in DecisionBars(bars) PROVE d \in {first + k : k \in days}
      <4>1. d - first \in Int /\ first + (d - first) = d
        <5>1. d - first \in Int
          BY <2>4
        <5>2. d \in Int
          BY DEF DecisionBars
        <5>. QED
          BY <2>4, <5>1, <5>2
      <4>. QED
        BY <2>4, <4>1
    <3>. QED
      BY <2>2, <2>4, <2>5, <3>1
  <2>8. ASSUME NEW n \in Nat, n = length
        PROVE  /\ Starts(n, plan, NothingShown)!Init
               /\ \A k \in Starts(n, plan, NothingShown)!DecisionDays :
                    \A s \in plan[k], seen \in Starts(n, plan, NothingShown)!Bars :
                      Shows(seen, bars[s][(first + k) - 1])
                        => Starts(n, plan, NothingShown)!TradedAllDay(seen)
    <3>1. Starts(n, plan, NothingShown)!DecisionDays = days
      BY <2>8 DEF Starts!DecisionDays
    <3>2. plan \in [days -> SUBSET Symbols]
      <4>1. plan = [k \in days |-> plan[k]]
        BY DEF plan, SelectedBy
      <4>2. \A k \in days : plan[k] \in SUBSET Symbols
        BY <2>6
      <4>. QED
        BY <4>1, <4>2
    <3>3. Starts(n, plan, NothingShown)!Init
      BY <3>1, <3>2 DEF Starts!Init, Starts!NoBar, Starts!Unpriced, Starts!Nothing,
                        Starts!Money, NothingShown
    <3>4. ASSUME NEW k \in days, NEW s \in plan[k],
                 NEW seen \in Starts(n, plan, NothingShown)!Bars,
                 Shows(seen, bars[s][(first + k) - 1])
          PROVE  Starts(n, plan, NothingShown)!TradedAllDay(seen)
      BY <2>6, <3>4 DEF Shows, TradeableBar, Starts!TradedAllDay
    <3>. QED
      BY <3>1, <3>3, <3>4
  <2>. QED
    BY <2>4, <2>7, <2>8 DEF bars, first, length, plan
<1>2. QED
  BY <1>1, Invariant, PTL
=============================================================================
