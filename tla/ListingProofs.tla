---------------------------- MODULE ListingProofs ----------------------------
(***************************************************************************)
(* What holds of the enumeration for every archive, page size and calendar. *)
(***************************************************************************)
EXTENDS Listing, Lemmas, FiniteSetTheorems, SequenceTheorems

USE ListingAssumption

-----------------------------------------------------------------------------
(* Pages *)

(* A page takes the first entries after its marker, and some if there are any. *)
LEMMA PageFacts ==
  ASSUME NEW E, NEW b \in Nat, E \subseteq 0 .. b, NEW mark \in Int
  PROVE  /\ Page(E, mark) \subseteq After(E, mark)
         /\ \A p \in Page(E, mark) : \A q \in After(E, mark) :
              q < p => q \in Page(E, mark)
         /\ Truncated(E, mark) =>
              /\ Max(Page(E, mark)) \in Page(E, mark)
              /\ \A p \in Page(E, mark) : p <= Max(Page(E, mark))
<1>. DEFINE A == After(E, mark)
            Below(p) == {q \in A : q < p}
<1>1. A \subseteq 0 .. b /\ A \subseteq Nat
  <2>1. A \subseteq E
    BY DEF After
  <2>2. \A p \in E : p \in 0 .. b /\ p \in Nat
    OBVIOUS
  <2>. QED
    BY <2>1, <2>2
<1>2. IsFiniteSet(0 .. b)
  BY FS_Interval
<1>3. ASSUME NEW p \in A
      PROVE  IsFiniteSet(Below(p)) /\ Cardinality(Below(p)) \in Nat
  <2>1. Below(p) \subseteq 0 .. b
    BY <1>1
  <2>. QED
    BY <2>1, <1>2, FS_Subset, FS_CardinalityType
<1>4. Page(E, mark) \subseteq A
  BY DEF Page
<1>5. ASSUME NEW p \in Page(E, mark), NEW q \in A, q < p
      PROVE  q \in Page(E, mark)
  <2>1. p \in A /\ p \in Int /\ q \in Int
    BY <1>1, <1>4
  <2>2. Below(q) \subseteq Below(p)
    BY <1>1, <1>5, <2>1
  <2>3. Cardinality(Below(q)) <= Cardinality(Below(p))
    BY <2>1, <2>2, <1>3, FS_Subset
  <2>4. Cardinality(Below(p)) < MaxKeys
    BY DEF Page
  <2>5. Cardinality(Below(q)) \in Nat /\ Cardinality(Below(p)) \in Nat
    BY <1>3, <2>1
  <2>6. Cardinality(Below(q)) < MaxKeys
    BY <2>3, <2>4, <2>5
  <2>. QED
    BY <2>6 DEF Page
<1>6. ASSUME A # {}
      PROVE  Page(E, mark) # {}
  <2>1. PICK p \in A : \A q \in A : p <= q
    BY <1>1, <1>6, MinIsMember
  <2>2. Below(p) = {}
    BY <1>1, <2>1
  <2>3. Cardinality(Below(p)) = 0
    BY <2>2, FS_EmptySet
  <2>4. p \in Page(E, mark)
    BY <2>3 DEF Page
  <2>. QED
    BY <2>4
<1>7. ASSUME Truncated(E, mark)
      PROVE  /\ Max(Page(E, mark)) \in Page(E, mark)
             /\ \A p \in Page(E, mark) : p <= Max(Page(E, mark))
  <2>1. Page(E, mark) # {}
    BY <1>4, <1>6, <1>7 DEF Truncated
  <2>2. Page(E, mark) \subseteq Int /\ \A p \in Page(E, mark) : p <= b
    BY <1>1, <1>4
  <2>. QED
    BY <2>1, <2>2, MaxOfBounded
<1>. QED
  BY <1>4, <1>5, <1>7

-----------------------------------------------------------------------------
(* Entries *)

Highest == 2 * LastDay + NSymbols + 1

LEMMA MonthFacts ==
  /\ MonthOf(LastDay) \in Nat /\ MonthOf(LastDay) <= LastDay
  /\ Months \subseteq Nat /\ \A month \in Months : month <= LastDay
<1>1. LastDay \div DaysPerMonth \in Nat /\ LastDay \div DaysPerMonth <= LastDay
  OBVIOUS
<1>. QED
  BY <1>1 DEF Months, MonthOf

LEMMA ObjectFacts ==
  ASSUME NEW o \in Objects
  PROVE  /\ o.dir \in {"monthly", "daily"} /\ o.symbol \in Symbols /\ o.kind \in Kinds
         /\ o.at \in Nat /\ o.at <= LastDay
         /\ o.dir = "monthly" => o.at \in Months
         /\ o.dir = "daily" => o.at \in Days
         /\ o = [dir |-> o.dir, symbol |-> o.symbol, at |-> o.at, kind |-> o.kind]
<1>1. CASE o \in [dir : {"monthly"}, symbol : Symbols, at : Months, kind : Kinds]
  BY <1>1, MonthFacts
<1>2. CASE o \in [dir : {"daily"}, symbol : Symbols, at : Days, kind : Kinds]
  BY <1>2 DEF Days
<1>. QED
  BY <1>1, <1>2 DEF Objects

LEMMA EntriesBounded ==
  ASSUME NEW objects \in SUBSET Objects, NEW what \in Listings, NEW s
  PROVE  Entries(what, s, objects) \subseteq 0 .. Highest
<1>1. ASSUME NEW o \in objects
      PROVE  o.symbol \in 0 .. Highest /\ Position(o) \in 0 .. Highest
  <2>1. o.symbol \in Symbols /\ o.at \in Nat /\ o.at <= LastDay
    BY ObjectFacts
  <2>. QED
    BY <2>1 DEF Highest, Symbols, Position
<1>. QED
  BY <1>1 DEF Entries, Listings

LEMMA HighestIsNat == Highest \in Nat
BY DEF Highest

LEMMA EntriesGrow ==
  ASSUME NEW few, NEW many, few \subseteq many, NEW what \in Listings, NEW s
  PROVE  Entries(what, s, few) \subseteq Entries(what, s, many)
BY DEF Entries, Listings

(* The entries say which partitions are there, and which checksums. *)
LEMMA EntriesAreObjects ==
  ASSUME NEW objects \in SUBSET Objects, NEW s, NEW t \in Int, NEW dir, NEW what,
         \/ dir = "monthly" /\ what = "months"
         \/ dir = "daily" /\ what = "days"
  PROVE  /\ 2 * t \in Entries(what, s, objects)
              <=> [dir |-> dir, symbol |-> s, at |-> t, kind |-> "zip"] \in objects
         /\ 2 * t + 1 \in Entries(what, s, objects)
              <=> [dir |-> dir, symbol |-> s, at |-> t, kind |-> "checksum"] \in objects
<1>. DEFINE Mine == {p \in objects : p.dir = dir /\ p.symbol = s}
<1>1. Entries(what, s, objects) = {Position(o) : o \in Mine}
  BY DEF Entries
<1>2. ASSUME NEW o \in Mine
      PROVE  /\ Position(o) = 2 * t <=> o.at = t /\ o.kind = "zip"
             /\ Position(o) = 2 * t + 1 <=> o.at = t /\ o.kind = "checksum"
  <2>1. o.at \in Nat /\ o.kind \in {"zip", "checksum"}
    BY ObjectFacts DEF Kinds
  <2>. QED
    BY <2>1 DEF Position
<1>3. ASSUME NEW o \in Mine
      PROVE  o = [dir |-> dir, symbol |-> s, at |-> o.at, kind |-> o.kind]
  BY ObjectFacts
<1>4. ASSUME NEW kind \in Kinds
      PROVE  [dir |-> dir, symbol |-> s, at |-> t, kind |-> kind] \in objects
               <=> \E o \in Mine : o.at = t /\ o.kind = kind
  <2>1. ASSUME NEW o \in Mine, o.at = t, o.kind = kind
        PROVE  [dir |-> dir, symbol |-> s, at |-> t, kind |-> kind] \in objects
    BY <1>3, <2>1
  <2>2. ASSUME [dir |-> dir, symbol |-> s, at |-> t, kind |-> kind] \in objects
        PROVE  \E o \in Mine : o.at = t /\ o.kind = kind
    BY <2>2
  <2>. QED
    BY <2>1, <2>2
<1>5. 2 * t \in Entries(what, s, objects) <=> \E o \in Mine : o.at = t /\ o.kind = "zip"
  BY <1>1, <1>2
<1>6. 2 * t + 1 \in Entries(what, s, objects)
        <=> \E o \in Mine : o.at = t /\ o.kind = "checksum"
  BY <1>1, <1>2
<1>. QED
  BY <1>4, <1>5, <1>6 DEF Kinds

LEMMA CheckedEntries ==
  ASSUME NEW objects \in SUBSET Objects, NEW s, NEW dir, NEW what,
         \/ dir = "monthly" /\ what = "months"
         \/ dir = "daily" /\ what = "days"
  PROVE  /\ Checked(dir, s, objects) \subseteq Nat
         /\ \A t \in Int :
              t \in Checked(dir, s, objects)
                <=> /\ 2 * t \in Entries(what, s, objects)
                    /\ 2 * t + 1 \in Entries(what, s, objects)
<1>1. ASSUME NEW p \in objects, p.dir = dir, p.symbol = s, p.kind = "zip"
      PROVE  /\ p = [dir |-> dir, symbol |-> s, at |-> p.at, kind |-> "zip"]
             /\ p.at \in Nat
             /\ [p EXCEPT !.kind = "checksum"]
                  = [dir |-> dir, symbol |-> s, at |-> p.at, kind |-> "checksum"]
  <2>1. p \in Objects
    OBVIOUS
  <2>2. p = [dir |-> dir, symbol |-> s, at |-> p.at, kind |-> "zip"] /\ p.at \in Nat
    BY <1>1, <2>1, ObjectFacts
  <2>3. [[dir |-> dir, symbol |-> s, at |-> p.at, kind |-> "zip"] EXCEPT !.kind = "checksum"]
          = [dir |-> dir, symbol |-> s, at |-> p.at, kind |-> "checksum"]
    OBVIOUS
  <2>. QED
    BY <2>2, <2>3
<1>2. Checked(dir, s, objects) \subseteq Nat
  BY <1>1 DEF Checked
<1>3. ASSUME NEW t \in Int
      PROVE  t \in Checked(dir, s, objects)
               <=> /\ [dir |-> dir, symbol |-> s, at |-> t, kind |-> "zip"] \in objects
                   /\ [dir |-> dir, symbol |-> s, at |-> t, kind |-> "checksum"] \in objects
  <2>1. ASSUME t \in Checked(dir, s, objects)
        PROVE  /\ [dir |-> dir, symbol |-> s, at |-> t, kind |-> "zip"] \in objects
               /\ [dir |-> dir, symbol |-> s, at |-> t, kind |-> "checksum"] \in objects
    BY <2>1, <1>1 DEF Checked
  <2>2. ASSUME [dir |-> dir, symbol |-> s, at |-> t, kind |-> "zip"] \in objects,
               [dir |-> dir, symbol |-> s, at |-> t, kind |-> "checksum"] \in objects
        PROVE  t \in Checked(dir, s, objects)
    <3>. DEFINE z == [dir |-> dir, symbol |-> s, at |-> t, kind |-> "zip"]
    <3>1. z.dir = dir /\ z.symbol = s /\ z.at = t /\ z.kind = "zip"
      OBVIOUS
    <3>2. [z EXCEPT !.kind = "checksum"] \in objects
      BY <2>2
    <3>. HIDE DEF z
    <3>3. z \in objects
      BY <2>2 DEF z
    <3>. QED
      BY <3>1, <3>2, <3>3 DEF Checked
  <2>. QED
    BY <2>1, <2>2
<1>. QED
  BY <1>2, <1>3, EntriesAreObjects

LEMMA CheckedGrows ==
  ASSUME NEW few, NEW many, few \subseteq many, NEW dir, NEW s
  PROVE  Checked(dir, s, few) \subseteq Checked(dir, s, many)
BY DEF Checked

LEMMA CheckedInCalendar ==
  ASSUME NEW objects \in SUBSET Objects, NEW s
  PROVE  /\ Checked("monthly", s, objects) \subseteq Months
         /\ Checked("daily", s, objects) \subseteq Days
BY ObjectFacts DEF Checked

(* `_verified_partitions` finds the entries whose checksum is among the keys. *)
LEMMA VerifiedFacts ==
  ASSUME NEW keys, keys \subseteq Nat
  PROVE  /\ Verified(keys) \subseteq Nat
         /\ \A t \in Int : t \in Verified(keys) <=> 2 * t \in keys /\ 2 * t + 1 \in keys
<1>1. ASSUME NEW p \in keys
      PROVE  /\ p \div 2 \in Nat
             /\ p % 2 = 0 => p = 2 * (p \div 2)
  OBVIOUS
<1>2. ASSUME NEW t \in Int
      PROVE  t \in Verified(keys) <=> 2 * t \in keys /\ 2 * t + 1 \in keys
  <2>1. ASSUME t \in Verified(keys)
        PROVE  2 * t \in keys /\ 2 * t + 1 \in keys
    <3>1. PICK p \in keys : p % 2 = 0 /\ p + 1 \in keys /\ t = p \div 2
      BY <2>1 DEF Verified
    <3>. QED
      BY <3>1, <1>1
  <2>2. ASSUME 2 * t \in keys, 2 * t + 1 \in keys
        PROVE  t \in Verified(keys)
    <3>1. (2 * t) % 2 = 0 /\ (2 * t) \div 2 = t
      OBVIOUS
    <3>. QED
      BY <2>2, <3>1 DEF Verified
  <2>. QED
    BY <2>1, <2>2
<1>. QED
  BY <1>1, <1>2 DEF Verified

LEMMA LastMonth ==
  ASSUME NEW covered \in SUBSET Months, covered # {}
  PROVE  /\ Max(covered) \in covered /\ Max(covered) \in Nat
         /\ FirstDayOf(Max(covered) + 1) \in Int
         /\ AfterLastMonth(covered) \in Int
<1>1. Max(covered) \in covered
  <2>1. covered \subseteq Int
    BY MonthFacts
  <2>2. LastDay \in Int /\ \A month \in covered : month <= LastDay
    BY MonthFacts
  <2>. QED
    BY <2>1, <2>2, MaxOfBounded
<1>2. Max(covered) \in Nat
  BY <1>1, MonthFacts
<1>3. FirstDayOf(Max(covered) + 1) \in Int
  BY <1>2 DEF FirstDayOf
<1>. QED
  BY <1>1, <1>2, <1>3 DEF AfterLastMonth

-----------------------------------------------------------------------------
(* The inductive invariant *)

(* What the months read for the symbol at hand are worth. *)
MonthsRead ==
  step = "days" =>
    /\ Checked("monthly", symbol, stood) \subseteq months
    /\ months \subseteq Checked("monthly", symbol, bucket)

IInv ==
  /\ TypeOK
  /\ stood \subseteq bucket
  /\ WalkMissesNothing
  /\ MonthsRead
  /\ CoverageIsComplete

LEMMA ListedAppend ==
  ASSUME NEW read \in Seq(SUBSET Int), NEW page
  PROVE  Listed(Append(read, page)) = Listed(read) \union page
<1>1. /\ DOMAIN Append(read, page) = 1 .. Len(read) + 1
      /\ \A n \in 1 .. Len(read) : Append(read, page)[n] = read[n]
      /\ Append(read, page)[Len(read) + 1] = page
      /\ DOMAIN read = 1 .. Len(read) /\ Len(read) \in Nat
  OBVIOUS
<1>. QED
  BY <1>1 DEF Listed

(* What is listed here, as integers. *)
LEMMA HereFacts ==
  ASSUME TypeOK, stood \subseteq bucket, step \in Listings
  PROVE  /\ Here \subseteq 0 .. Highest /\ Here \subseteq Nat
         /\ Entries(step, symbol, stood) \subseteq Here
<1>1. bucket \in SUBSET Objects
  BY DEF TypeOK
<1>2. Here \subseteq 0 .. Highest
  BY <1>1, EntriesBounded DEF Here
<1>3. \A p \in 0 .. Highest : p \in Nat
  BY HighestIsNat
<1>. QED
  BY <1>2, <1>3, EntriesGrow DEF Here

LEMMA OpeningIsInt ==
  ASSUME TypeOK
  PROVE  Opening \in Int
BY LastMonth DEF TypeOK, Opening, BeforeAll

(* At its last page a listing has every entry that stood when it began. *)
LEMMA KeysFacts ==
  ASSUME IInv, LastPage
  PROVE  /\ Keys \subseteq Here /\ Keys \subseteq Nat
         /\ \A p \in Entries(step, symbol, stood) : Opening < p => p \in Keys
<1>1. step \in Listings /\ marker \in Int /\ pages \in Seq(SUBSET Int)
  BY DEF IInv, TypeOK, LastPage
<1>2. Here \subseteq 0 .. Highest /\ Here \subseteq Nat
      /\ Entries(step, symbol, stood) \subseteq Here
  BY <1>1, HereFacts DEF IInv
<1>3. Page(Here, marker) = After(Here, marker)
  BY DEF LastPage, Truncated
<1>4. Keys = Listed(pages) \union After(Here, marker)
  BY <1>1, <1>3, ListedAppend DEF Keys
<1>5. Listed(pages) \subseteq Here
  BY <1>1 DEF IInv, WalkMissesNothing, Here
<1>6. After(Here, marker) \subseteq Here
  BY DEF After
<1>7. ASSUME NEW p \in Entries(step, symbol, stood), Opening < p
      PROVE  p \in Keys
  <2>1. p \in Here
    BY <1>2
  <2>4. p \in Int
    BY <2>1, <1>2
  <2>2. CASE p <= marker
    BY <1>1, <1>4, <1>7, <2>2 DEF IInv, WalkMissesNothing
  <2>3. CASE p > marker
    BY <2>1, <2>3, <1>4 DEF After
  <2>. QED
    BY <2>2, <2>3, <2>4, <1>1
<1>. QED
  BY <1>2, <1>4, <1>5, <1>6, <1>7

(* What a whole listing verifies is in the archive, and is all that could be *)
(* verified when it began.                                                   *)
LEMMA VerifiedKeys ==
  ASSUME IInv, LastPage, NEW dir,
         \/ dir = "monthly" /\ step = "months"
         \/ dir = "daily" /\ step = "days"
  PROVE  /\ Verified(Keys) \subseteq Checked(dir, symbol, bucket)
         /\ \A t \in Checked(dir, symbol, stood) :
              Opening < 2 * t => t \in Verified(Keys)
<1>1. bucket \in SUBSET Objects /\ stood \in SUBSET Objects
  BY DEF IInv, TypeOK
<1>2. /\ Keys \subseteq Here /\ Keys \subseteq Nat
      /\ \A p \in Entries(step, symbol, stood) : Opening < p => p \in Keys
  BY KeysFacts
<1>3. /\ Verified(Keys) \subseteq Nat
      /\ \A t \in Int : t \in Verified(Keys) <=> 2 * t \in Keys /\ 2 * t + 1 \in Keys
  BY <1>2, VerifiedFacts
<1>4. \A t \in Int : t \in Checked(dir, symbol, bucket)
        <=> 2 * t \in Here /\ 2 * t + 1 \in Here
  BY <1>1, CheckedEntries DEF Here
<1>5. /\ Checked(dir, symbol, stood) \subseteq Nat
      /\ \A t \in Int : t \in Checked(dir, symbol, stood)
           <=> /\ 2 * t \in Entries(step, symbol, stood)
               /\ 2 * t + 1 \in Entries(step, symbol, stood)
  BY <1>1, CheckedEntries
<1>6. ASSUME NEW t \in Checked(dir, symbol, stood), Opening < 2 * t
      PROVE  t \in Verified(Keys)
  <2>1. t \in Int /\ Opening \in Int
    BY <1>5, OpeningIsInt DEF IInv
  <2>2. Opening < 2 * t + 1
    BY <2>1, <1>6
  <2>. QED
    BY <2>1, <2>2, <1>2, <1>3, <1>5, <1>6
<1>7. ASSUME NEW t \in Verified(Keys)
      PROVE  t \in Checked(dir, symbol, bucket)
  BY <1>2, <1>3, <1>4
<1>. QED
  BY <1>6, <1>7

-----------------------------------------------------------------------------
(* Every step preserves it *)

LEMMA InitInv == Init => IInv
<1>. SUFFICES ASSUME Init
              PROVE  IInv
  OBVIOUS
<1>. USE DEF Init
<1>1. bucket \subseteq Objects
  OBVIOUS
<1>2. pages \in Seq(SUBSET Int) /\ DOMAIN pages = {}
  OBVIOUS
<1>3. TypeOK
  BY <1>1, <1>2 DEF TypeOK, Listings, BeforeAll
<1>4. WalkMissesNothing
  <2>1. Opening = -1 /\ marker = -1
    BY DEF Opening, BeforeAll
  <2>2. Listed(pages) = {}
    BY <1>2 DEF Listed
  <2>3. Entries(step, symbol, stood) \subseteq Nat
    BY <1>1, <1>3, HereFacts DEF Listings
  <2>4. \A p \in Entries(step, symbol, stood) : ~ (p <= marker)
    BY <2>1, <2>3
  <2>. QED
    BY <1>2, <2>2, <2>4 DEF WalkMissesNothing
<1>. QED
  BY <1>3, <1>4 DEF IInv, MonthsRead, CoverageIsComplete

(* A listing that has just opened has missed nothing. *)
LEMMA JustOpened ==
  ASSUME TypeOK, pages = <<>>, marker = Opening
  PROVE  WalkMissesNothing
<1>1. DOMAIN pages = {} /\ Listed(pages) = {}
  BY DEF Listed
<1>2. Opening \in Int
  BY OpeningIsInt
<1>3. ASSUME step \in Listings, NEW p \in Entries(step, symbol, stood)
      PROVE  ~ (Opening < p /\ p <= marker)
  <2>1. p \in Int
    BY <1>3, EntriesBounded DEF TypeOK
  <2>. QED
    BY <2>1, <1>2
<1>. QED
  BY <1>1, <1>3 DEF WalkMissesNothing

LEMMA NextPageInv == IInv /\ NextPage => IInv'
<1>. SUFFICES ASSUME IInv, NextPage
              PROVE  IInv'
  OBVIOUS
<1>. USE DEF NextPage
<1>. DEFINE P == Page(Here, marker)
<1>1. /\ step \in Listings /\ marker \in Int /\ pages \in Seq(SUBSET Int)
      /\ TypeOK /\ stood \subseteq bucket
  BY DEF IInv, TypeOK
<1>2. UNCHANGED <<archive, step, symbol, months, todo, coverages, panel, stood>>
  OBVIOUS
<1>3. /\ Here \subseteq 0 .. Highest /\ Here \subseteq Nat
      /\ Entries(step, symbol, stood) \subseteq Here
  BY <1>1, HereFacts
<1>4. /\ P \subseteq After(Here, marker)
      /\ \A p \in P : \A q \in After(Here, marker) : q < p => q \in P
      /\ Max(P) \in P /\ \A p \in P : p <= Max(P)
  BY <1>1, <1>3, HighestIsNat, PageFacts
<1>5. P \subseteq Here /\ P \subseteq Int /\ \A p \in P : p > marker
  <2>1. \A p \in P : p \in Here /\ p > marker
    BY <1>4 DEF After
  <2>2. \A p \in Here : p \in Int
    BY <1>3
  <2>. QED
    BY <2>1, <2>2
<1>6. pages' = Append(pages, P) /\ marker' = Max(P) /\ marker' \in P /\ marker' \in Int
  BY <1>4, <1>5
<1>7. pages' \in Seq(SUBSET Int)
  BY <1>1, <1>5, <1>6
<1>8. TypeOK'
  BY <1>1, <1>2, <1>6, <1>7 DEF TypeOK, archive
<1>9. WalkMissesNothing'
  <2>1. Listed(pages') = Listed(pages) \union P
    BY <1>1, <1>6, ListedAppend
  <2>2. Entries(step, symbol, stood)' = Entries(step, symbol, stood)
        /\ Entries(step, symbol, bucket)' = Here
        /\ Opening' = Opening
    BY <1>2 DEF archive, Opening, Here
  <2>3. ASSUME NEW p \in Entries(step, symbol, stood), Opening < p, p <= marker'
        PROVE  p \in Listed(pages')
    <3>1. p \in Here
      BY <1>3
    <3>2. p \in Int
      BY <3>1, <1>3
    <3>3. CASE p <= marker
      BY <1>1, <2>1, <2>3, <3>3 DEF IInv, WalkMissesNothing
    <3>4. CASE p > marker
      <4>1. p \in After(Here, marker)
        BY <3>1, <3>4 DEF After
      <4>2. p = marker' \/ p < marker'
        BY <2>3, <3>2, <1>6
      <4>. QED
        BY <4>1, <4>2, <1>4, <1>6, <2>1
    <3>. QED
      BY <1>1, <3>2, <3>3, <3>4
  <2>4. Listed(pages') \subseteq Here
    BY <1>1, <1>5, <2>1 DEF IInv, WalkMissesNothing, Here
  <2>5. /\ DOMAIN pages = 1 .. Len(pages) /\ Len(pages) \in Nat
        /\ DOMAIN pages' = 1 .. Len(pages) + 1
        /\ \A n \in 1 .. Len(pages) : pages'[n] = pages[n] /\ pages[n] \subseteq Int
        /\ pages'[Len(pages) + 1] = P
    BY <1>1, <1>6
  <2>6. \A n \in 1 .. Len(pages) : \A p \in pages[n] :
          p <= marker /\ \A m \in 1 .. n - 1 : \A q \in pages[m] : q < p
    BY <1>1, <2>5 DEF IInv, WalkMissesNothing
  <2>7. ASSUME NEW n \in DOMAIN pages', NEW p \in pages'[n]
        PROVE  p <= marker' /\ \A m \in 1 .. n - 1 : \A q \in pages'[m] : q < p
    <3>1. marker < marker'
      BY <1>5, <1>6
    <3>2. CASE n \in 1 .. Len(pages)
      <4>1. p \in pages[n] /\ p \in Int
        BY <2>5, <3>2
      <4>2. p <= marker'
        BY <4>1, <2>6, <3>1, <3>2, <1>1, <1>6
      <4>3. \A m \in 1 .. n - 1 : pages'[m] = pages[m]
        BY <2>5, <3>2
      <4>. QED
        BY <4>1, <4>2, <4>3, <2>6, <3>2
    <3>3. CASE n = Len(pages) + 1
      <4>1. p \in P /\ p > marker /\ p <= marker' /\ p \in Int
        BY <2>5, <3>3, <1>4, <1>5, <1>6
      <4>2. ASSUME NEW m \in 1 .. n - 1, NEW q \in pages'[m]
            PROVE  q < p
        <5>1. m \in 1 .. Len(pages) /\ q \in pages[m] /\ q \in Int
          BY <2>5, <3>3
        <5>2. q <= marker
          BY <5>1, <2>6
        <5>. QED
          BY <4>1, <5>1, <5>2, <1>1
      <4>. QED
        BY <4>1, <4>2
    <3>. QED
      BY <2>5, <3>2, <3>3
  <2>. QED
    BY <2>2, <2>3, <2>4, <2>7 DEF WalkMissesNothing
<1>10. (stood \subseteq bucket)' /\ MonthsRead' /\ CoverageIsComplete'
  BY <1>2 DEF IInv, MonthsRead, CoverageIsComplete, archive
<1>. QED
  BY <1>8, <1>9, <1>10 DEF IInv

(* The archive only adds. *)
LEMMA PublishInv == IInv /\ Publish => IInv'
<1>. SUFFICES ASSUME IInv, Publish
              PROVE  IInv'
  OBVIOUS
<1>1. /\ bucket \subseteq bucket' /\ bucket' \subseteq Objects
      /\ published' \in Nat
      /\ UNCHANGED <<trades, today, began, client>>
  BY DEF Publish, IInv, TypeOK
<1>2. UNCHANGED <<step, symbol, months, marker, pages, todo, coverages, panel, stood>>
  BY <1>1 DEF client
<1>3. TypeOK'
  BY <1>1, <1>2 DEF IInv, TypeOK
<1>4. (stood \subseteq bucket)'
  BY <1>1, <1>2 DEF IInv
<1>5. WalkMissesNothing'
  <2>1. step \in Listings =>
          Entries(step, symbol, bucket) \subseteq Entries(step, symbol, bucket')
    BY <1>1, EntriesGrow
  <2>2. Opening' = Opening
    BY <1>2 DEF Opening
  <2>. QED
    BY <1>2, <2>1, <2>2 DEF IInv, WalkMissesNothing
<1>6. MonthsRead'
  BY <1>1, <1>2, CheckedGrows DEF IInv, MonthsRead
<1>7. CoverageIsComplete'
  BY <1>1, <1>2, CheckedGrows DEF IInv, CoverageIsComplete
<1>. QED
  BY <1>3, <1>4, <1>5, <1>6, <1>7 DEF IInv

LEMMA NewDayInv == IInv /\ NewDay => IInv'
<1>. SUFFICES ASSUME IInv, NewDay
              PROVE  IInv'
  OBVIOUS
<1>1. /\ today' = today + 1 /\ today < LastDay
      /\ UNCHANGED <<bucket, trades, began, published>> /\ UNCHANGED client
  BY DEF NewDay
<1>2. UNCHANGED <<step, symbol, months, marker, pages, todo, coverages, panel, stood>>
  BY <1>1 DEF client
<1>3. today' \in Days
  BY <1>1 DEF IInv, TypeOK, Days
<1>4. TypeOK'
  BY <1>1, <1>2, <1>3 DEF IInv, TypeOK
<1>5. WalkMissesNothing'
  BY <1>1, <1>2 DEF IInv, WalkMissesNothing, Opening
<1>6. (stood \subseteq bucket)' /\ MonthsRead' /\ CoverageIsComplete'
  BY <1>1, <1>2 DEF IInv, MonthsRead, CoverageIsComplete
<1>. QED
  BY <1>4, <1>5, <1>6 DEF IInv

LEMMA GiveUpInv == IInv /\ GiveUp => IInv'
<1>. SUFFICES ASSUME IInv, GiveUp
              PROVE  IInv'
  OBVIOUS
<1>1. /\ step' = "failed"
      /\ UNCHANGED <<bucket, trades, today, began, published>>
      /\ UNCHANGED <<symbol, months, marker, pages, todo, coverages, panel, stood>>
  BY DEF GiveUp, archive
<1>2. TypeOK'
  BY <1>1 DEF IInv, TypeOK
<1>3. WalkMissesNothing' /\ MonthsRead'
  BY <1>1 DEF WalkMissesNothing, MonthsRead, Listings
<1>4. (stood \subseteq bucket)' /\ CoverageIsComplete'
  BY <1>1 DEF IInv, CoverageIsComplete
<1>. QED
  BY <1>2, <1>3, <1>4 DEF IInv

(* Turning to the next symbol keeps the invariant whenever the coverages     *)
(* gathered so far are complete.                                             *)
LEMMA ListSymbolInv ==
  ASSUME IInv, UNCHANGED archive,
         NEW left \in SUBSET Symbols, NEW covers \in SUBSET Coverages,
         ListSymbol(left, covers), CoverageIsComplete'
  PROVE  IInv'
<1>1. /\ coverages' = covers /\ months' = {} /\ pages' = <<>> /\ marker' = BeforeAll
      /\ UNCHANGED <<bucket, trades, today, began, published>>
  BY DEF ListSymbol, Open, archive
<1>2. pages' \in Seq(SUBSET Int) /\ marker' \in Int /\ marker' = -1
  BY <1>1 DEF BeforeAll
<1>3. CASE left = {}
  <2>1. step' = "built" /\ UNCHANGED <<symbol, todo, stood>>
    BY <1>3 DEF ListSymbol
  <2>2. TypeOK'
    BY <1>1, <1>2, <2>1 DEF IInv, TypeOK
  <2>3. WalkMissesNothing' /\ MonthsRead' /\ (stood \subseteq bucket)'
    BY <1>1, <2>1 DEF IInv, WalkMissesNothing, MonthsRead, Listings
  <2>. QED
    BY <2>2, <2>3 DEF IInv
<1>4. CASE left # {}
  <2>1. step' = "months" /\ symbol' = Min(left) /\ todo' = left \ {Min(left)}
        /\ stood' = bucket
    BY <1>4 DEF ListSymbol
  <2>2. Min(left) \in left
    <3>1. left \subseteq Nat
      BY DEF Symbols
    <3>. QED
      BY <3>1, <1>4, MinIsMember
  <2>3. symbol' \in Symbols \ todo' /\ todo' \subseteq Symbols
    BY <2>1, <2>2
  <2>4. TypeOK'
    BY <1>1, <1>2, <2>1, <2>3 DEF IInv, TypeOK, Listings
  <2>5. Opening' = marker'
    BY <1>1, <2>1 DEF Opening
  <2>6. WalkMissesNothing'
    <3>1. DOMAIN pages' = {} /\ Listed(pages') = {}
      BY <1>1 DEF Listed
    <3>2. Entries(step, symbol, stood)' \subseteq Nat
      <4>1. stood' \in SUBSET Objects /\ step' \in Listings
        BY <2>1, <2>4 DEF TypeOK, Listings
      <4>2. Entries(step, symbol, stood)' \subseteq 0 .. Highest
        BY <4>1, EntriesBounded
      <4>. QED
        BY <4>2, HighestIsNat
    <3>3. \A p \in Entries(step, symbol, stood)' : ~ (p <= marker')
      BY <1>2, <3>2
    <3>. QED
      BY <3>1, <3>3 DEF WalkMissesNothing
  <2>7. MonthsRead' /\ (stood \subseteq bucket)'
    BY <1>1, <2>1 DEF MonthsRead
  <2>. QED
    BY <2>4, <2>6, <2>7 DEF IInv
<1>. QED
  BY <1>3, <1>4

LEMMA SymbolsListedInv == IInv /\ SymbolsListed => IInv'
<1>. SUFFICES ASSUME IInv, SymbolsListed
              PROVE  IInv'
  OBVIOUS
<1>1. /\ ListSymbol(Keys \intersect Quoted, coverages) /\ UNCHANGED archive
  BY DEF SymbolsListed
<1>2. coverages \in SUBSET Coverages /\ Keys \intersect Quoted \in SUBSET Symbols
  BY DEF IInv, TypeOK
<1>3. coverages' = coverages /\ bucket' = bucket
  BY <1>1 DEF ListSymbol, archive
<1>4. CoverageIsComplete'
  BY <1>3 DEF IInv, CoverageIsComplete
<1>. QED
  BY <1>1, <1>2, <1>4, ListSymbolInv

LEMMA MonthsListedInv == IInv /\ MonthsListed => IInv'
<1>. SUFFICES ASSUME IInv, MonthsListed
              PROVE  IInv'
  OBVIOUS
<1>1. /\ step = "months" /\ LastPage /\ UNCHANGED archive
      /\ todo \in SUBSET Symbols /\ coverages \in SUBSET Coverages
      /\ bucket \in SUBSET Objects
  BY DEF MonthsListed, IInv, TypeOK
<1>2. CASE Verified(Keys) = {} /\ ListSymbol(todo, coverages)
  <2>1. coverages' = coverages /\ bucket' = bucket
    BY <1>1, <1>2 DEF ListSymbol, archive
  <2>2. CoverageIsComplete'
    BY <2>1 DEF IInv, CoverageIsComplete
  <2>. QED
    BY <1>1, <1>2, <2>2, ListSymbolInv
<1>3. CASE /\ Verified(Keys) # {} /\ months' = Verified(Keys)
           /\ step' = "days" /\ Open(AfterLastMonth(Verified(Keys)))
           /\ UNCHANGED <<symbol, todo, coverages, panel, stood>>
  <2>1. /\ Verified(Keys) \subseteq Checked("monthly", symbol, bucket)
        /\ \A t \in Checked("monthly", symbol, stood) :
             Opening < 2 * t => t \in Verified(Keys)
    BY <1>1, VerifiedKeys
  <2>2. Checked("monthly", symbol, stood) \subseteq Verified(Keys)
    <3>1. Checked("monthly", symbol, stood) \subseteq Nat
      BY CheckedEntries DEF IInv, TypeOK
    <3>2. \A t \in Nat : Opening < 2 * t
      BY <1>1 DEF Opening, BeforeAll
    <3>. QED
      BY <2>1, <3>1, <3>2
  <2>3. Checked("monthly", symbol, bucket) \subseteq Months
    BY <1>1, CheckedInCalendar
  <2>4. /\ months' \in SUBSET Months /\ months' # {} /\ step' = "days"
        /\ pages' = <<>> /\ marker' = AfterLastMonth(months')
        /\ UNCHANGED <<bucket, trades, today, began, published>>
        /\ UNCHANGED <<symbol, todo, coverages, panel, stood>>
    BY <1>1, <1>3, <2>1, <2>3 DEF Open, archive
  <2>5. AfterLastMonth(months') \in Int
    BY <2>4, LastMonth
  <2>6. pages' \in Seq(SUBSET Int) /\ marker' \in Int
    BY <2>4, <2>5
  <2>7. TypeOK'
    BY <1>1, <2>4, <2>6 DEF IInv, TypeOK, Listings
  <2>8. WalkMissesNothing'
    <3>1. Opening' = marker' /\ DOMAIN pages' = {} /\ Listed(pages') = {}
      BY <2>4 DEF Opening, Listed
    <3>2. Entries(step, symbol, stood)' \subseteq Int
      <4>1. stood' \in SUBSET Objects /\ step' \in Listings
        BY <2>7, <2>4 DEF TypeOK, Listings
      <4>2. Entries(step, symbol, stood)' \subseteq 0 .. Highest
        BY <4>1, EntriesBounded
      <4>. QED
        BY <4>2, HighestIsNat
    <3>3. \A p \in Entries(step, symbol, stood)' : ~ (marker' < p /\ p <= marker')
      BY <2>6, <3>2
    <3>. QED
      BY <3>1, <3>3 DEF WalkMissesNothing
  <2>9. MonthsRead'
    BY <1>3, <2>1, <2>2, <2>4 DEF MonthsRead
  <2>10. (stood \subseteq bucket)' /\ CoverageIsComplete'
    BY <2>4 DEF IInv, CoverageIsComplete
  <2>. QED
    BY <2>7, <2>8, <2>9, <2>10 DEF IInv
<1>. QED
  BY <1>2, <1>3 DEF MonthsListed

LEMMA DaysListedInv == IInv /\ DaysListed => IInv'
<1>. SUFFICES ASSUME IInv, DaysListed
              PROVE  IInv'
  OBVIOUS
<1>1. /\ step = "days" /\ LastPage /\ UNCHANGED archive
      /\ ListSymbol(todo, coverages \union {Coverage})
      /\ bucket' = bucket /\ coverages' = coverages \union {Coverage}
  BY DEF DaysListed, archive, ListSymbol
<1>2. /\ todo \in SUBSET Symbols /\ coverages \in SUBSET Coverages
      /\ bucket \in SUBSET Objects /\ stood \in SUBSET Objects
      /\ symbol \in Symbols /\ months \in SUBSET Months /\ months # {}
  BY <1>1 DEF IInv, TypeOK
<1>3. /\ Verified(Keys) \subseteq Checked("daily", symbol, bucket)
      /\ \A t \in Checked("daily", symbol, stood) :
           Opening < 2 * t => t \in Verified(Keys)
  BY <1>1, VerifiedKeys
<1>4. Coverage \in Coverages
  <2>1. Verified(Keys) \subseteq Days
    BY <1>2, <1>3, CheckedInCalendar
  <2>. QED
    BY <1>2, <2>1 DEF Coverage, Coverages
<1>5. ASSUME NEW t \in Checked("daily", symbol, stood),
             t >= FirstDayOf(Max(months) + 1)
      PROVE  t \in Verified(Keys)
  <2>1. t \in Int
    BY <1>2, CheckedEntries
  <2>2. FirstDayOf(Max(months) + 1) \in Int
    BY <1>2, LastMonth
  <2>3. Opening = 2 * FirstDayOf(Max(months) + 1) - 1
    BY <1>1 DEF Opening, AfterLastMonth
  <2>4. Opening < 2 * t
    BY <1>5, <2>1, <2>2, <2>3
  <2>. QED
    BY <1>3, <2>4
<1>6. CoverageIsComplete'
  <2>. SUFFICES ASSUME NEW c \in coverages'
                PROVE  /\ Checked("monthly", c.symbol, c.since) \subseteq c.months
                       /\ c.months \subseteq Checked("monthly", c.symbol, bucket)
                       /\ c.daily_only_dates \subseteq Checked("daily", c.symbol, bucket)
                       /\ \A t \in Checked("daily", c.symbol, c.since) :
                            t >= FirstDayOf(Max(c.months) + 1) => t \in c.daily_only_dates
    BY <1>1 DEF CoverageIsComplete
  <2>1. CASE c \in coverages
    BY <2>1 DEF IInv, CoverageIsComplete
  <2>2. CASE c = Coverage
    <3>1. c.symbol = symbol /\ c.months = months /\ c.since = stood
          /\ c.daily_only_dates = Verified(Keys)
      BY <2>2 DEF Coverage
    <3>. QED
      BY <1>1, <1>3, <1>5, <3>1 DEF IInv, MonthsRead
  <2>. QED
    BY <1>1, <2>1, <2>2
<1>7. coverages \union {Coverage} \in SUBSET Coverages
  BY <1>2, <1>4
<1>. QED
  BY <1>1, <1>2, <1>6, <1>7, ListSymbolInv

LEMMA StutterInv == IInv /\ UNCHANGED vars => IInv'
<1>. SUFFICES ASSUME IInv, UNCHANGED vars
              PROVE  IInv'
  OBVIOUS
<1>1. /\ UNCHANGED <<bucket, trades, today, began, published>>
      /\ UNCHANGED <<step, symbol, months, marker, pages, todo, coverages, panel, stood>>
  BY DEF vars, archive, client
<1>2. TypeOK' /\ (stood \subseteq bucket)' /\ MonthsRead' /\ CoverageIsComplete'
  BY <1>1 DEF IInv, TypeOK, MonthsRead, CoverageIsComplete
<1>3. WalkMissesNothing'
  BY <1>1 DEF IInv, WalkMissesNothing, Opening
<1>. QED
  BY <1>2, <1>3 DEF IInv

LEMMA NextInv == IInv /\ [Next]_vars => IInv'
BY NextPageInv, GiveUpInv, SymbolsListedInv, MonthsListedInv, DaysListedInv,
   PublishInv, NewDayInv, StutterInv DEF Next

LEMMA Inductive == Spec => []IInv
<1>. QED
  BY InitInv, NextInv, PTL DEF Spec

-----------------------------------------------------------------------------
(* Theorems *)

(* The bucket and the locals of the enumeration keep their types. *)
THEOREM TypeCorrect == Spec => []TypeOK
<1>1. IInv => TypeOK
  BY DEF IInv
<1>. QED
  BY <1>1, Inductive, PTL

(* However large a page, and whatever is published between two of them, a    *)
(* listing (`walk_listing`) skips nothing that stood when it began, invents  *)
(* nothing and returns nothing twice.                                        *)
THEOREM ListingsMissNothing == Spec => []WalkMissesNothing
<1>1. IInv => WalkMissesNothing
  BY DEF IInv
<1>. QED
  BY <1>1, Inductive, PTL

(* Every coverage holds the months, and the days behind the last of them,    *)
(* that could be verified when its listing began, and no others than the     *)
(* archive publishes with their checksum (`coverage_for_symbol`).            *)
THEOREM CoveragesAreComplete == Spec => []CoverageIsComplete
<1>1. IInv => CoverageIsComplete
  BY DEF IInv
<1>. QED
  BY <1>1, Inductive, PTL

-----------------------------------------------------------------------------
(* Days and months *)

LEMMA ProductGrows ==
  ASSUME NEW a \in Int, NEW b \in Int, NEW d \in Nat, a <= b
  PROVE  a * d <= b * d
<1>1. (b - a) * d >= 0
  OBVIOUS
<1>2. (b - a) * d = b * d - a * d
  OBVIOUS
<1>3. a * d \in Int /\ b * d \in Int
  OBVIOUS
<1>. QED
  BY <1>1, <1>2, <1>3

LEMMA MonthBounds ==
  ASSUME NEW t \in Nat
  PROVE  /\ MonthOf(t) \in Nat
         /\ MonthOf(t) * DaysPerMonth <= t
         /\ t < (MonthOf(t) + 1) * DaysPerMonth
<1>. DEFINE q == t \div DaysPerMonth
            r == t % DaysPerMonth
<1>1. q \in Nat /\ r \in Nat /\ r < DaysPerMonth /\ t = DaysPerMonth * q + r
  OBVIOUS
<1>2. (q + 1) * DaysPerMonth = DaysPerMonth * q + DaysPerMonth
  BY <1>1
<1>3. q * DaysPerMonth = DaysPerMonth * q /\ DaysPerMonth * q \in Nat
  BY <1>1
<1>. HIDE DEF q, r
<1>4. MonthOf(t) = q
  BY DEF MonthOf, q
<1>. QED
  BY <1>1, <1>2, <1>3, <1>4

(* A month has begun once its first day has. *)
LEMMA MonthBegun ==
  ASSUME NEW t \in Nat, NEW m \in Int
  PROVE  FirstDayOf(m) <= t <=> m <= MonthOf(t)
<1>1. /\ MonthOf(t) \in Nat /\ MonthOf(t) * DaysPerMonth <= t
      /\ t < (MonthOf(t) + 1) * DaysPerMonth
  BY MonthBounds
<1>. DEFINE q == MonthOf(t)
<1>2. q \in Nat /\ m * DaysPerMonth \in Int /\ q * DaysPerMonth \in Int
      /\ (q + 1) * DaysPerMonth \in Int
  BY <1>1
<1>3. m <= q => m * DaysPerMonth <= q * DaysPerMonth
  BY <1>2, ProductGrows
<1>4. q + 1 <= m => (q + 1) * DaysPerMonth <= m * DaysPerMonth
  BY <1>2, ProductGrows
<1>. QED
  BY <1>1, <1>2, <1>3, <1>4 DEF FirstDayOf

LEMMA MonthsAdvance ==
  ASSUME NEW t \in Nat
  PROVE  /\ MonthOf(t) \in Nat /\ MonthOf(t + 1) \in Nat
         /\ MonthOf(t) <= MonthOf(t + 1) /\ MonthOf(t + 1) <= MonthOf(t) + 1
<1>1. MonthOf(t) \in Nat /\ MonthOf(t + 1) \in Nat
  BY MonthBounds
<1>2. FirstDayOf(MonthOf(t)) <= t /\ FirstDayOf(MonthOf(t + 1)) <= t + 1
  BY <1>1, MonthBegun
<1>3. MonthOf(t) <= MonthOf(t + 1)
  <2>1. FirstDayOf(MonthOf(t)) <= t + 1
    BY <1>1, <1>2 DEF FirstDayOf
  <2>. QED
    BY <1>1, <2>1, MonthBegun
<1>4. MonthOf(t + 1) <= MonthOf(t) + 1
  <2>1. FirstDayOf(MonthOf(t + 1) - 1) = FirstDayOf(MonthOf(t + 1)) - DaysPerMonth
    BY <1>1 DEF FirstDayOf
  <2>2. FirstDayOf(MonthOf(t + 1) - 1) <= t
    BY <1>1, <1>2, <2>1 DEF FirstDayOf
  <2>. QED
    BY <1>1, <2>2, MonthBegun
<1>. QED
  BY <1>1, <1>3, <1>4

-----------------------------------------------------------------------------
(* No day between a symbol's two listings *)

(* The months that were all published before the enumeration began: those    *)
(* before the last one that is over, or will be at the midnight it may see.  *)
LastOver == MonthOf(began + 1) - 1
Settled == {o \in Objects : /\ o.dir = "monthly" /\ TradedIn(o.symbol, o.at)
                            /\ o.at < LastOver}

DaysInv ==
  /\ today \in {began, began + 1}
  /\ \A o \in bucket : Due(o, today)
  /\ Settled \subseteq stood
  /\ \A c \in coverages :
       Settled \subseteq c.since /\ c.since \subseteq bucket /\ c.months # {}
  /\ step = "built" => panel = build_universe_panel(coverages)

LEMMA DueLater ==
  ASSUME NEW o \in Objects, NEW t \in Nat, Due(o, t) PROVE Due(o, t + 1)
<1>1. o.at \in Nat
  BY ObjectFacts
<1>2. FirstDayOf(o.at + 1) \in Int
  BY <1>1 DEF FirstDayOf
<1>. QED
  BY <1>1, <1>2 DEF Due

(* What the bucket has at the outset, late files excepted. *)
LEMMA DaysAtTheOutset == Init => DaysInv
<1>. SUFFICES ASSUME Init PROVE DaysInv
  OBVIOUS
<1>1. today \in Nat /\ began = today /\ stood = bucket /\ coverages = {} /\ step = "symbols"
  BY DEF Init, Days
<1>2. PICK late \in SUBSET {o \in Objects : Due(o, today) /\ MayBeLate(o)} :
        bucket = {o \in Objects : Due(o, today)} \ late
  BY DEF Init
<1>3. ASSUME NEW o \in Settled PROVE o \in bucket
  <2>1. /\ o \in Objects /\ o.dir = "monthly" /\ TradedIn(o.symbol, o.at)
        /\ o.at \in Nat /\ o.at < MonthOf(today + 1) - 1
    BY <1>1, ObjectFacts DEF Settled, LastOver
  <2>2. MonthOf(today) \in Nat /\ MonthOf(today + 1) <= MonthOf(today) + 1
        /\ MonthOf(today + 1) \in Nat
    BY <1>1, MonthsAdvance
  <2>3. FirstDayOf(o.at + 1) <= today
    BY <1>1, <2>1, <2>2, MonthBegun
  <2>4. Due(o, today)
    BY <2>1, <2>3 DEF Due
  <2>5. ~MayBeLate(o)
    BY <2>1, <2>2 DEF MayBeLate
  <2>. QED
    BY <1>2, <2>1, <2>4, <2>5
<1>. QED
  BY <1>1, <1>2, <1>3 DEF DaysInv

LEMMA DaysKept ==
  ASSUME IInv, DaysInv, UNCHANGED <<trades, began>>, bucket \subseteq bucket',
         today' \in {began, began + 1}, \A o \in bucket' : Due(o, today)',
         stood' = stood \/ stood' = bucket,
         \A c \in coverages' :
           \/ c \in coverages
           \/ c.since = stood /\ c.months = months /\ months # {},
         step' = "built" => panel' = build_universe_panel(coverages')
  PROVE  DaysInv'
<1>1. Settled' = Settled
  BY DEF Settled, LastOver, TradedIn
<1>2. Settled \subseteq stood /\ stood \subseteq bucket
  BY DEF DaysInv, IInv
<1>3. \A c \in coverages' :
        Settled \subseteq c.since /\ c.since \subseteq bucket' /\ c.months # {}
  BY <1>2 DEF DaysInv
<1>. QED
  BY <1>1, <1>2, <1>3 DEF DaysInv

LEMMA NextDays == IInv /\ DaysInv /\ [Next]_vars => DaysInv'
<1>. SUFFICES ASSUME IInv, DaysInv, [Next]_vars PROVE DaysInv'
  OBVIOUS
<1>1. /\ today \in {began, began + 1} /\ today \in Nat /\ \A o \in bucket : Due(o, today)
      /\ bucket \subseteq Objects
      /\ step = "built" => panel = build_universe_panel(coverages)
  BY DEF DaysInv, IInv, TypeOK, Days
<1>2. UNCHANGED archive =>
        /\ UNCHANGED <<bucket, trades, today, began>>
        /\ \A o \in bucket' : Due(o, today)'
  BY <1>1 DEF archive, Due, TradedIn
<1>3. ASSUME UNCHANGED archive, NEW left, NEW covers, ListSymbol(left, covers),
             \/ covers = coverages
             \/ covers = coverages \union {Coverage} /\ months # {}
      PROVE  DaysInv'
  <2>1. /\ coverages' = covers /\ (stood' = stood \/ stood' = bucket)
        /\ step' = "built" => panel' = build_universe_panel(coverages')
    BY <1>3 DEF ListSymbol
  <2>2. Coverage.since = stood /\ Coverage.months = months
    BY DEF Coverage
  <2>. QED
    BY <1>1, <1>2, <1>3, <2>1, <2>2, DaysKept
<1>4. CASE SymbolsListed
  BY <1>3, <1>4 DEF SymbolsListed
<1>5. CASE MonthsListed
  <2>1. UNCHANGED archive
    BY <1>5 DEF MonthsListed
  <2>2. CASE ListSymbol(todo, coverages)
    BY <1>3, <2>1, <2>2
  <2>3. CASE step' = "days" /\ UNCHANGED <<symbol, todo, coverages, panel, stood>>
    BY <1>1, <1>2, <2>1, <2>3, DaysKept
  <2>. QED
    BY <1>5, <2>2, <2>3 DEF MonthsListed
<1>6. CASE DaysListed
  BY <1>3, <1>6 DEF DaysListed, IInv, TypeOK
<1>7. CASE NextPage \/ GiveUp
  <2>1. UNCHANGED <<archive, coverages, panel, stood>> /\ step' # "built"
    BY <1>7 DEF NextPage, GiveUp, Listings
  <2>. QED
    BY <1>1, <1>2, <2>1, DaysKept
<1>8. CASE Publish
  <2>1. PICK o \in Objects : Due(o, today) /\ bucket' = bucket \union {o}
    BY <1>8 DEF Publish
  <2>2. UNCHANGED <<trades, today, began, step, coverages, panel, stood>>
    BY <1>8 DEF Publish, client
  <2>3. \A p \in bucket' : Due(p, today)'
    BY <1>1, <2>1, <2>2 DEF Due, TradedIn
  <2>. QED
    BY <1>1, <2>1, <2>2, <2>3, DaysKept
<1>9. CASE NewDay
  <2>1. today' = began + 1 /\ today' = today + 1
        /\ UNCHANGED <<bucket, trades, began, step, coverages, panel, stood>>
    BY <1>9 DEF NewDay, client
  <2>2. \A o \in bucket' : Due(o, today + 1)
    BY <1>1, <2>1, DueLater
  <2>3. \A o \in bucket' : Due(o, today)'
    BY <2>1, <2>2 DEF Due, TradedIn
  <2>. QED
    BY <1>1, <2>1, <2>3, DaysKept
<1>10. CASE UNCHANGED vars
  BY <1>1, <1>2, <1>10, DaysKept DEF vars, client
<1>. QED
  BY <1>4, <1>5, <1>6, <1>7, <1>8, <1>9, <1>10 DEF Next

(* A month published while the Universe is enumerated is the last one that   *)
(* is over, so a day before the last month covered is of a month that was    *)
(* there all along.                                                          *)
LEMMA DaysAreCovered ==
  ASSUME IInv, DaysInv, NEW c \in coverages, NEW t \in Int,
         \/ t \in Checked("daily", c.symbol, c.since)
         \/ MonthOf(t) \in Checked("monthly", c.symbol, c.since)
  PROVE  MonthOf(t) \in c.months \/ t \in c.daily_only_dates
<1>1. /\ c \in Coverages /\ c.months \in SUBSET Months /\ c.months # {}
      /\ c.symbol \in Symbols
      /\ Settled \subseteq c.since /\ c.since \subseteq bucket /\ bucket \subseteq Objects
  BY DEF IInv, TypeOK, DaysInv, Coverages
<1>2. /\ Checked("monthly", c.symbol, c.since) \subseteq c.months
      /\ c.months \subseteq Checked("monthly", c.symbol, bucket)
      /\ \A d \in Checked("daily", c.symbol, c.since) :
           d >= FirstDayOf(Max(c.months) + 1) => d \in c.daily_only_dates
  BY DEF IInv, CoverageIsComplete
<1>3. CASE MonthOf(t) \in Checked("monthly", c.symbol, c.since)
  BY <1>2, <1>3
<1>4. CASE t \in Checked("daily", c.symbol, c.since) /\ t >= FirstDayOf(Max(c.months) + 1)
  BY <1>2, <1>4
<1>5. CASE t \in Checked("daily", c.symbol, c.since) /\ ~ t >= FirstDayOf(Max(c.months) + 1)
  <2>. DEFINE last == Max(c.months)
              month == MonthOf(t)
  <2>1. last \in c.months /\ last \in Nat /\ FirstDayOf(last + 1) \in Int
    BY <1>1, LastMonth
  <2>2. PICK p \in c.since : p.dir = "daily" /\ p.symbol = c.symbol /\ p.at = t
    BY <1>5 DEF Checked
  <2>3. t \in trades[c.symbol] /\ t \in Days /\ t \in Nat
    BY <1>1, <2>2, ObjectFacts DEF DaysInv, Due, Days
  <2>4. month \in Nat /\ month <= last
    <3>1. month \in Nat /\ ~ (last + 1 <= month)
      BY <1>5, <2>1, <2>3, MonthBounds, MonthBegun
    <3>. QED
      BY <2>1, <3>1
  <2>5. last <= LastOver /\ LastOver \in Int
    <3>1. PICK o \in bucket : o.dir = "monthly" /\ o.at = last
      BY <1>2, <2>1 DEF Checked
    <3>2. FirstDayOf(last + 1) <= today
      BY <3>1 DEF DaysInv, Due
    <3>3. today \in Nat /\ began \in Nat /\ today \in {began, began + 1}
      BY DEF IInv, TypeOK, Days, DaysInv
    <3>4. last + 1 <= MonthOf(today) /\ MonthOf(today) \in Nat
      BY <2>1, <3>2, <3>3, MonthBegun, MonthBounds
    <3>5. MonthOf(today) <= MonthOf(began + 1) /\ MonthOf(began + 1) \in Nat
      <4>1. /\ MonthOf(began) \in Nat /\ MonthOf(began + 1) \in Nat
            /\ MonthOf(began) <= MonthOf(began + 1)
        BY <3>3, MonthsAdvance
      <4>. QED
        BY <3>3, <4>1
    <3>. QED
      BY <2>1, <3>4, <3>5 DEF LastOver
  <2>6. CASE month = last
    BY <2>1, <2>6
  <2>7. CASE month # last
    <3>. DEFINE o(kind) == [dir |-> "monthly", symbol |-> c.symbol, at |-> month, kind |-> kind]
    <3>1. month < LastOver /\ month \in Months
      <4>1. last <= MonthOf(LastDay) /\ MonthOf(LastDay) \in Nat
        BY <1>1, <2>1, MonthFacts DEF Months
      <4>. QED
        BY <2>1, <2>4, <2>5, <2>7, <4>1 DEF Months
    <3>2. TradedIn(c.symbol, month)
      BY <2>3 DEF TradedIn
    <3>. HIDE DEF month
    <3>3. o("zip") \in Settled /\ o("checksum") \in Settled
      BY <1>1, <3>1, <3>2 DEF Settled, Objects, Kinds
    <3>4. [o("zip") EXCEPT !.kind = "checksum"] = o("checksum")
      OBVIOUS
    <3>5. month \in Checked("monthly", c.symbol, c.since)
      BY <1>1, <3>3, <3>4 DEF Checked
    <3>. QED
      BY <1>2, <3>5 DEF month
  <2>. QED
    BY <2>6, <2>7
<1>. QED
  BY <1>3, <1>4, <1>5

(* What was published of a day, or of its month, when the listings of its    *)
(* symbol began is tradeable in the Universe, though midnight passes and     *)
(* months are rolled up while it is enumerated (`build_universe_panel`).     *)
THEOREM NoPublishedDayIsLost == Spec => []NoDayIsLost
<1>1. IInv /\ DaysInv => NoDayIsLost
  <2>. SUFFICES ASSUME IInv, DaysInv, step = "built", NEW c \in coverages,
                       NEW t \in WindowStart .. WindowEnd, t >= ArchiveFloor,
                       \/ t \in Checked("daily", c.symbol, c.since)
                       \/ MonthOf(t) \in Checked("monthly", c.symbol, c.since)
                PROVE  t \in panel[c.symbol]
    BY DEF NoDayIsLost
  <2>1. MonthOf(t) \in c.months \/ t \in c.daily_only_dates
    BY DaysAreCovered
  <2>2. panel = build_universe_panel(coverages)
    BY DEF DaysInv
  <2>. QED
    BY <2>1, <2>2 DEF build_universe_panel
<1>. QED
  BY <1>1, Inductive, DaysAtTheOutset, NextDays, PTL DEF Spec
=============================================================================
