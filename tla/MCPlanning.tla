------------------------------ MODULE MCPlanning ------------------------------
(***************************************************************************)
(* TLC instances of Planning: three names over a week, in every combination *)
(* of a few bar histories, and vendor panels in which an asset is renamed,  *)
(* its name is given to another, an asset vanishes and comes back, or the   *)
(* capitalisations are sparse.  Any one datum is then restated.             *)
(***************************************************************************)
EXTENDS Planning

\* Ids, names and days.  Name 4 is one the venue does not use.
MCIds == {1, 2, 3}
MCSymbols == {1, 2, 3}
MCTickers == {1, 2, 3, 4}

Bar(close, volume) == [close |-> close, volume |-> volume]
Steady == <<Bar(2, 1), Bar(2, 1), Bar(2, 1), Bar(2, 1), Bar(2, 1)>>
Rising == <<Bar(1, 1), Bar(1, 1), Bar(2, 1), Bar(3, 1), Bar(3, 1)>>
Ruined == <<Bar(1, 1), Bar(0, 1), Bar(0, 1), Bar(1, 1), Bar(2, 1)>>
Halted == <<Bar(1, 2), Bar(1, 2), Bar(2, 0), Bar(2, 2), Bar(3, 2)>>
Delisted == <<Bar(1, 1), Bar(2, 1), Bar(3, 1), NoBar, NoBar>>
Never == <<NoBar, NoBar, NoBar, NoBar, NoBar>>
Short == <<NoBar, NoBar, Bar(1, 1), Bar(1, 1), Bar(1, 1)>>
MCHistories ==
  [MCSymbols -> {Steady, Rising, Halted, Delisted}]
    \union {[s \in MCSymbols |-> h] : h \in {Never, Short, Ruined}}

Row(ticker, cap, price) ==
  [ticker |-> ticker, cap |-> cap, price |-> price, volume |-> 1]
Named(ticker) == Row(ticker, 1, 1)
Gone == NoRow
Silent == <<Gone, Gone, Gone, Gone, Gone>>
Daily == <<Named(3), Row(3, 1, 2), Row(3, 2, 2), Row(3, 2, 3), Row(3, 2, 3)>>
Weekly == <<Row(2, 2, 1), Gone, Row(2, 1, 1), Gone, Gone>>
Sparse == <<Row(1, 1, 1), Gone, Row(1, 2, 1), Gone, Row(1, 2, 1)>>
Plain == <<Named(1), Named(1), Row(1, 1, 2), Row(1, 1, 2), Named(1)>>
Renamed == <<Named(1), Named(1), Named(4), Named(4), Named(4)>>
Vanishing == <<Named(1), Named(1), Gone, Gone, Gone>>
Heir == <<Gone, Gone, Row(1, 3, 3), Row(1, 3, 3), Row(1, 3, 3)>>
BackAgain == <<Named(2), Gone, Gone, Named(2), Row(2, 2, 2)>>

PanelOf(a, b, c) == [t \in Days |-> [id \in MCIds |-> <<a, b, c>>[id][t]]]
MCPanels ==
  {PanelOf(Plain, Weekly, Daily), PanelOf(Plain, BackAgain, Daily),
   PanelOf(Sparse, Weekly, Silent), PanelOf(Vanishing, Heir, Daily),
   PanelOf(Renamed, Heir, BackAgain), PanelOf(Silent, Silent, Silent)}

\* No table, one that follows a rename, and one that forgets to end a link.
Link(id, base, from, until) ==
  [id |-> id, base |-> base, from |-> from, until |-> until]
MCTables ==
  {{}, {Link(1, 1, 1, 3), Link(1, 4, 3, Open), Link(2, 1, 3, Open)},
   {Link(1, 1, 1, Open), Link(1, 4, 3, Open)}}

MCBarsSeen == {NoBar, Bar(3, 1), Bar(1, 0)}
MCRowsSeen == {NoRow, Row(1, 2, 1), Row(2, 1, 3), Row(3, Missing, 2)}

\* Only runs priced by the vendor, with the table that follows the rename.
MCNoHistories == {}
MCResolved == {{Link(1, 1, 1, 3), Link(1, 4, 3, Open), Link(2, 1, 3, Open)}}
MCMissing == -1
=============================================================================
