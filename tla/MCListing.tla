------------------------------ MODULE MCListing ------------------------------
(***************************************************************************)
(* TLC instance of Listing: two months and a day, a symbol that always   *)
(* trades, one of another book, and one that also always trades, is         *)
(* delisted, comes late or leaves a month out.                              *)
(***************************************************************************)
EXTENDS Listing

MCQuoted == {1, 3}
MCTrades ==
  {<<Days, {0}, days>> : days \in {Days, {0, 1}, 4 .. LastDay, {0, 1} \union {LastDay}}}
=============================================================================
