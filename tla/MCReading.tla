------------------------------ MODULE MCReading -------------------------------
(***************************************************************************)
(* Four days: daily rebalances over a window with two rebalances after the  *)
(* first, or one holding period that fills it.  A week of two days puts the *)
(* weekly figure above the mean per rebalance.  Losses of all and of half,  *)
(* gains of half and of one and a half: no path but a flat one comes back   *)
(* to where it began.                                                       *)
(***************************************************************************)
EXTENDS Reading

MCReturns == {-2, -1, 0, 1, 3}

================================================================================
