------------------------------- MODULE MCWalk -------------------------------
(***************************************************************************)
(* TLC instances of Walk: two symbols, so that one can halt while the other *)
(* trades, and a window that holds two rebalances with a day between them.  *)
(***************************************************************************)
EXTENDS Walk

CONSTANTS A, B   \* model values

MCSymbols == {A, B}
=============================================================================
