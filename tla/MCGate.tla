-------------------------------- MODULE MCGate --------------------------------
(***************************************************************************)
(* A published grid of three cells, whose long-short leg has two of them    *)
(* wiped out.  Two of three signs must agree and the count may be one off,  *)
(* the proportions of 18 of 21 and two off five: exactly one cell may be    *)
(* wiped out of a run that passes.  The long-only leg has a tie.            *)
(***************************************************************************)
EXTENDS Gate

MCPublished ==
  [long_short |-> <<[sharpe |-> 3, cumReturn |-> 90],
                    [sharpe |-> 2, cumReturn |-> -100],
                    [sharpe |-> 1, cumReturn |-> -100]>>,
   long_only |-> <<[sharpe |-> 2, cumReturn |-> 90],
                   [sharpe |-> 2, cumReturn |-> 50],
                   [sharpe |-> 3, cumReturn |-> 70]>>]

================================================================================
