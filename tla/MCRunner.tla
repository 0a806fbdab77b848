------------------------------ MODULE MCRunner ------------------------------
(***************************************************************************)
(* TLC instances of Runner: one plain config and the two grids of a gate,   *)
(* two cells to a grid, so that there is a first and a last cell.           *)
(*                                                                         *)
(* MCSpec joins two instances.  Alone: an invocation of any kind beside a   *)
(* researcher who edits up to two files and commits up to twice.  Beside    *)
(* another: a run or a grid next to a grid, which may be a re-run over the  *)
(* same files, in a tree that is committed at most once and not edited.     *)
(* Only what nobody has to do is kept back, never a step of a started       *)
(* invocation, so FairSpec and MCSpec ask the same of a process.            *)
(***************************************************************************)
EXTENDS Runner

MCRuns == {"btc"}
MCGrids == {"faithful", "venue"}
MCKind == [c \in MCRuns \union MCGrids |->
             IF c \in MCRuns THEN "hold" ELSE "cross_sectional"]

(* An edit to the Venue Run's config breaks the pair, one to the Faithful    *)
(* Run's does not.                                                           *)
MCShared == [c \in MCGrids |-> [v \in 0 .. 1 |-> IF c = "venue" THEN v ELSE 0]]

MCAsked == <<Commands, {"run", "grid"}>>

MaxEdited == 2   \* bound on the files edited
Edited == {f \in Files : text[f] > 0}

Alone == At(2, "unborn")
OnlyGrids == At(1, "unborn") \/ ~Working(1) \/ inv[1].command = "grid"

MCNext ==
  \/ \E i \in Invocations : Step(i) \/ Abort(i)
  \/ RunGrid(1)
  \/ Alone /\ (RunConfig(1) \/ RunGate(1))
  \/ Edited = {} /\ OnlyGrids /\ (RunConfig(2) \/ RunGrid(2))
  \/ Alone /\ Cardinality(Edited) < MaxEdited /\ \E f \in Files : Edit(f)
  \/ (Alone \/ Len(history) = 1) /\ Commit

MCSpec == Init /\ [][MCNext]_vars /\ \A i \in Invocations : WF_vars(Step(i))
=============================================================================
