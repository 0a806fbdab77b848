------------------------------- MODULE Runner -------------------------------
(***************************************************************************)
(* The runner and what it leaves behind: `run_config`, `run_grid` and       *)
(* `run_gate` of runner.py, the trials log (trials.py), the result store    *)
(* (results.py) and the provenance of a run (provenance.py).                *)
(*                                                                         *)
(* An invocation is one `momentum run`, `grid` or `gate`.  Invocations may  *)
(* overlap, may die at any step, and share one working tree with a          *)
(* researcher who edits it and commits.  git tracks the trials log, so a    *)
(* line appended since the last commit makes the tree dirty.  The text of a *)
(* file is a version number, and what simulating a config comes to is left  *)
(* open: a result, one of CELL_REFUSALS, or any other exception, which like *)
(* a kill just ends the invocation (Abort).                                 *)
(***************************************************************************)
EXTENDS Naturals, Sequences, FiniteSets

CONSTANTS
  Invocations,       \* CLI invocations (`run_at_utc`)
  Asked,             \* the commands each invocation may be given
  Runs, Grids,       \* configs naming one run, and configs naming a grid
  Faithful, Venue,   \* the two grids `momentum gate` is given
  Code,              \* the source the program is imported from
  Kind,              \* the strategy kind of each config
  Shared,            \* what a gate's two configs must agree on, by version
  NCells,            \* cells of a grid (21)
  MaxCommits,        \* bound on the commits of the history
  MaxEdits           \* bound on the edits made to each file

Configs == Runs \union Grids
Files == Configs \union {Code}
Commands == {"run", "grid", "gate"}

ASSUME RunnerAssumption ==
  /\ Asked \in [Invocations -> SUBSET Commands]
  /\ Faithful \in Grids /\ Venue \in Grids /\ Faithful # Venue
  /\ Code \notin Configs
  /\ DOMAIN Kind = Configs
  /\ NCells \in Nat \ {0}
  /\ MaxCommits \in Nat \ {0}
  /\ MaxEdits \in Nat

VARIABLES
  text,          \* the working copy of every file
  history,       \* the texts at each commit
  logged,        \* how much of the trials log the last commit holds
  trials,        \* trials.jsonl
  cell_results,  \* results/<commit>/[<grid>/]<name>.json
  grid_results,  \* results/<commit>/<grid>/grid.json
  gate_results,  \* results/<commit>/gate.json
  inv            \* the locals of every invocation

tree == <<text, history, logged>>
store == <<trials, cell_results, grid_results, gate_results>>
vars == <<tree, store, inv>>

-----------------------------------------------------------------------------
(* Provenance *)

DirtyByTheLog == logged < Len(trials)   \* Mutation: edits do not count
Dirty == text # history[Len(history)] \/ logged < Len(trials)

Directory == [commit : Nat, dirty : BOOLEAN]
Texts == [Files -> Nat]

(* What counts as one configuration tried: the config's bytes and, for a     *)
(* cell of a grid, the cell.                                                 *)
Fingerprint(config, sha, at) == <<config, sha, at>>
FingerprintsIn(log, kind) ==
  {log[n].fingerprint : n \in {m \in DOMAIN log : log[m].kind = kind}}

Counts == [configurations_tried : Nat, trials_recorded : Nat]

(* The counts as of a log, for a run about to be added to it. *)
CountedWithoutItself(log, fp, kind) ==   \* Mutation: only what came before
  [configurations_tried |-> Cardinality(FingerprintsIn(log, kind)),
   trials_recorded |-> Len(log) + 1]
CountsTried(log, fp, kind) ==
  [configurations_tried |-> Cardinality(FingerprintsIn(log, kind) \union {fp}),
   trials_recorded |-> Len(log) + 1]

(* The same counts, for a log that is already complete. *)
CountsRecorded(log, kind) ==
  [configurations_tried |-> Cardinality(FingerprintsIn(log, kind)),
   trials_recorded |-> Len(log)]

-----------------------------------------------------------------------------
(* What is kept, and where *)

Outcomes == {"recorded", "refused"}
Kinds == {Kind[c] : c \in Configs}
Trial == [by : Invocations, fingerprint : Configs \X Nat \X Nat, kind : Kinds,
          dir : Directory, outcome : Outcomes, counts : Counts]

(* A file is identified by its path; writing it again replaces it. *)
CellResult == [path : Directory \X Configs \X Nat, by : Invocations,
               version : Nat, sha : Nat, code : Nat]
GridResult == [path : Directory \X Configs, by : Invocations, sha : Nat,
               cells : Seq(Outcomes), counts : Counts]
GateResult == [path : Directory, by : Invocations, grids : Seq(Directory)]

Written(files, f) == {g \in files : g.path # f.path} \union {f}

(* Where an invocation is, and what it holds: the code it was imported from, *)
(* the configs it has yet to run (none once a gate has only its verdict to   *)
(* file), the one it is running as loaded, as hashed and as filed, the cell  *)
(* it is at (0 in a plain run), the counts it read, the outcomes of this     *)
(* grid so far and where its finished grids are filed.                       *)
Phases == {"unborn", "load", "hash", "head", "status", "count", "simulate",
           "append", "summarise", "judge", "done", "aborted"}
Invocation == [pc : Phases, command : Commands, code : Nat, todo : Seq(Configs),
               version : Nat, sha : Nat, dir : Directory, cell : Nat,
               counts : Counts, cells : Seq(Outcomes), grids : Seq(Directory)]

Blank(phase) ==
  [pc |-> phase, command |-> "run", code |-> 0, todo |-> <<>>, version |-> 0,
   sha |-> 0, dir |-> [commit |-> 0, dirty |-> FALSE], cell |-> 0,
   counts |-> [configurations_tried |-> 0, trials_recorded |-> 0],
   cells |-> <<>>, grids |-> <<>>]

At(i, phase) == inv[i].pc = phase
Working(i) == inv[i].pc \notin {"unborn", "done", "aborted"}
ConfigOf(i) == Head(inv[i].todo)
FingerprintOf(i) == Fingerprint(ConfigOf(i), inv[i].sha, inv[i].cell)

-----------------------------------------------------------------------------
(* Starting a run, a grid or a gate *)

Start(i, command, todo) ==
  /\ At(i, "unborn") /\ command \in Asked[i]
  /\ inv' = [inv EXCEPT ![i].pc = "load", ![i].command = command,
                        ![i].code = text[Code], ![i].todo = todo]
  /\ UNCHANGED <<tree, store>>

RunConfig(i) == \E c \in Runs : Start(i, "run", <<c>>)
RunGrid(i) == \E c \in Grids : Start(i, "grid", <<c>>)

(* The two halves must name one grid and differ in their price source only:  *)
(* checked on the configs as they are before either grid runs.               *)
AssertGatePair == Shared[Faithful][text[Faithful]] = Shared[Venue][text[Venue]]
RunGate(i) == AssertGatePair /\ Start(i, "gate", <<Faithful, Venue>>)

(* `load_config`, the hash of the file's bytes and the two git commands of   *)
(* `describe_head` are four reads of a tree that may move between them.      *)
LoadConfig(i) ==
  /\ At(i, "load")
  /\ inv' = [inv EXCEPT ![i].pc = "hash", ![i].version = text[ConfigOf(i)],
                        ![i].cell = IF ConfigOf(i) \in Grids THEN 1 ELSE 0,
                        ![i].cells = <<>>]
  /\ UNCHANGED <<tree, store>>

HashConfig(i) ==
  /\ At(i, "hash")
  /\ inv' = [inv EXCEPT ![i].pc = "head", ![i].sha = text[ConfigOf(i)]]
  /\ UNCHANGED <<tree, store>>

ReadHead(i) ==
  /\ At(i, "head")
  /\ inv' = [inv EXCEPT ![i].pc = "status",
                        ![i].dir = [commit |-> Len(history), dirty |-> FALSE]]
  /\ UNCHANGED <<tree, store>>

ReadStatus(i) ==
  /\ At(i, "status")
  /\ inv' = [inv EXCEPT ![i].pc = IF inv[i].todo = <<>> THEN "judge" ELSE "count",
                        ![i].dir.dirty = Dirty]
  /\ UNCHANGED <<tree, store>>

-----------------------------------------------------------------------------
(* One run, or one cell: `_run_one` *)

ReadCounts(i) ==
  /\ At(i, "count")
  /\ inv' = [inv EXCEPT ![i].pc = "simulate",
       ![i].counts = CountsTried(trials, FingerprintOf(i), Kind[ConfigOf(i)])]
  /\ UNCHANGED <<tree, store>>

TrialLine(i, outcome) ==
  [by |-> i, fingerprint |-> FingerprintOf(i), kind |-> Kind[ConfigOf(i)],
   dir |-> inv[i].dir, outcome |-> outcome, counts |-> inv[i].counts]

append_trial(i, outcome) == trials' = Append(trials, TrialLine(i, outcome))

(* After a cell the grid goes on to its next one, whichever way it ended; a  *)
(* plain run is over.                                                        *)
AfterCell(i, outcome, again) ==
  inv' = [inv EXCEPT ![i] =
    IF inv[i].cell = 0 THEN Blank("done")
    ELSE [inv[i] EXCEPT !.cells = Append(@, outcome),
                        !.cell = IF inv[i].cell < NCells THEN @ + 1 ELSE @,
                        !.pc = IF inv[i].cell < NCells THEN again ELSE "summarise"]]

NextCellOnce(i, outcome) ==   \* Mutation: counted once for the whole grid
  AfterCell(i, outcome, "simulate")
NextCellRunOn(i, outcome) ==   \* Mutation: an off-by-one in the expansion
  inv' = [inv EXCEPT ![i].cells = Append(@, outcome), ![i].cell = @ + 1,
                     ![i].pc = IF inv[i].cell <= NCells THEN "count" ELSE "summarise"]
NextCell(i, outcome) == AfterCell(i, outcome, "count")

(* The configuration is refused: counted, and no result is written. *)
RefuseUncounted(i) ==   \* Mutation: the refusal leaves before the log is appended
  /\ At(i, "simulate")
  /\ NextCell(i, "refused")
  /\ UNCHANGED <<tree, store>>
RefuseAndRetry(i) ==    \* Mutation: a refused cell is run again
  /\ At(i, "simulate")
  /\ inv' = [inv EXCEPT ![i].pc = "count"]
  /\ UNCHANGED <<tree, store>>
Refuse(i) ==
  /\ At(i, "simulate")
  /\ append_trial(i, "refused")
  /\ NextCell(i, "refused")
  /\ UNCHANGED <<tree, cell_results, grid_results, gate_results>>

WriteOneFile(i) ==   \* Mutation: the cell is left out of the file's name
  /\ At(i, "simulate")
  /\ cell_results' = Written(cell_results,
       [path |-> <<inv[i].dir, ConfigOf(i), 0>>, by |-> i,
        version |-> inv[i].version, sha |-> inv[i].sha, code |-> inv[i].code])
  /\ inv' = [inv EXCEPT ![i].pc = "append"]
  /\ UNCHANGED <<tree, trials, grid_results, gate_results>>
WriteResult(i) ==
  /\ At(i, "simulate")
  /\ cell_results' = Written(cell_results,
       [path |-> <<inv[i].dir, ConfigOf(i), inv[i].cell>>, by |-> i,
        version |-> inv[i].version, sha |-> inv[i].sha, code |-> inv[i].code])
  /\ inv' = [inv EXCEPT ![i].pc = "append"]
  /\ UNCHANGED <<tree, trials, grid_results, gate_results>>

RecordUncounted(i) ==   \* Mutation: only refusals are logged
  /\ At(i, "append")
  /\ NextCell(i, "recorded")
  /\ UNCHANGED <<tree, store>>
AppendRecorded(i) ==
  /\ At(i, "append")
  /\ append_trial(i, "recorded")
  /\ NextCell(i, "recorded")
  /\ UNCHANGED <<tree, cell_results, grid_results, gate_results>>

-----------------------------------------------------------------------------
(* Finishing a grid and a gate *)

GridPathAtTheEnd(i) ==   \* Mutation: HEAD is read again
  <<[commit |-> Len(history), dirty |-> Dirty], ConfigOf(i)>>
GridPath(i) == <<inv[i].dir, ConfigOf(i)>>

(* grid.json under the provenance the grid began with, its counts read off   *)
(* the log after the last cell.  After its second grid a gate reads HEAD     *)
(* once more, to file the verdict under.                                     *)
WriteGrid(i) ==
  /\ At(i, "summarise")
  /\ grid_results' = Written(grid_results,
       [path |-> GridPath(i), by |-> i, sha |-> inv[i].sha,
        cells |-> inv[i].cells, counts |-> CountsRecorded(trials, Kind[ConfigOf(i)])])
  /\ inv' = [inv EXCEPT ![i] =
       IF inv[i].command = "grid" THEN Blank("done")
       ELSE [inv[i] EXCEPT !.todo = Tail(@), !.grids = Append(@, inv[i].dir),
                           !.pc = IF Len(inv[i].todo) > 1 THEN "load" ELSE "head"]]
  /\ UNCHANGED <<tree, trials, cell_results, gate_results>>

WriteGate(i) ==
  /\ At(i, "judge")
  /\ gate_results' = Written(gate_results,
       [path |-> inv[i].dir, by |-> i, grids |-> inv[i].grids])
  /\ inv' = [inv EXCEPT ![i] = Blank("done")]
  /\ UNCHANGED <<tree, trials, cell_results, grid_results>>

(* A kill, or an exception that is not a refusal: nothing more is written. *)
Abort(i) ==
  /\ Working(i)
  /\ inv' = [inv EXCEPT ![i] = Blank("aborted")]
  /\ UNCHANGED <<tree, store>>

-----------------------------------------------------------------------------
(* The researcher *)

Edit(f) ==
  /\ text[f] < MaxEdits
  /\ text' = [text EXCEPT ![f] = @ + 1]
  /\ UNCHANGED <<history, logged, store, inv>>

Commit ==
  /\ Dirty /\ Len(history) < MaxCommits
  /\ history' = Append(history, text)
  /\ logged' = Len(trials)
  /\ UNCHANGED <<text, store, inv>>

-----------------------------------------------------------------------------

Init ==
  /\ text = [f \in Files |-> 0]
  /\ history = <<text>>
  /\ logged = 0
  /\ trials = <<>>
  /\ cell_results = {} /\ grid_results = {} /\ gate_results = {}
  /\ inv = [i \in Invocations |-> Blank("unborn")]

(* The steps of an invocation that go forward. *)
Step(i) ==
  \/ LoadConfig(i)
  \/ HashConfig(i)
  \/ ReadHead(i)
  \/ ReadStatus(i)
  \/ ReadCounts(i)
  \/ Refuse(i)
  \/ WriteResult(i)
  \/ AppendRecorded(i)
  \/ WriteGrid(i)
  \/ WriteGate(i)

Next ==
  \/ \E i \in Invocations :
       RunConfig(i) \/ RunGrid(i) \/ RunGate(i) \/ Step(i) \/ Abort(i)
  \/ \E f \in Files : Edit(f)
  \/ Commit

Spec == Init /\ [][Next]_vars

(* A started process runs on; nobody has to start, edit, commit or kill. *)
FairSpec == Spec /\ \A i \in Invocations : WF_vars(Step(i))

-----------------------------------------------------------------------------
(* Properties *)

TypeOK ==
  /\ text \in Texts
  /\ history \in Seq(Texts) /\ history # <<>>
  /\ logged \in Nat
  /\ trials \in Seq(Trial)
  /\ cell_results \subseteq CellResult
  /\ grid_results \subseteq GridResult
  /\ gate_results \subseteq GateResult
  /\ inv \in [Invocations -> Invocation]
  /\ \A i \in Invocations : inv[i].cell <= NCells

(* The configurations of a strategy that the first n lines of a log name.    *)
NamedIn(log, n, kind) ==
  {log[m].fingerprint : m \in {m \in 1 .. n : log[m].kind = kind}}

(* The counts beside every trial are those of the log as it once was, with   *)
(* the trial itself included: of the first `trials_recorded - 1` lines,      *)
(* those of its strategy name `configurations_tried` configurations together *)
(* with its own.  Later appends, by this invocation or another, never        *)
(* falsify them.                                                             *)
CountsAreOfAPrefix ==
  \A k \in DOMAIN trials :
    LET t == trials[k]
        n == t.counts.trials_recorded - 1
    IN  /\ n \in 0 .. (k - 1)
        /\ t.counts.configurations_tried =
             Cardinality(NamedIn(trials, n, t.kind) \union {t.fingerprint})

(* The cells of a grid, and the two grids of a gate, count one another: a    *)
(* trial's counts include every earlier trial of its own invocation.         *)
CellsCountOneAnother ==
  \A k, l \in DOMAIN trials :
    k < l /\ trials[k].by = trials[l].by => trials[l].counts.trials_recorded > k

LinesOf(i, fp) ==
  {k \in DOMAIN trials : trials[k].by = i /\ trials[k].fingerprint = fp}

(* A grid's summary and the log agree: all of its cells were attempted, each *)
(* has exactly one line by that invocation, within the lines the summary's   *)
(* counts were read from, and ended there the way the summary says.  So a    *)
(* grid of 21 counts as 21 configurations tried.                             *)
GridSummaryMatchesLog ==
  \A g \in grid_results :
    /\ Len(g.cells) = NCells
    /\ g.counts.configurations_tried >= NCells
    /\ \A n \in 1 .. NCells :
         LET lines == LinesOf(g.by, Fingerprint(g.path[2], g.sha, n))
         IN  \E k \in lines : lines = {k} /\ k <= g.counts.trials_recorded
                             /\ trials[k].outcome = g.cells[n]

(* grid.json lies beside the cells it summarises, though the tree went dirty *)
(* under it and may have been committed since: whatever it says was recorded *)
(* is in its own directory.                                                  *)
CellsBesideTheirGrid ==
  \A g \in grid_results : \A n \in 1 .. NCells :
    g.cells[n] = "recorded" =>
      \E f \in cell_results : f.path = <<g.path[1], g.path[2], n>>

Counted(f) ==
  \E k \in DOMAIN trials :
    /\ trials[k].by = f.by /\ trials[k].outcome = "recorded"
    /\ trials[k].fingerprint = Fingerprint(f.path[2], f.sha, f.path[3])
    /\ trials[k].dir = f.path[1]

(* However an invocation ends, at most the one result it was just writing is *)
(* on disk without its trials line.                                          *)
AtMostOneUncounted ==
  \A i \in Invocations :
    LET uncounted == {f \in cell_results : f.by = i /\ ~Counted(f)}
    IN  /\ Cardinality(uncounted) <= 1
        /\ uncounted # {} => At(i, "append") \/ At(i, "aborted")

(* Of every run the log calls recorded the result is on disk, in the         *)
(* directory and under the name its line gives: a kill between the two       *)
(* writes leaves a result without a line, never a line without a result,     *)
(* and the cells of a grid, a re-run or another invocation may replace a     *)
(* result and never do away with one.                                        *)
TrialsHaveTheirResults ==
  \A k \in DOMAIN trials :
    LET fp == trials[k].fingerprint IN
    trials[k].outcome = "recorded" =>
      \E f \in cell_results : f.path = <<trials[k].dir, fp[1], fp[3]>>

(* What was never committed is never filed as a commit's: a result under a   *)
(* clean commit comes from no newer text of its config, and from no newer    *)
(* code, than that commit or some later one holds, whatever is edited or     *)
(* committed meanwhile.                                                      *)
UncommittedIsFiledApart ==
  \A f \in cell_results : ~f.path[1].dirty =>
    \E n \in f.path[1].commit .. Len(history) :
      f.version <= history[n][f.path[2]] /\ f.code <= history[n][Code]

(* Every invocation ends, and a grid with it: no refusal stalls it.          *)
InvocationsEnd == \A i \in Invocations : Working(i) ~> ~Working(i)

-----------------------------------------------------------------------------
(* What the documentation says and the runner does not do *)

(* "Beside the two grid directories it was read from" (`write_gate`).        *)
GateBesideItsGrids ==
  \A g \in gate_results : \A k \in DOMAIN g.grids : g.grids[k] = g.path
=============================================================================
