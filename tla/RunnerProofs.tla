---------------------------- MODULE RunnerProofs ----------------------------
(***************************************************************************)
(* Proofs about Runner for any number of invocations, configs, cells and    *)
(* edits, however they overlap, die or are interrupted by commits.          *)
(***************************************************************************)
EXTENDS Runner, TLAPS, FiniteSetTheorems, SequenceTheorems

(* An invocation that is not filing its verdict has a config to run. *)
TodoInv ==
  \A i \in Invocations :
    Working(i) /\ inv[i].pc \notin {"head", "status", "judge"} => inv[i].todo # <<>>

TInv == TypeOK /\ TodoInv

-----------------------------------------------------------------------------
(* The log and its counts *)

LEMMA NamedInIsFinite ==
  ASSUME NEW S, NEW log \in Seq(S), NEW n \in 0 .. Len(log), NEW kind
  PROVE  IsFiniteSet(NamedIn(log, n, kind))
<1> DEFINE M == {m \in 1 .. n : log[m].kind = kind}
           f == [m \in M |-> log[m].fingerprint]
<1>1. IsFiniteSet(M)
  BY FS_Interval, FS_Subset, M \in SUBSET (1 .. n)
<1>2. f \in Surjection(M, NamedIn(log, n, kind))
  BY DEF Surjection, NamedIn
<1>3. QED
  BY <1>1, <1>2, FS_Surjection

LEMMA FingerprintsAreNamed ==
  ASSUME NEW S, NEW log \in Seq(S), NEW kind
  PROVE  FingerprintsIn(log, kind) = NamedIn(log, Len(log), kind)
<1>1. DOMAIN log = 1 .. Len(log)
  BY LenProperties
<1>2. QED
  BY <1>1 DEF FingerprintsIn, NamedIn

(* What the first n lines say does not change when the log grows. *)
LEMMA PrefixIsKept ==
  ASSUME NEW S, NEW log \in Seq(S), NEW e \in S, NEW n \in 0 .. Len(log), NEW kind
  PROVE  NamedIn(Append(log, e), n, kind) = NamedIn(log, n, kind)
<1>1. \A m \in 1 .. n : Append(log, e)[m] = log[m]
  OBVIOUS
<1>2. QED
  BY <1>1 DEF NamedIn

LEMMA CountsTriedProperties ==
  ASSUME NEW S, NEW log \in Seq(S), NEW fp, NEW kind
  PROVE  /\ CountsTried(log, fp, kind) \in Counts
         /\ CountsTried(log, fp, kind).trials_recorded = Len(log) + 1
         /\ CountsTried(log, fp, kind).configurations_tried =
              Cardinality(NamedIn(log, Len(log), kind) \union {fp})
<1>1. IsFiniteSet(NamedIn(log, Len(log), kind))
  BY NamedInIsFinite, Len(log) \in 0 .. Len(log)
<1>2. Cardinality(NamedIn(log, Len(log), kind) \union {fp}) \in Nat
  BY <1>1, FS_AddElement, FS_CardinalityType
<1>3. CountsTried(log, fp, kind) =
        [configurations_tried |-> Cardinality(NamedIn(log, Len(log), kind) \union {fp}),
         trials_recorded |-> Len(log) + 1]
  BY FingerprintsAreNamed, Zenon DEF CountsTried
<1>4. QED
  BY <1>2, <1>3, LenProperties DEF Counts

LEMMA CountsRecordedType ==
  ASSUME NEW S, NEW log \in Seq(S), NEW kind PROVE CountsRecorded(log, kind) \in Counts
<1>1. IsFiniteSet(FingerprintsIn(log, kind))
  BY NamedInIsFinite, FingerprintsAreNamed, Len(log) \in 0 .. Len(log)
<1>2. QED
  BY <1>1, FS_CardinalityType DEF CountsRecorded, Counts

-----------------------------------------------------------------------------
(* Types *)

LEMMA ProvenanceType ==
  ASSUME TypeOK PROVE [commit |-> Len(history), dirty |-> FALSE] \in Directory
BY DEF TypeOK, Directory

LEMMA BlankType ==
  \A phase \in Phases : Blank(phase) \in Invocation /\ Blank(phase).cell = 0
BY EmptySeq DEF Blank, Invocation, Commands, Directory, Counts

LEMMA RunningType ==
  ASSUME TInv, NEW i \in Invocations, inv[i].todo # <<>>
  PROVE  /\ ConfigOf(i) \in Configs
         /\ Tail(inv[i].todo) \in Seq(Configs)
         /\ Len(Tail(inv[i].todo)) = Len(inv[i].todo) - 1
         /\ Kind[ConfigOf(i)] \in Kinds
         /\ FingerprintOf(i) \in Configs \X Nat \X Nat
<1>1. inv[i] \in Invocation /\ inv[i].todo # <<>>
  BY DEF TInv, TypeOK, TodoInv
<1>2. inv[i].todo \in Seq(Configs) /\ inv[i].sha \in Nat /\ inv[i].cell \in Nat
  BY <1>1 DEF Invocation
<1>3. ConfigOf(i) \in Configs
  BY <1>1, <1>2, HeadTailProperties DEF ConfigOf
<1>4. QED
  BY <1>1, <1>2, <1>3, HeadTailProperties DEF Kinds, FingerprintOf, Fingerprint

LEMMA TrialLineType ==
  ASSUME TInv, NEW i \in Invocations, inv[i].todo # <<>>,
         NEW outcome \in Outcomes
  PROVE  TrialLine(i, outcome) \in Trial
<1>1. inv[i] \in Invocation
  BY DEF TInv, TypeOK
<1>2. inv[i].dir \in Directory /\ inv[i].counts \in Counts
  BY <1>1 DEF Invocation
<1>3. QED
  BY <1>2, RunningType DEF TrialLine, Trial

(* It is enough to look at the invocation that moves. *)
LEMMA OneMoves ==
  ASSUME TInv, NEW i \in Invocations, NEW w \in Invocation, inv' = [inv EXCEPT ![i] = w],
         w.cell <= NCells,
         w.pc \in {"done", "aborted", "head", "status", "judge"} \/ w.todo # <<>>
  PROVE  /\ inv' \in [Invocations -> Invocation]
         /\ \A j \in Invocations : inv'[j].cell <= NCells
         /\ TodoInv'
BY DEF TInv, TypeOK, TodoInv, Working, At

LEMMA NextCellType ==
  ASSUME TInv, NEW i \in Invocations, inv[i].todo # <<>>,
         NEW outcome \in Outcomes, NextCell(i, outcome)
  PROVE  /\ inv' \in [Invocations -> Invocation]
         /\ \A j \in Invocations : inv'[j].cell <= NCells
         /\ TodoInv'
<1>1. inv \in [Invocations -> Invocation] /\ inv[i] \in Invocation /\ inv[i].cell <= NCells
  BY DEF TInv, TypeOK
<1>2. inv[i].todo \in Seq(Configs) /\ inv[i].todo # <<>> /\ inv[i].cell \in Nat
      /\ Append(inv[i].cells, outcome) \in Seq(Outcomes)
  BY <1>1 DEF Invocation, TInv, TodoInv
<1> DEFINE next == IF inv[i].cell < NCells THEN inv[i].cell + 1 ELSE inv[i].cell
           phase == IF inv[i].cell < NCells THEN "count" ELSE "summarise"
           on == [inv[i] EXCEPT !.cells = Append(@, outcome), !.cell = next, !.pc = phase]
           w == IF inv[i].cell = 0 THEN Blank("done") ELSE on
<1>3. inv' = [inv EXCEPT ![i] = w]
  BY DEF NextCell, AfterCell
<1>4. next \in Nat /\ next <= NCells /\ phase \in Phases
  BY <1>1, <1>2, RunnerAssumption DEF Phases
<1> HIDE DEF next, phase
<1>5. on \in Invocation /\ on.cell = next /\ on.todo # <<>>
  BY <1>1, <1>2, <1>4 DEF Invocation
<1>6. /\ Blank("done") \in Invocation /\ Blank("done").cell = 0
      /\ Blank("done").pc = "done"
  BY BlankType DEF Phases, Blank
<1> HIDE DEF on
<1>7. w \in Invocation /\ w.cell <= NCells /\ (w.pc = "done" \/ w.todo # <<>>)
  BY <1>4, <1>5, <1>6, RunnerAssumption
<1> HIDE DEF w
<1>8. QED
  BY <1>3, <1>7, OneMoves

LEMMA EndType ==
  ASSUME TInv, NEW i \in Invocations, NEW phase \in {"done", "aborted"},
         inv' = [inv EXCEPT ![i] = Blank(phase)]
  PROVE  /\ inv' \in [Invocations -> Invocation]
         /\ \A j \in Invocations : inv'[j].cell <= NCells
         /\ TodoInv'
<1> DEFINE w == Blank(phase)
<1>1. w \in Invocation /\ w.cell = 0 /\ w.pc = phase
  BY BlankType DEF Phases, Blank
<1>2. inv' = [inv EXCEPT ![i] = w]
  OBVIOUS
<1> HIDE DEF w
<1>3. w.cell <= NCells
  BY <1>1, RunnerAssumption
<1>4. QED
  BY <1>1, <1>2, <1>3, OneMoves

LEMMA StartType ==
  ASSUME TInv, NEW i \in Invocations, NEW command \in Commands,
         NEW todo \in Seq(Configs), todo # <<>>, Start(i, command, todo)
  PROVE  TInv'
<1> DEFINE w == [inv[i] EXCEPT !.pc = "load", !.command = command,
                               !.code = text[Code], !.todo = todo]
<1>1. inv[i] \in Invocation /\ inv[i].cell <= NCells /\ text[Code] \in Nat
  BY DEF TInv, TypeOK, Texts, Files
<1>2. w \in Invocation /\ w.cell = inv[i].cell /\ w.todo = todo
  BY <1>1 DEF Invocation, Phases
<1>3. inv' = [inv EXCEPT ![i] = w]
  BY DEF Start
<1> HIDE DEF w
<1>4. QED
  BY <1>1, <1>2, <1>3, OneMoves DEF Start, TInv, TypeOK, tree, store

LEMMA ReadsType ==
  ASSUME TInv, NEW i \in Invocations,
         LoadConfig(i) \/ HashConfig(i) \/ ReadCounts(i)
  PROVE  TInv'
<1>1. /\ inv[i] \in Invocation /\ inv[i].cell <= NCells
      /\ inv[i].todo # <<>>
  BY DEF TInv, TypeOK, TodoInv, LoadConfig, HashConfig, ReadCounts, Working, At
<1>2. text[ConfigOf(i)] \in Nat /\ ConfigOf(i) \in Configs
  BY <1>1, RunningType DEF TInv, TypeOK, Texts, Files
<1>3. CASE LoadConfig(i)
  <2> DEFINE first == IF ConfigOf(i) \in Grids THEN 1 ELSE 0
             w == [inv[i] EXCEPT !.pc = "hash", !.version = text[ConfigOf(i)],
                                 !.cell = first, !.cells = <<>>]
  <2>1. first \in Nat /\ first <= NCells
    BY RunnerAssumption
  <2>2. inv' = [inv EXCEPT ![i] = w]
    BY <1>3 DEF LoadConfig
  <2> HIDE DEF first
  <2>3. w \in Invocation /\ w.cell = first /\ w.todo = inv[i].todo
    BY <1>1, <1>2, <2>1, EmptySeq DEF Invocation, Phases
  <2> HIDE DEF w
  <2>4. QED
    BY <1>1, <1>3, <2>1, <2>2, <2>3, OneMoves DEF LoadConfig, TInv, TypeOK, tree, store
<1>4. CASE HashConfig(i)
  <2> DEFINE w == [inv[i] EXCEPT !.pc = "head", !.sha = text[ConfigOf(i)]]
  <2>1. w \in Invocation /\ w.cell = inv[i].cell /\ w.todo = inv[i].todo
    BY <1>1, <1>2 DEF Invocation, Phases
  <2>2. inv' = [inv EXCEPT ![i] = w]
    BY <1>4 DEF HashConfig
  <2> HIDE DEF w
  <2>3. QED
    BY <1>1, <1>4, <2>1, <2>2, OneMoves DEF HashConfig, TInv, TypeOK, tree, store
<1>5. CASE ReadCounts(i)
  <2> DEFINE c == CountsTried(trials, FingerprintOf(i), Kind[ConfigOf(i)])
             w == [inv[i] EXCEPT !.pc = "simulate", !.counts = c]
  <2>1. c \in Counts
    BY CountsTriedProperties DEF TInv, TypeOK
  <2>2. inv' = [inv EXCEPT ![i] = w]
    BY <1>5 DEF ReadCounts
  <2> HIDE DEF c
  <2>3. w \in Invocation /\ w.cell = inv[i].cell /\ w.todo = inv[i].todo
    BY <1>1, <2>1 DEF Invocation, Phases
  <2> HIDE DEF w
  <2>4. QED
    BY <1>1, <1>5, <2>2, <2>3, OneMoves DEF ReadCounts, TInv, TypeOK, tree, store
<1>6. QED
  BY <1>3, <1>4, <1>5

LEMMA GitReadsType ==
  ASSUME TInv, NEW i \in Invocations, ReadHead(i) \/ ReadStatus(i)
  PROVE  TInv'
<1>1. inv[i] \in Invocation /\ inv[i].cell <= NCells
  BY DEF TInv, TypeOK
<1>2. CASE ReadHead(i)
  <2> DEFINE d == [commit |-> Len(history), dirty |-> FALSE]
             w == [inv[i] EXCEPT !.pc = "status", !.dir = d]
  <2>1. d \in Directory
    BY ProvenanceType DEF TInv
  <2>2. inv' = [inv EXCEPT ![i] = w]
    BY <1>2 DEF ReadHead
  <2> HIDE DEF d
  <2>3. w \in Invocation /\ w.cell = inv[i].cell /\ w.pc = "status"
    BY <1>1, <2>1 DEF Invocation, Phases
  <2> HIDE DEF w
  <2>4. QED
    BY <1>1, <1>2, <2>2, <2>3, OneMoves DEF ReadHead, TInv, TypeOK, tree, store
<1>3. CASE ReadStatus(i)
  <2> DEFINE d == [inv[i].dir EXCEPT !.dirty = Dirty]
             phase == IF inv[i].todo = <<>> THEN "judge" ELSE "count"
             w == [inv[i] EXCEPT !.pc = phase, !.dir = d]
  <2>1. d \in Directory
    BY <1>1 DEF Invocation, Directory, Dirty
  <2>2. phase \in Phases /\ (phase = "judge" \/ inv[i].todo # <<>>)
    BY DEF Phases
  <2>3. inv' = [inv EXCEPT ![i] = w]
    BY <1>1, <1>3 DEF ReadStatus, Invocation
  <2> HIDE DEF d, phase
  <2>4. /\ w \in Invocation /\ w.cell = inv[i].cell
        /\ w.pc = phase /\ w.todo = inv[i].todo
    BY <1>1, <2>1, <2>2 DEF Invocation
  <2> HIDE DEF w
  <2>5. QED
    BY <1>1, <1>3, <2>2, <2>3, <2>4, OneMoves DEF ReadStatus, TInv, TypeOK, tree, store
<1>4. QED
  BY <1>2, <1>3

LEMMA CellEndsType ==
  ASSUME TInv, NEW i \in Invocations, Refuse(i) \/ AppendRecorded(i)
  PROVE  TInv'
<1> USE DEF Outcomes
<1>1. inv[i].todo # <<>>
  BY DEF Refuse, AppendRecorded, Working, At, TInv, TodoInv
<1>2. PICK outcome \in Outcomes : append_trial(i, outcome) /\ NextCell(i, outcome)
  BY DEF Refuse, AppendRecorded
<1>3. /\ inv' \in [Invocations -> Invocation]
      /\ \A j \in Invocations : inv'[j].cell <= NCells
      /\ TodoInv'
  BY <1>1, <1>2, NextCellType
<1>4. trials' \in Seq(Trial)
  BY <1>1, <1>2, TrialLineType DEF append_trial, TInv, TypeOK
<1>5. QED
  BY <1>3, <1>4 DEF Refuse, AppendRecorded, TInv, TypeOK, tree

LEMMA WriteResultType ==
  ASSUME TInv, NEW i \in Invocations, WriteResult(i) PROVE TInv'
<1> DEFINE f == [path |-> <<inv[i].dir, ConfigOf(i), inv[i].cell>>, by |-> i,
                 version |-> inv[i].version, sha |-> inv[i].sha, code |-> inv[i].code]
           w == [inv[i] EXCEPT !.pc = "append"]
<1>1. /\ inv[i] \in Invocation /\ inv[i].cell <= NCells
      /\ inv[i].todo # <<>>
  BY DEF TInv, TypeOK, TodoInv, WriteResult, Working, At
<1>2. f \in CellResult
  <2>1. ConfigOf(i) \in Configs
    BY <1>1, RunningType
  <2>2. /\ inv[i].dir \in Directory /\ inv[i].cell \in Nat
        /\ inv[i].version \in Nat /\ inv[i].sha \in Nat /\ inv[i].code \in Nat
    BY <1>1 DEF Invocation
  <2>3. QED
    BY <2>1, <2>2 DEF CellResult
<1>3. w \in Invocation /\ w.cell = inv[i].cell /\ w.todo = inv[i].todo
  BY <1>1 DEF Invocation, Phases
<1>4. inv' = [inv EXCEPT ![i] = w] /\ cell_results' = Written(cell_results, f)
  BY DEF WriteResult
<1> HIDE DEF f, w
<1>5. cell_results' \subseteq CellResult
  BY <1>2, <1>4 DEF Written, TInv, TypeOK
<1>6. QED
  BY <1>1, <1>3, <1>4, <1>5, OneMoves DEF WriteResult, TInv, TypeOK, tree

LEMMA WriteGridType ==
  ASSUME TInv, NEW i \in Invocations, WriteGrid(i) PROVE TInv'
<1> DEFINE g == [path |-> GridPath(i), by |-> i, sha |-> inv[i].sha,
                 cells |-> inv[i].cells,
                 counts |-> CountsRecorded(trials, Kind[ConfigOf(i)])]
           rest == Tail(inv[i].todo)
           filed == Append(inv[i].grids, inv[i].dir)
           phase == IF Len(inv[i].todo) > 1 THEN "load" ELSE "head"
           on == [inv[i] EXCEPT !.todo = rest, !.grids = filed, !.pc = phase]
           w == IF inv[i].command = "grid" THEN Blank("done") ELSE on
<1>1. /\ inv[i] \in Invocation /\ inv[i].cell <= NCells
      /\ inv[i].todo # <<>>
  BY DEF TInv, TypeOK, TodoInv, WriteGrid, Working, At
<1>2. g \in GridResult
  <2>1. ConfigOf(i) \in Configs /\ CountsRecorded(trials, Kind[ConfigOf(i)]) \in Counts
    BY <1>1, RunningType, CountsRecordedType DEF TInv, TypeOK
  <2>2. inv[i].dir \in Directory /\ inv[i].sha \in Nat /\ inv[i].cells \in Seq(Outcomes)
    BY <1>1 DEF Invocation
  <2>3. QED
    BY <2>1, <2>2 DEF GridResult, GridPath
<1>3. /\ inv[i].todo \in Seq(Configs) /\ inv[i].cell \in Nat
      /\ filed \in Seq(Directory)
  BY <1>1 DEF Invocation
<1>4. rest \in Seq(Configs) /\ Len(rest) = Len(inv[i].todo) - 1
  BY <1>1, RunningType
<1> HIDE DEF rest
<1>5. phase \in Phases /\ (phase = "head" \/ rest # <<>>)
  <2>1. Len(inv[i].todo) > 1 => rest # <<>>
    BY <1>3, <1>4, Len(<<>>) = 0, LenProperties
  <2>2. QED
    BY <2>1 DEF Phases
<1>6. inv' = [inv EXCEPT ![i] = w]
  BY DEF WriteGrid, rest
<1>7. grid_results' = Written(grid_results, g)
  BY DEF WriteGrid
<1> HIDE DEF g, filed, phase
<1>8. on \in Invocation /\ on.cell = inv[i].cell /\ on.todo = rest /\ on.pc = phase
  BY <1>1, <1>3, <1>4, <1>5 DEF Invocation
<1>9. /\ Blank("done") \in Invocation /\ Blank("done").cell = 0
      /\ Blank("done").pc = "done"
  BY BlankType DEF Phases, Blank
<1> HIDE DEF on
<1>10. w \in Invocation /\ w.cell <= NCells /\ (w.pc \in {"done", "head"} \/ w.todo # <<>>)
  BY <1>1, <1>3, <1>5, <1>8, <1>9, RunnerAssumption
<1> HIDE DEF w
<1>11. grid_results' \subseteq GridResult
  BY <1>2, <1>7 DEF Written, TInv, TypeOK
<1>12. QED
  BY <1>6, <1>10, <1>11, OneMoves DEF WriteGrid, TInv, TypeOK, tree

LEMMA WriteGateType ==
  ASSUME TInv, NEW i \in Invocations, WriteGate(i) PROVE TInv'
<1> DEFINE g == [path |-> inv[i].dir, by |-> i, grids |-> inv[i].grids]
<1>1. g \in GateResult
  BY DEF GateResult, Invocation, TInv, TypeOK
<1>2. gate_results' \subseteq GateResult
  BY <1>1 DEF WriteGate, Written, TInv, TypeOK
<1>3. QED
  BY <1>2, EndType DEF WriteGate, TInv, TypeOK, tree

LEMMA ResearcherType ==
  ASSUME TInv, (\E f \in Files : Edit(f)) \/ Commit PROVE TInv'
<1>1. ASSUME NEW f \in Files, Edit(f) PROVE TInv'
  <2>1. text' \in Texts
    BY <1>1 DEF Edit, TInv, TypeOK, Texts
  <2>2. QED
    BY <1>1, <2>1 DEF Edit, TInv, TypeOK, TodoInv, Working, At, store
<1>2. CASE Commit
  <2>1. history' \in Seq(Texts) /\ history' # <<>> /\ logged' \in Nat
    BY <1>2 DEF Commit, TInv, TypeOK
  <2>2. QED
    BY <1>2, <2>1 DEF Commit, TInv, TypeOK, TodoInv, Working, At, store
<1>3. QED
  BY <1>1, <1>2

LEMMA TypeInvariance == TInv /\ [Next]_vars => TInv'
<1> SUFFICES ASSUME TInv, [Next]_vars PROVE TInv'
  OBVIOUS
<1>1. ASSUME NEW i \in Invocations, RunConfig(i) \/ RunGrid(i) \/ RunGate(i) PROVE TInv'
  <2>1. \A c \in Configs : <<c>> \in Seq(Configs) /\ <<c>> # <<>>
    OBVIOUS
  <2>2. <<Faithful, Venue>> \in Seq(Configs) /\ <<Faithful, Venue>> # <<>>
    BY RunnerAssumption DEF Configs
  <2>3. CASE RunConfig(i)
    BY <2>1, <2>3, StartType DEF RunConfig, Commands, Configs
  <2>4. CASE RunGrid(i)
    BY <2>1, <2>4, StartType DEF RunGrid, Commands, Configs
  <2>5. CASE RunGate(i)
    BY <2>2, <2>5, StartType DEF RunGate, Commands
  <2>6. QED
    BY <1>1, <2>3, <2>4, <2>5
<1>2. ASSUME NEW i \in Invocations, Step(i) PROVE TInv'
  BY <1>2, ReadsType, GitReadsType, CellEndsType, WriteResultType, WriteGridType, WriteGateType DEF Step
<1>3. ASSUME NEW i \in Invocations, Abort(i) PROVE TInv'
  BY <1>3, EndType DEF Abort, TInv, TypeOK, tree, store
<1>4. CASE UNCHANGED vars
  BY <1>4 DEF vars, tree, store, TInv, TypeOK, TodoInv, Working, At
<1>5. QED
  BY <1>1, <1>2, <1>3, <1>4, ResearcherType DEF Next

LEMMA InitialTypes == Init => TInv
<1> SUFFICES ASSUME Init PROVE TInv
  OBVIOUS
<1>1. text \in Texts /\ history \in Seq(Texts) /\ history # <<>> /\ trials \in Seq(Trial)
  BY EmptySeq DEF Init, Texts
<1>2. \A i \in Invocations : inv[i] \in Invocation /\ inv[i].cell = 0 /\ ~Working(i)
  BY BlankType DEF Init, Phases, Working, Blank
<1>3. inv \in [Invocations -> Invocation]
  BY <1>2 DEF Init
<1>4. QED
  BY <1>1, <1>2, <1>3, RunnerAssumption DEF Init, TInv, TypeOK, TodoInv

(* Every file, line and local of the runner is of its type, whatever is asked *)
(* of it and however it ends.                                                 *)
THEOREM TypeCorrect == Spec => []TypeOK
<1>1. TInv => TypeOK
  BY DEF TInv
<1>2. QED
  BY <1>1, InitialTypes, TypeInvariance, PTL DEF Spec

-----------------------------------------------------------------------------
(* The log *)

(* The only steps that touch the log are the two ends of a run or cell. *)
LEMMA WhoAppends ==
  ASSUME TInv, [Next]_vars
  PROVE  \/ UNCHANGED trials
         \/ \E i \in Invocations, outcome \in Outcomes :
              /\ At(i, "simulate") \/ At(i, "append")
              /\ append_trial(i, outcome)
              /\ NextCell(i, outcome)
              /\ outcome = "recorded" => AppendRecorded(i)
<1>1. ASSUME NEW i \in Invocations, Step(i), ~Refuse(i), ~AppendRecorded(i)
      PROVE  UNCHANGED trials
  BY <1>1 DEF Step, LoadConfig, HashConfig, ReadHead, ReadStatus, ReadCounts,
              WriteResult, WriteGrid, WriteGate, store
<1>2. ASSUME NEW i \in Invocations, RunConfig(i) \/ RunGrid(i) \/ RunGate(i) \/ Abort(i)
      PROVE  UNCHANGED trials
  BY <1>2 DEF RunConfig, RunGrid, RunGate, Start, Abort, store
<1>3. ASSUME NEW i \in Invocations, Refuse(i) \/ AppendRecorded(i)
      PROVE  \E outcome \in Outcomes : /\ At(i, "simulate") \/ At(i, "append")
                                       /\ append_trial(i, outcome)
                                       /\ NextCell(i, outcome)
                                       /\ outcome = "recorded" => AppendRecorded(i)
  BY <1>3 DEF Refuse, AppendRecorded, Outcomes
<1>4. (\E f \in Files : Edit(f)) \/ Commit \/ UNCHANGED vars => UNCHANGED trials
  BY DEF Edit, Commit, vars, store
<1>5. QED
  BY <1>1, <1>2, <1>3, <1>4 DEF Next

(* An appended log keeps its lines and ends with the new one. *)
LEMMA AppendedLog ==
  ASSUME TInv, NEW i \in Invocations, NEW outcome \in Outcomes,
         At(i, "simulate") \/ At(i, "append"), append_trial(i, outcome)
  PROVE  /\ Len(trials') = Len(trials) + 1
         /\ \A k \in DOMAIN trials : k \in DOMAIN trials' /\ trials'[k] = trials[k]
         /\ DOMAIN trials = 1 .. Len(trials)
         /\ DOMAIN trials' = 1 .. (Len(trials) + 1)
         /\ trials'[Len(trials) + 1] = TrialLine(i, outcome)
         /\ TrialLine(i, outcome) \in Trial
<1>1. TrialLine(i, outcome) \in Trial
  BY TrialLineType DEF Working, At, TInv, TodoInv
<1>2. trials \in Seq(Trial) /\ trials' = Append(trials, TrialLine(i, outcome))
  BY DEF TInv, TypeOK, append_trial
<1> HIDE DEF TrialLine
<1>3. QED
  BY <1>1, <1>2

-----------------------------------------------------------------------------
(* The counts *)

(* What an invocation read off the log and has not yet written beside its    *)
(* trial is still right about that prefix of the log, and every line of its  *)
(* own is in it: others may have appended since, itself it has not.          *)
PendingCounts(i) ==
  LET c == inv[i].counts
      n == c.trials_recorded - 1
  IN  /\ n \in 0 .. Len(trials)
      /\ c.configurations_tried =
           Cardinality(NamedIn(trials, n, Kind[ConfigOf(i)]) \union {FingerprintOf(i)})
      /\ \A k \in DOMAIN trials : trials[k].by = i => k <= n

CountInv ==
  /\ TInv
  /\ CountsAreOfAPrefix
  /\ CellsCountOneAnother
  /\ \A i \in Invocations : At(i, "simulate") \/ At(i, "append") => PendingCounts(i)

(* A step that leaves the log alone only has to account for what it leaves   *)
(* pending.                                                                  *)
LEMMA QuietStep ==
  ASSUME CountInv, TInv', UNCHANGED trials,
         \A i \in Invocations :
           (At(i, "simulate") \/ At(i, "append"))' => PendingCounts(i)'
  PROVE  CountInv'
BY DEF CountInv, CountsAreOfAPrefix, CellsCountOneAnother, NamedIn

LEMMA AppendStep ==
  ASSUME CountInv, TInv', NEW i \in Invocations, NEW outcome \in Outcomes,
         At(i, "simulate") \/ At(i, "append"), append_trial(i, outcome),
         \A j \in Invocations \ {i} : inv'[j] = inv[j],
         inv'[i].pc \notin {"simulate", "append"}
  PROVE  CountInv'
<1> DEFINE L == Len(trials)
           t == TrialLine(i, outcome)
<1>1. /\ TInv /\ L \in Nat /\ trials \in Seq(Trial) /\ PendingCounts(i)
  BY DEF CountInv, TInv, TypeOK
<1>2. /\ Len(trials') = L + 1
      /\ DOMAIN trials = 1 .. L /\ DOMAIN trials' = 1 .. (L + 1)
      /\ \A k \in 1 .. L : trials'[k] = trials[k]
      /\ trials'[L + 1] = t /\ t \in Trial
  BY <1>1, AppendedLog
<1>3. /\ t.by = i /\ t.counts = inv[i].counts /\ t.kind = Kind[ConfigOf(i)]
      /\ t.fingerprint = FingerprintOf(i)
  BY DEF TrialLine
<1>4. LET n == t.counts.trials_recorded - 1
      IN  /\ t.counts.trials_recorded \in Nat /\ n \in 0 .. L
          /\ t.counts.configurations_tried =
               Cardinality(NamedIn(trials, n, t.kind) \union {t.fingerprint})
          /\ \A k \in 1 .. L : trials[k].by = t.by => k <= n
  <2>1. inv[i].counts \in Counts
    BY <1>1 DEF TInv, TypeOK, Invocation
  <2>2. QED
    BY <1>1, <1>2, <1>3, <2>1 DEF PendingCounts, Counts
<1>5. ASSUME NEW n \in 0 .. L, NEW kind PROVE NamedIn(trials', n, kind) = NamedIn(trials, n, kind)
  <2>1. \A m \in 1 .. n : trials'[m] = trials[m]
    BY <1>1, <1>2
  <2>2. QED
    BY <2>1 DEF NamedIn
<1> HIDE DEF t
<1>6. CountsAreOfAPrefix'
  <2> SUFFICES ASSUME NEW k \in 1 .. (L + 1)
               PROVE  LET u == trials'[k]
                          n == u.counts.trials_recorded - 1
                      IN  /\ n \in 0 .. (k - 1)
                          /\ u.counts.configurations_tried =
                               Cardinality(NamedIn(trials', n, u.kind) \union {u.fingerprint})
    BY <1>2 DEF CountsAreOfAPrefix
  <2>1. CASE k \in 1 .. L
    <3>1. trials'[k] = trials[k]
      BY <1>2, <2>1
    <3>2. LET u == trials[k]
              n == u.counts.trials_recorded - 1
          IN  /\ n \in 0 .. (k - 1)
              /\ u.counts.configurations_tried =
                   Cardinality(NamedIn(trials, n, u.kind) \union {u.fingerprint})
      BY <1>2, <2>1 DEF CountInv, CountsAreOfAPrefix
    <3>3. trials[k].counts.trials_recorded - 1 \in 0 .. L
      BY <1>1, <2>1, <3>2
    <3>4. QED
      BY <1>5, <3>1, <3>2, <3>3
  <2>2. CASE k = L + 1
    <3> DEFINE n == t.counts.trials_recorded - 1
    <3>1. trials'[k] = t /\ n \in 0 .. L /\ n \in 0 .. (k - 1)
      BY <1>1, <1>2, <1>4, <2>2
    <3>2. t.counts.configurations_tried =
            Cardinality(NamedIn(trials', n, t.kind) \union {t.fingerprint})
      BY <1>4, <1>5, <3>1
    <3>3. QED
      BY <3>1, <3>2
  <2>3. QED
    BY <1>1, <2>1, <2>2
<1>7. CellsCountOneAnother'
  <2> SUFFICES ASSUME NEW k \in 1 .. (L + 1), NEW l \in 1 .. (L + 1),
                      k < l, trials'[k].by = trials'[l].by
               PROVE  trials'[l].counts.trials_recorded > k
    BY <1>2 DEF CellsCountOneAnother
  <2>1. k \in 1 .. L /\ trials'[k] = trials[k]
    BY <1>1, <1>2
  <2>2. CASE l \in 1 .. L
    BY <1>2, <2>1, <2>2 DEF CountInv, CellsCountOneAnother
  <2>3. CASE l = L + 1
    BY <1>1, <1>2, <1>4, <2>1, <2>3
  <2>4. QED
    BY <1>1, <2>2, <2>3
<1>8. ASSUME NEW j \in Invocations, (At(j, "simulate") \/ At(j, "append"))'
      PROVE  PendingCounts(j)'
  <2>1. j # i /\ inv'[j] = inv[j]
    BY <1>8 DEF At
  <2>2. PendingCounts(j)
    BY <1>8, <2>1 DEF CountInv, At
  <2>3. ConfigOf(j)' = ConfigOf(j) /\ FingerprintOf(j)' = FingerprintOf(j)
    BY <2>1 DEF ConfigOf, FingerprintOf
  <2> DEFINE n == inv[j].counts.trials_recorded - 1
  <2>4. n \in 0 .. L /\ n \in 0 .. (L + 1)
    BY <1>1, <2>2 DEF PendingCounts
  <2>5. ASSUME NEW k \in 1 .. (L + 1), trials'[k].by = j PROVE k <= n
    <3>1. k \in 1 .. L /\ trials[k].by = j
      BY <1>1, <1>2, <1>3, <2>1, <2>5
    <3>2. QED
      BY <1>2, <2>2, <3>1 DEF PendingCounts
  <2>6. inv'[j].counts.configurations_tried =
          Cardinality(NamedIn(trials', n, Kind[ConfigOf(j)]) \union {FingerprintOf(j)})
    BY <1>5, <2>1, <2>2, <2>4 DEF PendingCounts
  <2>7. QED
    BY <1>2, <2>1, <2>3, <2>4, <2>5, <2>6 DEF PendingCounts
<1>9. QED
  BY <1>6, <1>7, <1>8 DEF CountInv

(* If one invocation moves and the log does not, the others' counts stand. *)
LEMMA QuietMove ==
  ASSUME CountInv, TInv', UNCHANGED trials, NEW i \in Invocations,
         \A j \in Invocations \ {i} : inv'[j] = inv[j],
         (At(i, "simulate") \/ At(i, "append"))' => PendingCounts(i)'
  PROVE  CountInv'
<1>1. ASSUME NEW j \in Invocations \ {i}, (At(j, "simulate") \/ At(j, "append"))'
      PROVE  PendingCounts(j)'
  <2>1. PendingCounts(j) /\ inv'[j] = inv[j]
    BY <1>1 DEF CountInv, At
  <2>2. QED
    BY <2>1 DEF PendingCounts, ConfigOf, FingerprintOf, NamedIn
<1>2. QED
  BY <1>1, QuietStep

LEMMA NextCellMoves ==
  ASSUME TInv, NEW i \in Invocations, NEW outcome, NextCell(i, outcome)
  PROVE  /\ \A j \in Invocations \ {i} : inv'[j] = inv[j]
         /\ inv'[i].pc \notin {"simulate", "append"}
<1> DEFINE next == IF inv[i].cell < NCells THEN inv[i].cell + 1 ELSE inv[i].cell
           phase == IF inv[i].cell < NCells THEN "count" ELSE "summarise"
           on == [inv[i] EXCEPT !.cells = Append(@, outcome), !.cell = next, !.pc = phase]
           w == IF inv[i].cell = 0 THEN Blank("done") ELSE on
<1>1. inv' = [inv EXCEPT ![i] = w]
  BY DEF NextCell, AfterCell
<1>2. phase \in {"count", "summarise"}
  OBVIOUS
<1>3. inv \in [Invocations -> Invocation] /\ inv[i] \in Invocation
  BY DEF TInv, TypeOK
<1> HIDE DEF next, phase
<1>4. on.pc = phase
  BY <1>3 DEF Invocation
<1> HIDE DEF on
<1>5. w.pc \notin {"simulate", "append"}
  BY <1>2, <1>4 DEF Blank
<1> HIDE DEF w
<1>6. QED
  BY <1>1, <1>3, <1>5

LEMMA CountsStepsKeep ==
  ASSUME CountInv, TInv', NEW i \in Invocations, Step(i)
  PROVE  CountInv'
<1>1. inv \in [Invocations -> Invocation] /\ inv[i] \in Invocation /\ TInv
  BY DEF CountInv, TInv, TypeOK
<1>2. CASE Refuse(i) \/ AppendRecorded(i)
  <2>1. PICK outcome \in Outcomes : append_trial(i, outcome) /\ NextCell(i, outcome)
    BY <1>2 DEF Refuse, AppendRecorded, Outcomes
  <2>2. At(i, "simulate") \/ At(i, "append")
    BY <1>2 DEF Refuse, AppendRecorded
  <2>3. /\ \A j \in Invocations \ {i} : inv'[j] = inv[j]
        /\ inv'[i].pc \notin {"simulate", "append"}
    BY <1>1, <2>1, NextCellMoves
  <2>4. QED
    BY <2>1, <2>2, <2>3, AppendStep
<1>3. CASE LoadConfig(i) \/ HashConfig(i) \/ ReadHead(i) \/ ReadStatus(i)
  <2>1. \A j \in Invocations \ {i} : inv'[j] = inv[j]
    BY <1>1, <1>3 DEF LoadConfig, HashConfig, ReadHead, ReadStatus
  <2>2. inv'[i].pc \in {"hash", "head", "status", "judge", "count"}
    <3>1. CASE LoadConfig(i)
      <4> DEFINE first == IF ConfigOf(i) \in Grids THEN 1 ELSE 0
      <4>1. inv'[i] = [inv[i] EXCEPT !.pc = "hash", !.version = text[ConfigOf(i)],
                                     !.cell = first, !.cells = <<>>]
        BY <1>1, <3>1 DEF LoadConfig
      <4> HIDE DEF first
      <4>2. QED
        BY <1>1, <4>1 DEF Invocation
    <3>2. CASE HashConfig(i)
      BY <1>1, <3>2 DEF HashConfig, Invocation
    <3>3. CASE ReadHead(i)
      BY <1>1, <3>3 DEF ReadHead, Invocation
    <3>4. CASE ReadStatus(i)
      BY <1>1, <3>4 DEF ReadStatus, Invocation
    <3>5. QED
      BY <1>3, <3>1, <3>2, <3>3, <3>4
  <2>3. UNCHANGED trials
    BY <1>3 DEF LoadConfig, HashConfig, ReadHead, ReadStatus, store
  <2>4. QED
    BY <2>1, <2>2, <2>3, QuietMove DEF At
<1>4. CASE ReadCounts(i)
  <2> DEFINE c == CountsTried(trials, FingerprintOf(i), Kind[ConfigOf(i)])
  <2>1. /\ c \in Counts /\ c.trials_recorded = Len(trials) + 1
        /\ c.configurations_tried = Cardinality(
             NamedIn(trials, Len(trials), Kind[ConfigOf(i)]) \union {FingerprintOf(i)})
    BY <1>1, CountsTriedProperties DEF TInv, TypeOK
  <2>2. inv'[i] = [inv[i] EXCEPT !.pc = "simulate", !.counts = c]
    BY <1>1, <1>4 DEF ReadCounts
  <2>3. /\ \A j \in Invocations \ {i} : inv'[j] = inv[j]
        /\ UNCHANGED trials
    BY <1>1, <1>4 DEF ReadCounts, store
  <2> HIDE DEF c
  <2>4. /\ inv'[i].counts = c /\ inv'[i].todo = inv[i].todo
        /\ inv'[i].sha = inv[i].sha /\ inv'[i].cell = inv[i].cell
    BY <1>1, <2>2 DEF Invocation
  <2>5. ConfigOf(i)' = ConfigOf(i) /\ FingerprintOf(i)' = FingerprintOf(i)
    BY <2>4 DEF ConfigOf, FingerprintOf
  <2>6. trials \in Seq(Trial) /\ DOMAIN trials = 1 .. Len(trials) /\ Len(trials) \in Nat
    BY <1>1, LenProperties DEF TInv, TypeOK
  <2>7. PendingCounts(i)' <=>
          LET n == c.trials_recorded - 1
          IN  /\ n \in 0 .. Len(trials)
              /\ c.configurations_tried = Cardinality(
                   NamedIn(trials, n, Kind[ConfigOf(i)]) \union {FingerprintOf(i)})
              /\ \A k \in DOMAIN trials : trials[k].by = i => k <= n
    BY <2>3, <2>4, <2>5, Zenon DEF PendingCounts, NamedIn
  <2>8. c.trials_recorded - 1 = Len(trials)
    BY <2>1, <2>6
  <2>9. Len(trials) \in 0 .. Len(trials) /\ \A k \in DOMAIN trials : k <= Len(trials)
    BY <2>6
  <2>10. PendingCounts(i)'
    BY <2>1, <2>7, <2>8, <2>9
  <2>11. QED
    BY <2>3, <2>10, QuietMove
<1>5. CASE WriteResult(i)
  <2>1. inv'[i] = [inv[i] EXCEPT !.pc = "append"]
    BY <1>1, <1>5 DEF WriteResult
  <2>2. /\ \A j \in Invocations \ {i} : inv'[j] = inv[j]
        /\ UNCHANGED trials /\ PendingCounts(i)
    BY <1>1, <1>5 DEF WriteResult, CountInv
  <2>3. /\ inv'[i].counts = inv[i].counts /\ inv'[i].todo = inv[i].todo
        /\ inv'[i].sha = inv[i].sha /\ inv'[i].cell = inv[i].cell
    BY <1>1, <2>1 DEF Invocation
  <2>4. ConfigOf(i)' = ConfigOf(i) /\ FingerprintOf(i)' = FingerprintOf(i)
    BY <2>3 DEF ConfigOf, FingerprintOf
  <2>5. PendingCounts(i)'
    BY <2>2, <2>3, <2>4 DEF PendingCounts, NamedIn
  <2>6. QED
    BY <2>2, <2>5, QuietMove
<1>6. CASE WriteGrid(i) \/ WriteGate(i)
  <2>1. /\ \A j \in Invocations \ {i} : inv'[j] = inv[j]
        /\ UNCHANGED trials
    BY <1>1, <1>6 DEF WriteGrid, WriteGate
  <2>2. CASE WriteGrid(i)
    <3> DEFINE rest == Tail(inv[i].todo)
               filed == Append(inv[i].grids, inv[i].dir)
               phase == IF Len(inv[i].todo) > 1 THEN "load" ELSE "head"
               on == [inv[i] EXCEPT !.todo = rest, !.grids = filed, !.pc = phase]
               w == IF inv[i].command = "grid" THEN Blank("done") ELSE on
    <3>1. inv'[i] = w /\ phase \in {"load", "head"}
      BY <1>1, <2>2 DEF WriteGrid
    <3> HIDE DEF rest, filed, phase
    <3>2. on.pc = phase
      BY <1>1 DEF Invocation
    <3> HIDE DEF on
    <3>3. w.pc \notin {"simulate", "append"}
      BY <3>1, <3>2 DEF Blank
    <3> HIDE DEF w
    <3>4. QED
      BY <2>1, <3>1, <3>3, QuietMove DEF At
  <2>3. CASE WriteGate(i)
    <3>1. inv'[i].pc = "done"
      BY <1>1, <2>3 DEF WriteGate, Blank
    <3>2. QED
      BY <2>1, <3>1, QuietMove DEF At
  <2>4. QED
    BY <1>6, <2>2, <2>3
<1>7. QED
  BY <1>2, <1>3, <1>4, <1>5, <1>6 DEF Step

LEMMA CountInvariance == CountInv /\ [Next]_vars => CountInv'
<1> SUFFICES ASSUME CountInv, [Next]_vars PROVE CountInv'
  OBVIOUS
<1>1. TInv /\ TInv' /\ inv \in [Invocations -> Invocation]
  BY TypeInvariance DEF CountInv, TInv, TypeOK
<1>2. ASSUME NEW i \in Invocations, RunConfig(i) \/ RunGrid(i) \/ RunGate(i) \/ Abort(i)
      PROVE  CountInv'
  <2>1. /\ \A j \in Invocations \ {i} : inv'[j] = inv[j]
        /\ UNCHANGED trials
    BY <1>1, <1>2 DEF RunConfig, RunGrid, RunGate, Start, Abort, store
  <2>2. inv[i] \in Invocation
    BY <1>1
  <2>3. inv'[i].pc \in {"load", "aborted"}
    BY <1>1, <1>2, <2>2 DEF RunConfig, RunGrid, RunGate, Start, Abort, Blank, Invocation
  <2>4. QED
    BY <1>1, <2>1, <2>3, QuietMove DEF At
<1>3. CASE (\E f \in Files : Edit(f)) \/ Commit \/ UNCHANGED vars
  <2>1. UNCHANGED trials /\ UNCHANGED inv
    BY <1>3 DEF Edit, Commit, vars, store
  <2>2. ASSUME NEW i \in Invocations, (At(i, "simulate") \/ At(i, "append"))'
        PROVE  PendingCounts(i)'
    BY <2>1, <2>2 DEF CountInv, At, PendingCounts, ConfigOf, FingerprintOf, NamedIn
  <2>3. QED
    BY <1>1, <2>1, <2>2, QuietStep
<1>4. QED
  BY <1>1, <1>2, <1>3, CountsStepsKeep DEF Next

(* The counts reported beside a result are those of the log as it was read,  *)
(* itself included, and the cells of one invocation all count one another,   *)
(* whatever runs beside it.                                                  *)
THEOREM CountsAreHonest == Spec => [](CountsAreOfAPrefix /\ CellsCountOneAnother)
<1>1. Init => CountInv
  <2> SUFFICES ASSUME Init PROVE CountInv
    OBVIOUS
  <2>1. trials = <<>> /\ \A i \in Invocations : inv[i].pc = "unborn"
    BY DEF Init, Blank
  <2>2. QED
    BY <2>1, InitialTypes DEF CountInv, CountsAreOfAPrefix, CellsCountOneAnother, At
<1>2. CountInv => CountsAreOfAPrefix /\ CellsCountOneAnother
  BY DEF CountInv
<1>3. QED
  BY <1>1, <1>2, CountInvariance, PTL DEF Spec

-----------------------------------------------------------------------------
(* Provenance *)

(* What a clean directory holds had been committed, by its commit or a later *)
(* one, when it was filed there.                                             *)
Committed(version, file, code, dir) ==
  ~dir.dirty =>
    \E n \in 1 .. Len(history) :
      n >= dir.commit /\ version <= history[n][file] /\ code <= history[n][Code]

(* Versions only grow, so what was loaded is at most what the tree holds; and *)
(* when the status is read in a clean tree, the tree is the last commit,      *)
(* which is the one read as HEAD or a later one.                              *)
LoadedInv(i) ==
  /\ Working(i) => inv[i].code <= text[Code]
  /\ inv[i].pc \in {"hash", "head", "status"} /\ inv[i].todo # <<>> =>
       inv[i].version <= text[ConfigOf(i)]
  /\ inv[i].pc = "status" => inv[i].dir.commit <= Len(history)
  /\ inv[i].pc \in {"count", "simulate", "append"} =>
       Committed(inv[i].version, ConfigOf(i), inv[i].code, inv[i].dir)

FiledInv(files) ==
  \A f \in files : Committed(f.version, f.path[2], f.code, f.path[1])

VersionInv ==
  /\ TInv
  /\ \A i \in Invocations : LoadedInv(i)
  /\ FiledInv(cell_results)

LEMMA CommitsStay ==
  ASSUME TInv, Commit
  PROVE  /\ Len(history') = Len(history) + 1 /\ Len(history) \in Nat
         /\ \A n \in 1 .. Len(history) : history'[n] = history[n]
BY DEF TInv, TypeOK, Commit

LEMMA CommittedStays ==
  ASSUME TInv, Commit \/ UNCHANGED history, NEW version, NEW file, NEW code,
         NEW dir \in Directory, Committed(version, file, code, dir)
  PROVE  Committed(version, file, code, dir)'
<1>1. CASE Commit
  <2> SUFFICES ASSUME ~dir.dirty
               PROVE  \E n \in 1 .. Len(history') :
                        /\ n >= dir.commit
                        /\ version <= history'[n][file] /\ code <= history'[n][Code]
    BY DEF Committed
  <2>1. PICK n \in 1 .. Len(history) :
          n >= dir.commit /\ version <= history[n][file] /\ code <= history[n][Code]
    BY DEF Committed
  <2>2. n \in 1 .. Len(history') /\ history'[n] = history[n]
    BY <1>1, CommitsStay
  <2>3. QED
    BY <2>1, <2>2
<1>2. CASE UNCHANGED history
  BY <1>2 DEF Committed
<1>3. QED
  BY <1>1, <1>2

(* In a clean tree the working copy is the last commit. *)
LEMMA CleanTree ==
  ASSUME TInv, NEW file, NEW version, NEW code, NEW dir \in Directory,
         dir.dirty = Dirty, dir.commit <= Len(history),
         version <= text[file], code <= text[Code]
  PROVE  Committed(version, file, code, dir)
<1> SUFFICES ASSUME ~dir.dirty
             PROVE  \E n \in 1 .. Len(history) :
                      n >= dir.commit /\ version <= history[n][file] /\ code <= history[n][Code]
  BY DEF Committed
<1>1. Len(history) \in Nat /\ Len(history) # 0
  BY EmptySeq DEF TInv, TypeOK
<1>2. Len(history) \in 1 .. Len(history) /\ Len(history) >= dir.commit
  BY <1>1 DEF Directory
<1>3. text = history[Len(history)]
  BY DEF Dirty
<1>4. QED
  BY <1>2, <1>3

LEMMA OthersKeepVersions ==
  ASSUME VersionInv, UNCHANGED <<text, history>>, NEW i \in Invocations,
         \A j \in Invocations \ {i} : inv'[j] = inv[j], LoadedInv(i)'
  PROVE  \A j \in Invocations : LoadedInv(j)'
<1>1. ASSUME NEW j \in Invocations \ {i} PROVE LoadedInv(j)'
  <2>1. LoadedInv(j) /\ inv'[j] = inv[j]
    BY DEF VersionInv
  <2>2. QED
    BY <2>1 DEF LoadedInv, Committed, Working, ConfigOf
<1>2. QED
  BY <1>1

(* A step that keeps what was loaded and where it is filed. *)
LEMMA SameVersions ==
  ASSUME VersionInv, UNCHANGED <<text, history>>, NEW i \in Invocations,
         At(i, "simulate") \/ At(i, "count") \/ At(i, "append"),
         ConfigOf(i)' = ConfigOf(i), inv'[i].version = inv[i].version,
         inv'[i].code = inv[i].code, inv'[i].dir = inv[i].dir,
         inv'[i].pc \in {"count", "simulate", "append", "summarise"}
  PROVE  LoadedInv(i)'
BY DEF VersionInv, LoadedInv, Committed, Working, At

LEMMA StartVersions ==
  ASSUME VersionInv, NEW i \in Invocations, RunConfig(i) \/ RunGrid(i) \/ RunGate(i)
  PROVE  \A j \in Invocations : LoadedInv(j)'
<1>1. PICK command, todo : Start(i, command, todo)
  BY DEF RunConfig, RunGrid, RunGate
<1>2. inv \in [Invocations -> Invocation] /\ inv[i] \in Invocation /\ text[Code] \in Nat
  BY DEF VersionInv, TInv, TypeOK, Texts, Files
<1>3. inv'[i] = [inv[i] EXCEPT !.pc = "load", !.command = command,
                               !.code = text[Code], !.todo = todo]
  BY <1>1, <1>2 DEF Start
<1>4. inv'[i].pc = "load" /\ inv'[i].code = text[Code]
  BY <1>2, <1>3 DEF Invocation
<1>5. \A j \in Invocations \ {i} : inv'[j] = inv[j]
  BY <1>1, <1>2 DEF Start
<1>6. UNCHANGED <<text, history>>
  BY <1>1 DEF Start, tree
<1>7. LoadedInv(i)'
  BY <1>2, <1>4, <1>6 DEF LoadedInv
<1>8. QED
  BY <1>5, <1>6, <1>7, OthersKeepVersions

LEMMA ReadVersions ==
  ASSUME VersionInv, NEW i \in Invocations,
         LoadConfig(i) \/ HashConfig(i) \/ ReadHead(i) \/ ReadStatus(i) \/ ReadCounts(i)
  PROVE  LoadedInv(i)'
<1>1. /\ inv \in [Invocations -> Invocation] /\ inv[i] \in Invocation
      /\ TInv /\ LoadedInv(i) /\ text[Code] \in Nat
  BY DEF VersionInv, TInv, TypeOK, Texts, Files
<1>2. UNCHANGED <<text, history>>
  BY DEF LoadConfig, HashConfig, ReadHead, ReadStatus, ReadCounts, tree
<1>3. inv[i].todo # <<>> => ConfigOf(i) \in Files /\ text[ConfigOf(i)] \in Nat
  BY <1>1, RunningType DEF Files, TInv, TypeOK, Texts
<1>4. inv[i].code <= text[Code]
  BY <1>1 DEF LoadedInv, LoadConfig, HashConfig, ReadHead, ReadStatus, ReadCounts, Working, At
<1>0. At(i, "load") \/ At(i, "hash") => inv[i].todo # <<>>
  BY <1>1 DEF TInv, TodoInv, Working, At
<1>5. CASE LoadConfig(i)
  <2> DEFINE first == IF ConfigOf(i) \in Grids THEN 1 ELSE 0
  <2>1. inv'[i] = [inv[i] EXCEPT !.pc = "hash", !.version = text[ConfigOf(i)],
                                 !.cell = first, !.cells = <<>>]
    BY <1>1, <1>5 DEF LoadConfig
  <2> HIDE DEF first
  <2>2. /\ inv'[i].pc = "hash" /\ inv'[i].version = text[ConfigOf(i)]
        /\ inv'[i].code = inv[i].code /\ inv'[i].todo = inv[i].todo
    BY <1>1, <2>1 DEF Invocation
  <2>3. ConfigOf(i)' = ConfigOf(i)
    BY <2>2 DEF ConfigOf
  <2>4. QED
    BY <1>0, <1>2, <1>3, <1>4, <1>5, <2>2, <2>3 DEF LoadedInv, LoadConfig
<1>6. CASE HashConfig(i)
  <2>1. inv'[i] = [inv[i] EXCEPT !.pc = "head", !.sha = text[ConfigOf(i)]]
    BY <1>1, <1>6 DEF HashConfig
  <2>2. /\ inv'[i].pc = "head" /\ inv'[i].version = inv[i].version
        /\ inv'[i].code = inv[i].code /\ inv'[i].todo = inv[i].todo
    BY <1>1, <2>1 DEF Invocation
  <2>3. ConfigOf(i)' = ConfigOf(i)
    BY <2>2 DEF ConfigOf
  <2>4. inv[i].version <= text[ConfigOf(i)]
    BY <1>0, <1>1, <1>6 DEF LoadedInv, HashConfig, At
  <2>5. QED
    BY <1>2, <1>4, <2>2, <2>3, <2>4 DEF LoadedInv
<1>7. CASE ReadHead(i)
  <2> DEFINE d == [commit |-> Len(history), dirty |-> FALSE]
  <2>1. inv'[i] = [inv[i] EXCEPT !.pc = "status", !.dir = d]
    BY <1>1, <1>7 DEF ReadHead
  <2>2. d.commit = Len(history) /\ Len(history) \in Nat
    BY <1>1 DEF TInv, TypeOK
  <2> HIDE DEF d
  <2>3. /\ inv'[i].pc = "status" /\ inv'[i].version = inv[i].version
        /\ inv'[i].code = inv[i].code /\ inv'[i].todo = inv[i].todo
        /\ inv'[i].dir.commit = Len(history)
    BY <1>1, <2>1, <2>2 DEF Invocation
  <2>4. ConfigOf(i)' = ConfigOf(i)
    BY <2>3 DEF ConfigOf
  <2>5. inv[i].todo # <<>> => inv[i].version <= text[ConfigOf(i)]
    BY <1>1, <1>7 DEF LoadedInv, ReadHead, At
  <2>6. QED
    BY <1>2, <1>4, <2>2, <2>3, <2>4, <2>5 DEF LoadedInv
<1>10. CASE ReadStatus(i)
  <2> DEFINE d == [inv[i].dir EXCEPT !.dirty = Dirty]
             phase == IF inv[i].todo = <<>> THEN "judge" ELSE "count"
  <2>1. inv'[i] = [inv[i] EXCEPT !.pc = phase, !.dir = d]
    BY <1>1, <1>10 DEF ReadStatus, Invocation
  <2>2. inv[i].dir \in Directory /\ inv[i].dir.commit <= Len(history)
    BY <1>1, <1>10 DEF Invocation, LoadedInv, ReadStatus, At
  <2>3. d \in Directory /\ d.dirty = Dirty /\ d.commit <= Len(history)
    BY <2>2 DEF Directory, Dirty
  <2>4. /\ phase \in {"judge", "count"}
        /\ phase = "count" => inv[i].todo # <<>>
    OBVIOUS
  <2> HIDE DEF d, phase
  <2>5. /\ inv'[i].pc = phase /\ inv'[i].version = inv[i].version
        /\ inv'[i].code = inv[i].code /\ inv'[i].todo = inv[i].todo
        /\ inv'[i].dir = d
    BY <1>1, <2>1 DEF Invocation
  <2>6. ConfigOf(i)' = ConfigOf(i)
    BY <2>5 DEF ConfigOf
  <2>7. inv[i].todo # <<>> => inv[i].version <= text[ConfigOf(i)]
    BY <1>1, <1>10 DEF LoadedInv, ReadStatus, At
  <2>8. phase = "count" => Committed(inv[i].version, ConfigOf(i), inv[i].code, d)
    BY <1>1, <1>4, <2>3, <2>4, <2>7, CleanTree
  <2>9. QED
    BY <1>2, <1>4, <2>4, <2>5, <2>6, <2>8 DEF LoadedInv, Committed
<1>8. CASE ReadCounts(i)
  <2> DEFINE c == CountsTried(trials, FingerprintOf(i), Kind[ConfigOf(i)])
  <2>1. inv'[i] = [inv[i] EXCEPT !.pc = "simulate", !.counts = c]
    BY <1>1, <1>8 DEF ReadCounts
  <2> HIDE DEF c
  <2>2. /\ inv'[i].pc = "simulate" /\ inv'[i].version = inv[i].version
        /\ inv'[i].code = inv[i].code /\ inv'[i].todo = inv[i].todo
        /\ inv'[i].dir = inv[i].dir
    BY <1>1, <2>1 DEF Invocation
  <2>3. ConfigOf(i)' = ConfigOf(i)
    BY <2>2 DEF ConfigOf
  <2>4. At(i, "count")
    BY <1>8 DEF ReadCounts
  <2>5. QED
    BY <1>2, <2>2, <2>3, <2>4, SameVersions
<1>9. QED
  BY <1>5, <1>6, <1>7, <1>8, <1>10

LEMMA EndedVersions ==
  ASSUME NEW i \in Invocations, inv'[i].pc \in {"done", "aborted"}
  PROVE  LoadedInv(i)'
BY DEF LoadedInv, Working

LEMMA NextCellVersions ==
  ASSUME VersionInv, NEW i \in Invocations, At(i, "simulate") \/ At(i, "append"),
         NEW outcome, NextCell(i, outcome), UNCHANGED <<text, history>>
  PROVE  LoadedInv(i)'
<1> DEFINE next == IF inv[i].cell < NCells THEN inv[i].cell + 1 ELSE inv[i].cell
           phase == IF inv[i].cell < NCells THEN "count" ELSE "summarise"
           on == [inv[i] EXCEPT !.cells = Append(@, outcome), !.cell = next, !.pc = phase]
           w == IF inv[i].cell = 0 THEN Blank("done") ELSE on
<1>1. inv' = [inv EXCEPT ![i] = w] /\ phase \in {"count", "summarise"}
  BY DEF NextCell, AfterCell
<1>2. inv \in [Invocations -> Invocation] /\ inv[i] \in Invocation
  BY DEF VersionInv, TInv, TypeOK
<1> HIDE DEF next, phase
<1>3. /\ on.pc = phase /\ on.version = inv[i].version /\ on.code = inv[i].code
      /\ on.todo = inv[i].todo /\ on.dir = inv[i].dir
  BY <1>2 DEF Invocation
<1> HIDE DEF on
<1>4. inv'[i] = w
  BY <1>1, <1>2
<1>5. CASE inv[i].cell = 0
  BY <1>4, <1>5, EndedVersions DEF Blank
<1>6. CASE inv[i].cell # 0
  <2>1. inv'[i] = on
    BY <1>4, <1>6
  <2>2. ConfigOf(i)' = ConfigOf(i)
    BY <1>3, <2>1 DEF ConfigOf
  <2>3. QED
    BY <1>1, <1>3, <2>1, <2>2, SameVersions
<1>7. QED
  BY <1>5, <1>6

LEMMA OneLeft ==
  ASSUME NEW s \in Seq(Configs), s # <<>>, ~(Len(s) > 1) PROVE Tail(s) = <<>>
<1>1. Tail(s) \in Seq(Configs) /\ Len(Tail(s)) = Len(s) - 1 /\ Len(s) \in Nat /\ Len(s) # 0
  BY HeadTailProperties, EmptySeq
<1>2. Len(Tail(s)) = 0
  BY <1>1
<1>3. QED
  BY <1>1, <1>2, EmptySeq

LEMMA StepVersions ==
  ASSUME VersionInv, NEW i \in Invocations, Step(i)
  PROVE  (\A j \in Invocations : LoadedInv(j)') /\ FiledInv(cell_results)'
<1>1. /\ inv \in [Invocations -> Invocation] /\ inv[i] \in Invocation
      /\ TInv /\ LoadedInv(i) /\ FiledInv(cell_results)
  BY DEF VersionInv, TInv, TypeOK
<1>2. UNCHANGED <<text, history>>
  BY DEF Step, LoadConfig, HashConfig, ReadHead, ReadStatus, ReadCounts, Refuse, WriteResult,
         AppendRecorded, WriteGrid, WriteGate, tree
<1>3. CASE LoadConfig(i) \/ HashConfig(i) \/ ReadHead(i) \/ ReadStatus(i) \/ ReadCounts(i)
  <2>1. \A j \in Invocations \ {i} : inv'[j] = inv[j]
    BY <1>1, <1>3 DEF LoadConfig, HashConfig, ReadHead, ReadStatus, ReadCounts
  <2>2. UNCHANGED cell_results
    BY <1>3 DEF LoadConfig, HashConfig, ReadHead, ReadStatus, ReadCounts, store
  <2>3. QED
    BY <1>1, <1>2, <1>3, <2>1, <2>2, ReadVersions, OthersKeepVersions DEF FiledInv, Committed
<1>4. CASE Refuse(i) \/ AppendRecorded(i)
  <2>1. PICK outcome : NextCell(i, outcome)
    BY <1>4 DEF Refuse, AppendRecorded
  <2>2. /\ At(i, "simulate") \/ At(i, "append")
        /\ UNCHANGED cell_results
    BY <1>4 DEF Refuse, AppendRecorded
  <2>3. QED
    BY <1>1, <1>2, <2>1, <2>2, NextCellMoves, NextCellVersions, OthersKeepVersions
       DEF FiledInv, Committed
<1>5. CASE WriteResult(i)
  <2> DEFINE f == [path |-> <<inv[i].dir, ConfigOf(i), inv[i].cell>>, by |-> i,
                   version |-> inv[i].version, sha |-> inv[i].sha, code |-> inv[i].code]
  <2>1. /\ inv'[i] = [inv[i] EXCEPT !.pc = "append"] /\ At(i, "simulate")
        /\ \A j \in Invocations \ {i} : inv'[j] = inv[j]
        /\ cell_results' = Written(cell_results, f)
    BY <1>1, <1>5 DEF WriteResult
  <2>2. /\ inv'[i].pc = "append" /\ inv'[i].version = inv[i].version
        /\ inv'[i].code = inv[i].code /\ inv'[i].todo = inv[i].todo
        /\ inv'[i].dir = inv[i].dir
    BY <1>1, <2>1 DEF Invocation
  <2>3. ConfigOf(i)' = ConfigOf(i)
    BY <2>2 DEF ConfigOf
  <2>4. LoadedInv(i)'
    BY <1>2, <2>1, <2>2, <2>3, SameVersions
  <2>5. Committed(f.version, f.path[2], f.code, f.path[1])
    BY <1>1, <2>1 DEF LoadedInv, At
  <2> HIDE DEF f
  <2>6. FiledInv(cell_results)'
    BY <1>1, <1>2, <2>1, <2>5 DEF FiledInv, Committed, Written
  <2>7. QED
    BY <1>2, <2>1, <2>4, <2>6, OthersKeepVersions
<1>6. CASE WriteGrid(i)
  <2> DEFINE rest == Tail(inv[i].todo)
             filed == Append(inv[i].grids, inv[i].dir)
             phase == IF Len(inv[i].todo) > 1 THEN "load" ELSE "head"
             on == [inv[i] EXCEPT !.todo = rest, !.grids = filed, !.pc = phase]
             w == IF inv[i].command = "grid" THEN Blank("done") ELSE on
  <2>1. inv' = [inv EXCEPT ![i] = w] /\ phase \in {"load", "head"}
    BY <1>6 DEF WriteGrid
  <2>2. UNCHANGED cell_results /\ inv[i].code <= text[Code]
    BY <1>1, <1>6 DEF WriteGrid, LoadedInv, Working, At
  <2>8. phase = "head" => rest = <<>>
    BY <1>1, <1>6, OneLeft DEF WriteGrid, TInv, TodoInv, Working, At
  <2> HIDE DEF rest, filed, phase
  <2>3. on.pc = phase /\ on.code = inv[i].code /\ on.todo = rest
    BY <1>1 DEF Invocation
  <2> HIDE DEF on
  <2>4. inv'[i] = w /\ \A j \in Invocations \ {i} : inv'[j] = inv[j]
    BY <1>1, <2>1
  <2>5. CASE inv[i].command = "grid"
    <3>1. inv'[i].pc = "done"
      BY <2>4, <2>5 DEF Blank
    <3>2. QED
      BY <1>1, <1>2, <2>2, <2>4, <3>1, EndedVersions, OthersKeepVersions DEF FiledInv, Committed
  <2>6. CASE inv[i].command # "grid"
    <3>1. inv'[i].pc \in {"load", "head"} /\ inv'[i].code = inv[i].code
      BY <2>1, <2>3, <2>4, <2>6
    <3>2. inv'[i].pc = "head" => inv'[i].todo = <<>>
      BY <2>1, <2>3, <2>4, <2>6, <2>8
    <3>3. LoadedInv(i)'
      BY <1>2, <2>2, <3>1, <3>2 DEF LoadedInv
    <3>4. QED
      BY <1>1, <1>2, <2>2, <2>4, <3>3, OthersKeepVersions DEF FiledInv, Committed
  <2>7. QED
    BY <2>5, <2>6
<1>7. CASE WriteGate(i)
  <2>1. /\ inv'[i].pc = "done" /\ UNCHANGED cell_results
        /\ \A j \in Invocations \ {i} : inv'[j] = inv[j]
    BY <1>1, <1>7 DEF WriteGate, Blank
  <2>2. QED
    BY <1>1, <1>2, <2>1, EndedVersions, OthersKeepVersions DEF FiledInv, Committed
<1>8. QED
  BY <1>3, <1>4, <1>5, <1>6, <1>7 DEF Step

LEMMA ResearcherVersions ==
  ASSUME VersionInv, (\E f \in Files : Edit(f)) \/ Commit
  PROVE  (\A j \in Invocations : LoadedInv(j)') /\ FiledInv(cell_results)'
<1>1. TInv /\ UNCHANGED <<inv, cell_results>> /\ (Commit \/ UNCHANGED history)
  BY DEF VersionInv, Edit, Commit, store
<1>2. \A f \in Files : text[f] \in Nat /\ text'[f] \in Nat /\ text[f] <= text'[f]
  <2>1. text \in [Files -> Nat]
    BY <1>1 DEF TInv, TypeOK, Texts
  <2>2. (\E f \in Files : text' = [text EXCEPT ![f] = @ + 1]) \/ text' = text
    BY DEF Edit, Commit
  <2>3. QED
    BY <2>1, <2>2
<1>3. ASSUME NEW j \in Invocations PROVE LoadedInv(j)'
  <2>1. /\ LoadedInv(j) /\ inv[j] \in Invocation /\ inv'[j] = inv[j]
        /\ ConfigOf(j)' = ConfigOf(j)
    BY <1>1 DEF VersionInv, TInv, TypeOK, ConfigOf
  <2>2. /\ inv[j].code \in Nat /\ inv[j].version \in Nat /\ inv[j].dir \in Directory
    BY <2>1 DEF Invocation
  <2>3. Working(j) => inv[j].code <= text'[Code]
    BY <1>2, <2>1, <2>2 DEF LoadedInv, Files
  <2>4. inv[j].pc \in {"hash", "head", "status"} /\ inv[j].todo # <<>> =>
          inv[j].version <= text'[ConfigOf(j)]
    <3>1. inv[j].todo # <<>> => ConfigOf(j) \in Files
      BY <1>1, RunningType DEF Files
    <3>2. QED
      BY <1>2, <2>1, <2>2, <3>1 DEF LoadedInv
  <2>5. inv[j].pc \in {"count", "simulate", "append"} =>
          Committed(inv[j].version, ConfigOf(j), inv[j].code, inv[j].dir)'
    <3>1. PICK v \in Nat, c \in Nat, file \in {ConfigOf(j)}, dir \in Directory :
            v = inv[j].version /\ c = inv[j].code /\ file = ConfigOf(j) /\ dir = inv[j].dir
      BY <2>2
    <3>2. /\ v = inv'[j].version /\ c = inv'[j].code
          /\ file = ConfigOf(j)' /\ dir = inv'[j].dir
      BY <2>1, <3>1
    <3>3. inv[j].pc \in {"count", "simulate", "append"} => Committed(v, file, c, dir)
      BY <2>1, <3>1 DEF LoadedInv
    <3>4. inv[j].pc \in {"count", "simulate", "append"} => Committed(v, file, c, dir)'
      BY <1>1, <3>3, CommittedStays
    <3>5. QED
      BY <3>2, <3>4 DEF Committed
  <2>6. inv[j].pc = "status" => inv[j].dir.commit <= Len(history')
    <3>1. inv[j].dir.commit \in Nat /\ Len(history) \in Nat
      BY <1>1, <2>2 DEF Directory, TInv, TypeOK
    <3>2. QED
      BY <1>1, <2>1, <3>1, CommitsStay DEF LoadedInv
  <2>7. QED
    BY <2>1, <2>3, <2>4, <2>5, <2>6 DEF LoadedInv, Committed, Working
<1>4. ASSUME NEW f \in cell_results
      PROVE  Committed(f.version, f.path[2], f.code, f.path[1])'
  <2>1. Committed(f.version, f.path[2], f.code, f.path[1]) /\ f.path[1] \in Directory
    BY DEF VersionInv, FiledInv, TInv, TypeOK, CellResult
  <2>2. QED
    BY <1>1, <2>1, CommittedStays
<1>5. QED
  BY <1>1, <1>3, <1>4 DEF FiledInv, Committed

LEMMA VersionInvariance == VersionInv /\ [Next]_vars => VersionInv'
<1> SUFFICES ASSUME VersionInv, [Next]_vars PROVE VersionInv'
  OBVIOUS
<1>1. TInv /\ TInv' /\ inv \in [Invocations -> Invocation] /\ FiledInv(cell_results)
  BY TypeInvariance DEF VersionInv, TInv, TypeOK
<1>2. ASSUME NEW i \in Invocations, RunConfig(i) \/ RunGrid(i) \/ RunGate(i)
      PROVE  VersionInv'
  <2>1. UNCHANGED <<history, cell_results>>
    BY <1>2 DEF RunConfig, RunGrid, RunGate, Start, tree, store
  <2>2. QED
    BY <1>1, <1>2, <2>1, StartVersions DEF VersionInv, FiledInv, Committed
<1>3. ASSUME NEW i \in Invocations, Abort(i) PROVE VersionInv'
  <2>1. /\ inv'[i].pc = "aborted" /\ UNCHANGED <<text, history, cell_results>>
        /\ \A j \in Invocations \ {i} : inv'[j] = inv[j]
    BY <1>1, <1>3 DEF Abort, Blank, tree, store
  <2>2. QED
    BY <1>1, <2>1, EndedVersions, OthersKeepVersions DEF VersionInv, FiledInv, Committed
<1>4. ASSUME NEW i \in Invocations, Step(i) PROVE VersionInv'
  BY <1>1, <1>4, StepVersions DEF VersionInv
<1>5. CASE UNCHANGED vars
  BY <1>1, <1>5 DEF vars, tree, store, VersionInv, LoadedInv, FiledInv, Committed, Working, ConfigOf
<1>6. QED
  BY <1>1, <1>2, <1>3, <1>4, <1>5, ResearcherVersions DEF Next, VersionInv

(* No result of a config or of code that was never committed is filed under a *)
(* clean commit, however edits and commits fall between the reads of a run.   *)
THEOREM DirtyRunsAreFiledApart == Spec => []UncommittedIsFiledApart
<1>1. Init => VersionInv
  BY InitialTypes DEF Init, VersionInv, LoadedInv, FiledInv, Working, Blank
<1>2. VersionInv => UncommittedIsFiledApart
  BY DEF VersionInv, FiledInv, Committed, UncommittedIsFiledApart
<1>3. QED
  BY <1>1, <1>2, VersionInvariance, PTL DEF Spec

-----------------------------------------------------------------------------
(* How far an invocation is *)

Todos == {<<>>, <<Faithful, Venue>>} \union {<<c>> : c \in Configs}
Loaded == {"hash", "head", "status"}
Running == {"count", "simulate", "append"}

(* A grid's outcomes so far are those of the cells before the one it is at;  *)
(* what has not started or is over has nothing left to run.                  *)
ShapeInv(i) ==
  /\ inv[i].todo \in Todos
  /\ inv[i].pc \in {"unborn", "done", "aborted"} => inv[i].todo = <<>>
  /\ inv[i].pc \in Loaded /\ inv[i].todo # <<>> =>
       inv[i].cells = <<>> /\ inv[i].cell \in {0, 1}
  /\ inv[i].pc \in Running =>
       \/ inv[i].cell = 0 /\ inv[i].cells = <<>>
       \/ inv[i].cell >= 1 /\ Len(inv[i].cells) + 1 = inv[i].cell
  /\ inv[i].pc = "summarise" => inv[i].cell >= 1 /\ Len(inv[i].cells) = NCells

SInv == TInv /\ \A i \in Invocations : ShapeInv(i)

LEMMA LoadMoves ==
  ASSUME TInv, NEW i \in Invocations, LoadConfig(i)
  PROVE  /\ inv[i].pc = "load" /\ inv'[i].pc = "hash"
         /\ inv'[i].todo = inv[i].todo /\ inv'[i].cells = <<>> /\ inv'[i].cell \in {0, 1}
         /\ UNCHANGED store
         /\ \A j \in Invocations \ {i} : inv'[j] = inv[j]
<1> DEFINE first == IF ConfigOf(i) \in Grids THEN 1 ELSE 0
<1>1. inv \in [Invocations -> Invocation] /\ inv[i] \in Invocation /\ first \in {0, 1}
  BY DEF TInv, TypeOK
<1>2. inv' = [inv EXCEPT ![i] = [inv[i] EXCEPT !.pc = "hash",
                 !.version = text[ConfigOf(i)], !.cell = first, !.cells = <<>>]]
  BY DEF LoadConfig
<1>3. inv[i].pc = "load" /\ UNCHANGED store
  BY DEF LoadConfig, At
<1> HIDE DEF first
<1>4. QED
  BY <1>1, <1>2, <1>3 DEF Invocation

LEMMA ReadsMove ==
  ASSUME TInv, NEW i \in Invocations,
         HashConfig(i) \/ ReadHead(i) \/ ReadStatus(i) \/ ReadCounts(i)
  PROVE  /\ \/ inv[i].pc = "hash" /\ inv'[i].pc = "head"
            \/ inv[i].pc = "head" /\ inv'[i].pc = "status"
            \/ inv[i].pc = "status" /\ inv[i].todo = <<>> /\ inv'[i].pc = "judge"
            \/ inv[i].pc = "status" /\ inv[i].todo # <<>> /\ inv'[i].pc = "count"
            \/ inv[i].pc = "count" /\ inv'[i].pc = "simulate"
               /\ inv'[i].sha = inv[i].sha /\ inv'[i].dir = inv[i].dir
         /\ inv'[i].todo = inv[i].todo /\ inv'[i].cells = inv[i].cells
         /\ inv'[i].cell = inv[i].cell
         /\ UNCHANGED store
         /\ \A j \in Invocations \ {i} : inv'[j] = inv[j]
<1>1. inv \in [Invocations -> Invocation] /\ inv[i] \in Invocation
  BY DEF TInv, TypeOK
<1>2. CASE HashConfig(i)
  BY <1>1, <1>2 DEF HashConfig, Invocation, At
<1>3. CASE ReadHead(i)
  BY <1>1, <1>3 DEF ReadHead, Invocation, At
<1>4. CASE ReadStatus(i)
  BY <1>1, <1>4 DEF ReadStatus, Invocation, At
<1>5. CASE ReadCounts(i)
  <2> DEFINE c == CountsTried(trials, FingerprintOf(i), Kind[ConfigOf(i)])
  <2>1. inv' = [inv EXCEPT ![i] = [inv[i] EXCEPT !.pc = "simulate", !.counts = c]]
    BY <1>5 DEF ReadCounts
  <2>2. inv[i].pc = "count" /\ UNCHANGED store
    BY <1>5 DEF ReadCounts, At
  <2> HIDE DEF c
  <2>3. QED
    BY <1>1, <2>1, <2>2 DEF Invocation
<1>6. QED
  BY <1>2, <1>3, <1>4, <1>5

(* A plain run is over after its one run; a grid goes on, or has its last    *)
(* outcome.                                                                  *)
LEMMA CellMoves ==
  ASSUME TInv, NEW i \in Invocations, NEW outcome \in Outcomes, NextCell(i, outcome)
  PROVE  /\ \/ inv[i].cell = 0 /\ inv'[i] = Blank("done")
            \/ /\ inv[i].cell >= 1
               /\ inv'[i].cells = Append(inv[i].cells, outcome)
               /\ inv'[i].todo = inv[i].todo
               /\ inv'[i].sha = inv[i].sha /\ inv'[i].dir = inv[i].dir
               /\ \/ /\ inv[i].cell < NCells /\ inv'[i].pc = "count"
                     /\ inv'[i].cell = inv[i].cell + 1
                  \/ /\ inv[i].cell = NCells /\ inv'[i].pc = "summarise"
                     /\ inv'[i].cell = inv[i].cell
         /\ \A j \in Invocations \ {i} : inv'[j] = inv[j]
<1> DEFINE next == IF inv[i].cell < NCells THEN inv[i].cell + 1 ELSE inv[i].cell
           phase == IF inv[i].cell < NCells THEN "count" ELSE "summarise"
           on == [inv[i] EXCEPT !.cells = Append(@, outcome), !.cell = next, !.pc = phase]
           w == IF inv[i].cell = 0 THEN Blank("done") ELSE on
<1>1. inv' = [inv EXCEPT ![i] = w]
  BY DEF NextCell, AfterCell
<1>2. /\ inv \in [Invocations -> Invocation] /\ inv[i] \in Invocation
      /\ inv[i].cell <= NCells /\ inv[i].cell \in Nat /\ NCells \in Nat \ {0}
  BY RunnerAssumption DEF TInv, TypeOK, Invocation
<1>3. \/ inv[i].cell < NCells /\ next = inv[i].cell + 1 /\ phase = "count"
      \/ inv[i].cell = NCells /\ next = inv[i].cell /\ phase = "summarise"
  BY <1>2
<1> HIDE DEF next, phase
<1>4. /\ on.cells = Append(inv[i].cells, outcome) /\ on.todo = inv[i].todo
      /\ on.sha = inv[i].sha /\ on.dir = inv[i].dir /\ on.pc = phase /\ on.cell = next
  BY <1>2 DEF Invocation
<1> HIDE DEF on
<1>5. inv'[i] = w /\ \A j \in Invocations \ {i} : inv'[j] = inv[j]
  BY <1>1, <1>2
<1>6. CASE inv[i].cell = 0
  BY <1>5, <1>6
<1>7. CASE inv[i].cell # 0
  <2>1. inv'[i] = on /\ inv[i].cell >= 1
    BY <1>2, <1>5, <1>7
  <2>2. QED
    BY <1>3, <1>4, <1>5, <2>1
<1>8. QED
  BY <1>6, <1>7

LEMMA ResultMoves ==
  ASSUME TInv, NEW i \in Invocations, WriteResult(i)
  PROVE  /\ inv[i].pc = "simulate" /\ inv'[i] = [inv[i] EXCEPT !.pc = "append"]
         /\ inv'[i].pc = "append"
         /\ inv'[i].todo = inv[i].todo /\ inv'[i].cells = inv[i].cells
         /\ inv'[i].cell = inv[i].cell /\ inv'[i].sha = inv[i].sha
         /\ inv'[i].dir = inv[i].dir
         /\ inv'[i].version = inv[i].version /\ inv'[i].code = inv[i].code
         /\ \A j \in Invocations \ {i} : inv'[j] = inv[j]
<1>1. inv \in [Invocations -> Invocation] /\ inv[i] \in Invocation
  BY DEF TInv, TypeOK
<1>2. inv' = [inv EXCEPT ![i] = [inv[i] EXCEPT !.pc = "append"]] /\ inv[i].pc = "simulate"
  BY DEF WriteResult, At
<1>3. QED
  BY <1>1, <1>2 DEF Invocation

(* A finished grid leaves its invocation what it has yet to run, or nothing. *)
LEMMA GridMoves ==
  ASSUME TInv, NEW i \in Invocations, WriteGrid(i)
  PROVE  /\ inv[i].pc = "summarise" /\ inv[i].todo # <<>>
         /\ \/ inv'[i] = Blank("done")
            \/ inv'[i].pc = "load" /\ inv'[i].todo = Tail(inv[i].todo)
            \/ inv'[i].pc = "head" /\ inv'[i].todo = Tail(inv[i].todo)
               /\ inv'[i].todo = <<>>
         /\ \A j \in Invocations \ {i} : inv'[j] = inv[j]
<1> DEFINE rest == Tail(inv[i].todo)
           filed == Append(inv[i].grids, inv[i].dir)
           phase == IF Len(inv[i].todo) > 1 THEN "load" ELSE "head"
           on == [inv[i] EXCEPT !.todo = rest, !.grids = filed, !.pc = phase]
           w == IF inv[i].command = "grid" THEN Blank("done") ELSE on
<1>1. /\ inv \in [Invocations -> Invocation] /\ inv[i] \in Invocation
      /\ inv[i].pc = "summarise" /\ inv[i].todo # <<>> /\ inv[i].todo \in Seq(Configs)
  BY DEF TInv, TypeOK, TodoInv, WriteGrid, Working, At, Invocation
<1>2. inv' = [inv EXCEPT ![i] = w]
  BY DEF WriteGrid
<1>3. phase = "load" \/ (phase = "head" /\ rest = <<>>)
  BY <1>1, OneLeft
<1> HIDE DEF rest, filed, phase
<1>4. on.pc = phase /\ on.todo = rest
  BY <1>1 DEF Invocation
<1> HIDE DEF on
<1>5. inv'[i] = w /\ \A j \in Invocations \ {i} : inv'[j] = inv[j]
  BY <1>1, <1>2
<1>6. w = Blank("done") \/ w = on
  OBVIOUS
<1> HIDE DEF w
<1>7. QED
  BY <1>1, <1>3, <1>4, <1>5, <1>6 DEF rest

LEMMA StartMoves ==
  ASSUME TInv, NEW i \in Invocations, RunConfig(i) \/ RunGrid(i) \/ RunGate(i)
  PROVE  /\ inv[i].pc = "unborn" /\ inv'[i].pc = "load"
         /\ inv'[i].todo \in Todos /\ inv'[i].todo # <<>>
         /\ UNCHANGED store
         /\ \A j \in Invocations \ {i} : inv'[j] = inv[j]
<1>1. \E command, todo : todo \in Todos /\ todo # <<>> /\ Start(i, command, todo)
  <2>1. ASSUME NEW command, NEW c \in Configs, Start(i, command, <<c>>)
        PROVE  \E todo : todo \in Todos /\ todo # <<>> /\ Start(i, command, todo)
    <3>1. <<c>> \in Todos /\ <<c>> # <<>>
      BY DEF Todos
    <3>2. QED
      BY <2>1, <3>1
  <2>2. CASE RunConfig(i) \/ RunGrid(i)
    BY <2>1, <2>2 DEF RunConfig, RunGrid, Configs
  <2>3. CASE RunGate(i)
    <3>1. <<Faithful, Venue>> \in Todos /\ <<Faithful, Venue>> # <<>>
      BY DEF Todos
    <3>2. QED
      BY <2>3, <3>1 DEF RunGate
  <2>4. QED
    BY <2>2, <2>3
<1> PICK command, todo : todo \in Todos /\ todo # <<>> /\ Start(i, command, todo)
  BY <1>1
<1>2. inv \in [Invocations -> Invocation] /\ inv[i] \in Invocation
  BY DEF TInv, TypeOK
<1>3. inv' = [inv EXCEPT ![i] = [inv[i] EXCEPT !.pc = "load", !.command = command,
                                               !.code = text[Code], !.todo = todo]]
  BY DEF Start
<1>4. inv[i].pc = "unborn" /\ UNCHANGED store
  BY DEF Start, At
<1>5. QED
  BY <1>2, <1>3, <1>4 DEF Invocation

LEMMA EndMoves ==
  ASSUME TInv, NEW i \in Invocations, Abort(i) \/ WriteGate(i)
  PROVE  /\ inv[i].pc \notin {"unborn", "done", "aborted"}
         /\ \/ Abort(i) /\ inv'[i] = Blank("aborted") /\ UNCHANGED store
            \/ WriteGate(i) /\ inv[i].pc = "judge" /\ inv'[i] = Blank("done")
               /\ UNCHANGED <<trials, cell_results, grid_results>>
         /\ \A j \in Invocations \ {i} : inv'[j] = inv[j]
<1>1. inv \in [Invocations -> Invocation]
  BY DEF TInv, TypeOK
<1>2. CASE Abort(i)
  BY <1>1, <1>2 DEF Abort, Working
<1>3. CASE WriteGate(i)
  BY <1>1, <1>3 DEF WriteGate, At
<1>4. QED
  BY <1>2, <1>3

LEMMA BlankFields ==
  ASSUME NEW phase
  PROVE  /\ Blank(phase).pc = phase /\ Blank(phase).todo = <<>>
         /\ Blank(phase).cell = 0 /\ Blank(phase).cells = <<>>
BY DEF Blank

(* What has begun no step of Step's, and the researcher, leave alone.        *)
LEMMA ResearcherMoves ==
  ASSUME (\E f \in Files : Edit(f)) \/ Commit \/ UNCHANGED vars
  PROVE  UNCHANGED <<store, inv>>
BY DEF Edit, Commit, vars, store

-----------------------------------------------------------------------------
(* What is left to run *)

ToRun(todo) == {todo[k] : k \in DOMAIN todo}

(* A config comes once in what an invocation runs. *)
LEMMA TodosSplit ==
  ASSUME NEW todo \in Todos, todo # <<>>
  PROVE  /\ Head(todo) \in Configs /\ Head(todo) \in ToRun(todo)
         /\ Head(todo) \notin ToRun(Tail(todo))
         /\ ToRun(Tail(todo)) \subseteq ToRun(todo)
         /\ Tail(todo) \in Todos
<1>1. CASE todo = <<Faithful, Venue>>
  <2>1. /\ Head(todo) = Faithful /\ Tail(todo) = <<Venue>>
        /\ todo[1] = Faithful /\ todo[2] = Venue /\ DOMAIN todo = 1 .. 2
    BY <1>1
  <2>2. ToRun(todo) = {Faithful, Venue}
    BY <2>1 DEF ToRun
  <2>3. ToRun(Tail(todo)) = {Venue}
    BY <2>1 DEF ToRun
  <2>4. QED
    BY <2>1, <2>2, <2>3, RunnerAssumption DEF Todos, Configs
<1>2. CASE \E c \in Configs : todo = <<c>>
  <2>1. PICK c \in Configs : todo = <<c>>
    BY <1>2
  <2>2. Head(todo) = c /\ Tail(todo) = <<>> /\ todo[1] = c /\ DOMAIN todo = 1 .. 1
    BY <2>1
  <2>3. ToRun(todo) = {c} /\ ToRun(Tail(todo)) = {}
    BY <2>2 DEF ToRun
  <2>4. QED
    BY <2>2, <2>3 DEF Todos
<1>3. QED
  BY <1>1, <1>2 DEF Todos

-----------------------------------------------------------------------------
(* The shape of an invocation *)

LEMMA OthersKeepShape ==
  ASSUME NEW j \in Invocations, ShapeInv(j), inv'[j] = inv[j] PROVE ShapeInv(j)'
BY DEF ShapeInv

LEMMA EndedShape ==
  ASSUME NEW i \in Invocations, NEW phase \in {"done", "aborted"}, inv'[i] = Blank(phase)
  PROVE  ShapeInv(i)'
BY BlankFields DEF ShapeInv, Todos, Loaded, Running

LEMMA StepShape ==
  ASSUME SInv, NEW i \in Invocations, Step(i)
  PROVE  ShapeInv(i)' /\ \A j \in Invocations \ {i} : inv'[j] = inv[j]
<1>1. /\ TInv /\ ShapeInv(i) /\ inv[i] \in Invocation
      /\ inv[i].cells \in Seq(Outcomes) /\ inv[i].cell \in Nat
  BY DEF SInv, TInv, TypeOK, Invocation
<1>2. CASE LoadConfig(i)
  BY <1>1, <1>2, LoadMoves DEF ShapeInv, Loaded, Running
<1>3. CASE HashConfig(i) \/ ReadHead(i) \/ ReadStatus(i) \/ ReadCounts(i)
  <2>1. inv[i].cells = <<>> => Len(inv[i].cells) = 0
    BY <1>1, EmptySeq
  <2>2. QED
    BY <1>1, <1>3, <2>1, ReadsMove DEF ShapeInv, Loaded, Running
<1>4. CASE Refuse(i) \/ AppendRecorded(i)
  <2>1. PICK outcome \in Outcomes : NextCell(i, outcome)
    BY <1>4 DEF Refuse, AppendRecorded, Outcomes
  <2>2. inv[i].pc \in Running
    BY <1>4 DEF Refuse, AppendRecorded, At, Running
  <2>3. CASE inv'[i] = Blank("done")
    BY <1>1, <2>1, <2>3, CellMoves, EndedShape
  <2>4. CASE inv'[i] # Blank("done")
    <3>1. /\ inv[i].cell >= 1 /\ inv'[i].cells = Append(inv[i].cells, outcome)
          /\ inv'[i].todo = inv[i].todo
          /\ \/ /\ inv[i].cell < NCells /\ inv'[i].pc = "count"
                /\ inv'[i].cell = inv[i].cell + 1
             \/ /\ inv[i].cell = NCells /\ inv'[i].pc = "summarise"
                /\ inv'[i].cell = inv[i].cell
      BY <1>1, <2>1, <2>4, CellMoves
    <3>2. Len(inv'[i].cells) = Len(inv[i].cells) + 1 /\ Len(inv[i].cells) + 1 = inv[i].cell
      BY <1>1, <2>2, <3>1 DEF ShapeInv
    <3>3. ShapeInv(i)'
      BY <1>1, <2>2, <3>1, <3>2 DEF ShapeInv, Loaded, Running
    <3>4. QED
      BY <1>1, <2>1, <3>3, CellMoves
  <2>5. QED
    BY <1>1, <2>1, <2>3, <2>4, CellMoves
<1>5. CASE WriteResult(i)
  BY <1>1, <1>5, ResultMoves DEF ShapeInv, Loaded, Running
<1>6. CASE WriteGrid(i)
  <2>1. CASE inv'[i] = Blank("done")
    BY <1>1, <1>6, <2>1, GridMoves, EndedShape
  <2>2. CASE inv'[i].pc \in {"load", "head"} /\ inv'[i].todo = Tail(inv[i].todo)
             /\ (inv'[i].pc = "head" => inv'[i].todo = <<>>)
    <3>1. Tail(inv[i].todo) \in Todos
      BY <1>1, <1>6, GridMoves, TodosSplit DEF ShapeInv
    <3>2. QED
      BY <1>1, <1>6, <2>2, <3>1, GridMoves DEF ShapeInv, Loaded, Running
  <2>3. QED
    BY <1>1, <1>6, <2>1, <2>2, GridMoves
<1>7. CASE WriteGate(i)
  <2>1. inv'[i] = Blank("done") /\ \A j \in Invocations \ {i} : inv'[j] = inv[j]
    BY <1>1, <1>7 DEF WriteGate, TInv, TypeOK
  <2>2. QED
    BY <2>1, EndedShape
<1>8. QED
  BY <1>2, <1>3, <1>4, <1>5, <1>6, <1>7 DEF Step

LEMMA NextShape == SInv /\ [Next]_vars => SInv'
<1> SUFFICES ASSUME SInv, [Next]_vars PROVE SInv'
  OBVIOUS
<1>1. TInv /\ TInv'
  BY TypeInvariance DEF SInv
<1>2. ASSUME NEW i \in Invocations, ShapeInv(i)', \A j \in Invocations \ {i} : inv'[j] = inv[j]
      PROVE  SInv'
  BY <1>1, <1>2, OthersKeepShape DEF SInv
<1>3. ASSUME NEW i \in Invocations, RunConfig(i) \/ RunGrid(i) \/ RunGate(i) PROVE SInv'
  <2>1. ShapeInv(i)'
    BY <1>1, <1>3, StartMoves DEF ShapeInv, Loaded, Running
  <2>2. QED
    BY <1>1, <1>2, <1>3, <2>1, StartMoves
<1>4. ASSUME NEW i \in Invocations, Step(i) PROVE SInv'
  BY <1>2, <1>4, StepShape
<1>5. ASSUME NEW i \in Invocations, Abort(i) PROVE SInv'
  <2>1. inv'[i] = Blank("aborted") /\ \A j \in Invocations \ {i} : inv'[j] = inv[j]
    BY <1>1, <1>5 DEF Abort, TInv, TypeOK
  <2>2. QED
    BY <1>2, <2>1, EndedShape
<1>6. CASE (\E f \in Files : Edit(f)) \/ Commit \/ UNCHANGED vars
  BY <1>1, <1>6, ResearcherMoves, OthersKeepShape DEF SInv
<1>7. QED
  BY <1>3, <1>4, <1>5, <1>6 DEF Next

LEMMA InitialShape == Init => SInv
<1> SUFFICES ASSUME Init PROVE SInv
  OBVIOUS
<1>1. \A i \in Invocations : inv[i] = Blank("unborn")
  BY DEF Init
<1>2. \A i \in Invocations : ShapeInv(i)
  BY <1>1, BlankFields DEF ShapeInv, Todos, Loaded, Running
<1>3. QED
  BY <1>2, InitialTypes DEF SInv

-----------------------------------------------------------------------------
(* The results beside their grid *)

Filed(path) == \E f \in cell_results : f.path = path
FiledNext(path) == \E f \in cell_results' : f.path = path

(* The cells an invocation counts as recorded are filed where its grid will  *)
(* be, the one it has just written included.                                 *)
BesideInv(i) ==
  /\ inv[i].pc \in Running \union {"summarise"} =>
       \A n \in 1 .. Len(inv[i].cells) :
         inv[i].cells[n] = "recorded" => Filed(<<inv[i].dir, ConfigOf(i), n>>)
  /\ inv[i].pc = "append" => Filed(<<inv[i].dir, ConfigOf(i), inv[i].cell>>)

BInv == CellsBesideTheirGrid /\ \A i \in Invocations : BesideInv(i)

(* A result may be replaced by another invocation's, never removed. *)
LEMMA FilesAreReplaced ==
  ASSUME NEW f, cell_results' = Written(cell_results, f)
  PROVE  FiledNext(f.path) /\ \A path : Filed(path) => FiledNext(path)
<1>1. f \in cell_results'
  BY DEF Written
<1>2. ASSUME NEW path, Filed(path) PROVE FiledNext(path)
  <2>1. PICK g \in cell_results : g.path = path
    BY <1>2 DEF Filed, FiledNext
  <2>2. CASE g.path = f.path
    BY <1>1, <2>1, <2>2 DEF Filed, FiledNext
  <2>3. CASE g.path # f.path
    BY <2>1, <2>3 DEF Filed, FiledNext, Written
  <2>4. QED
    BY <2>2, <2>3
<1>3. QED
  BY <1>1, <1>2 DEF Filed, FiledNext

LEMMA OthersKeepBeside ==
  ASSUME NEW j \in Invocations, BesideInv(j), inv'[j] = inv[j],
         \A path : Filed(path) => FiledNext(path)
  PROVE  BesideInv(j)'
<1>1. ConfigOf(j)' = ConfigOf(j)
  BY DEF ConfigOf
<1>2. QED
  BY <1>1 DEF BesideInv, Filed, FiledNext

LEMMA GridsStayBeside ==
  ASSUME CellsBesideTheirGrid, UNCHANGED grid_results, \A path : Filed(path) => FiledNext(path)
  PROVE  CellsBesideTheirGrid'
BY DEF CellsBesideTheirGrid, Filed, FiledNext

(* An invocation that has begun no config, or has no outcome of it, owes no  *)
(* result.                                                                   *)
LEMMA NothingOwed ==
  ASSUME NEW i \in Invocations,
         \/ inv'[i].pc \notin Running \union {"summarise"}
         \/ inv'[i].pc = "count" /\ inv'[i].cells = <<>>
  PROVE  BesideInv(i)'
<1>1. Len(<<>>) = 0 /\ 1 .. 0 = {}
  OBVIOUS
<1>2. CASE inv'[i].pc \notin Running \union {"summarise"}
  BY <1>2 DEF BesideInv, Running
<1>3. CASE inv'[i].pc = "count" /\ inv'[i].cells = <<>>
  BY <1>1, <1>3 DEF BesideInv
<1>4. QED
  BY <1>2, <1>3

LEMMA CellBeside ==
  ASSUME SInv, BInv, NEW i \in Invocations, NEW outcome \in Outcomes,
         NextCell(i, outcome), inv[i].pc \in Running,
         outcome = "recorded" => inv[i].pc = "append", UNCHANGED cell_results
  PROVE  BesideInv(i)'
<1>1. /\ TInv /\ ShapeInv(i) /\ BesideInv(i)
      /\ inv[i].cells \in Seq(Outcomes) /\ inv[i].cell \in Nat
  BY DEF SInv, BInv, TInv, TypeOK, Invocation
<1>2. CASE inv'[i] = Blank("done")
  BY <1>2, NothingOwed, BlankFields DEF Running
<1>3. CASE inv'[i] # Blank("done")
  <2>1. /\ inv[i].cell >= 1 /\ inv'[i].cells = Append(inv[i].cells, outcome)
        /\ inv'[i].todo = inv[i].todo /\ inv'[i].dir = inv[i].dir
        /\ inv'[i].pc \in {"count", "summarise"}
    BY <1>1, <1>3, CellMoves
  <2>2. Len(inv[i].cells) + 1 = inv[i].cell /\ ConfigOf(i)' = ConfigOf(i)
    BY <1>1, <2>1 DEF ShapeInv, ConfigOf
  <2>3. /\ Len(inv'[i].cells) = inv[i].cell
        /\ inv'[i].cells[inv[i].cell] = outcome
        /\ \A n \in 1 .. Len(inv[i].cells) : inv'[i].cells[n] = inv[i].cells[n]
    BY <1>1, <2>1, <2>2
  <2>4. ASSUME NEW n \in 1 .. inv[i].cell, inv'[i].cells[n] = "recorded"
        PROVE  Filed(<<inv[i].dir, ConfigOf(i), n>>)
    <3>1. CASE n = inv[i].cell
      BY <1>1, <2>3, <2>4, <3>1 DEF BesideInv
    <3>2. CASE n # inv[i].cell
      <4>1. n \in 1 .. Len(inv[i].cells)
        BY <1>1, <2>2, <3>2
      <4>2. QED
        BY <1>1, <2>3, <2>4, <4>1 DEF BesideInv
    <3>3. QED
      BY <3>1, <3>2
  <2>5. \A path : Filed(path) => FiledNext(path)
    BY DEF Filed, FiledNext
  <2>6. QED
    BY <2>1, <2>2, <2>3, <2>4, <2>5 DEF BesideInv, Filed, FiledNext
<1>4. QED
  BY <1>2, <1>3

(* A finished grid is filed where its cells are. *)
LEMMA GridBeside ==
  ASSUME SInv, BInv, NEW i \in Invocations, WriteGrid(i)
  PROVE  CellsBesideTheirGrid'
<1> DEFINE c == CountsRecorded(trials, Kind[ConfigOf(i)])
           h == [path |-> GridPath(i), by |-> i, sha |-> inv[i].sha,
                 cells |-> inv[i].cells, counts |-> c]
<1>1. /\ inv[i].pc = "summarise" /\ UNCHANGED cell_results
      /\ grid_results' = Written(grid_results, h)
  BY DEF WriteGrid, At
<1> HIDE DEF c
<1>2. /\ h.path[1] = inv[i].dir /\ h.path[2] = ConfigOf(i) /\ h.cells = inv[i].cells
  BY DEF GridPath
<1> HIDE DEF h
<1>3. Len(inv[i].cells) = NCells /\ BesideInv(i)
  BY <1>1 DEF SInv, ShapeInv, BInv
<1>4. ASSUME NEW n \in 1 .. NCells, h.cells[n] = "recorded"
      PROVE  FiledNext(<<h.path[1], h.path[2], n>>)
  BY <1>1, <1>2, <1>3, <1>4 DEF BesideInv, Filed, FiledNext
<1>5. ASSUME NEW g \in grid_results', NEW n \in 1 .. NCells, g.cells[n] = "recorded"
      PROVE  FiledNext(<<g.path[1], g.path[2], n>>)
  <2>1. CASE g = h
    BY <1>4, <1>5, <2>1
  <2>2. CASE g \in grid_results
    BY <1>1, <1>5, <2>2 DEF BInv, CellsBesideTheirGrid, Filed, FiledNext
  <2>3. QED
    BY <1>1, <2>1, <2>2 DEF Written
<1>6. QED
  BY <1>5 DEF CellsBesideTheirGrid, Filed, FiledNext

LEMMA StepBeside ==
  ASSUME SInv, BInv, NEW i \in Invocations, Step(i)
  PROVE  BInv'
<1>1. /\ TInv /\ ShapeInv(i) /\ BesideInv(i)
      /\ \A j \in Invocations \ {i} : inv'[j] = inv[j]
  BY StepShape DEF SInv, BInv
<1>2. ASSUME \A path : Filed(path) => FiledNext(path), BesideInv(i)', CellsBesideTheirGrid'
      PROVE  BInv'
  BY <1>1, <1>2, OthersKeepBeside DEF BInv
<1>3. UNCHANGED cell_results => \A path : Filed(path) => FiledNext(path)
  BY DEF Filed, FiledNext
<1>4. ASSUME UNCHANGED <<cell_results, grid_results>>, BesideInv(i)'
      PROVE  BInv'
  BY <1>2, <1>3, <1>4, GridsStayBeside DEF BInv
<1>5. CASE LoadConfig(i)
  BY <1>1, <1>4, <1>5, LoadMoves, NothingOwed DEF store, Running
<1>6. CASE HashConfig(i) \/ ReadHead(i) \/ ReadStatus(i) \/ ReadCounts(i)
  <2>1. CASE inv[i].pc = "count"
    <3>1. /\ inv'[i].pc = "simulate" /\ inv'[i].dir = inv[i].dir
          /\ inv'[i].todo = inv[i].todo /\ inv'[i].cells = inv[i].cells
          /\ UNCHANGED store
      BY <1>1, <1>6, <2>1, ReadsMove
    <3>2. ConfigOf(i)' = ConfigOf(i) /\ \A path : Filed(path) => FiledNext(path)
      BY <3>1 DEF ConfigOf, Filed, FiledNext, store
    <3>3. BesideInv(i)'
      BY <1>1, <2>1, <3>1, <3>2 DEF BesideInv, Running, Filed, FiledNext
    <3>4. QED
      BY <1>4, <3>1, <3>3 DEF store
  <2>2. CASE inv[i].pc # "count"
    <3>1. UNCHANGED store /\ inv[i].pc \in Loaded
          /\ \/ inv'[i].pc \in {"head", "status", "judge"}
             \/ inv'[i].pc = "count" /\ inv[i].todo # <<>> /\ inv'[i].cells = inv[i].cells
      BY <1>1, <1>6, <2>2, ReadsMove DEF Loaded
    <3>2. BesideInv(i)'
      BY <1>1, <3>1, NothingOwed DEF ShapeInv, Running
    <3>3. QED
      BY <1>4, <3>1, <3>2 DEF store
  <2>3. QED
    BY <2>1, <2>2
<1>7. CASE Refuse(i) \/ AppendRecorded(i)
  <2>1. PICK outcome \in Outcomes : /\ NextCell(i, outcome) /\ inv[i].pc \in Running
                                    /\ outcome = "recorded" => inv[i].pc = "append"
    BY <1>7 DEF Refuse, AppendRecorded, Outcomes, At, Running
  <2>2. UNCHANGED <<cell_results, grid_results>>
    BY <1>7 DEF Refuse, AppendRecorded
  <2>3. QED
    BY <1>4, <2>1, <2>2, CellBeside
<1>8. CASE WriteResult(i)
  <2> DEFINE f == [path |-> <<inv[i].dir, ConfigOf(i), inv[i].cell>>, by |-> i,
                   version |-> inv[i].version, sha |-> inv[i].sha, code |-> inv[i].code]
  <2>1. cell_results' = Written(cell_results, f) /\ UNCHANGED grid_results
    BY <1>8 DEF WriteResult
  <2>2. f.path = <<inv[i].dir, ConfigOf(i), inv[i].cell>>
    OBVIOUS
  <2> HIDE DEF f
  <2>3. FiledNext(f.path) /\ \A path : Filed(path) => FiledNext(path)
    BY <2>1, FilesAreReplaced
  <2>4. /\ inv[i].pc = "simulate" /\ inv'[i].pc = "append" /\ inv'[i].dir = inv[i].dir
        /\ inv'[i].todo = inv[i].todo /\ inv'[i].cells = inv[i].cells
        /\ inv'[i].cell = inv[i].cell
    BY <1>1, <1>8, ResultMoves
  <2>5. ConfigOf(i)' = ConfigOf(i)
    BY <2>4 DEF ConfigOf
  <2>6. BesideInv(i)'
    BY <1>1, <2>2, <2>3, <2>4, <2>5 DEF BesideInv, Running, Filed, FiledNext
  <2>7. QED
    BY <1>2, <2>1, <2>3, <2>6, GridsStayBeside DEF BInv
<1>9. CASE WriteGrid(i)
  <2>1. UNCHANGED cell_results
    BY <1>9 DEF WriteGrid
  <2>2. inv'[i].pc \in {"done", "load", "head"}
    BY <1>1, <1>9, GridMoves, BlankFields
  <2>3. QED
    BY <1>2, <1>3, <1>9, <2>1, <2>2, GridBeside, NothingOwed DEF Running
<1>10. CASE WriteGate(i)
  BY <1>1, <1>4, <1>10, EndMoves, BlankFields, NothingOwed DEF WriteGate, Running, Abort, Working
<1>11. QED
  BY <1>5, <1>6, <1>7, <1>8, <1>9, <1>10 DEF Step

LEMMA NextBeside == SInv /\ BInv /\ [Next]_vars => BInv'
<1> SUFFICES ASSUME SInv, BInv, [Next]_vars PROVE BInv'
  OBVIOUS
<1>1. TInv
  BY DEF SInv
<1>2. ASSUME UNCHANGED store, NEW i \in Invocations,
             inv'[i].pc \in {"load", "aborted"}, \A j \in Invocations \ {i} : inv'[j] = inv[j]
      PROVE  BInv'
  <2>1. \A path : Filed(path) => FiledNext(path)
    BY <1>2 DEF Filed, FiledNext, store
  <2>2. BesideInv(i)'
    BY <1>2, NothingOwed DEF Running
  <2>3. QED
    BY <1>2, <2>1, <2>2, OthersKeepBeside, GridsStayBeside DEF BInv, store
<1>3. ASSUME NEW i \in Invocations, RunConfig(i) \/ RunGrid(i) \/ RunGate(i) PROVE BInv'
  BY <1>1, <1>2, <1>3, StartMoves
<1>4. ASSUME NEW i \in Invocations, Step(i) PROVE BInv'
  BY <1>4, StepBeside
<1>5. ASSUME NEW i \in Invocations, Abort(i) PROVE BInv'
  <2>1. /\ inv'[i] = Blank("aborted") /\ \A j \in Invocations \ {i} : inv'[j] = inv[j]
        /\ UNCHANGED store
    BY <1>1, <1>5 DEF Abort, TInv, TypeOK
  <2>2. QED
    BY <1>2, <2>1, BlankFields
<1>6. CASE (\E f \in Files : Edit(f)) \/ Commit \/ UNCHANGED vars
  <2>1. UNCHANGED <<store, inv>>
    BY <1>6, ResearcherMoves
  <2>2. \A path : Filed(path) => FiledNext(path)
    BY <2>1 DEF Filed, FiledNext, store
  <2>3. QED
    BY <2>1, <2>2, OthersKeepBeside, GridsStayBeside DEF BInv, store
<1>7. QED
  BY <1>3, <1>4, <1>5, <1>6 DEF Next

(* A grid's summary lies in the directory of every result it counts as       *)
(* recorded, though the tree was edited or committed under it and other      *)
(* invocations wrote over the same files.                                    *)
THEOREM GridsLieBesideTheirCells == Spec => []CellsBesideTheirGrid
<1>1. Init => BInv
  <2>1. Init => \A i \in Invocations : inv[i] = Blank("unborn")
    BY DEF Init
  <2>2. QED
    BY <2>1, BlankFields DEF Init, BInv, CellsBesideTheirGrid, BesideInv, Running
<1>2. BInv => CellsBesideTheirGrid
  BY DEF BInv
<1>3. QED
  BY <1>1, <1>2, InitialShape, NextShape, NextBeside, PTL DEF Spec

-----------------------------------------------------------------------------
(* The results of the recorded trials *)

(* No step does away with a result: the only one that touches them replaces. *)
LEMMA ResultsStay ==
  ASSUME [Next]_vars PROVE \A path : Filed(path) => FiledNext(path)
<1>1. UNCHANGED cell_results => \A path : Filed(path) => FiledNext(path)
  BY DEF Filed, FiledNext
<1>2. ASSUME NEW i \in Invocations, WriteResult(i)
      PROVE  \A path : Filed(path) => FiledNext(path)
  BY <1>2, FilesAreReplaced DEF WriteResult
<1>3. ASSUME NEW i \in Invocations, Step(i), ~WriteResult(i) PROVE UNCHANGED cell_results
  BY <1>3 DEF Step, LoadConfig, HashConfig, ReadHead, ReadStatus, ReadCounts, Refuse,
              AppendRecorded, WriteGrid, WriteGate, store
<1>4. ASSUME NEW i \in Invocations, RunConfig(i) \/ RunGrid(i) \/ RunGate(i) \/ Abort(i)
      PROVE  UNCHANGED cell_results
  BY <1>4 DEF RunConfig, RunGrid, RunGate, Start, Abort, store
<1>5. (\E f \in Files : Edit(f)) \/ Commit \/ UNCHANGED vars => UNCHANGED cell_results
  BY DEF Edit, Commit, vars, store
<1>6. QED
  BY <1>1, <1>2, <1>3, <1>4, <1>5 DEF Next

(* Where the result of a line is filed. *)
ResultPath(t) == <<t.dir, t.fingerprint[1], t.fingerprint[3]>>

(* A run is only called recorded by the invocation that has filed it.        *)
LEMMA RecordedWasFiled ==
  ASSUME TInv, BInv, NEW i \in Invocations, AppendRecorded(i)
  PROVE  Filed(ResultPath(TrialLine(i, "recorded")))
<1>1. Filed(<<inv[i].dir, ConfigOf(i), inv[i].cell>>)
  BY DEF AppendRecorded, At, BInv, BesideInv
<1>2. ResultPath(TrialLine(i, "recorded")) = <<inv[i].dir, ConfigOf(i), inv[i].cell>>
  BY DEF ResultPath, TrialLine, FingerprintOf, Fingerprint
<1>3. QED
  BY <1>1, <1>2

LEMMA NextHasResults ==
  TInv /\ BInv /\ TrialsHaveTheirResults /\ [Next]_vars => TrialsHaveTheirResults'
<1> SUFFICES ASSUME TInv, BInv, TrialsHaveTheirResults, [Next]_vars,
                    NEW k \in DOMAIN trials', trials'[k].outcome = "recorded"
             PROVE  FiledNext(ResultPath(trials'[k]))
  BY DEF TrialsHaveTheirResults, FiledNext, ResultPath
<1>1. ASSUME k \in DOMAIN trials, trials'[k] = trials[k] PROVE Filed(ResultPath(trials'[k]))
  BY <1>1 DEF TrialsHaveTheirResults, Filed, ResultPath
<1>2. CASE UNCHANGED trials
  BY <1>1, <1>2, ResultsStay
<1>3. CASE ~UNCHANGED trials
  <2>1. PICK i \in Invocations, outcome \in Outcomes :
          /\ At(i, "simulate") \/ At(i, "append")
          /\ append_trial(i, outcome)
          /\ outcome = "recorded" => AppendRecorded(i)
    BY <1>3, WhoAppends
  <2>2. /\ \A n \in DOMAIN trials : n \in DOMAIN trials' /\ trials'[n] = trials[n]
        /\ DOMAIN trials = 1 .. Len(trials)
        /\ DOMAIN trials' = 1 .. (Len(trials) + 1)
        /\ trials'[Len(trials) + 1] = TrialLine(i, outcome)
    BY <2>1, AppendedLog
  <2>3. CASE k \in DOMAIN trials
    BY <1>1, <2>2, <2>3, ResultsStay
  <2>4. CASE k \notin DOMAIN trials
    <3>1. k = Len(trials) + 1
      BY <2>2, <2>4, LenProperties DEF TInv, TypeOK
    <3>2. trials'[k] = TrialLine(i, outcome)
      BY <2>2, <3>1
    <3>3. TrialLine(i, outcome).outcome = outcome
      BY DEF TrialLine
    <3>4. outcome = "recorded" /\ AppendRecorded(i)
      BY <2>1, <3>2, <3>3
    <3>5. QED
      BY <3>2, <3>4, RecordedWasFiled, ResultsStay
  <2>5. QED
    BY <2>3, <2>4
<1>4. QED
  BY <1>2, <1>3

(* Every trial the log calls recorded has its result on disk, in the         *)
(* directory and under the name its line gives, however many invocations     *)
(* wrote there, were killed or ran again.                                    *)
THEOREM RecordedResultsAreFiled == Spec => []TrialsHaveTheirResults
<1>1. Init => BInv /\ TrialsHaveTheirResults
  <2> SUFFICES ASSUME Init PROVE BInv /\ TrialsHaveTheirResults
    OBVIOUS
  <2>1. \A i \in Invocations : inv[i] = Blank("unborn")
    BY DEF Init
  <2>2. DOMAIN trials = {}
    BY DEF Init
  <2>3. QED
    BY <2>1, <2>2, BlankFields
    DEF Init, BInv, CellsBesideTheirGrid, BesideInv, Running, TrialsHaveTheirResults
<1>2. SInv => TInv
  BY DEF SInv
<1>3. QED
  BY <1>1, <1>2, InitialShape, NextShape, NextBeside, NextHasResults, PTL DEF Spec

-----------------------------------------------------------------------------
(* Results without a line *)

Uncounted(i) == {f \in cell_results : f.by = i /\ ~Counted(f)}

(* The result a cell writes just before its line. *)
ResultOf(i) ==
  [path |-> <<inv[i].dir, ConfigOf(i), inv[i].cell>>, by |-> i,
   version |-> inv[i].version, sha |-> inv[i].sha, code |-> inv[i].code]

UncountedInv(i) ==
  /\ inv[i].pc = "append" => Uncounted(i) \subseteq {ResultOf(i)}
  /\ inv[i].pc \notin {"append", "aborted"} => Uncounted(i) = {}
  /\ \E f : Uncounted(i) \subseteq {f}

UInv == \A i \in Invocations : UncountedInv(i)

LEMMA LogGrows ==
  ASSUME TInv, [Next]_vars
  PROVE  \A k \in DOMAIN trials : k \in DOMAIN trials' /\ trials'[k] = trials[k]
<1>1. CASE UNCHANGED trials
  BY <1>1
<1>2. CASE ~UNCHANGED trials
  BY <1>2, WhoAppends, AppendedLog
<1>3. QED
  BY <1>1, <1>2

(* A line once there counts for good. *)
LEMMA CountedForGood ==
  ASSUME TInv, [Next]_vars, NEW f, Counted(f)
  PROVE  Counted(f)'
BY LogGrows DEF Counted

(* No step but the writing of a result leaves an invocation one more without *)
(* its line.                                                                 *)
LEMMA NoMoreUncounted ==
  ASSUME TInv, [Next]_vars, NEW j \in Invocations,
         \A f \in cell_results' : f.by = j => f \in cell_results
  PROVE  Uncounted(j)' \subseteq Uncounted(j)
BY CountedForGood DEF Uncounted

LEMMA OthersUncounted ==
  ASSUME NEW j \in Invocations, UncountedInv(j), inv'[j] = inv[j],
         Uncounted(j)' \subseteq Uncounted(j)
  PROVE  UncountedInv(j)'
<1>1. ResultOf(j)' = ResultOf(j)
  BY DEF ResultOf, ConfigOf
<1>2. QED
  BY <1>1 DEF UncountedInv

LEMMA SettledUncounted ==
  ASSUME NEW i \in Invocations, Uncounted(i)' = {} PROVE UncountedInv(i)'
BY DEF UncountedInv

(* The line a cell appends is that of the result it wrote. *)
LEMMA LineCountsResult ==
  ASSUME TInv, NEW i \in Invocations, At(i, "append"), append_trial(i, "recorded")
  PROVE  \A f : f = ResultOf(i) => Counted(f)'
<1>1. /\ Len(trials) + 1 \in DOMAIN trials'
      /\ trials'[Len(trials) + 1] = TrialLine(i, "recorded")
  <2>1. Len(trials) \in Nat
    BY DEF TInv, TypeOK
  <2>2. QED
    BY <2>1, AppendedLog DEF Outcomes
<1>2. ASSUME NEW f, f = ResultOf(i) PROVE Counted(f)'
  <2>1. /\ f.by = i /\ f.path[1] = inv[i].dir
        /\ Fingerprint(f.path[2], f.sha, f.path[3]) = FingerprintOf(i)
    BY <1>2 DEF ResultOf, FingerprintOf, Fingerprint
  <2> DEFINE t == TrialLine(i, "recorded")
  <2>2. /\ t.by = i /\ t.outcome = "recorded" /\ t.dir = inv[i].dir
        /\ t.fingerprint = FingerprintOf(i)
    BY DEF TrialLine
  <2> HIDE DEF t
  <2>3. trials'[Len(trials) + 1] = t
    BY <1>1 DEF t
  <2>4. PICK k \in DOMAIN trials' : trials'[k] = t
    BY <1>1, <2>3
  <2>5. /\ trials'[k].by = f.by /\ trials'[k].outcome = "recorded"
        /\ trials'[k].fingerprint = Fingerprint(f.path[2], f.sha, f.path[3])
        /\ trials'[k].dir = f.path[1]
    BY <2>1, <2>2, <2>4
  <2>6. QED
    BY <2>5, Zenon DEF Counted, Fingerprint
<1>3. QED
  BY <1>2

LEMMA StepUncounted ==
  ASSUME SInv, UInv, NEW i \in Invocations, Step(i), [Next]_vars
  PROVE  UInv'
<1>1. /\ TInv /\ ShapeInv(i) /\ UncountedInv(i)
      /\ \A j \in Invocations \ {i} : inv'[j] = inv[j]
  BY StepShape DEF SInv, UInv
<1>2. ASSUME UncountedInv(i)',
             \A j \in Invocations \ {i} : \A f \in cell_results' : f.by = j => f \in cell_results
      PROVE  UInv'
  BY <1>1, <1>2, NoMoreUncounted, OthersUncounted DEF UInv
<1>3. ASSUME UNCHANGED cell_results, inv[i].pc \notin {"append", "aborted"} PROVE UInv'
  <2>1. Uncounted(i)' = {}
    BY <1>1, <1>3, NoMoreUncounted DEF UncountedInv
  <2>2. QED
    BY <1>2, <1>3, <2>1, SettledUncounted
<1>4. CASE \/ LoadConfig(i) \/ HashConfig(i) \/ ReadHead(i) \/ ReadStatus(i) \/ ReadCounts(i)
           \/ Refuse(i) \/ WriteGrid(i) \/ WriteGate(i)
  BY <1>3, <1>4 DEF LoadConfig, HashConfig, ReadHead, ReadStatus, ReadCounts, Refuse,
                    WriteGrid, WriteGate, At, store
<1>5. CASE AppendRecorded(i)
  <2>1. /\ inv[i].pc = "append" /\ append_trial(i, "recorded") /\ UNCHANGED cell_results
        /\ At(i, "append")
    BY <1>5 DEF AppendRecorded, At
  <2>2. Uncounted(i)' \subseteq Uncounted(i) /\ Uncounted(i) \subseteq {ResultOf(i)}
    BY <1>1, <2>1, NoMoreUncounted DEF UncountedInv
  <2>3. ASSUME NEW f \in Uncounted(i)' PROVE FALSE
    <3>1. f = ResultOf(i) /\ ~Counted(f)'
      BY <2>2 DEF Uncounted
    <3>2. QED
      BY <1>1, <2>1, <3>1, LineCountsResult
  <2>4. QED
    BY <1>2, <2>1, <2>3, SettledUncounted
<1>6. CASE WriteResult(i)
  <2>1. cell_results' = Written(cell_results, ResultOf(i)) /\ inv[i].pc = "simulate"
    BY <1>6 DEF WriteResult, ResultOf, At
  <2>2. /\ inv'[i].pc = "append" /\ ConfigOf(i)' = ConfigOf(i)
        /\ ResultOf(i)' = ResultOf(i)
    BY <1>1, <1>6, ResultMoves DEF ConfigOf, ResultOf
  <2>3. ResultOf(i).by = i /\ \A f \in cell_results' : f = ResultOf(i) \/ f \in cell_results
    BY <2>1 DEF Written, ResultOf
  <2>4. Uncounted(i) = {}
    BY <1>1, <2>1 DEF UncountedInv
  <2>5. ASSUME NEW f \in Uncounted(i)' PROVE f = ResultOf(i)
    <3>1. f \in cell_results' /\ f.by = i /\ ~Counted(f)'
      BY DEF Uncounted
    <3>2. f \notin cell_results
      BY <1>1, <2>4, <3>1, CountedForGood DEF Uncounted
    <3>3. QED
      BY <2>3, <3>1, <3>2
  <2>6. UncountedInv(i)'
    BY <2>2, <2>5 DEF UncountedInv
  <2>7. QED
    BY <1>2, <2>3, <2>6
<1>7. QED
  BY <1>4, <1>5, <1>6 DEF Step

LEMMA NextUncounted == SInv /\ UInv /\ [Next]_vars => UInv'
<1> SUFFICES ASSUME SInv, UInv, [Next]_vars PROVE UInv'
  OBVIOUS
<1>1. TInv
  BY DEF SInv
<1>2. ASSUME UNCHANGED cell_results, NEW j \in Invocations
      PROVE  Uncounted(j)' \subseteq Uncounted(j)
  BY <1>1, <1>2, NoMoreUncounted
<1>3. ASSUME NEW i \in Invocations, RunConfig(i) \/ RunGrid(i) \/ RunGate(i) PROVE UInv'
  <2>1. /\ inv[i].pc = "unborn" /\ UNCHANGED cell_results
        /\ \A j \in Invocations \ {i} : inv'[j] = inv[j]
    BY <1>1, <1>3, StartMoves DEF store
  <2>2. Uncounted(i)' = {}
    BY <1>2, <2>1 DEF UInv, UncountedInv
  <2>3. QED
    BY <1>2, <2>1, <2>2, OthersUncounted, SettledUncounted DEF UInv
<1>4. ASSUME NEW i \in Invocations, Step(i) PROVE UInv'
  BY <1>4, StepUncounted
<1>5. ASSUME NEW i \in Invocations, Abort(i) PROVE UInv'
  <2>1. /\ inv'[i] = Blank("aborted") /\ \A j \in Invocations \ {i} : inv'[j] = inv[j]
        /\ UNCHANGED cell_results
    BY <1>1, <1>5 DEF Abort, TInv, TypeOK, store
  <2>2. UncountedInv(i)'
    BY <1>2, <2>1, BlankFields DEF UInv, UncountedInv
  <2>3. QED
    BY <1>2, <2>1, <2>2, OthersUncounted DEF UInv
<1>6. CASE (\E f \in Files : Edit(f)) \/ Commit \/ UNCHANGED vars
  BY <1>2, <1>6, ResearcherMoves, OthersUncounted DEF UInv, store
<1>7. QED
  BY <1>3, <1>4, <1>5, <1>6 DEF Next

(* However invocations overlap, overwrite one another or die: each leaves at *)
(* most one result without its line, the one it was writing.                 *)
THEOREM OnlyTheLastIsUncounted == Spec => []AtMostOneUncounted
<1>1. Init => UInv
  BY DEF Init, UInv, UncountedInv, Uncounted
<1>2. UInv => AtMostOneUncounted
  <2> SUFFICES ASSUME UInv, NEW i \in Invocations
               PROVE  /\ Cardinality(Uncounted(i)) <= 1
                      /\ Uncounted(i) # {} => At(i, "append") \/ At(i, "aborted")
    BY DEF AtMostOneUncounted, Uncounted
  <2>1. PICK f : Uncounted(i) \subseteq {f}
    BY DEF UInv, UncountedInv
  <2>2. Uncounted(i) = {} \/ Uncounted(i) = {f}
    BY <2>1
  <2>3. Cardinality(Uncounted(i)) <= 1
    <3>1. Cardinality({}) = 0
      BY FS_EmptySet
    <3>2. Cardinality({f}) = 1
      BY FS_Singleton
    <3>3. QED
      BY <2>2, <3>1, <3>2
  <2>4. QED
    BY <2>3 DEF UInv, UncountedInv, At
<1>3. QED
  BY <1>1, <1>2, InitialShape, NextShape, NextUncounted, PTL DEF Spec

-----------------------------------------------------------------------------
(* The lines of a log that one invocation wrote *)

LinesIn(log, i, fp) ==
  {k \in DOMAIN log : log[k].by = i /\ log[k].fingerprint = fp}
NoLines(log, i, configs) ==
  \A k \in DOMAIN log : log[k].by = i => log[k].fingerprint[1] \notin configs

(* Each of the first cells of a config as it was hashed has its one line,    *)
(* ending the way it did; those after m have none.                           *)
Attempted(log, i, c, sha, cells) ==
  \A n \in 1 .. Len(cells) :
    \E k \in DOMAIN log :
      /\ LinesIn(log, i, Fingerprint(c, sha, n)) = {k}
      /\ log[k].outcome = cells[n]
Unattempted(log, i, c, sha, m) ==
  \A n \in Nat : n > m => LinesIn(log, i, Fingerprint(c, sha, n)) = {}

LEMMA AppendFacts ==
  ASSUME NEW S, NEW log \in Seq(S), NEW e \in S
  PROVE  /\ DOMAIN log = 1 .. Len(log) /\ Len(log) \in Nat
         /\ DOMAIN Append(log, e) = 1 .. (Len(log) + 1)
         /\ Append(log, e)[Len(log) + 1] = e
         /\ \A k \in DOMAIN log : Append(log, e)[k] = log[k]
OBVIOUS

LEMMA OtherLinesStay ==
  ASSUME NEW S, NEW log \in Seq(S), NEW e \in S, NEW i, NEW fp,
         e.by # i \/ e.fingerprint # fp
  PROVE  LinesIn(Append(log, e), i, fp) = LinesIn(log, i, fp)
BY AppendFacts DEF LinesIn

LEMMA OwnLineAdded ==
  ASSUME NEW S, NEW log \in Seq(S), NEW e \in S, LinesIn(log, e.by, e.fingerprint) = {}
  PROVE  LinesIn(Append(log, e), e.by, e.fingerprint) = {Len(log) + 1}
BY AppendFacts DEF LinesIn

LEMMA FingerprintsDiffer ==
  ASSUME NEW c, NEW sha, NEW n, NEW d, NEW t, NEW m,
         c # d \/ n # m
  PROVE  Fingerprint(c, sha, n) # Fingerprint(d, t, m)
BY DEF Fingerprint

(* What a log says of a config does not change when a line of another        *)
(* invocation or another config is appended.                                 *)
LEMMA AttemptsStay ==
  ASSUME NEW S, NEW log \in Seq(S), NEW e \in S, NEW i, NEW c, NEW sha, NEW cells,
         NEW d, NEW t, NEW m, e.fingerprint = Fingerprint(d, t, m),
         e.by # i \/ d # c \/ m \notin 1 .. Len(cells), Attempted(log, i, c, sha, cells)
  PROVE  Attempted(Append(log, e), i, c, sha, cells)
<1> SUFFICES ASSUME NEW n \in 1 .. Len(cells)
             PROVE  \E k \in DOMAIN Append(log, e) :
                      /\ LinesIn(Append(log, e), i, Fingerprint(c, sha, n)) = {k}
                      /\ Append(log, e)[k].outcome = cells[n]
  BY DEF Attempted
<1>1. PICK k \in DOMAIN log : /\ LinesIn(log, i, Fingerprint(c, sha, n)) = {k}
                              /\ log[k].outcome = cells[n]
  BY DEF Attempted
<1>2. e.by # i \/ e.fingerprint # Fingerprint(c, sha, n)
  BY FingerprintsDiffer
<1>3. LinesIn(Append(log, e), i, Fingerprint(c, sha, n)) = {k}
  BY <1>1, <1>2, OtherLinesStay
<1>4. k \in DOMAIN Append(log, e) /\ Append(log, e)[k] = log[k]
  BY AppendFacts
<1>5. QED
  BY <1>1, <1>3, <1>4

(* The line of the next cell completes it. *)
LEMMA AttemptAdded ==
  ASSUME NEW S, NEW log \in Seq(S), NEW e \in S, NEW c, NEW sha,
         NEW cells \in Seq(Outcomes), NEW outcome \in Outcomes,
         e.fingerprint = Fingerprint(c, sha, Len(cells) + 1), e.outcome = outcome,
         Attempted(log, e.by, c, sha, cells), Unattempted(log, e.by, c, sha, Len(cells))
  PROVE  /\ Attempted(Append(log, e), e.by, c, sha, Append(cells, outcome))
         /\ Unattempted(Append(log, e), e.by, c, sha, Len(cells) + 1)
<1>1. /\ Len(cells) \in Nat /\ Len(Append(cells, outcome)) = Len(cells) + 1
      /\ Append(cells, outcome)[Len(cells) + 1] = outcome
      /\ \A n \in 1 .. Len(cells) : Append(cells, outcome)[n] = cells[n]
  OBVIOUS
<1>2. Attempted(Append(log, e), e.by, c, sha, cells)
  BY <1>1, AttemptsStay
<1>3. LinesIn(log, e.by, e.fingerprint) = {}
  BY <1>1 DEF Unattempted
<1>4. /\ LinesIn(Append(log, e), e.by, e.fingerprint) = {Len(log) + 1}
      /\ Len(log) + 1 \in DOMAIN Append(log, e)
      /\ Append(log, e)[Len(log) + 1].outcome = outcome
  BY <1>3, OwnLineAdded, AppendFacts
<1>5. ASSUME NEW n \in 1 .. Len(Append(cells, outcome))
      PROVE  \E k \in DOMAIN Append(log, e) :
               /\ LinesIn(Append(log, e), e.by, Fingerprint(c, sha, n)) = {k}
               /\ Append(log, e)[k].outcome = Append(cells, outcome)[n]
  <2>1. CASE n = Len(cells) + 1
    BY <1>1, <1>4, <2>1
  <2>2. CASE n # Len(cells) + 1
    <3>1. n \in 1 .. Len(cells)
      BY <1>1, <2>2
    <3>2. QED
      BY <1>1, <1>2, <3>1 DEF Attempted
  <2>3. QED
    BY <2>1, <2>2
<1>6. ASSUME NEW n \in Nat, n > Len(cells) + 1
      PROVE  LinesIn(Append(log, e), e.by, Fingerprint(c, sha, n)) = {}
  <2>1. n > Len(cells) /\ n # Len(cells) + 1
    BY <1>1, <1>6
  <2>2. e.fingerprint # Fingerprint(c, sha, n)
    BY <2>1, FingerprintsDiffer
  <2>3. QED
    BY <2>1, <2>2, OtherLinesStay DEF Unattempted
<1>7. QED
  BY <1>5, <1>6 DEF Attempted, Unattempted

LEMMA NoLinesStay ==
  ASSUME NEW S, NEW log \in Seq(S), NEW e \in S, NEW i, NEW configs,
         NoLines(log, i, configs), e.by # i \/ e.fingerprint[1] \notin configs
  PROVE  NoLines(Append(log, e), i, configs)
BY AppendFacts DEF NoLines

(* As many configurations as cells, each with its line. *)
LEMMA CellsAreTried ==
  ASSUME NEW S, NEW log \in Seq(S), NEW i, NEW c, NEW sha, NEW cells, NEW kind,
         NEW N \in Nat, Len(cells) = N, Attempted(log, i, c, sha, cells),
         \A k \in DOMAIN log : log[k].fingerprint[1] = c => log[k].kind = kind
  PROVE  Cardinality(FingerprintsIn(log, kind)) >= N
<1> DEFINE F == FingerprintsIn(log, kind)
           f == [n \in 1 .. N |-> Fingerprint(c, sha, n)]
<1>1. IsFiniteSet(F)
  BY NamedInIsFinite, FingerprintsAreNamed, Len(log) \in 0 .. Len(log)
<1>2. ASSUME NEW n \in 1 .. N PROVE f[n] \in F
  <2>1. PICK k \in DOMAIN log : LinesIn(log, i, Fingerprint(c, sha, n)) = {k}
    BY DEF Attempted
  <2>2. log[k].fingerprint = Fingerprint(c, sha, n)
    BY <2>1 DEF LinesIn
  <2>3. log[k].kind = kind
    BY <2>2 DEF Fingerprint
  <2>4. QED
    BY <2>2, <2>3 DEF FingerprintsIn
<1>3. ASSUME NEW n \in 1 .. N, NEW m \in 1 .. N, f[n] = f[m] PROVE n = m
  BY <1>3, FingerprintsDiffer
<1> HIDE DEF F
<1>4. f \in Injection(1 .. N, F)
  BY <1>2, <1>3 DEF Injection, IsInjective
<1>5. IsFiniteSet(1 .. N) /\ Cardinality(1 .. N) = N
  BY FS_Interval
<1> HIDE DEF f
<1>6. Cardinality(1 .. N) <= Cardinality(F) /\ Cardinality(F) \in Nat
  BY <1>1, <1>4, FS_Injection, FS_CardinalityType
<1>7. QED
  BY <1>5, <1>6 DEF F

LEMMA UnattemptedStay ==
  ASSUME NEW S, NEW log \in Seq(S), NEW e \in S, NEW i, NEW c, NEW sha, NEW m,
         Unattempted(log, i, c, sha, m), e.by # i
  PROVE  Unattempted(Append(log, e), i, c, sha, m)
BY OtherLinesStay DEF Unattempted

-----------------------------------------------------------------------------
(* Grids and their lines *)

(* The configs an invocation may still file a grid of, and those it has      *)
(* appended no line of.                                                      *)
Owed(v) == IF v.pc = "unborn" THEN Configs ELSE ToRun(v.todo)
Left(v) == IF v.pc \in Running \union {"summarise"} THEN ToRun(Tail(v.todo)) ELSE Owed(v)

(* Of the grid it is at, an invocation whose locals are v has appended the   *)
(* lines of the cells it has outcomes of and no other.                       *)
LinesHold(log, grids, i, v) ==
  /\ NoLines(log, i, Left(v))
  /\ v.pc \in Running \union {"summarise"} /\ v.cell >= 1 =>
       Attempted(log, i, Head(v.todo), v.sha, v.cells)
  /\ v.pc \in Running /\ v.cell >= 1 =>
       Unattempted(log, i, Head(v.todo), v.sha, Len(v.cells))
  /\ \A g \in grids : g.by = i => g.path[2] \notin Owed(v)

Attested(log, g) ==
  /\ Len(g.cells) = NCells
  /\ g.counts.configurations_tried >= NCells
  /\ \A n \in 1 .. NCells :
       \E k \in DOMAIN log :
         /\ LinesIn(log, g.by, Fingerprint(g.path[2], g.sha, n)) = {k}
         /\ k <= g.counts.trials_recorded /\ log[k].outcome = g.cells[n]

KindInv == \A k \in DOMAIN trials : trials[k].kind = Kind[trials[k].fingerprint[1]]

LInv ==
  /\ KindInv
  /\ \A g \in grid_results : Attested(trials, g)
  /\ \A i \in Invocations : LinesHold(trials, grid_results, i, inv[i])

LEMMA AttestedStays ==
  ASSUME NEW S, NEW log \in Seq(S), NEW e \in S, NEW g, Attested(log, g),
         e.by # g.by \/ e.fingerprint[1] # g.path[2]
  PROVE  Attested(Append(log, e), g)
<1> SUFFICES ASSUME NEW n \in 1 .. NCells
             PROVE  \E k \in DOMAIN Append(log, e) :
                      /\ LinesIn(Append(log, e), g.by, Fingerprint(g.path[2], g.sha, n)) = {k}
                      /\ k <= g.counts.trials_recorded
                      /\ Append(log, e)[k].outcome = g.cells[n]
  BY DEF Attested
<1>1. PICK k \in DOMAIN log :
        /\ LinesIn(log, g.by, Fingerprint(g.path[2], g.sha, n)) = {k}
        /\ k <= g.counts.trials_recorded /\ log[k].outcome = g.cells[n]
  BY DEF Attested
<1>2. Fingerprint(g.path[2], g.sha, n)[1] = g.path[2]
  BY DEF Fingerprint
<1>3. LinesIn(Append(log, e), g.by, Fingerprint(g.path[2], g.sha, n)) = {k}
  BY <1>1, <1>2, OtherLinesStay
<1>4. k \in DOMAIN Append(log, e) /\ Append(log, e)[k] = log[k]
  BY AppendFacts
<1>5. QED
  BY <1>1, <1>3, <1>4

(* What is over owes no grid; what reads on without running owes no line.    *)
LEMMA EndedLines ==
  ASSUME NEW log, NEW grids, NEW i, NEW phase \in {"done", "aborted"}
  PROVE  LinesHold(log, grids, i, Blank(phase))
<1>1. ToRun(<<>>) = {}
  BY DEF ToRun
<1>2. Left(Blank(phase)) = {} /\ Owed(Blank(phase)) = {}
  BY <1>1, BlankFields DEF Left, Owed, Running
<1>3. QED
  BY <1>2, BlankFields DEF LinesHold, NoLines, Running

LEMMA ReadingLines ==
  ASSUME NEW log, NEW grids, NEW i, NEW v, NEW w, LinesHold(log, grids, i, v),
         Owed(w) \subseteq Left(v), Owed(w) \subseteq Owed(v),
         w.pc \notin Running \union {"summarise"}
  PROVE  LinesHold(log, grids, i, w)
BY DEF LinesHold, NoLines, Left

(* A step within a cell. *)
LEMMA WithinCell ==
  ASSUME NEW log, NEW grids, NEW i, NEW v, NEW w, LinesHold(log, grids, i, v),
         v.pc \in Running, w.pc \in Running, w.todo = v.todo, w.cells = v.cells,
         w.cell = v.cell, w.sha = v.sha
  PROVE  LinesHold(log, grids, i, w)
BY DEF LinesHold, Left, Owed, Running

(* The first cell of a config of which there is no line yet. *)
LEMMA FirstCell ==
  ASSUME NEW log, NEW grids, NEW i, NEW v, NEW w, LinesHold(log, grids, i, v),
         v.pc = "status", w.pc = "count", v.todo \in Todos, v.todo # <<>>,
         w.todo = v.todo, w.cells = <<>>
  PROVE  LinesHold(log, grids, i, w)
<1>1. /\ Head(v.todo) \in ToRun(v.todo) /\ ToRun(Tail(v.todo)) \subseteq ToRun(v.todo)
  BY TodosSplit
<1>2. Left(v) = ToRun(v.todo) /\ Owed(v) = ToRun(v.todo)
  BY DEF Left, Owed, Running
<1>3. Left(w) = ToRun(Tail(v.todo)) /\ Owed(w) = ToRun(v.todo)
  BY DEF Left, Owed, Running
<1>4. NoLines(log, i, Left(w))
  BY <1>1, <1>2, <1>3 DEF LinesHold, NoLines
<1>5. Len(<<>>) = 0 /\ 1 .. 0 = {}
  OBVIOUS
<1>6. Attempted(log, i, Head(v.todo), w.sha, <<>>)
  BY <1>5 DEF Attempted
<1>7. ASSUME NEW n, NEW sha PROVE LinesIn(log, i, Fingerprint(Head(v.todo), sha, n)) = {}
  <2>1. Fingerprint(Head(v.todo), sha, n)[1] = Head(v.todo)
    BY DEF Fingerprint
  <2>2. QED
    BY <1>1, <1>2, <2>1 DEF LinesHold, NoLines, LinesIn
<1>8. Unattempted(log, i, Head(v.todo), w.sha, 0)
  BY <1>7 DEF Unattempted
<1>9. QED
  BY <1>2, <1>3, <1>4, <1>5, <1>6, <1>8 DEF LinesHold

(* The line of a cell or run: everybody else's stay as they were, and so do  *)
(* the grids that are already filed.                                         *)
LEMMA CellLines ==
  ASSUME SInv, LInv, NEW i \in Invocations, NEW outcome \in Outcomes,
         inv[i].pc \in {"simulate", "append"}, append_trial(i, outcome),
         NextCell(i, outcome), UNCHANGED grid_results
  PROVE  LInv'
<1> DEFINE e == TrialLine(i, outcome)
           v == inv[i]
           c == ConfigOf(i)
<1>1. /\ TInv /\ ShapeInv(i) /\ trials \in Seq(Trial) /\ v.cells \in Seq(Outcomes)
      /\ v.cell \in Nat /\ grid_results \subseteq GridResult
      /\ LinesHold(trials, grid_results, i, v)
  BY DEF SInv, LInv, TInv, TypeOK, Invocation
<1>2. v.todo # <<>> /\ v.todo \in Todos /\ v.pc \in Running
  BY <1>1 DEF TInv, TodoInv, Working, At, ShapeInv, Running
<1>3. e \in Trial /\ trials' = Append(trials, e)
  BY <1>1, <1>2, TrialLineType DEF append_trial
<1>4. /\ e.by = i /\ e.outcome = outcome /\ e.kind = Kind[c]
      /\ e.fingerprint = Fingerprint(c, v.sha, v.cell) /\ e.fingerprint[1] = c
  BY DEF TrialLine, FingerprintOf, Fingerprint
<1> HIDE DEF e
<1>5. /\ c = Head(v.todo) /\ c \in ToRun(v.todo) /\ c \notin ToRun(Tail(v.todo))
  BY <1>2, TodosSplit DEF ConfigOf
<1>6. Owed(v) = ToRun(v.todo) /\ Left(v) = ToRun(Tail(v.todo))
  BY <1>2 DEF Owed, Left, Running
<1> HIDE DEF c
<1>7. KindInv'
  BY <1>1, <1>3, <1>4, AppendFacts DEF LInv, KindInv
<1>8. ASSUME NEW g \in grid_results' PROVE Attested(trials, g)'
  <2>1. g \in grid_results /\ Attested(trials, g)
    BY <1>8 DEF LInv
  <2>2. e.by # g.by \/ e.fingerprint[1] # g.path[2]
    BY <1>1, <1>4, <1>5, <1>6, <2>1 DEF LinesHold
  <2>3. Attested(Append(trials, e), g)
    BY <1>1, <1>3, <2>1, <2>2, AttestedStays
  <2>4. QED
    BY <1>3, <2>3
<1>9. ASSUME NEW j \in Invocations \ {i} PROVE LinesHold(trials', grid_results', j, inv'[j])
  <2>1. inv'[j] = inv[j] /\ e.by # j /\ LinesHold(trials, grid_results, j, inv[j])
    BY <1>1, <1>4, CellMoves DEF LInv
  <2>2. NoLines(trials, j, Left(inv[j])) => NoLines(trials', j, Left(inv[j]))
    BY <1>1, <1>3, <2>1, NoLinesStay
  <2>3. \A d, sha, cells : Attempted(trials, j, d, sha, cells) => Attempted(trials', j, d, sha, cells)
    BY <1>1, <1>3, <1>4, <2>1, AttemptsStay
  <2>4. \A d, sha, m : Unattempted(trials, j, d, sha, m) => Unattempted(trials', j, d, sha, m)
    BY <1>1, <1>3, <2>1, UnattemptedStay
  <2>5. QED
    BY <2>1, <2>2, <2>3, <2>4 DEF LinesHold
<1>10. LinesHold(trials', grid_results', i, inv'[i])
  <2>1. CASE inv'[i] = Blank("done")
    BY <2>1, EndedLines
  <2>2. CASE inv'[i] # Blank("done")
    <3>1. /\ v.cell >= 1 /\ inv'[i].cells = Append(v.cells, outcome)
          /\ inv'[i].todo = v.todo /\ inv'[i].sha = v.sha
          /\ inv'[i].pc \in {"count", "summarise"}
      BY <1>1, <2>2, CellMoves
    <3>2. Len(v.cells) + 1 = v.cell /\ Len(inv'[i].cells) = Len(v.cells) + 1
      BY <1>1, <1>2, <3>1 DEF ShapeInv
    <3>3. Attempted(trials, i, c, v.sha, v.cells) /\ Unattempted(trials, i, c, v.sha, Len(v.cells))
      BY <1>1, <1>2, <1>5, <3>1 DEF LinesHold
    <3>4. /\ Attempted(trials', i, c, v.sha, inv'[i].cells)
          /\ Unattempted(trials', i, c, v.sha, Len(inv'[i].cells))
      BY <1>1, <1>3, <1>4, <3>1, <3>2, <3>3, AttemptAdded
    <3>5. Left(inv'[i]) = Left(v) /\ Owed(inv'[i]) = Owed(v)
      BY <1>6, <3>1 DEF Left, Owed, Running
    <3>6. NoLines(trials, i, Left(v)) /\ e.fingerprint[1] \notin Left(v)
      BY <1>1, <1>4, <1>5, <1>6 DEF LinesHold
    <3>7. NoLines(trials', i, Left(v))
      BY <1>1, <1>3, <3>6, NoLinesStay
    <3>8. QED
      BY <1>1, <1>5, <3>1, <3>4, <3>5, <3>7 DEF LinesHold
  <2>3. QED
    BY <2>1, <2>2
<1>11. QED
  BY <1>7, <1>8, <1>9, <1>10 DEF LInv

(* What an invocation has appended is what its grid is filed with. *)
LEMMA GridLines ==
  ASSUME SInv, LInv, NEW i \in Invocations, WriteGrid(i)
  PROVE  LInv'
<1> DEFINE r == CountsRecorded(trials, Kind[ConfigOf(i)])
           h == [path |-> GridPath(i), by |-> i, sha |-> inv[i].sha,
                 cells |-> inv[i].cells, counts |-> r]
           v == inv[i]
           c == ConfigOf(i)
<1>1. /\ TInv /\ ShapeInv(i) /\ trials \in Seq(Trial) /\ v.cells \in Seq(Outcomes)
      /\ NCells \in Nat /\ LinesHold(trials, grid_results, i, v)
      /\ v.pc = "summarise" /\ v.todo # <<>> /\ v.todo \in Todos
  BY GridMoves, RunnerAssumption DEF SInv, LInv, TInv, TypeOK, Invocation, ShapeInv
<1>2. UNCHANGED trials /\ grid_results' = Written(grid_results, h)
  BY DEF WriteGrid
<1>3. /\ r.configurations_tried = Cardinality(FingerprintsIn(trials, Kind[c]))
      /\ r.trials_recorded = Len(trials)
  BY DEF CountsRecorded
<1> HIDE DEF r
<1>4. h.path[2] = c /\ h.by = i /\ h.sha = v.sha /\ h.cells = v.cells /\ h.counts = r
  BY DEF GridPath
<1>5. /\ c = Head(v.todo) /\ c \in ToRun(v.todo) /\ c \notin ToRun(Tail(v.todo))
      /\ ToRun(Tail(v.todo)) \subseteq ToRun(v.todo)
  BY <1>1, TodosSplit DEF ConfigOf
<1>6. Owed(v) = ToRun(v.todo) /\ Left(v) = ToRun(Tail(v.todo))
  BY <1>1 DEF Owed, Left, Running
<1> HIDE DEF h, c
<1>7. Len(v.cells) = NCells /\ Attempted(trials, i, c, v.sha, v.cells)
  BY <1>1, <1>5 DEF ShapeInv, LinesHold
<1>8. Attested(trials, h)
  <2>1. r.configurations_tried >= NCells
    BY <1>1, <1>3, <1>7, CellsAreTried DEF LInv, KindInv
  <2>2. \A k \in DOMAIN trials : k <= Len(trials)
    BY <1>1
  <2>3. QED
    BY <1>3, <1>4, <1>7, <2>1, <2>2 DEF Attested, Attempted
<1>9. \A g \in grid_results' : g = h \/ g \in grid_results
  BY <1>2 DEF Written
<1>10. ASSUME NEW g \in grid_results' PROVE Attested(trials, g)'
  <2>1. Attested(trials, g)
    BY <1>8, <1>9 DEF LInv
  <2>2. QED
    BY <1>2, <2>1
<1>11. ASSUME NEW j \in Invocations \ {i} PROVE LinesHold(trials', grid_results', j, inv'[j])
  <2>1. inv'[j] = inv[j] /\ LinesHold(trials, grid_results, j, inv[j])
    BY <1>1, GridMoves DEF LInv
  <2>2. QED
    BY <1>2, <1>4, <1>9, <2>1 DEF LinesHold
<1>12. LinesHold(trials', grid_results', i, inv'[i])
  <2>1. CASE inv'[i] = Blank("done")
    BY <2>1, EndedLines
  <2>2. CASE inv'[i] # Blank("done")
    <3>1. inv'[i].pc \in {"load", "head"} /\ inv'[i].todo = Tail(v.todo)
      BY <1>1, <2>2, GridMoves
    <3>2. Owed(inv'[i]) = ToRun(Tail(v.todo)) /\ Left(inv'[i]) = ToRun(Tail(v.todo))
      BY <3>1 DEF Owed, Left, Running
    <3>3. ASSUME NEW g \in grid_results', g.by = i PROVE g.path[2] \notin Owed(inv'[i])
      BY <1>1, <1>4, <1>5, <1>6, <1>9, <3>2, <3>3 DEF LinesHold
    <3>4. QED
      BY <1>1, <1>2, <1>6, <3>1, <3>2, <3>3 DEF LinesHold, Running
  <2>3. QED
    BY <2>1, <2>2
<1>13. KindInv'
  BY <1>2 DEF LInv, KindInv
<1>14. QED
  BY <1>10, <1>11, <1>12, <1>13 DEF LInv

LEMMA NextLines == SInv /\ LInv /\ [Next]_vars => LInv'
<1> SUFFICES ASSUME SInv, LInv, [Next]_vars PROVE LInv'
  OBVIOUS
<1>1. TInv /\ \A i \in Invocations : ShapeInv(i) /\ LinesHold(trials, grid_results, i, inv[i])
  BY DEF SInv, LInv
<1>2. ASSUME UNCHANGED <<trials, grid_results>>, NEW i \in Invocations,
             LinesHold(trials, grid_results, i, inv'[i]),
             \A j \in Invocations \ {i} : inv'[j] = inv[j]
      PROVE  LInv'
  <2>1. \A j \in Invocations : LinesHold(trials', grid_results', j, inv'[j])
    BY <1>1, <1>2
  <2>2. \A g \in grid_results' : Attested(trials', g)
    BY <1>2 DEF LInv
  <2>3. KindInv'
    BY <1>2 DEF LInv, KindInv
  <2>4. QED
    BY <2>1, <2>2, <2>3 DEF LInv
<1>3. ASSUME NEW i \in Invocations, RunConfig(i) \/ RunGrid(i) \/ RunGate(i) PROVE LInv'
  <2>1. /\ inv[i].pc = "unborn" /\ inv'[i].pc = "load" /\ inv'[i].todo \in Todos
        /\ UNCHANGED <<trials, grid_results>>
        /\ \A j \in Invocations \ {i} : inv'[j] = inv[j]
    BY <1>1, <1>3, StartMoves DEF store
  <2>2. Owed(inv[i]) = Configs /\ Left(inv[i]) = Configs
    BY <2>1 DEF Owed, Left, Running
  <2>3. Owed(inv'[i]) \subseteq Configs
    <3>1. ToRun(inv'[i].todo) \subseteq Configs
      BY <2>1, RunnerAssumption DEF ToRun, Todos, Configs
    <3>2. QED
      BY <2>1, <3>1 DEF Owed
  <2>4. LinesHold(trials, grid_results, i, inv'[i])
    BY <1>1, <2>1, <2>2, <2>3, ReadingLines DEF Running
  <2>5. QED
    BY <1>2, <2>1, <2>4
<1>4. ASSUME NEW i \in Invocations, LoadConfig(i) PROVE LInv'
  <2>1. /\ inv[i].pc = "load" /\ inv'[i].pc = "hash" /\ inv'[i].todo = inv[i].todo
        /\ UNCHANGED <<trials, grid_results>>
        /\ \A j \in Invocations \ {i} : inv'[j] = inv[j]
    BY <1>1, <1>4, LoadMoves DEF store
  <2>2. Owed(inv'[i]) = Owed(inv[i]) /\ Left(inv[i]) = Owed(inv[i])
    BY <2>1 DEF Owed, Left, Running
  <2>3. QED
    BY <1>1, <1>2, <2>1, <2>2, ReadingLines DEF Running
<1>5. ASSUME NEW i \in Invocations,
             HashConfig(i) \/ ReadHead(i) \/ ReadStatus(i) \/ ReadCounts(i)
      PROVE  LInv'
  <2>1. /\ UNCHANGED <<trials, grid_results>>
        /\ inv'[i].todo = inv[i].todo /\ inv'[i].cells = inv[i].cells
        /\ inv'[i].cell = inv[i].cell
        /\ \A j \in Invocations \ {i} : inv'[j] = inv[j]
    BY <1>1, <1>5, ReadsMove DEF store
  <2>2. CASE inv[i].pc \in Loaded /\ inv'[i].pc \in {"head", "status", "judge"}
    <3>1. Owed(inv'[i]) = Owed(inv[i]) /\ Left(inv[i]) = Owed(inv[i])
      BY <2>1, <2>2 DEF Owed, Left, Running, Loaded
    <3>2. QED
      BY <1>1, <1>2, <2>1, <2>2, <3>1, ReadingLines DEF Running
  <2>3. CASE inv[i].pc = "status" /\ inv[i].todo # <<>> /\ inv'[i].pc = "count"
    <3>1. inv[i].todo \in Todos /\ inv'[i].cells = <<>>
      BY <1>1, <2>1, <2>3 DEF ShapeInv, Loaded
    <3>2. LinesHold(trials, grid_results, i, inv'[i])
      BY <1>1, <2>1, <2>3, <3>1, FirstCell
    <3>3. QED
      BY <1>2, <2>1, <3>2
  <2>4. CASE inv[i].pc = "count" /\ inv'[i].pc = "simulate" /\ inv'[i].sha = inv[i].sha
    BY <1>1, <1>2, <2>1, <2>4, WithinCell DEF Running
  <2>5. QED
    BY <1>1, <1>5, <2>2, <2>3, <2>4, ReadsMove DEF Loaded
<1>6. ASSUME NEW i \in Invocations, Refuse(i) \/ AppendRecorded(i) PROVE LInv'
  <2>1. PICK outcome \in Outcomes :
          /\ inv[i].pc \in {"simulate", "append"} /\ append_trial(i, outcome)
          /\ NextCell(i, outcome) /\ UNCHANGED grid_results
    BY <1>6 DEF Refuse, AppendRecorded, Outcomes, At
  <2>2. QED
    BY <2>1, CellLines
<1>7. ASSUME NEW i \in Invocations, WriteResult(i) PROVE LInv'
  <2>1. UNCHANGED <<trials, grid_results>>
    BY <1>7 DEF WriteResult
  <2>2. QED
    BY <1>1, <1>2, <1>7, <2>1, ResultMoves, WithinCell DEF Running
<1>8. ASSUME NEW i \in Invocations, WriteGrid(i) PROVE LInv'
  BY <1>8, GridLines
<1>9. ASSUME NEW i \in Invocations, WriteGate(i) \/ Abort(i) PROVE LInv'
  <2>1. /\ inv'[i] = Blank("done") \/ inv'[i] = Blank("aborted")
        /\ UNCHANGED <<trials, grid_results>>
        /\ \A j \in Invocations \ {i} : inv'[j] = inv[j]
    BY <1>1, <1>9, EndMoves DEF store
  <2>2. QED
    BY <1>2, <2>1, EndedLines
<1>10. CASE (\E f \in Files : Edit(f)) \/ Commit \/ UNCHANGED vars
  <2>1. UNCHANGED <<trials, grid_results, inv>>
    BY <1>10, ResearcherMoves DEF store
  <2>2. QED
    BY <1>1, <2>1 DEF LInv, KindInv
<1>11. QED
  BY <1>3, <1>4, <1>5, <1>6, <1>7, <1>8, <1>9, <1>10 DEF Next, Step

(* However invocations overlap, edit under one another or die: a filed       *)
(* grid's summary is that of its cells in the log, one line each, so that a  *)
(* grid counts as as many configurations as it has cells.                    *)
THEOREM SummariesAreLogged == Spec => []GridSummaryMatchesLog
<1>1. Init => LInv
  <2> SUFFICES ASSUME Init PROVE LInv
    OBVIOUS
  <2>1. /\ trials = <<>> /\ grid_results = {} /\ DOMAIN trials = {}
        /\ \A i \in Invocations : inv[i] = Blank("unborn")
    BY DEF Init
  <2>2. \A i \in Invocations : LinesHold(trials, grid_results, i, inv[i])
    BY <2>1, BlankFields DEF LinesHold, NoLines, Running
  <2>3. QED
    BY <2>1, <2>2 DEF LInv, KindInv
<1>2. LInv => GridSummaryMatchesLog
  <2> SUFFICES ASSUME LInv, NEW g \in grid_results, NEW n \in 1 .. NCells
               PROVE  /\ Len(g.cells) = NCells
                      /\ g.counts.configurations_tried >= NCells
                      /\ LET lines == LinesOf(g.by, Fingerprint(g.path[2], g.sha, n))
                         IN  \E k \in lines : lines = {k} /\ k <= g.counts.trials_recorded
                                             /\ trials[k].outcome = g.cells[n]
    BY RunnerAssumption DEF GridSummaryMatchesLog, LInv, Attested
  <2> DEFINE lines == LinesOf(g.by, Fingerprint(g.path[2], g.sha, n))
  <2>1. lines = LinesIn(trials, g.by, Fingerprint(g.path[2], g.sha, n))
    BY DEF LinesOf, LinesIn
  <2>2. PICK k \in DOMAIN trials : /\ lines = {k} /\ k <= g.counts.trials_recorded
                                   /\ trials[k].outcome = g.cells[n]
    BY <2>1 DEF LInv, Attested
  <2>3. Len(g.cells) = NCells /\ g.counts.configurations_tried >= NCells
    BY DEF LInv, Attested
  <2> HIDE DEF lines
  <2>4. \E m \in lines : lines = {m} /\ m <= g.counts.trials_recorded
                         /\ trials[m].outcome = g.cells[n]
    BY <2>2
  <2>5. QED
    BY <2>3, <2>4 DEF lines
<1>3. QED
  BY <1>1, <1>2, InitialShape, NextShape, NextLines, PTL DEF Spec


-----------------------------------------------------------------------------
(* How long an invocation lasts *)

(* The steps a config takes at most: reading it, three for each cell, and    *)
(* the summary; and what is left of them at each point.                      *)
StepsOfAConfig == 3 * NCells + 8
CellsAfter(v) == 3 * (NCells - v.cell)
StepsOfThisOne(v) ==
  CASE v.pc = "load" -> 3 * NCells + 7
    [] v.pc = "hash" -> 3 * NCells + 6
    [] v.pc = "head" -> 3 * NCells + 5
    [] v.pc = "status" -> 3 * NCells + 4
    [] v.pc = "count" -> CellsAfter(v) + 3
    [] v.pc = "simulate" -> CellsAfter(v) + 2
    [] v.pc = "append" -> CellsAfter(v) + 1
    [] v.pc = "judge" -> 1
    [] OTHER -> 0

StepsLeft(i) == StepsOfAConfig * Len(inv[i].todo) + StepsOfThisOne(inv[i])

LEMMA ConfigsAreCounted ==
  ASSUME NEW todo \in Todos
  PROVE  /\ StepsOfAConfig * Len(todo) \in Nat
         /\ todo = <<>> => StepsOfAConfig * Len(todo) = 0
         /\ todo # <<>> => StepsOfAConfig * Len(todo) =
                            StepsOfAConfig * Len(Tail(todo)) + StepsOfAConfig
<1>1. StepsOfAConfig \in Nat
  BY RunnerAssumption DEF StepsOfAConfig
<1>2. /\ StepsOfAConfig * 0 = 0 /\ StepsOfAConfig * 1 = StepsOfAConfig
      /\ StepsOfAConfig * 2 = StepsOfAConfig + StepsOfAConfig
  BY <1>1
<1>3. CASE todo = <<>>
  <2>1. Len(todo) = 0
    BY <1>3
  <2>. QED
    BY <1>1, <1>2, <1>3, <2>1
<1>4. CASE todo # <<>>
  <2>1. \/ Len(todo) = 2 /\ Len(Tail(todo)) = 1
        \/ Len(todo) = 1 /\ Len(Tail(todo)) = 0
    <3>1. CASE todo = <<Faithful, Venue>>
      BY <3>1
    <3>2. CASE \E c \in Configs : todo = <<c>>
      BY <3>2
    <3>. QED
      BY <1>4, <3>1, <3>2 DEF Todos
  <2>. QED
    BY <1>1, <1>2, <1>4, <2>1
<1>. QED
  BY <1>3, <1>4

LEMMA ThisOneIsCounted ==
  ASSUME NEW v, v.cell \in Nat, v.cell <= NCells
  PROVE  StepsOfThisOne(v) \in Nat /\ StepsOfThisOne(v) < StepsOfAConfig
                                 /\ CellsAfter(v) \in Nat
BY RunnerAssumption DEF StepsOfThisOne, StepsOfAConfig, CellsAfter

LEMMA StepsAreCounted ==
  ASSUME SInv, NEW i \in Invocations
  PROVE  StepsLeft(i) \in Nat
<1>1. inv[i].cell \in Nat /\ inv[i].cell <= NCells /\ inv[i].todo \in Todos
  BY DEF SInv, TInv, TypeOK, ShapeInv, Invocation
<1>2. StepsOfThisOne(inv[i]) \in Nat
  BY <1>1, ThisOneIsCounted
<1>. QED
  BY <1>1, <1>2, ConfigsAreCounted DEF StepsLeft

LEMMA BlankCounts == \A phase \in {"done", "aborted"} : StepsOfThisOne(Blank(phase)) = 0
BY BlankFields DEF StepsOfThisOne

(* What ends has had a step left.                                            *)
LEMMA EndedCounts ==
  ASSUME SInv, NEW i \in Invocations, Working(i), NEW phase \in {"done", "aborted"},
         inv'[i] = Blank(phase)
  PROVE  StepsLeft(i)' < StepsLeft(i)
<1>1. /\ TInv /\ inv[i].cell \in Nat /\ inv[i].cell <= NCells
      /\ inv[i].todo \in Todos /\ inv[i].pc \in Phases
  BY DEF SInv, TInv, TypeOK, ShapeInv, Invocation
<1>2. StepsLeft(i)' = 0
  <2>1. inv'[i].todo = <<>> /\ StepsOfThisOne(inv'[i]) = 0
    BY BlankFields, BlankCounts
  <2>2. StepsOfAConfig * Len(inv'[i].todo) = 0
    BY <2>1, <<>> \in Todos, ConfigsAreCounted DEF Todos
  <2>. QED
    BY <2>1, <2>2 DEF StepsLeft
<1>3. StepsOfThisOne(inv[i]) \in Nat /\ StepsOfAConfig \in Nat \ {0}
  BY <1>1, ThisOneIsCounted, RunnerAssumption DEF StepsOfAConfig
<1>4. CASE inv[i].todo # <<>>
  <2>1. Tail(inv[i].todo) \in Todos
    BY <1>1, <1>4, TodosSplit
  <2>2. /\ StepsOfAConfig * Len(Tail(inv[i].todo)) \in Nat
        /\ StepsOfAConfig * Len(inv[i].todo) =
             StepsOfAConfig * Len(Tail(inv[i].todo)) + StepsOfAConfig
    BY <1>1, <1>4, <2>1, ConfigsAreCounted
  <2>. QED
    BY <1>2, <1>3, <2>2 DEF StepsLeft
<1>5. CASE inv[i].todo = <<>>
  <2>1. inv[i].pc \in {"head", "status", "judge"}
    BY <1>1, <1>5 DEF TInv, TodoInv
  <2>2. StepsOfThisOne(inv[i]) > 0
    BY <2>1, RunnerAssumption DEF StepsOfThisOne
  <2>3. StepsOfAConfig * Len(inv[i].todo) = 0
    BY <1>1, <1>5, ConfigsAreCounted
  <2>. QED
    BY <1>2, <1>3, <2>2, <2>3 DEF StepsLeft
<1>. QED
  BY <1>4, <1>5

(* As long as it stays with its configs, what counts is where it is.         *)
LEMMA SameConfigCounts ==
  ASSUME SInv, NEW i \in Invocations, inv'[i].todo = inv[i].todo,
         StepsOfThisOne(inv'[i]) \in Nat, StepsOfThisOne(inv'[i]) < StepsOfThisOne(inv[i])
  PROVE  StepsLeft(i)' < StepsLeft(i)
<1>1. inv[i].cell \in Nat /\ inv[i].cell <= NCells /\ inv[i].todo \in Todos
  BY DEF SInv, TInv, TypeOK, ShapeInv, Invocation
<1>2. StepsOfThisOne(inv[i]) \in Nat /\ StepsOfAConfig * Len(inv[i].todo) \in Nat
  BY <1>1, ThisOneIsCounted, ConfigsAreCounted
<1>. QED
  BY <1>2 DEF StepsLeft

LEMMA EachStepCounts ==
  ASSUME SInv, NEW i \in Invocations, Step(i)
  PROVE  StepsLeft(i)' < StepsLeft(i)
<1>1. /\ TInv /\ inv[i].cell \in Nat /\ inv[i].cell <= NCells
      /\ inv[i].todo \in Todos /\ NCells \in Nat \ {0}
  BY RunnerAssumption DEF SInv, TInv, TypeOK, ShapeInv, Invocation
<1>2. CASE LoadConfig(i)
  <2>1. /\ StepsOfThisOne(inv[i]) = 3 * NCells + 7
        /\ StepsOfThisOne(inv'[i]) = 3 * NCells + 6
    BY <1>1, <1>2, LoadMoves DEF StepsOfThisOne
  <2>. QED
    BY <1>1, <1>2, <2>1, LoadMoves, SameConfigCounts
<1>3. CASE HashConfig(i) \/ ReadHead(i) \/ ReadStatus(i) \/ ReadCounts(i)
  <2>1. /\ inv'[i].cell = inv[i].cell /\ inv'[i].todo = inv[i].todo
        /\ \/ inv[i].pc = "hash" /\ inv'[i].pc = "head"
           \/ inv[i].pc = "head" /\ inv'[i].pc = "status"
           \/ inv[i].pc = "status" /\ inv'[i].pc \in {"count", "judge"}
           \/ inv[i].pc = "count" /\ inv'[i].pc = "simulate"
    BY <1>1, <1>3, ReadsMove
  <2>2. /\ CellsAfter(inv'[i]) = CellsAfter(inv[i])
        /\ CellsAfter(inv[i]) \in 0 .. 3 * NCells
    BY <1>1, <2>1 DEF CellsAfter
  <2>3. /\ StepsOfThisOne(inv'[i]) \in Nat
        /\ StepsOfThisOne(inv'[i]) < StepsOfThisOne(inv[i])
    BY <1>1, <2>1, <2>2 DEF StepsOfThisOne
  <2>. QED
    BY <2>1, <2>3, SameConfigCounts
<1>4. CASE Refuse(i) \/ AppendRecorded(i)
  <2>1. PICK outcome \in Outcomes : NextCell(i, outcome)
    BY <1>4 DEF Refuse, AppendRecorded, Outcomes
  <2>2. inv[i].pc \in {"simulate", "append"} /\ Working(i)
    BY <1>4 DEF Refuse, AppendRecorded, At, Working
  <2>3. CASE inv'[i] = Blank("done")
    BY <2>2, <2>3, EndedCounts
  <2>4. CASE inv'[i] # Blank("done")
    <3>1. /\ inv'[i].todo = inv[i].todo
          /\ \/ /\ inv[i].cell < NCells /\ inv'[i].pc = "count"
                /\ inv'[i].cell = inv[i].cell + 1
             \/ /\ inv[i].cell = NCells /\ inv'[i].pc = "summarise"
                /\ inv'[i].cell = inv[i].cell
      BY <1>1, <2>1, <2>4, CellMoves
    <3>2. /\ StepsOfThisOne(inv'[i]) \in Nat
          /\ StepsOfThisOne(inv'[i]) < StepsOfThisOne(inv[i])
      BY <1>1, <2>2, <3>1 DEF StepsOfThisOne, CellsAfter
    <3>. QED
      BY <3>1, <3>2, SameConfigCounts
  <2>. QED
    BY <2>3, <2>4
<1>5. CASE WriteResult(i)
  <2>1. /\ inv[i].pc = "simulate" /\ inv'[i].pc = "append"
        /\ inv'[i].cell = inv[i].cell /\ inv'[i].todo = inv[i].todo
    BY <1>1, <1>5, ResultMoves
  <2>2. /\ StepsOfThisOne(inv'[i]) \in Nat
        /\ StepsOfThisOne(inv'[i]) < StepsOfThisOne(inv[i])
    BY <1>1, <2>1 DEF StepsOfThisOne, CellsAfter
  <2>. QED
    BY <2>1, <2>2, SameConfigCounts
<1>6. CASE WriteGrid(i)
  <2>1. inv[i].pc = "summarise" /\ inv[i].todo # <<>> /\ Working(i)
    BY <1>1, <1>6, GridMoves DEF Working
  <2>2. CASE inv'[i] = Blank("done")
    BY <2>1, <2>2, EndedCounts
  <2>3. CASE inv'[i].pc \in {"load", "head"} /\ inv'[i].todo = Tail(inv[i].todo)
    <3>1. /\ StepsOfThisOne(inv'[i]) \in Nat
          /\ StepsOfThisOne(inv'[i]) < StepsOfAConfig
      BY <1>1, <2>3 DEF StepsOfThisOne, StepsOfAConfig
    <3>2. StepsOfThisOne(inv[i]) = 0
      BY <2>1 DEF StepsOfThisOne
    <3>3. Tail(inv[i].todo) \in Todos /\ StepsOfAConfig \in Nat
      BY <1>1, <2>1, TodosSplit DEF StepsOfAConfig
    <3>4. /\ StepsOfAConfig * Len(Tail(inv[i].todo)) \in Nat
          /\ StepsOfAConfig * Len(inv[i].todo) =
               StepsOfAConfig * Len(Tail(inv[i].todo)) + StepsOfAConfig
      BY <1>1, <2>1, <3>3, ConfigsAreCounted
    <3>. QED
      BY <2>3, <3>1, <3>2, <3>3, <3>4 DEF StepsLeft
  <2>. QED
    BY <1>1, <1>6, <2>2, <2>3, GridMoves
<1>7. CASE WriteGate(i)
  BY <1>1, <1>7, EndMoves, EndedCounts DEF Working
<1>. QED
  BY <1>2, <1>3, <1>4, <1>5, <1>6, <1>7 DEF Step

(* Each step of an invocation under way lowers the number of its steps left, *)
(* and nothing that others or the researcher do raises it, so it takes no    *)
(* more than it has when it starts, however its cells end.  With fairness,   *)
(* and a step to take whenever it is under way, this is that every           *)
(* invocation ends.                                                          *)
THEOREM InvocationsRunDown ==
  Spec => /\ [](\A i \in Invocations : StepsLeft(i) \in Nat)
          /\ [][\A i \in Invocations :
                  /\ Working(i) /\ inv'[i] # inv[i] => StepsLeft(i)' < StepsLeft(i)
                  /\ Step(i) => StepsLeft(i)' < StepsLeft(i)]_vars
<1>1. SInv => \A i \in Invocations : StepsLeft(i) \in Nat
  BY StepsAreCounted
<1>2. SInv /\ [Next]_vars =>
        [\A i \in Invocations :
           /\ Working(i) /\ inv'[i] # inv[i] => StepsLeft(i)' < StepsLeft(i)
           /\ Step(i) => StepsLeft(i)' < StepsLeft(i)]_vars
  <2>. SUFFICES ASSUME SInv, Next, NEW i \in Invocations
                PROVE  /\ Working(i) /\ inv'[i] # inv[i] => StepsLeft(i)' < StepsLeft(i)
                       /\ Step(i) => StepsLeft(i)' < StepsLeft(i)
    OBVIOUS
  <2>1. Step(i) => StepsLeft(i)' < StepsLeft(i)
    BY EachStepCounts
  <2>2. Abort(i) => StepsLeft(i)' < StepsLeft(i)
    <3>1. SUFFICES ASSUME Abort(i) PROVE StepsLeft(i)' < StepsLeft(i)
      OBVIOUS
    <3>2. Working(i) /\ inv'[i] = Blank("aborted")
      BY <3>1 DEF Abort, SInv, TInv, TypeOK
    <3>. QED
      BY <3>2, EndedCounts
  <2>3. Working(i) => Step(i) \/ Abort(i) \/ inv'[i] = inv[i]
    <3>1. ASSUME NEW j \in Invocations, Working(i),
                 RunConfig(j) \/ RunGrid(j) \/ RunGate(j)
          PROVE  inv'[i] = inv[i]
      BY <3>1, StartMoves DEF SInv, Working
    <3>2. ASSUME NEW j \in Invocations, Step(j), j # i PROVE inv'[i] = inv[i]
      BY <3>2, StepShape
    <3>3. ASSUME NEW j \in Invocations, Abort(j), j # i PROVE inv'[i] = inv[i]
      BY <3>3, EndMoves DEF SInv
    <3>4. CASE (\E f \in Files : Edit(f)) \/ Commit
      BY <3>4, ResearcherMoves
    <3>. QED
      BY <3>1, <3>2, <3>3, <3>4 DEF Next
  <2>. QED
    BY <2>1, <2>2, <2>3
<1>. QED
  BY <1>1, <1>2, InitialShape, NextShape, PTL DEF Spec
=============================================================================
