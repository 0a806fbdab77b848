------------------------------ MODULE RawStore ------------------------------
(***************************************************************************)
(* The raw layer and the bars derived from it, for one symbol: the loading  *)
(* of bars in runner.py (`_load_symbol_bars`, `load_bars`,                  *)
(* `rebuild_all_derived`), the fetch and its checksum (fetch.py), the       *)
(* once-written files (raw_store.py, immutable.py) and derive.py.           *)
(*                                                                         *)
(* Every step that another invocation can see is an action of its own: a    *)
(* file is found missing, opened (which truncates it), filled, and made     *)
(* read-only, and an invocation may die between any two.  A process that    *)
(* opened a file goes on writing to it after it was made read-only.  What a *)
(* file holds is the version the archive published it as; a torn file is    *)
(* any other bytes, which no reader of a zip takes for an archive.          *)
(***************************************************************************)
EXTENDS Naturals, FiniteSets

CONSTANTS
  Invocations,   \* processes that load bars
  LastMonth,     \* months 1 .. LastMonth are the config's window
  MaxVersions    \* bound on how often the archive publishes each month

Months == 1 .. LastMonth

ASSUME RawStoreAssumption ==
  /\ LastMonth \in Nat \ {0}
  /\ MaxVersions \in [Months -> Nat]

VARIABLES
  published,   \* the version of each month the archive serves, 0 for none
  disk,        \* the content of every file of the raw layer
  sealed,      \* the files made read-only
  derived,     \* the version of each month in the derived bars, 0 for none
  inv          \* the locals of every invocation

vars == <<published, disk, sealed, derived, inv>>

-----------------------------------------------------------------------------
(* Files *)

Parts == {"payload", "manifest"}
FilesOnDisk == Months \X Parts

Absent == [state |-> "absent", version |-> 0]
Torn == [state |-> "torn", version |-> 0]
Whole(v) == [state |-> "whole", version |-> v]
Contents == [state : {"absent", "torn", "whole"}, version : Nat]

Payload(m) == <<m, "payload">>

-----------------------------------------------------------------------------
(* Invocations *)

Commands == {"hold", "cross_section", "rebuild"}
Phases == {"unborn", "list", "scan", "has", "download", "verify", "check", "open", "fill",
           "seal", "read", "store", "done", "failed", "killed"}
Invocation == [pc : Phases, months : SUBSET Months, month : Nat, part : Parts,
               got : Nat, bars : [Months -> Nat]]

NoBars == [m \in Months |-> 0]
Idle(phase) == [pc |-> phase, months |-> {}, month |-> 0, part |-> "payload",
                got |-> 0, bars |-> NoBars]

At(i, phase) == inv[i].pc = phase
Working(i) == inv[i].pc \notin {"unborn", "done", "failed", "killed"}
FileOf(i) == <<inv[i].month, inv[i].part>>
Holds(i, f) == At(i, "fill") /\ FileOf(i) = f

IsFirst(m, S) == m \in S /\ \A n \in S : m <= n
LaterInWindow(i) == {m \in Months : m > inv[i].month}   \* Mutation: unlisted too
Later(i) == {m \in inv[i].months : m > inv[i].month}

(* The invocation ends with an exception. *)
Fail(i) == inv' = [inv EXCEPT ![i] = Idle("failed")]

(* The next month of a loop over the months, or on to what follows the loop. *)
Advance(i, again, after) ==
  \/ \E m \in Later(i) :
       /\ IsFirst(m, Later(i))
       /\ inv' = [inv EXCEPT ![i].pc = again, ![i].month = m, ![i].part = "payload"]
  \/ \E m \in inv[i].months :
       /\ Later(i) = {} /\ IsFirst(m, inv[i].months)
       /\ inv' = [inv EXCEPT ![i].pc = after, ![i].month = m, ![i].part = "payload"]

(* A hold wants its whole window, a cross-section what the archive lists of  *)
(* it, and a rebuild, which fetches nothing, what is already stored.         *)
Start(i, command) ==
  /\ At(i, "unborn")
  /\ inv' = [inv EXCEPT ![i].months = Months, ![i].month = 1,
        ![i].pc = CASE command = "hold" -> "has"
                    [] command = "cross_section" -> "list"
                    [] command = "rebuild" -> "scan"]
  /\ UNCHANGED <<published, disk, sealed, derived>>

Looking(i) == At(i, "list") \/ At(i, "scan")
Found(i) == IF At(i, "list") THEN published[inv[i].month] > 0
                             ELSE disk[Payload(inv[i].month)] # Absent
Wanted(i) == IF Found(i) THEN inv[i].months ELSE inv[i].months \ {inv[i].month}

(* The months are looked up one after the other, while others publish and    *)
(* store them; a window of which nothing is found is RawWindowMissing.       *)
Look(i) ==
  /\ Looking(i)
  /\ IF Later(i) # {}
       THEN \E m \in Later(i) : IsFirst(m, Later(i)) /\
              inv' = [inv EXCEPT ![i].months = Wanted(i), ![i].month = m]
       ELSE \/ Wanted(i) = {} /\ Fail(i)
            \/ \E m \in Wanted(i) :
                 /\ IsFirst(m, Wanted(i))
                 /\ inv' = [inv EXCEPT ![i].months = Wanted(i), ![i].month = m,
                       ![i].pc = IF At(i, "list") THEN "has" ELSE "read"]
  /\ UNCHANGED <<published, disk, sealed, derived>>

-----------------------------------------------------------------------------
(* Fetching what is not stored *)

Has(i) ==
  /\ At(i, "has")
  /\ IF disk[Payload(inv[i].month)] = Absent
       THEN inv' = [inv EXCEPT ![i].pc = "download"]
       ELSE Advance(i, "has", "read")
  /\ UNCHANGED <<published, disk, sealed, derived>>

(* The bytes arrive as published, or corrupted. *)
Corrupted == 0
Download(i) ==
  /\ At(i, "download") /\ published[inv[i].month] > 0
  /\ \E v \in {Corrupted, published[inv[i].month]} :
       inv' = [inv EXCEPT ![i].pc = "verify", ![i].got = v]
  /\ UNCHANGED <<published, disk, sealed, derived>>

(* The archive does not answer: always so for a month it does not publish. *)
UnavailableAnytime(i) ==   \* Mutation: downloaded straight into the store
  /\ At(i, "download") \/ At(i, "verify") \/ At(i, "fill")
  /\ Fail(i)
  /\ UNCHANGED <<published, disk, sealed, derived>>
Unavailable(i) ==
  /\ At(i, "download") \/ At(i, "verify")
  /\ Fail(i)
  /\ UNCHANGED <<published, disk, sealed, derived>>

TakenAsIs(i) == TRUE   \* Mutation: the checksum is not compared
Verified(i) == inv[i].got = published[inv[i].month]
VerifyOrRefetch(i) ==   \* Mutation: a corrupted download is fetched again
  /\ At(i, "verify")
  /\ inv' = [inv EXCEPT ![i].pc = IF Verified(i) THEN "check" ELSE "download"]
  /\ UNCHANGED <<published, disk, sealed, derived>>
Verify(i) ==
  /\ At(i, "verify")
  /\ IF Verified(i) THEN inv' = [inv EXCEPT ![i].pc = "check"] ELSE Fail(i)
  /\ UNCHANGED <<published, disk, sealed, derived>>

(* `RawStore.write` and `write_immutable` look again, one after the other:   *)
(* no file is ever removed, so the second look alone decides.                *)
CheckAbsent(i) ==
  /\ At(i, "check")
  /\ IF disk[Payload(inv[i].month)] = Absent
       THEN inv' = [inv EXCEPT ![i].pc = "open", ![i].part = "payload"]
       ELSE Fail(i)
  /\ UNCHANGED <<published, disk, sealed, derived>>

-----------------------------------------------------------------------------
(* Writing a payload and its manifest: `write_immutable` *)

Overwritable(f) == TRUE   \* Mutation: files are not left read-only
Writable(f) == f \notin sealed
Open(i) ==
  /\ At(i, "open")
  /\ IF Writable(FileOf(i))
       THEN /\ disk' = [disk EXCEPT ![FileOf(i)] = Torn]
            /\ inv' = [inv EXCEPT ![i].pc = "fill"]
       ELSE Fail(i) /\ UNCHANGED disk
  /\ UNCHANGED <<published, sealed, derived>>

(* Two writers of one file write from its start; the longer one's tail may   *)
(* survive under the other's bytes.                                          *)
FilledWith(f, v) ==
  {Whole(v)} \union (IF disk[f] \in {Torn, Whole(v)} THEN {} ELSE {Torn})

FillThenSeal(i) ==   \* Mutation: read-only before the manifest is there
  /\ At(i, "fill")
  /\ \E c \in FilledWith(FileOf(i), inv[i].got) :
       disk' = [disk EXCEPT ![FileOf(i)] = c]
  /\ inv' = [inv EXCEPT ![i].pc = "seal", ![i].part = "payload"]
  /\ UNCHANGED <<published, sealed, derived>>
Fill(i) ==
  /\ At(i, "fill")
  /\ \E c \in FilledWith(FileOf(i), inv[i].got) :
       disk' = [disk EXCEPT ![FileOf(i)] = c]
  /\ inv' = IF inv[i].part = "payload"
              THEN [inv EXCEPT ![i].pc = "open", ![i].part = "manifest"]
              ELSE [inv EXCEPT ![i].pc = "seal", ![i].part = "payload"]
  /\ UNCHANGED <<published, sealed, derived>>

Seal(i) ==
  /\ At(i, "seal")
  /\ sealed' = sealed \union {FileOf(i)}
  /\ IF inv[i].part = "payload"
       THEN inv' = [inv EXCEPT ![i].part = "manifest"]
       ELSE Advance(i, "has", "read")
  /\ UNCHANGED <<published, disk, derived>>

-----------------------------------------------------------------------------
(* Deriving bars: `build_daily_bars` and `write_bars` *)

Read(i) ==
  /\ At(i, "read")
  /\ IF disk[Payload(inv[i].month)].state = "whole"
       THEN LET m == inv[i].month
                read == [inv EXCEPT ![i].bars[m] = disk[Payload(m)].version]
            IN  IF Later(i) = {}
                  THEN inv' = [read EXCEPT ![i].pc = "store"]
                  ELSE \E n \in Later(i) : IsFirst(n, Later(i)) /\
                         inv' = [read EXCEPT ![i].month = n]
       ELSE Fail(i)
  /\ UNCHANGED <<published, disk, sealed, derived>>

Contiguous(S) == \A a, b \in S : \A m \in Months : a < m /\ m < b => m \in S

(* A hole ends the invocation; else the symbol's bars are replaced. *)
StoreUnchecked(i) ==   \* Mutation: the bars are not checked for holes
  /\ At(i, "store")
  /\ derived' = inv[i].bars /\ inv' = [inv EXCEPT ![i] = Idle("done")]
  /\ UNCHANGED <<published, disk, sealed>>
StoreDerived(i) ==
  /\ At(i, "store")
  /\ IF Contiguous(inv[i].months)
       THEN derived' = inv[i].bars /\ inv' = [inv EXCEPT ![i] = Idle("done")]
       ELSE Fail(i) /\ UNCHANGED derived
  /\ UNCHANGED <<published, disk, sealed>>

(* A kill: whatever was being written stays as it is. *)
Kill(i) ==
  /\ Working(i)
  /\ inv' = [inv EXCEPT ![i] = Idle("killed")]
  /\ UNCHANGED <<published, disk, sealed, derived>>

(* The archive publishes a month, or publishes it again. *)
Publish(m) ==
  /\ published[m] < MaxVersions[m]
  /\ published' = [published EXCEPT ![m] = @ + 1]
  /\ UNCHANGED <<disk, sealed, derived, inv>>

-----------------------------------------------------------------------------

Init ==
  /\ published = [m \in Months |-> 0]
  /\ disk = [f \in FilesOnDisk |-> Absent]
  /\ sealed = {}
  /\ derived = NoBars
  /\ inv = [i \in Invocations |-> Idle("unborn")]

Step(i) ==
  \/ Look(i)
  \/ Has(i)
  \/ Download(i)
  \/ Unavailable(i)
  \/ Verify(i)
  \/ CheckAbsent(i)
  \/ Open(i)
  \/ Fill(i)
  \/ Seal(i)
  \/ Read(i)
  \/ StoreDerived(i)

Next ==
  \/ \E i \in Invocations :
       (\E command \in Commands : Start(i, command)) \/ Step(i) \/ Kill(i)
  \/ \E m \in Months : Publish(m)

Spec == Init /\ [][Next]_vars

(* A started process runs on; nobody has to start or kill one, or publish. *)
FairSpec == Spec /\ \A i \in Invocations : WF_vars(Step(i))

-----------------------------------------------------------------------------
(* Properties *)

TypeOK ==
  /\ published \in [Months -> Nat]
  /\ disk \in [FilesOnDisk -> Contents]
  /\ sealed \subseteq FilesOnDisk
  /\ derived \in [Months -> Nat]
  /\ inv \in [Invocations -> Invocation]
  /\ \A i \in Invocations : Working(i) => inv[i].month \in inv[i].months

(* "A corrupted download must never reach data/raw/" (fetch.py): what is     *)
(* stored whole is a version the archive published, however often it was     *)
(* published again and whoever wrote over whom.                              *)
StoredIsVerified ==
  \A f \in FilesOnDisk :
    disk[f].state = "whole" => disk[f].version \in 1 .. published[f[1]]

(* A file that nobody is writing is torn only if a writer was killed, or two *)
(* of them fetched different versions of it: no failure of a fetch, of a     *)
(* check or of another writer's file leaves one.                             *)
OnlyDeathTears ==
  \A f \in FilesOnDisk :
    disk[f] = Torn =>
      \/ \E i \in Invocations : Holds(i, f) \/ At(i, "killed")
      \/ published[f[1]] > 1

(* A kill may leave a payload without its manifest, never a manifest without *)
(* its payload, and nothing is made read-only before both are on disk.       *)
PayloadComesFirst ==
  \A m \in Months :
    /\ disk[<<m, "manifest">>] # Absent => disk[Payload(m)] # Absent
    /\ \A part \in Parts : <<m, part>> \in sealed => disk[<<m, "manifest">>] # Absent

(* The derived bars are a run of months without a hole, each of them as the  *)
(* archive published it: nothing torn and no gap is ever derived from.       *)
DerivedHasNoHoles ==
  LET built == {m \in Months : derived[m] # 0}
  IN  Contiguous(built) /\ \A m \in built : derived[m] <= published[m]

(* The raw layer implements WriteOnce: a file is final when it is read-only  *)
(* and nobody still holds it open.                                           *)
Final == {f \in sealed : \A i \in Invocations : ~Holds(i, f)}
Promise == INSTANCE WriteOnce WITH
  Names <- FilesOnDisk, content <- disk, final <- Final
ImplementsWriteOnce == Promise!Spec

(* Every load ends, with bars or with an exception, whoever races or dies.   *)
LoadsEnd == \A i \in Invocations : Working(i) ~> ~Working(i)
=============================================================================
