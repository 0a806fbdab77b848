--------------------------- MODULE RawStoreProofs ---------------------------
(***************************************************************************)
(* Proofs about RawStore, for any number of invocations, any window and any *)
(* number of publications.                                                  *)
(***************************************************************************)
EXTENDS RawStore, TLAPS, FiniteSetTheorems

-----------------------------------------------------------------------------
(* The loops over the months *)

(* The loop over the months visits only months it was given.                 *)
LEMMA AdvanceType ==
  ASSUME TypeOK, NEW i \in Invocations,
         NEW again \in Phases, NEW after \in Phases, Advance(i, again, after)
  PROVE  /\ inv' \in [Invocations -> Invocation]
         /\ \A j \in Invocations : Working(j)' => inv'[j].month \in inv'[j].months
         /\ inv'[i].pc \in {again, after}
         /\ \A j \in Invocations : j # i => inv'[j] = inv[j]
<1>1. inv[i].months \subseteq Months /\ Later(i) \subseteq inv[i].months
  BY DEF TypeOK, Invocation, Later
<1>2. PICK m \in inv[i].months, pc \in {again, after} :
        inv' = [inv EXCEPT ![i].pc = pc, ![i].month = m, ![i].part = "payload"]
  BY <1>1 DEF Advance
<1>3. m \in Nat
  BY <1>1, RawStoreAssumption DEF Months
<1>. QED
  BY <1>2, <1>3 DEF TypeOK, Invocation, Parts, Working

(* An invocation that ends holds nothing any more.                           *)
LEMMA IdleType ==
  ASSUME NEW phase \in Phases
  PROVE  Idle(phase) \in Invocation /\ Idle(phase).pc = phase
BY DEF Idle, Invocation, Parts, NoBars

(* An exception ends the invocation that raised it, and no other.            *)
LEMMA FailType ==
  ASSUME TypeOK, NEW i \in Invocations, NEW phase \in {"done", "failed", "killed"},
         inv' = [inv EXCEPT ![i] = Idle(phase)]
  PROVE  /\ inv' \in [Invocations -> Invocation]
         /\ \A j \in Invocations : Working(j)' => inv'[j].month \in inv'[j].months
         /\ inv'[i].pc = phase
         /\ \A j \in Invocations : j # i => inv'[j] = inv[j]
<1>. phase \in Phases
  BY DEF Phases
<1>. QED
  BY IdleType DEF TypeOK, Working

(* A load begins at the first month of its window.                           *)
LEMMA StartMoves ==
  ASSUME TypeOK, NEW i \in Invocations, NEW command \in Commands, Start(i, command)
  PROVE  /\ inv' \in [Invocations -> Invocation]
         /\ \A j \in Invocations : Working(j)' => inv'[j].month \in inv'[j].months
         /\ inv[i].pc = "unborn" /\ inv'[i].pc \in {"list", "scan", "has"}
         /\ inv'[i].months = Months /\ inv'[i].bars = inv[i].bars
         /\ \A j \in Invocations : j # i => inv'[j] = inv[j]
<1>1. PICK phase \in {"list", "scan", "has"} :
        inv' = [inv EXCEPT ![i].months = Months, ![i].month = 1, ![i].pc = phase]
  BY DEF Start, Commands
<1>2. 1 \in Months /\ phase \in Phases
  BY RawStoreAssumption DEF Months, Phases
<1>3. inv[i].pc = "unborn"
  BY DEF Start, At
<1>. QED
  BY <1>1, <1>2, <1>3 DEF TypeOK, Invocation, Working

(* Looking the months up drops those not found: it goes on to a later month, *)
(* ends with an exception when nothing is left, or begins the loop over what *)
(* was found.                                                                *)
LEMMA LookMoves ==
  ASSUME TypeOK, NEW i \in Invocations, Look(i)
  PROVE  /\ inv' \in [Invocations -> Invocation]
         /\ \A j \in Invocations : Working(j)' => inv'[j].month \in inv'[j].months
         /\ inv[i].pc \in {"list", "scan"}
         /\ \A j \in Invocations : j # i => inv'[j] = inv[j]
         /\ \/ inv' = [inv EXCEPT ![i] = Idle("failed")]
            \/ /\ inv'[i].months \subseteq inv[i].months /\ inv'[i].bars = inv[i].bars
               /\ \/ inv'[i].pc = inv[i].pc /\ inv'[i].month \in Later(i)
                  \/ inv'[i].pc \in {"has", "read"} /\ IsFirst(inv'[i].month, inv'[i].months)
<1>. DEFINE wanted == Wanted(i)
<1>1. /\ inv[i] \in Invocation /\ inv[i].months \subseteq Months /\ inv[i].month \in Nat
      /\ inv[i].pc \in {"list", "scan"}
  BY DEF TypeOK, Invocation, Look, Looking, At
<1>2. wanted \subseteq inv[i].months /\ Later(i) \subseteq wanted
  BY <1>1 DEF Wanted, Later
<1>. HIDE DEF wanted
<1>3. CASE inv' = [inv EXCEPT ![i] = Idle("failed")]
  BY <1>1, <1>3, FailType
<1>4. CASE \E m \in Later(i) : inv' = [inv EXCEPT ![i].months = wanted, ![i].month = m]
  <2>1. PICK m \in Later(i) : inv' = [inv EXCEPT ![i].months = wanted, ![i].month = m]
    BY <1>4
  <2>2. m \in wanted /\ m \in Nat
    BY <1>1, <1>2, RawStoreAssumption DEF Months
  <2>. QED
    BY <1>1, <1>2, <2>1, <2>2 DEF TypeOK, Invocation, Working
<1>5. CASE \E m \in wanted, phase \in {"has", "read"} :
             /\ IsFirst(m, wanted)
             /\ inv' = [inv EXCEPT ![i].months = wanted, ![i].month = m, ![i].pc = phase]
  <2>1. PICK m \in wanted, phase \in {"has", "read"} :
          /\ IsFirst(m, wanted)
          /\ inv' = [inv EXCEPT ![i].months = wanted, ![i].month = m, ![i].pc = phase]
    BY <1>5
  <2>2. m \in Nat /\ phase \in Phases
    BY <1>1, <1>2, RawStoreAssumption DEF Months, Phases
  <2>3. /\ inv' \in [Invocations -> Invocation]
        /\ inv'[i].months = wanted /\ inv'[i].month = m /\ inv'[i].pc = phase
        /\ inv'[i].bars = inv[i].bars
        /\ \A j \in Invocations : j # i => inv'[j] = inv[j]
    BY <1>1, <1>2, <2>1, <2>2 DEF TypeOK, Invocation
  <2>4. \A j \in Invocations : Working(j)' => inv'[j].month \in inv'[j].months
    BY <2>3 DEF TypeOK, Working
  <2>. QED
    BY <1>1, <1>2, <2>1, <2>3, <2>4
<1>6. \/ inv' = [inv EXCEPT ![i] = Idle("failed")]
      \/ \E m \in Later(i) : inv' = [inv EXCEPT ![i].months = wanted, ![i].month = m]
      \/ \E m \in wanted, phase \in {"has", "read"} :
           /\ IsFirst(m, wanted)
           /\ inv' = [inv EXCEPT ![i].months = wanted, ![i].month = m, ![i].pc = phase]
  <2>1. CASE Later(i) # {}
    BY <2>1 DEF Look, wanted
  <2>2. CASE Later(i) = {} /\ Fail(i)
    BY <2>2 DEF Fail
  <2>3. CASE Later(i) = {} /\ ~Fail(i)
    <3>. DEFINE phase == IF At(i, "list") THEN "has" ELSE "read"
    <3>1. PICK m \in wanted :
            /\ IsFirst(m, wanted)
            /\ inv' = [inv EXCEPT ![i].months = wanted, ![i].month = m, ![i].pc = phase]
      BY <2>3 DEF Look, wanted
    <3>2. phase \in {"has", "read"}
      OBVIOUS
    <3>. HIDE DEF phase
    <3>. QED
      BY <3>1, <3>2
  <2>. QED
    BY <2>1, <2>2, <2>3
<1>. QED
  BY <1>3, <1>4, <1>5, <1>6

-----------------------------------------------------------------------------
(* Types *)

LEMMA InitType == Init => TypeOK
<1>. SUFFICES ASSUME Init PROVE TypeOK
  OBVIOUS
<1>1. Idle("unborn") \in Invocation
  BY IdleType DEF Phases
<1>2. \A i \in Invocations : ~Working(i)
  BY DEF Init, Working, Idle
<1>. QED
  BY <1>1, <1>2 DEF Init, TypeOK, Contents, Absent, NoBars

LEMMA StepType ==
  ASSUME TypeOK, NEW i \in Invocations, Step(i)
  PROVE  TypeOK'
<1>. USE DEF At
<1>0. inv[i] \in Invocation
  BY DEF TypeOK
<1>1. CASE Has(i)
  <2>1. CASE inv' = [inv EXCEPT ![i].pc = "download"]
    BY <1>1, <2>1 DEF Has, TypeOK, Invocation, Working, Phases
  <2>2. CASE Advance(i, "has", "read")
    BY <1>1, <2>2, AdvanceType DEF Has, TypeOK, Phases
  <2>. QED
    BY <1>1, <2>1, <2>2 DEF Has
<1>2. CASE Download(i)
  <2>1. PICK v \in {Corrupted, published[inv[i].month]} :
          inv' = [inv EXCEPT ![i].pc = "verify", ![i].got = v]
    BY <1>2 DEF Download
  <2>2. inv[i].month \in Months
    BY <1>2, <1>0 DEF Download, TypeOK, Invocation, Working
  <2>3. v \in Nat
    BY <2>2 DEF TypeOK, Corrupted
  <2>4. inv' \in [Invocations -> Invocation]
    BY <1>0, <2>1, <2>3 DEF TypeOK, Invocation, Phases
  <2>5. \A j \in Invocations : Working(j)' => inv'[j].month \in inv'[j].months
    BY <1>2, <2>1 DEF Download, TypeOK, Working
  <2>. QED
    BY <1>2, <2>4, <2>5 DEF Download, TypeOK
<1>3. CASE Unavailable(i)
  BY <1>3, FailType DEF Unavailable, Fail, TypeOK
<1>4. CASE Verify(i)
  <2>1. CASE Fail(i)
    BY <1>4, <2>1, FailType DEF Verify, Fail, TypeOK
  <2>2. CASE inv' = [inv EXCEPT ![i].pc = "check"]
    BY <1>4, <2>2 DEF Verify, TypeOK, Invocation, Working, Phases
  <2>. QED
    BY <1>4, <2>1, <2>2 DEF Verify
<1>5. CASE CheckAbsent(i)
  <2>1. CASE Fail(i)
    BY <1>5, <2>1, FailType DEF CheckAbsent, Fail, TypeOK
  <2>2. CASE inv' = [inv EXCEPT ![i].pc = "open", ![i].part = "payload"]
    BY <1>5, <2>2 DEF CheckAbsent, TypeOK, Invocation, Working, Phases, Parts
  <2>. QED
    BY <1>5, <2>1, <2>2 DEF CheckAbsent
<1>6. CASE Open(i)
  <2>1. CASE Fail(i) /\ UNCHANGED disk
    BY <1>6, <2>1, FailType DEF Open, Fail, TypeOK
  <2>2. CASE /\ disk' = [disk EXCEPT ![FileOf(i)] = Torn]
             /\ inv' = [inv EXCEPT ![i].pc = "fill"]
    BY <1>6, <2>2 DEF Open, TypeOK, Invocation, Working, Phases, Contents, Torn
  <2>. QED
    BY <1>6, <2>1, <2>2 DEF Open
<1>7. CASE Fill(i)
  <2>1. PICK c \in FilledWith(FileOf(i), inv[i].got) :
          disk' = [disk EXCEPT ![FileOf(i)] = c]
    BY <1>7 DEF Fill
  <2>2. c \in Contents
    BY <1>0 DEF FilledWith, Contents, Whole, Torn, Invocation
  <2>3. disk' \in [FilesOnDisk -> Contents]
    BY <2>1, <2>2 DEF TypeOK
  <2>4. CASE inv' = [inv EXCEPT ![i].pc = "open", ![i].part = "manifest"]
    BY <1>7, <2>3, <2>4 DEF Fill, TypeOK, Invocation, Working, Phases, Parts
  <2>5. CASE inv' = [inv EXCEPT ![i].pc = "seal", ![i].part = "payload"]
    BY <1>7, <2>3, <2>5 DEF Fill, TypeOK, Invocation, Working, Phases, Parts
  <2>. QED
    BY <1>7, <2>4, <2>5 DEF Fill
<1>8. CASE Seal(i)
  <2>1. inv[i].month \in Months
    BY <1>8, <1>0 DEF Seal, TypeOK, Invocation, Working
  <2>2. sealed' \subseteq FilesOnDisk
    BY <1>8, <1>0, <2>1 DEF Seal, FileOf, FilesOnDisk, TypeOK, Invocation
  <2>3. CASE inv' = [inv EXCEPT ![i].part = "manifest"]
    BY <1>8, <2>2, <2>3 DEF Seal, TypeOK, Invocation, Working, Parts
  <2>4. CASE Advance(i, "has", "read")
    BY <1>8, <2>2, <2>4, AdvanceType DEF Seal, TypeOK, Phases
  <2>. QED
    BY <1>8, <2>3, <2>4 DEF Seal
<1>9. CASE Read(i)
  <2>1. CASE Fail(i)
    BY <1>9, <2>1, FailType DEF Read, Fail, TypeOK
  <2> DEFINE m == inv[i].month
             read == [inv EXCEPT ![i].bars[m] = disk[Payload(m)].version]
  <2>2. m \in Months /\ m \in inv[i].months
    BY <1>9, <1>0 DEF Read, TypeOK, Invocation, Working
  <2>3. disk[Payload(m)].version \in Nat
    BY <2>2 DEF TypeOK, Payload, FilesOnDisk, Parts, Contents
  <2>4. /\ read \in [Invocations -> Invocation]
        /\ \A j \in Invocations : /\ read[j].month = inv[j].month
                                 /\ read[j].months = inv[j].months
                                 /\ read[j].pc = inv[j].pc
    BY <1>0, <2>2, <2>3 DEF TypeOK, Invocation
  <2> HIDE DEF read
  <2>7. Working(i) /\ UNCHANGED <<published, disk, sealed, derived>>
    BY <1>9 DEF Read, Working
  <2>5. CASE inv' = [read EXCEPT ![i].pc = "store"]
    <3>1. inv' \in [Invocations -> Invocation]
      BY <2>4, <2>5 DEF Invocation, Phases
    <3>2. \A j \in Invocations : Working(j)' => inv'[j].month \in inv'[j].months
      <4>1. inv'[i].month = inv[i].month /\ inv'[i].months = inv[i].months
        BY <2>4, <2>5 DEF Invocation
      <4>2. \A j \in Invocations : j # i => /\ inv'[j].month = inv[j].month
                                          /\ inv'[j].months = inv[j].months
                                          /\ inv'[j].pc = inv[j].pc
        BY <2>4, <2>5
      <4>. QED
        BY <2>7, <4>1, <4>2 DEF Working, TypeOK
    <3>. QED
      BY <2>7, <3>1, <3>2 DEF TypeOK
  <2>6. CASE \E n \in Later(i) : inv' = [read EXCEPT ![i].month = n]
    <3>1. PICK n \in Later(i) : inv' = [read EXCEPT ![i].month = n]
      BY <2>6
    <3>2. n \in inv[i].months /\ n \in Nat
      BY <1>0, RawStoreAssumption DEF Later, Invocation, Months
    <3>3. inv' \in [Invocations -> Invocation]
      BY <2>4, <3>1, <3>2 DEF Invocation
    <3>4. \A j \in Invocations : Working(j)' => inv'[j].month \in inv'[j].months
      <4>1. inv'[i].month = n /\ inv'[i].months = inv[i].months
        BY <2>4, <3>1 DEF Invocation
      <4>2. \A j \in Invocations : j # i => /\ inv'[j].month = inv[j].month
                                          /\ inv'[j].months = inv[j].months
                                          /\ inv'[j].pc = inv[j].pc
        BY <2>4, <3>1
      <4>. QED
        BY <2>7, <3>2, <4>1, <4>2 DEF Working, TypeOK
    <3>. QED
      BY <2>7, <3>3, <3>4 DEF TypeOK
  <2>. QED
    BY <1>9, <2>1, <2>5, <2>6 DEF Read, read
<1>10. CASE StoreDerived(i)
  <2>1. CASE Fail(i) /\ UNCHANGED derived
    BY <1>10, <2>1, FailType DEF StoreDerived, Fail, TypeOK
  <2>2. CASE derived' = inv[i].bars /\ inv' = [inv EXCEPT ![i] = Idle("done")]
    BY <1>10, <1>0, <2>2, FailType DEF StoreDerived, TypeOK, Invocation
  <2>. QED
    BY <1>10, <2>1, <2>2 DEF StoreDerived
<1>11. CASE Look(i)
  BY <1>11, LookMoves DEF Look, TypeOK
<1>. QED
  BY <1>1, <1>2, <1>3, <1>4, <1>5, <1>6, <1>7, <1>8, <1>9, <1>10, <1>11 DEF Step

LEMMA StartType ==
  ASSUME TypeOK, NEW i \in Invocations, NEW command \in Commands, Start(i, command)
  PROVE  TypeOK'
  BY StartMoves DEF Start, TypeOK

LEMMA NextType == TypeOK /\ [Next]_vars => TypeOK'
<1>. SUFFICES ASSUME TypeOK, [Next]_vars PROVE TypeOK'
  OBVIOUS
<1>1. ASSUME NEW i \in Invocations, NEW command \in Commands, Start(i, command)
      PROVE  TypeOK'
  BY <1>1, StartType
<1>2. ASSUME NEW i \in Invocations, Step(i)
      PROVE  TypeOK'
  BY <1>2, StepType
<1>3. ASSUME NEW i \in Invocations, Kill(i)
      PROVE  TypeOK'
  BY <1>3, FailType DEF Kill, TypeOK
<1>4. ASSUME NEW m \in Months, Publish(m)
      PROVE  TypeOK'
  BY <1>4 DEF Publish, TypeOK, Working
<1>5. CASE UNCHANGED vars
  BY <1>5 DEF vars, TypeOK, Working
<1>. QED
  BY <1>1, <1>2, <1>3, <1>4, <1>5 DEF Next

(* The state of the raw layer and of its invocations is well typed, and a    *)
(* load only ever works on a month it was asked for.                         *)
THEOREM TypeCorrect == Spec => []TypeOK
  BY InitType, NextType, PTL DEF Spec

-----------------------------------------------------------------------------
(* The invariant *)

(* What an invocation is about to write is a version the archive published:  *)
(* its checksum was compared, and the archive only ever publishes anew.      *)
FetchInv(i) ==
  /\ At(i, "verify") => published[inv[i].month] > 0
  /\ inv[i].pc \in {"check", "open", "fill"} => inv[i].got \in 1 .. published[inv[i].month]

(* What an invocation holds open exists, a manifest is written beside its    *)
(* payload, and both are there when they are made read-only.                 *)
PresentInv(i) ==
  /\ At(i, "fill") => disk[FileOf(i)] # Absent
  /\ (At(i, "open") \/ At(i, "fill")) /\ inv[i].part = "manifest" =>
       disk[Payload(inv[i].month)] # Absent
  /\ At(i, "seal") => \A part \in Parts : disk[<<inv[i].month, part>>] # Absent

LocalInv(i) == FetchInv(i) /\ PresentInv(i)

IInv == /\ TypeOK
        /\ \A i \in Invocations : LocalInv(i)
        /\ StoredIsVerified
        /\ PayloadComesFirst

(* No step removes a file or withdraws a version.                            *)
NothingRemoved ==
  /\ \A f \in FilesOnDisk : disk[f] # Absent => disk'[f] # Absent
  /\ \A m \in Months : published[m] <= published'[m]

(* A step of one invocation leaves the others their invariant.               *)
LEMMA OthersKeepTheirs ==
  ASSUME TypeOK, TypeOK', NEW j \in Invocations, LocalInv(j),
         inv'[j] = inv[j], NothingRemoved
  PROVE  LocalInv(j)'
<1>1. CASE Working(j)
  <2>1. inv[j] \in Invocation /\ inv[j].month \in Months
    BY <1>1 DEF TypeOK, Invocation
  <2>2. \A part \in Parts : <<inv[j].month, part>> \in FilesOnDisk
    BY <2>1 DEF FilesOnDisk
  <2>3. FetchInv(j)'
    BY <2>1 DEF LocalInv, FetchInv, NothingRemoved, At, TypeOK, Invocation
  <2>4. PresentInv(j)'
    BY <2>1, <2>2 DEF LocalInv, PresentInv, NothingRemoved, At, FileOf, Payload,
                      Parts, Invocation
  <2>. QED
    BY <2>3, <2>4 DEF LocalInv
<1>2. CASE ~Working(j)
  BY <1>2 DEF Working, LocalInv, FetchInv, PresentInv, At
<1>. QED
  BY <1>1, <1>2

(* An invocation that neither writes nor carries a fetched payload owes      *)
(* nothing.                                                                  *)
LEMMA NothingInHand ==
  ASSUME NEW j, inv'[j].pc \notin {"verify", "check", "open", "fill", "seal"}
  PROVE  LocalInv(j)'
BY DEF LocalInv, FetchInv, PresentInv, At

(* A step that leaves the store alone leaves what holds of it alone.         *)
LEMMA StoreUntouched ==
  ASSUME StoredIsVerified, PayloadComesFirst, UNCHANGED <<published, disk, sealed>>
  PROVE  StoredIsVerified' /\ PayloadComesFirst'
BY DEF StoredIsVerified, PayloadComesFirst

LEMMA InitInv == Init => IInv
<1>. SUFFICES ASSUME Init PROVE IInv
  OBVIOUS
<1>1. \A i \in Invocations : LocalInv(i)
  BY DEF Init, Idle, LocalInv, FetchInv, PresentInv, At
<1>2. StoredIsVerified
  BY DEF Init, StoredIsVerified, Absent
<1>3. PayloadComesFirst
  BY DEF Init, PayloadComesFirst, FilesOnDisk, Parts
<1>. QED
  BY <1>1, <1>2, <1>3, InitType DEF IInv

(* The steps that only look, and the ends of an invocation.                  *)
LEMMA QuietStep ==
  ASSUME IInv, TypeOK', NEW i \in Invocations, LocalInv(i)',
         \A j \in Invocations : j # i => inv'[j] = inv[j],
         UNCHANGED <<published, disk, sealed>>
  PROVE  IInv'
<1>1. NothingRemoved
  BY DEF NothingRemoved, IInv, TypeOK
<1>2. \A j \in Invocations : LocalInv(j)'
  BY <1>1, OthersKeepTheirs DEF IInv
<1>. QED
  BY <1>2, StoreUntouched DEF IInv

LEMMA OpenInv ==
  ASSUME IInv, TypeOK', NEW i \in Invocations, Open(i)
  PROVE  IInv'
<1>. DEFINE f == FileOf(i)
<1>0. /\ inv[i] \in Invocation /\ inv[i].month \in Months
      /\ f \in FilesOnDisk /\ Payload(inv[i].month) \in FilesOnDisk
      /\ TypeOK /\ LocalInv(i)
  BY DEF Open, At, IInv, TypeOK, Working, Invocation, FileOf, FilesOnDisk, Payload, Parts
<1>1. CASE Fail(i) /\ UNCHANGED disk
  <2>1. inv'[i].pc = "failed" /\ \A j \in Invocations : j # i => inv'[j] = inv[j]
    BY <1>0, <1>1, FailType DEF Fail
  <2>. QED
    BY <1>1, <2>1, NothingInHand, QuietStep DEF Open
<1>2. CASE disk' = [disk EXCEPT ![f] = Torn] /\ inv' = [inv EXCEPT ![i].pc = "fill"]
  <2>0. f = <<inv[i].month, inv[i].part>> /\ Payload(inv[i].month) = <<inv[i].month, "payload">>
    BY DEF FileOf, Payload
  <2>1. /\ disk'[f] = Torn /\ Torn # Absent
        /\ \A g \in FilesOnDisk : g # f => disk'[g] = disk[g]
    BY <1>0, <1>2 DEF TypeOK, Torn, Absent
  <2>2. NothingRemoved
    BY <1>0, <2>1 DEF NothingRemoved, Open, TypeOK
  <2>3. /\ inv'[i] = [inv[i] EXCEPT !.pc = "fill"]
        /\ \A j \in Invocations : j # i => inv'[j] = inv[j]
    BY <1>0, <1>2 DEF TypeOK
  <2>4. /\ inv'[i].pc = "fill" /\ inv'[i].month = inv[i].month
        /\ inv'[i].part = inv[i].part /\ inv'[i].got = inv[i].got
    BY <1>0, <2>3 DEF Invocation
  <2>5. FetchInv(i)'
    BY <1>0, <2>4 DEF LocalInv, FetchInv, Open, At
  <2>6. PresentInv(i)'
    <3>1. inv[i].part = "manifest" => disk'[Payload(inv[i].month)] # Absent
      BY <1>0, <2>2 DEF LocalInv, PresentInv, Open, At, NothingRemoved
    <3>. QED
      BY <2>0, <2>1, <2>4, <3>1 DEF PresentInv, At, FileOf, Payload
  <2>7. \A j \in Invocations : LocalInv(j)'
    BY <1>0, <2>2, <2>3, <2>5, <2>6, OthersKeepTheirs DEF LocalInv, IInv
  <2>8. StoredIsVerified'
    BY <1>0, <2>1 DEF StoredIsVerified, IInv, Open, Torn
  <2>9. PayloadComesFirst'
    <3>1. ASSUME NEW m \in Months, disk'[<<m, "manifest">>] # Absent
          PROVE  disk'[Payload(m)] # Absent
      <4>1. /\ <<m, "manifest">> \in FilesOnDisk /\ Payload(m) \in FilesOnDisk
        BY DEF FilesOnDisk, Payload, Parts
      <4>2. CASE f = <<m, "manifest">>
        <5>1. inv[i].part = "manifest" /\ inv[i].month = m
          BY <2>0, <4>2
        <5>2. disk[Payload(m)] # Absent
          BY <1>0, <5>1 DEF LocalInv, PresentInv, Open, At
        <5>. QED
          BY <2>2, <4>1, <5>2 DEF NothingRemoved
      <4>3. CASE f # <<m, "manifest">>
        BY <2>1, <2>2, <3>1, <4>1, <4>3 DEF NothingRemoved, IInv, PayloadComesFirst
      <4>. QED
        BY <4>2, <4>3
    <3>2. \A m \in Months : \A part \in Parts :
            <<m, part>> \in sealed' => disk'[<<m, "manifest">>] # Absent
      BY <2>2 DEF NothingRemoved, IInv, PayloadComesFirst, Open, FilesOnDisk, Parts
    <3>. QED
      BY <3>1, <3>2 DEF PayloadComesFirst, Payload
  <2>. QED
    BY <2>7, <2>8, <2>9 DEF IInv
<1>. QED
  BY <1>1, <1>2 DEF Open

LEMMA FillInv ==
  ASSUME IInv, TypeOK', NEW i \in Invocations, Fill(i)
  PROVE  IInv'
<1>. DEFINE f == FileOf(i)
<1>0. /\ inv[i] \in Invocation /\ inv[i].month \in Months
      /\ f \in FilesOnDisk /\ Payload(inv[i].month) \in FilesOnDisk
      /\ TypeOK /\ LocalInv(i)
  BY DEF Fill, At, IInv, TypeOK, Working, Invocation, FileOf, FilesOnDisk, Payload, Parts
<1>1. f = <<inv[i].month, inv[i].part>> /\ Payload(inv[i].month) = <<inv[i].month, "payload">>
  BY DEF FileOf, Payload
<1>2. PICK c \in {Whole(inv[i].got), Torn} : disk' = [disk EXCEPT ![f] = c]
  BY DEF Fill, FilledWith
<1>3. /\ disk'[f] = c /\ c # Absent
      /\ \A g \in FilesOnDisk : g # f => disk'[g] = disk[g]
  BY <1>0, <1>2 DEF TypeOK, Torn, Whole, Absent
<1>4. NothingRemoved
  BY <1>0, <1>3 DEF NothingRemoved, Fill, TypeOK
<1>5. PICK pc \in {"open", "seal"}, part \in Parts :
        /\ pc = "open" => inv[i].part = "payload" /\ part = "manifest"
        /\ pc = "seal" => inv[i].part = "manifest"
        /\ inv' = [inv EXCEPT ![i].pc = pc, ![i].part = part]
  BY <1>0 DEF Fill, Parts, Invocation
<1>6. \A j \in Invocations : j # i => inv'[j] = inv[j]
  BY <1>0, <1>5 DEF TypeOK
<1>7. /\ inv'[i].pc = pc /\ inv'[i].part = part
      /\ inv'[i].month = inv[i].month /\ inv'[i].got = inv[i].got
  BY <1>0, <1>5 DEF TypeOK, Invocation
<1>8. FetchInv(i)'
  BY <1>0, <1>7 DEF LocalInv, FetchInv, Fill, At
<1>9. PresentInv(i)'
  <2>1. CASE pc = "open"
    BY <1>1, <1>3, <1>5, <1>7, <2>1 DEF PresentInv, At, Payload
  <2>2. CASE pc = "seal"
    <3>1. disk'[<<inv[i].month, "manifest">>] # Absent
      BY <1>1, <1>3, <1>5, <2>2
    <3>2. disk'[<<inv[i].month, "payload">>] # Absent
      BY <1>0, <1>1, <1>4, <1>5, <2>2 DEF LocalInv, PresentInv, Fill, At, NothingRemoved
    <3>. QED
      BY <1>7, <2>2, <3>1, <3>2 DEF PresentInv, At, Parts
  <2>. QED
    BY <2>1, <2>2
<1>10. \A j \in Invocations : LocalInv(j)'
  BY <1>0, <1>4, <1>6, <1>8, <1>9, OthersKeepTheirs DEF LocalInv, IInv
<1>11. StoredIsVerified'
  <2>1. c.state = "whole" => c.version \in 1 .. published[inv[i].month]
    BY <1>0, <1>2 DEF Whole, Torn, LocalInv, FetchInv, Fill, At
  <2>. QED
    BY <1>0, <1>1, <1>3, <2>1 DEF StoredIsVerified, IInv, Fill
<1>12. PayloadComesFirst'
  <2>1. ASSUME NEW m \in Months, disk'[<<m, "manifest">>] # Absent
        PROVE  disk'[Payload(m)] # Absent
    <3>1. /\ <<m, "manifest">> \in FilesOnDisk /\ Payload(m) \in FilesOnDisk
      BY DEF FilesOnDisk, Payload, Parts
    <3>2. CASE f = <<m, "manifest">>
      <4>1. inv[i].part = "manifest" /\ inv[i].month = m
        BY <1>1, <3>2
      <4>2. disk[Payload(m)] # Absent
        BY <1>0, <4>1 DEF LocalInv, PresentInv, Fill, At
      <4>. QED
        BY <1>4, <3>1, <4>2 DEF NothingRemoved
    <3>3. CASE f # <<m, "manifest">>
      BY <1>3, <1>4, <2>1, <3>1, <3>3 DEF NothingRemoved, IInv, PayloadComesFirst
    <3>. QED
      BY <3>2, <3>3
  <2>2. \A m \in Months : \A p \in Parts :
          <<m, p>> \in sealed' => disk'[<<m, "manifest">>] # Absent
    BY <1>4 DEF NothingRemoved, IInv, PayloadComesFirst, Fill, FilesOnDisk, Parts
  <2>. QED
    BY <2>1, <2>2 DEF PayloadComesFirst, Payload
<1>. QED
  BY <1>10, <1>11, <1>12 DEF IInv

LEMMA SealInv ==
  ASSUME IInv, TypeOK', NEW i \in Invocations, Seal(i)
  PROVE  IInv'
<1>0. /\ inv[i] \in Invocation /\ inv[i].month \in Months /\ TypeOK /\ LocalInv(i)
  BY DEF Seal, At, IInv, TypeOK, Working, Invocation
<1>1. \A part \in Parts : disk[<<inv[i].month, part>>] # Absent
  BY <1>0 DEF LocalInv, PresentInv, Seal
<1>2. UNCHANGED <<published, disk>>
  BY DEF Seal
<1>3. NothingRemoved
  BY <1>0, <1>2 DEF NothingRemoved, TypeOK
<1>4. \A j \in Invocations : j # i => inv'[j] = inv[j]
  <2>1. CASE inv' = [inv EXCEPT ![i].part = "manifest"]
    BY <1>0, <2>1 DEF TypeOK
  <2>2. CASE Advance(i, "has", "read")
    BY <1>0, <2>2, AdvanceType DEF Phases
  <2>. QED
    BY <2>1, <2>2 DEF Seal
<1>5. LocalInv(i)'
  <2>1. CASE inv' = [inv EXCEPT ![i].part = "manifest"]
    <3>1. inv'[i].pc = "seal" /\ inv'[i].month = inv[i].month
      BY <1>0, <2>1 DEF TypeOK, Invocation, Seal, At
    <3>. QED
      BY <1>1, <1>2, <3>1 DEF LocalInv, FetchInv, PresentInv, At
  <2>2. CASE Advance(i, "has", "read")
    BY <1>0, <2>2, AdvanceType, NothingInHand DEF Phases
  <2>. QED
    BY <2>1, <2>2 DEF Seal
<1>6. \A j \in Invocations : LocalInv(j)'
  BY <1>0, <1>3, <1>4, <1>5, OthersKeepTheirs DEF IInv
<1>7. StoredIsVerified'
  BY <1>2 DEF IInv, StoredIsVerified
<1>8. PayloadComesFirst'
  BY <1>1, <1>2 DEF IInv, PayloadComesFirst, Seal, FileOf, Parts
<1>. QED
  BY <1>6, <1>7, <1>8 DEF IInv

LEMMA StepInv ==
  ASSUME IInv, NEW i \in Invocations, Step(i)
  PROVE  IInv'
<1>0. /\ TypeOK /\ TypeOK' /\ LocalInv(i) /\ inv[i] \in Invocation
  BY StepType DEF IInv, TypeOK
<1>1. CASE Has(i)
  <2>1. inv'[i].pc \in {"download", "has", "read"}
        /\ \A j \in Invocations : j # i => inv'[j] = inv[j]
    <3>1. CASE inv' = [inv EXCEPT ![i].pc = "download"]
      BY <1>0, <3>1 DEF TypeOK, Invocation
    <3>2. CASE Advance(i, "has", "read")
      BY <1>0, <3>2, AdvanceType DEF Phases
    <3>. QED
      BY <1>1, <3>1, <3>2 DEF Has
  <2>. QED
    BY <1>0, <1>1, <2>1, NothingInHand, QuietStep DEF Has
<1>2. CASE Download(i)
  <2>1. PICK v : inv' = [inv EXCEPT ![i].pc = "verify", ![i].got = v]
    BY <1>2 DEF Download
  <2>2. inv'[i].pc = "verify" /\ inv'[i].month = inv[i].month
    BY <1>0, <2>1 DEF TypeOK, Invocation
  <2>3. LocalInv(i)'
    BY <1>2, <2>2 DEF Download, LocalInv, FetchInv, PresentInv, At
  <2>4. \A j \in Invocations : j # i => inv'[j] = inv[j]
    BY <1>0, <2>1 DEF TypeOK
  <2>. QED
    BY <1>0, <1>2, <2>3, <2>4, QuietStep DEF Download
<1>3. CASE Unavailable(i)
  BY <1>0, <1>3, FailType, NothingInHand, QuietStep DEF Unavailable, Fail
<1>4. CASE Verify(i)
  <2>1. CASE Fail(i)
    BY <1>0, <1>4, <2>1, FailType, NothingInHand, QuietStep DEF Verify, Fail
  <2>2. CASE Verified(i) /\ inv' = [inv EXCEPT ![i].pc = "check"]
    <3>1. /\ inv'[i].pc = "check" /\ inv'[i].month = inv[i].month
          /\ inv'[i].got = inv[i].got
      BY <1>0, <2>2 DEF TypeOK, Invocation
    <3>2. published[inv[i].month] > 0 /\ published[inv[i].month] \in Nat
      <4>1. inv[i].month \in Months
        BY <1>0, <1>4 DEF Verify, At, TypeOK, Working, Invocation
      <4>. QED
        BY <1>0, <1>4, <4>1 DEF Verify, LocalInv, FetchInv, TypeOK
    <3>3. LocalInv(i)'
      BY <1>4, <2>2, <3>1, <3>2 DEF Verify, Verified, LocalInv, FetchInv, PresentInv, At
    <3>. QED
      BY <1>0, <1>4, <2>2, <3>3, QuietStep DEF Verify
  <2>. QED
    BY <1>4, <2>1, <2>2 DEF Verify
<1>5. CASE CheckAbsent(i)
  <2>1. CASE Fail(i)
    BY <1>0, <1>5, <2>1, FailType, NothingInHand, QuietStep DEF CheckAbsent, Fail
  <2>2. CASE inv' = [inv EXCEPT ![i].pc = "open", ![i].part = "payload"]
    <3>1. /\ inv'[i].pc = "open" /\ inv'[i].month = inv[i].month
          /\ inv'[i].got = inv[i].got /\ inv'[i].part = "payload"
      BY <1>0, <2>2 DEF TypeOK, Invocation
    <3>2. LocalInv(i)'
      BY <1>0, <1>5, <3>1 DEF CheckAbsent, LocalInv, FetchInv, PresentInv, At
    <3>3. \A j \in Invocations : j # i => inv'[j] = inv[j]
      BY <1>0, <2>2 DEF TypeOK
    <3>. QED
      BY <1>0, <1>5, <3>2, <3>3, QuietStep DEF CheckAbsent
  <2>. QED
    BY <1>5, <2>1, <2>2 DEF CheckAbsent
<1>6. CASE Open(i)
  BY <1>0, <1>6, OpenInv
<1>7. CASE Fill(i)
  BY <1>0, <1>7, FillInv
<1>8. CASE Seal(i)
  BY <1>0, <1>8, SealInv
<1>9. CASE Read(i)
  <2>1. inv'[i].pc \in {"failed", "store", "read"}
        /\ \A j \in Invocations : j # i => inv'[j] = inv[j]
    <3> DEFINE m == inv[i].month
               read == [inv EXCEPT ![i].bars[m] = disk[Payload(m)].version]
    <3>1. /\ read \in [Invocations -> Invocation] /\ read[i].pc = "read"
          /\ \A j \in Invocations : j # i => read[j] = inv[j]
      <4>1. m \in Months
        BY <1>0, <1>9 DEF Read, At, TypeOK, Working, Invocation
      <4>2. disk[Payload(m)].version \in Nat
        BY <1>0, <4>1 DEF TypeOK, Payload, FilesOnDisk, Parts, Contents
      <4>. QED
        BY <1>0, <1>9, <4>1, <4>2 DEF Read, At, TypeOK, Invocation
    <3> HIDE DEF read
    <3>2. CASE Fail(i)
      BY <1>0, <3>2, FailType DEF Fail
    <3>3. CASE inv' = [read EXCEPT ![i].pc = "store"]
      BY <3>1, <3>3 DEF Invocation
    <3>4. CASE \E n \in Later(i) : inv' = [read EXCEPT ![i].month = n]
      BY <3>1, <3>4 DEF Invocation
    <3>. QED
      BY <1>9, <3>2, <3>3, <3>4 DEF Read, read
  <2>. QED
    BY <1>0, <1>9, <2>1, NothingInHand, QuietStep DEF Read
<1>10. CASE StoreDerived(i)
  <2>1. PICK phase \in {"done", "failed"} : inv' = [inv EXCEPT ![i] = Idle(phase)]
    BY <1>10 DEF StoreDerived, Fail
  <2>2. inv'[i].pc = phase /\ \A j \in Invocations : j # i => inv'[j] = inv[j]
    BY <1>0, <2>1, FailType
  <2>. QED
    BY <1>0, <1>10, <2>2, NothingInHand, QuietStep DEF StoreDerived
<1>11. CASE Look(i)
  <2>1. inv'[i].pc \in {"failed", "list", "scan", "has", "read"}
        /\ \A j \in Invocations : j # i => inv'[j] = inv[j]
    BY <1>0, <1>11, LookMoves, FailType
  <2>. QED
    BY <1>0, <1>11, <2>1, NothingInHand, QuietStep DEF Look
<1>. QED
  BY <1>1, <1>2, <1>3, <1>4, <1>5, <1>6, <1>7, <1>8, <1>9, <1>10, <1>11 DEF Step

LEMMA NextInv == IInv /\ [Next]_vars => IInv'
<1>. SUFFICES ASSUME IInv, [Next]_vars PROVE IInv'
  OBVIOUS
<1>0. TypeOK /\ TypeOK'
  BY NextType DEF IInv
<1>1. ASSUME NEW i \in Invocations, NEW command \in Commands, Start(i, command)
      PROVE  IInv'
  <2>1. inv'[i].pc \in {"list", "scan", "has"} /\ \A j \in Invocations : j # i => inv'[j] = inv[j]
    BY <1>0, <1>1, StartMoves
  <2>. QED
    BY <1>0, <1>1, <2>1, NothingInHand, QuietStep DEF Start
<1>2. ASSUME NEW i \in Invocations, Step(i)
      PROVE  IInv'
  BY <1>2, StepInv
<1>3. ASSUME NEW i \in Invocations, Kill(i)
      PROVE  IInv'
  BY <1>0, <1>3, FailType, NothingInHand, QuietStep DEF Kill
<1>4. ASSUME NEW m \in Months, Publish(m)
      PROVE  IInv'
  <2>1. NothingRemoved
    BY <1>0, <1>4 DEF Publish, NothingRemoved, TypeOK
  <2>2. \A j \in Invocations : LocalInv(j)'
    BY <1>0, <1>4, <2>1, OthersKeepTheirs DEF Publish, IInv
  <2>3. StoredIsVerified'
    <3>1. ASSUME NEW f \in FilesOnDisk, disk[f].state = "whole"
          PROVE  disk[f].version \in 1 .. published'[f[1]]
      <4>1. f[1] \in Months
        BY DEF FilesOnDisk
      <4>2. /\ disk[f].version \in 1 .. published[f[1]]
            /\ published[f[1]] \in Nat /\ published'[f[1]] \in Nat
            /\ published[f[1]] <= published'[f[1]]
        BY <1>0, <2>1, <3>1, <4>1 DEF IInv, StoredIsVerified, NothingRemoved, TypeOK
      <4>. QED
        BY <4>2
    <3>. QED
      BY <1>4, <3>1 DEF StoredIsVerified, Publish
  <2>4. PayloadComesFirst'
    BY <1>4 DEF Publish, IInv, PayloadComesFirst
  <2>. QED
    BY <1>0, <2>2, <2>3, <2>4 DEF IInv
<1>5. CASE UNCHANGED vars
  <2>1. NothingRemoved
    BY <1>0, <1>5 DEF vars, NothingRemoved, TypeOK
  <2>2. \A j \in Invocations : LocalInv(j)'
    BY <1>0, <1>5, <2>1, OthersKeepTheirs DEF vars, IInv
  <2>. QED
    BY <1>0, <1>5, <2>2, StoreUntouched DEF vars, IInv
<1>. QED
  BY <1>1, <1>2, <1>3, <1>4, <1>5 DEF Next

(* "A corrupted download must never reach data/raw/" (fetch.py): whatever is *)
(* stored whole was published, for any number of invocations racing for it.  *)
THEOREM OnlyVerifiedBytes == Spec => []StoredIsVerified
<1>1. IInv => StoredIsVerified
  BY DEF IInv
<1>. QED
  BY <1>1, InitInv, NextInv, PTL DEF Spec

(* Whatever is interrupted, no manifest is without its payload and nothing   *)
(* is read-only that lacks its manifest.                                     *)
THEOREM PayloadsPrecedeManifests == Spec => []PayloadComesFirst
<1>1. IInv => PayloadComesFirst
  BY DEF IInv
<1>. QED
  BY <1>1, InitInv, NextInv, PTL DEF Spec

-----------------------------------------------------------------------------
(* The raw layer implements WriteOnce *)

LEMMA InitRefines == Init => Promise!Init
BY DEF Init, Promise!Init, Final

(* What others hold open does not change with a step of one invocation.      *)
LEMMA OthersHold ==
  ASSUME NEW i \in Invocations, \A j \in Invocations : j # i => inv'[j] = inv[j]
  PROVE  \A j \in Invocations : j # i => \A f : Holds(j, f)' <=> Holds(j, f)
BY DEF Holds, At, FileOf

(* A step that opens, writes and closes nothing is none of the promise's.    *)
LEMMA QuietStutters ==
  ASSUME NEW i \in Invocations, \A j \in Invocations : j # i => inv'[j] = inv[j],
         inv[i].pc # "fill", inv'[i].pc # "fill", UNCHANGED <<disk, sealed>>
  PROVE  UNCHANGED <<disk, Final>>
<1>1. \A j \in Invocations : \A f : Holds(j, f)' <=> Holds(j, f)
  BY OthersHold DEF Holds, At
<1>. QED
  BY <1>1 DEF Final

(* An invocation that lets go of a file leaves it to others, or final.       *)
LEMMA LetGo ==
  ASSUME NEW i \in Invocations, \A j \in Invocations : j # i => inv'[j] = inv[j],
         At(i, "fill"), inv'[i].pc # "fill", UNCHANGED sealed
  PROVE  Final' = Final \/ Final' = Final \union {FileOf(i)}
<1>1. \A j \in Invocations : \A f : f # FileOf(i) => (Holds(j, f)' <=> Holds(j, f))
  BY OthersHold DEF Holds, At
<1>2. FileOf(i) \notin Final
  BY DEF Final, Holds
<1>3. \A f : f # FileOf(i) => (f \in Final' <=> f \in Final)
  BY <1>1 DEF Final
<1>. QED
  BY <1>2, <1>3

LEMMA OpenRefines ==
  ASSUME IInv, NEW i \in Invocations, Open(i)
  PROVE  Promise!Next \/ UNCHANGED <<disk, Final>>
<1>. DEFINE f == FileOf(i)
<1>0. TypeOK /\ inv[i] \in Invocation /\ f \in FilesOnDisk
  BY DEF Open, At, IInv, TypeOK, Working, Invocation, FileOf, FilesOnDisk, Parts
<1>1. CASE Fail(i) /\ UNCHANGED disk
  BY <1>0, <1>1, FailType, QuietStutters DEF Open, Fail, At
<1>2. CASE /\ Writable(f) /\ disk' = [disk EXCEPT ![f] = Torn]
           /\ inv' = [inv EXCEPT ![i].pc = "fill"]
  <2>1. /\ f \notin sealed /\ UNCHANGED sealed
    BY <1>2 DEF Writable, Open
  <2>2. FileOf(i)' = f /\ ~At(i, "fill")
        /\ \A j \in Invocations : j # i => inv'[j] = inv[j]
    BY <1>0, <1>2 DEF FileOf, Open, At, TypeOK, Invocation
  <2>3. \A g \in sealed : \A j \in Invocations : Holds(j, g)' <=> Holds(j, g)
    BY <2>1, <2>2, OthersHold DEF Holds
  <2>4. Final' = Final /\ f \notin Final
    BY <2>1, <2>3 DEF Final
  <2>5. disk'[f] = Torn /\ Torn \in Contents \ {Absent}
    BY <1>0, <1>2 DEF TypeOK, Torn, Absent, Contents
  <2>6. Promise!Write(f)
    BY <1>2, <2>4, <2>5 DEF Promise!Write
  <2>. QED
    BY <1>0, <2>6 DEF Promise!Next
<1>. QED
  BY <1>1, <1>2 DEF Open

LEMMA FillRefines ==
  ASSUME IInv, NEW i \in Invocations, Fill(i)
  PROVE  Promise!Next
<1>. DEFINE f == FileOf(i)
<1>0. TypeOK /\ inv[i] \in Invocation /\ f \in FilesOnDisk
  BY DEF Fill, At, IInv, TypeOK, Working, Invocation, FileOf, FilesOnDisk, Parts
<1>1. PICK c \in {Whole(inv[i].got), Torn} : disk' = [disk EXCEPT ![f] = c]
  BY DEF Fill, FilledWith
<1>2. disk'[f] = c /\ c \in Contents \ {Absent}
  BY <1>0, <1>1 DEF TypeOK, Torn, Whole, Absent, Contents, Invocation
<1>3. inv'[i].pc # "fill" /\ \A j \in Invocations : j # i => inv'[j] = inv[j]
  BY <1>0 DEF Fill, TypeOK, Invocation
<1>4. Final' = Final \/ Final' = Final \union {f}
  BY <1>3, LetGo DEF Fill
<1>5. f \notin Final
  BY DEF Final, Holds, Fill
<1>6. Promise!Write(f)
  BY <1>1, <1>2, <1>4, <1>5 DEF Promise!Write
<1>. QED
  BY <1>0, <1>6 DEF Promise!Next

LEMMA SealRefines ==
  ASSUME IInv, NEW i \in Invocations, Seal(i)
  PROVE  Promise!Next \/ UNCHANGED <<disk, Final>>
<1>. DEFINE f == FileOf(i)
<1>0. TypeOK /\ inv[i] \in Invocation /\ inv[i].part \in Parts /\ f \in FilesOnDisk
  BY DEF Seal, At, IInv, TypeOK, Working, Invocation, FileOf, FilesOnDisk
<1>1. disk[f] # Absent /\ UNCHANGED disk /\ sealed' = sealed \union {f}
  BY <1>0 DEF Seal, IInv, LocalInv, PresentInv, FileOf
<1>2. inv'[i].pc # "fill" /\ \A j \in Invocations : j # i => inv'[j] = inv[j]
  <2>1. CASE inv' = [inv EXCEPT ![i].part = "manifest"]
    BY <1>0, <2>1 DEF TypeOK, Seal, At, Invocation
  <2>2. CASE Advance(i, "has", "read")
    BY <1>0, <2>2, AdvanceType DEF Phases
  <2>. QED
    BY <2>1, <2>2 DEF Seal
<1>3. \A j \in Invocations : \A g : Holds(j, g)' <=> Holds(j, g)
  BY <1>2, OthersHold DEF Holds, At, Seal
<1>4. Final' = Final \/ Final' = Final \union {f}
  BY <1>1, <1>3 DEF Final
<1>5. CASE Final' = Final
  BY <1>1, <1>5
<1>6. CASE Final' = Final \union {f}
  BY <1>0, <1>1, <1>6 DEF Promise!Next, Promise!Finish
<1>. QED
  BY <1>4, <1>5, <1>6

LEMMA KillRefines ==
  ASSUME IInv, NEW i \in Invocations, Kill(i)
  PROVE  Promise!Next \/ UNCHANGED <<disk, Final>>
<1>0. TypeOK /\ inv'[i].pc = "killed" /\ \A j \in Invocations : j # i => inv'[j] = inv[j]
  BY FailType DEF Kill, IInv
<1>1. CASE At(i, "fill")
  <2>1. FileOf(i) \in FilesOnDisk /\ disk[FileOf(i)] # Absent
    BY <1>1 DEF IInv, LocalInv, PresentInv, TypeOK, Working, Invocation, At,
                FileOf, FilesOnDisk
  <2>2. Final' = Final \/ Final' = Final \union {FileOf(i)}
    BY <1>0, <1>1, LetGo DEF Kill
  <2>. QED
    BY <2>1, <2>2 DEF Kill, Promise!Next, Promise!Finish
<1>2. CASE ~At(i, "fill")
  BY <1>0, <1>2, QuietStutters DEF Kill, At
<1>. QED
  BY <1>1, <1>2

(* The other steps of an invocation neither open nor close a file.           *)
LEMMA QuietFrame ==
  ASSUME TypeOK, NEW i \in Invocations,
         \/ Has(i) \/ Download(i) \/ Unavailable(i) \/ Verify(i) \/ CheckAbsent(i)
         \/ Read(i) \/ StoreDerived(i) \/ Look(i)
  PROVE  /\ inv[i].pc # "fill" /\ inv'[i].pc # "fill"
         /\ \A j \in Invocations : j # i => inv'[j] = inv[j]
         /\ UNCHANGED <<disk, sealed>>
<1>0. inv[i] \in Invocation
  BY DEF TypeOK
<1>1. CASE Has(i)
  <2>1. CASE inv' = [inv EXCEPT ![i].pc = "download"]
    BY <1>0, <1>1, <2>1 DEF Has, At, TypeOK, Invocation
  <2>2. CASE Advance(i, "has", "read")
    BY <1>1, <2>2, AdvanceType DEF Has, At, Phases
  <2>. QED
    BY <1>1, <2>1, <2>2 DEF Has
<1>2. CASE Download(i)
  BY <1>0, <1>2 DEF Download, At, TypeOK, Invocation
<1>3. CASE Unavailable(i)
  BY <1>3, FailType DEF Unavailable, Fail, At
<1>4. CASE Verify(i)
  <2>1. CASE Fail(i)
    BY <1>4, <2>1, FailType DEF Verify, Fail, At
  <2>2. CASE inv' = [inv EXCEPT ![i].pc = "check"]
    BY <1>0, <1>4, <2>2 DEF Verify, At, TypeOK, Invocation
  <2>. QED
    BY <1>4, <2>1, <2>2 DEF Verify
<1>5. CASE CheckAbsent(i)
  <2>1. CASE Fail(i)
    BY <1>5, <2>1, FailType DEF CheckAbsent, Fail, At
  <2>2. CASE inv' = [inv EXCEPT ![i].pc = "open", ![i].part = "payload"]
    BY <1>0, <1>5, <2>2 DEF CheckAbsent, At, TypeOK, Invocation
  <2>. QED
    BY <1>5, <2>1, <2>2 DEF CheckAbsent
<1>6. CASE Read(i)
  <2> DEFINE m == inv[i].month
             read == [inv EXCEPT ![i].bars[m] = disk[Payload(m)].version]
  <2>1. /\ read \in [Invocations -> Invocation] /\ read[i].pc = "read"
        /\ \A j \in Invocations : j # i => read[j] = inv[j]
    <3>1. m \in Months
      BY <1>0, <1>6 DEF Read, At, TypeOK, Working, Invocation
    <3>2. disk[Payload(m)].version \in Nat
      BY <3>1 DEF TypeOK, Payload, FilesOnDisk, Parts, Contents
    <3>. QED
      BY <1>0, <1>6, <3>1, <3>2 DEF Read, At, TypeOK, Invocation
  <2> HIDE DEF read
  <2>2. CASE Fail(i)
    BY <1>6, <2>2, FailType DEF Read, Fail, At
  <2>3. CASE inv' = [read EXCEPT ![i].pc = "store"]
    BY <1>6, <2>1, <2>3 DEF Read, At, Invocation
  <2>4. CASE \E n \in Later(i) : inv' = [read EXCEPT ![i].month = n]
    BY <1>6, <2>1, <2>4 DEF Read, At, Invocation
  <2>. QED
    BY <1>6, <2>2, <2>3, <2>4 DEF Read, read
<1>7. CASE StoreDerived(i)
  <2>1. PICK phase \in {"done", "failed"} : inv' = [inv EXCEPT ![i] = Idle(phase)]
    BY <1>7 DEF StoreDerived, Fail
  <2>. QED
    BY <1>7, <2>1, FailType DEF StoreDerived, At
<1>8. CASE Look(i)
  BY <1>8, LookMoves, FailType DEF Look
<1>. QED
  BY <1>1, <1>2, <1>3, <1>4, <1>5, <1>6, <1>7, <1>8

LEMMA NextRefines ==
  IInv /\ [Next]_vars => [Promise!Next]_<<disk, Final>>
<1>. SUFFICES ASSUME IInv, [Next]_vars
              PROVE  Promise!Next \/ UNCHANGED <<disk, Final>>
  OBVIOUS
<1>0. TypeOK
  BY DEF IInv
<1>1. ASSUME NEW i \in Invocations, NEW command \in Commands, Start(i, command)
      PROVE  UNCHANGED <<disk, Final>>
  <2>1. inv[i].pc # "fill" /\ inv'[i].pc # "fill" /\ \A j \in Invocations : j # i => inv'[j] = inv[j]
    BY <1>0, <1>1, StartMoves
  <2>. QED
    BY <1>1, <2>1, QuietStutters DEF Start
<1>2. ASSUME NEW i \in Invocations, Step(i)
      PROVE  Promise!Next \/ UNCHANGED <<disk, Final>>
  BY <1>0, <1>2, QuietFrame, QuietStutters, OpenRefines, FillRefines, SealRefines DEF Step
<1>3. ASSUME NEW i \in Invocations, Kill(i)
      PROVE  Promise!Next \/ UNCHANGED <<disk, Final>>
  BY <1>3, KillRefines
<1>4. ASSUME NEW m \in Months, Publish(m)
      PROVE  UNCHANGED <<disk, Final>>
  BY <1>4 DEF Publish, Final, Holds, At, FileOf
<1>5. CASE UNCHANGED vars
  BY <1>5 DEF vars, Final, Holds, At, FileOf
<1>. QED
  BY <1>1, <1>2, <1>3, <1>4, <1>5 DEF Next

(* The raw layer keeps the promise of write-once for every file that is      *)
(* read-only and let go of, for any number of racing and dying invocations.  *)
THEOREM RawLayerWritesOnce == Spec => ImplementsWriteOnce
<1>1. ImplementsWriteOnce <=> Promise!Init /\ [][Promise!Next]_<<disk, Final>>
  BY DEF ImplementsWriteOnce, Promise!Spec
<1>. QED
  BY <1>1, InitInv, NextInv, InitRefines, NextRefines, PTL DEF Spec

-----------------------------------------------------------------------------
(* Torn files *)

(* Only a whole file is of a version. *)
ContentInv == \A f \in FilesOnDisk : disk[f].state # "whole" => disk[f] \in {Absent, Torn}

(* A file that was not opened just now is torn only where it already was, and *)
(* the cause, a writer at work, a kill or a second version, is still there.   *)
LEMMA TornAsBefore ==
  ASSUME TypeOK, OnlyDeathTears, NEW i \in Invocations,
         \A j \in Invocations : j # i => inv'[j] = inv[j],
         inv[i].pc # "killed", UNCHANGED published,
         NEW f \in FilesOnDisk, ~Holds(i, f), disk'[f] = disk[f], disk'[f] = Torn
  PROVE  \/ \E j \in Invocations : Holds(j, f)' \/ At(j, "killed")'
         \/ published'[f[1]] > 1
<1>1. CASE \E j \in Invocations : Holds(j, f) \/ At(j, "killed")
  <2>1. PICK j \in Invocations : Holds(j, f) \/ At(j, "killed")
    BY <1>1
  <2>2. j # i
    BY <2>1 DEF At
  <2>3. inv'[j] = inv[j]
    BY <2>2
  <2>4. Holds(j, f)' \/ At(j, "killed")'
    BY <2>1, <2>3 DEF Holds, At, FileOf
  <2>. QED
    BY <2>4
<1>2. CASE published[f[1]] > 1
  BY <1>2
<1>. QED
  BY <1>1, <1>2 DEF OnlyDeathTears

LEMMA QuietTears ==
  ASSUME TypeOK, ContentInv, OnlyDeathTears, NEW i \in Invocations,
         \A j \in Invocations : j # i => inv'[j] = inv[j],
         inv[i].pc \notin {"fill", "killed"}, UNCHANGED <<published, disk>>
  PROVE  ContentInv' /\ OnlyDeathTears'
<1>1. \A f \in FilesOnDisk : ~Holds(i, f)
  BY DEF Holds, At
<1>2. ContentInv'
  BY DEF ContentInv
<1>3. ASSUME NEW f \in FilesOnDisk, disk'[f] = Torn
      PROVE  \/ \E j \in Invocations : Holds(j, f)' \/ At(j, "killed")'
             \/ published'[f[1]] > 1
  BY <1>1, <1>3, TornAsBefore
<1>. QED
  BY <1>2, <1>3 DEF OnlyDeathTears

(* Opening a file tears it, and the one who opened it is at work on it.      *)
LEMMA OpenTears ==
  ASSUME IInv, ContentInv, OnlyDeathTears, NEW i \in Invocations, Open(i)
  PROVE  ContentInv' /\ OnlyDeathTears'
<1>. DEFINE g == FileOf(i)
<1>0. TypeOK /\ inv[i] \in Invocation /\ g \in FilesOnDisk /\ inv[i].pc = "open"
  BY DEF Open, At, IInv, TypeOK, Working, Invocation, FileOf, FilesOnDisk, Parts
<1>1. CASE Fail(i) /\ UNCHANGED disk
  BY <1>0, <1>1, FailType, QuietTears DEF Open, Fail
<1>2. CASE /\ disk' = [disk EXCEPT ![g] = Torn]
           /\ inv' = [inv EXCEPT ![i].pc = "fill"]
  <2>1. /\ disk'[g] = Torn /\ \A f \in FilesOnDisk : f # g => disk'[f] = disk[f]
        /\ \A j \in Invocations : j # i => inv'[j] = inv[j]
    BY <1>0, <1>2 DEF TypeOK
  <2>2. ASSUME NEW f \in FilesOnDisk, f = g PROVE Holds(i, f)'
    BY <1>0, <1>2, <2>2 DEF Holds, At, FileOf, TypeOK, Invocation
  <2>3. ASSUME NEW f \in FilesOnDisk, disk'[f] = Torn, f # g
        PROVE  \/ \E j \in Invocations : Holds(j, f)' \/ At(j, "killed")'
               \/ published'[f[1]] > 1
    BY <1>0, <2>1, <2>3, TornAsBefore DEF Holds, At, Open
  <2>4. ContentInv'
    BY <2>1 DEF ContentInv
  <2>. QED
    BY <2>2, <2>3, <2>4 DEF OnlyDeathTears
<1>. QED
  BY <1>1, <1>2 DEF Open

(* Filling a file leaves it torn only over another version than one's own,   *)
(* and two versions were verified only if two were published.                *)
LEMMA FillTears ==
  ASSUME IInv, ContentInv, OnlyDeathTears, NEW i \in Invocations, Fill(i)
  PROVE  ContentInv' /\ OnlyDeathTears'
<1>. DEFINE g == FileOf(i)
<1>0. /\ TypeOK /\ inv[i] \in Invocation /\ inv[i].month \in Months
      /\ g \in FilesOnDisk /\ g[1] = inv[i].month /\ inv[i].pc = "fill"
      /\ LocalInv(i) /\ StoredIsVerified
  BY DEF Fill, At, IInv, TypeOK, Working, Invocation, FileOf, FilesOnDisk, Parts
<1>1. PICK c \in FilledWith(g, inv[i].got) : disk' = [disk EXCEPT ![g] = c]
  BY DEF Fill
<1>2. disk'[g] = c /\ \A f \in FilesOnDisk : f # g => disk'[f] = disk[f]
  BY <1>0, <1>1 DEF TypeOK
<1>3. \A j \in Invocations : j # i => inv'[j] = inv[j]
  BY <1>0 DEF Fill, TypeOK
<1>4. ContentInv'
  BY <1>2 DEF ContentInv, FilledWith, Whole
<1>5. ASSUME c = Torn PROVE published'[g[1]] > 1
  <2>1. disk[g] \notin {Torn, Whole(inv[i].got)}
    BY <1>5 DEF FilledWith, Torn, Whole
  <2>2. disk[g] # Absent
    BY <1>0 DEF LocalInv, PresentInv, At
  <2>3. disk[g].state = "whole"
    BY <1>0, <2>1, <2>2 DEF ContentInv
  <2>4. disk[g] = Whole(disk[g].version)
    BY <1>0, <2>3 DEF TypeOK, Contents, Whole
  <2>5. /\ disk[g].version # inv[i].got
        /\ disk[g].version \in 1 .. published[g[1]]
        /\ inv[i].got \in 1 .. published[g[1]]
    BY <1>0, <2>1, <2>3, <2>4 DEF StoredIsVerified, LocalInv, FetchInv
  <2>6. published[g[1]] \in Nat /\ published' = published
    BY <1>0 DEF TypeOK, Fill
  <2>. QED
    BY <2>5, <2>6
<1>6. ASSUME NEW f \in FilesOnDisk, disk'[f] = Torn, f # g
      PROVE  \/ \E j \in Invocations : Holds(j, f)' \/ At(j, "killed")'
             \/ published'[f[1]] > 1
  BY <1>0, <1>2, <1>3, <1>6, TornAsBefore DEF Holds, Fill
<1>. QED
  BY <1>2, <1>4, <1>5, <1>6 DEF OnlyDeathTears

LEMMA SealFrame ==
  ASSUME TypeOK, NEW i \in Invocations, Seal(i)
  PROVE  /\ inv[i].pc = "seal"
         /\ inv'[i].pc \in {"seal", "has", "read"}
         /\ \A j \in Invocations : j # i => inv'[j] = inv[j]
<1>1. CASE inv' = [inv EXCEPT ![i].part = "manifest"]
  BY <1>1 DEF TypeOK, Seal, At, Invocation
<1>2. CASE Advance(i, "has", "read")
  BY <1>2, AdvanceType DEF Phases, Seal, At
<1>. QED
  BY <1>1, <1>2 DEF Seal

LEMMA NextTears ==
  IInv /\ ContentInv /\ OnlyDeathTears /\ [Next]_vars => ContentInv' /\ OnlyDeathTears'
<1>. SUFFICES ASSUME IInv, ContentInv, OnlyDeathTears, [Next]_vars
              PROVE  ContentInv' /\ OnlyDeathTears'
  OBVIOUS
<1>0. TypeOK
  BY DEF IInv
<1>1. ASSUME NEW i \in Invocations, NEW command \in Commands, Start(i, command)
      PROVE  ContentInv' /\ OnlyDeathTears'
  <2>1. inv[i].pc = "unborn" /\ inv'[i].pc # "fill" /\ \A j \in Invocations : j # i => inv'[j] = inv[j]
    BY <1>0, <1>1, StartMoves
  <2>. QED
    BY <1>0, <1>1, <2>1, QuietTears DEF Start
<1>2. ASSUME NEW i \in Invocations, Step(i)
      PROVE  ContentInv' /\ OnlyDeathTears'
  <2>1. CASE Open(i)
    BY <2>1, OpenTears
  <2>2. CASE Fill(i)
    BY <2>2, FillTears
  <2>3. CASE Seal(i)
    BY <1>0, <2>3, SealFrame, QuietTears DEF Seal
  <2>4. CASE \/ Has(i) \/ Download(i) \/ Unavailable(i) \/ Verify(i) \/ CheckAbsent(i)
             \/ Read(i) \/ StoreDerived(i) \/ Look(i)
    <3>1. inv[i].pc # "killed" /\ UNCHANGED published
      BY <2>4 DEF Has, Download, Unavailable, Verify, CheckAbsent, Read, StoreDerived, Look,
                  Looking, At
    <3>. QED
      BY <1>0, <2>4, <3>1, QuietFrame, QuietTears
  <2>. QED
    BY <1>2, <2>1, <2>2, <2>3, <2>4 DEF Step
<1>3. ASSUME NEW i \in Invocations, Kill(i)
      PROVE  ContentInv' /\ OnlyDeathTears'
  <2>1. At(i, "killed")'
    BY <1>0, <1>3, FailType DEF Kill, At
  <2>. QED
    BY <1>3, <2>1 DEF Kill, ContentInv, OnlyDeathTears
<1>4. ASSUME NEW m \in Months, Publish(m)
      PROVE  ContentInv' /\ OnlyDeathTears'
  <2>1. ContentInv'
    BY <1>4 DEF Publish, ContentInv
  <2>2. ASSUME NEW f \in FilesOnDisk, published[f[1]] > 1 PROVE published'[f[1]] > 1
    <3>1. f[1] \in Months
      BY DEF FilesOnDisk
    <3>. QED
      BY <1>0, <1>4, <2>2, <3>1 DEF Publish, TypeOK
  <2>. QED
    BY <1>4, <2>1, <2>2 DEF Publish, OnlyDeathTears, Holds, At, FileOf
<1>5. CASE UNCHANGED vars
  BY <1>5 DEF vars, ContentInv, OnlyDeathTears, Holds, At, FileOf
<1>. QED
  BY <1>1, <1>2, <1>3, <1>4, <1>5 DEF Next

(* No failed fetch, refused check or other writer's file leaves a torn file  *)
(* behind: that takes a kill, or two versions of the same month.             *)
THEOREM OnlyKillsAndRacesTear == Spec => []OnlyDeathTears
<1>1. Init => ContentInv /\ OnlyDeathTears
  BY DEF Init, ContentInv, OnlyDeathTears, Absent, Torn
<1>. QED
  BY <1>1, InitInv, NextInv, NextTears, PTL DEF Spec

-----------------------------------------------------------------------------
(* The derived bars *)

(* An invocation has read the months before the one it is at, all of them    *)
(* when it stores, none before it reads, each in a published version.        *)
BarsOf(i) == {m \in Months : inv[i].bars[m] # 0}
BarsInv(i) ==
  /\ \A m \in Months : inv[i].bars[m] <= published[m]
  /\ BarsOf(i) = CASE At(i, "read") -> {m \in inv[i].months : m < inv[i].month}
                   [] At(i, "store") -> inv[i].months
                   [] OTHER -> {}

DInv == DerivedHasNoHoles /\ \A i \in Invocations : BarsInv(i)

LEMMA OthersKeepTheirBars ==
  ASSUME NEW j \in Invocations, inv'[j] = inv[j], BarsInv(j),
         UNCHANGED published
  PROVE  BarsInv(j)'
BY DEF BarsInv, BarsOf, At

(* A step that reads no bar and does not move an invocation past what it has *)
(* read leaves what it read.                                                 *)
LEMMA NoBarRead ==
  ASSUME TypeOK, DInv, NEW i \in Invocations,
         \A j \in Invocations : j # i => inv'[j] = inv[j],
         BarsInv(i)', UNCHANGED <<published, derived>>
  PROVE  DInv'
<1>1. \A j \in Invocations : BarsInv(j)'
  BY OthersKeepTheirBars DEF DInv
<1>2. DerivedHasNoHoles'
  BY DEF DInv, DerivedHasNoHoles
<1>. QED
  BY <1>1, <1>2 DEF DInv

(* Ending drops what was read. *)
LEMMA EndedBars ==
  ASSUME TypeOK, TypeOK', NEW i \in Invocations, NEW phase \in {"done", "failed", "killed"},
         inv' = [inv EXCEPT ![i] = Idle(phase)]
  PROVE  BarsInv(i)'
<1>1. inv'[i] = Idle(phase)
  BY DEF TypeOK
<1>2. inv'[i].pc = phase /\ \A m \in Months : inv'[i].bars[m] = 0
  BY <1>1 DEF Idle, NoBars
<1>3. BarsOf(i)' = {} /\ ~At(i, "read")' /\ ~At(i, "store")'
  BY <1>2 DEF BarsOf, At
<1>4. \A m \in Months : inv'[i].bars[m] <= published'[m]
  BY <1>2 DEF TypeOK
<1>. QED
  BY <1>3, <1>4 DEF BarsInv

(* Before the reading there are no bars, and it starts at the first month. *)
LEMMA BarsBeforeReading ==
  ASSUME TypeOK, DInv, NEW i \in Invocations, inv[i].pc \notin {"read", "store"},
         inv'[i].bars = inv[i].bars, inv'[i].pc # "store", UNCHANGED published,
         inv'[i].pc = "read" => \A m \in inv'[i].months : inv'[i].month <= m,
         inv'[i].months \subseteq Months,
         inv'[i].pc = "read" => inv'[i].month \in Months
  PROVE  BarsInv(i)'
<1>1. BarsInv(i) /\ BarsOf(i) = {}
  BY DEF DInv, BarsInv, At
<1>2. BarsOf(i)' = {}
  BY <1>1 DEF BarsOf
<1>3. ASSUME inv'[i].pc = "read"
      PROVE  {m \in inv'[i].months : m < inv'[i].month} = {}
  BY <1>3, RawStoreAssumption DEF Months
<1>4. CASE inv'[i].pc = "read"
  BY <1>1, <1>2, <1>3, <1>4 DEF BarsInv, At
<1>5. CASE inv'[i].pc # "read"
  BY <1>1, <1>2, <1>5 DEF BarsInv, At
<1>. QED
  BY <1>4, <1>5

LEMMA AdvanceBars ==
  ASSUME TypeOK, DInv, NEW i \in Invocations, inv[i].pc \in {"has", "seal"},
         Advance(i, "has", "read"), UNCHANGED published
  PROVE  BarsInv(i)'
<1>0. inv[i] \in Invocation /\ inv[i].months \subseteq Months
  BY DEF TypeOK, Invocation
<1>1. CASE \E m \in Later(i) :
         inv' = [inv EXCEPT ![i].pc = "has", ![i].month = m, ![i].part = "payload"]
  <2>1. inv'[i].bars = inv[i].bars /\ inv'[i].pc = "has" /\ inv'[i].months = inv[i].months
    BY <1>0, <1>1 DEF TypeOK, Invocation
  <2>. QED
    BY <1>0, <2>1, BarsBeforeReading
<1>2. CASE \E m \in inv[i].months : IsFirst(m, inv[i].months) /\
         inv' = [inv EXCEPT ![i].pc = "read", ![i].month = m, ![i].part = "payload"]
  <2>1. PICK m \in inv[i].months : IsFirst(m, inv[i].months) /\
         inv' = [inv EXCEPT ![i].pc = "read", ![i].month = m, ![i].part = "payload"]
    BY <1>2
  <2>2. /\ inv'[i].bars = inv[i].bars /\ inv'[i].pc = "read"
        /\ inv'[i].months = inv[i].months /\ inv'[i].month = m
    BY <1>0, <2>1 DEF TypeOK, Invocation
  <2>. QED
    BY <1>0, <2>1, <2>2, BarsBeforeReading DEF IsFirst
<1>. QED
  BY <1>1, <1>2 DEF Advance

LEMMA LookBars ==
  ASSUME TypeOK, TypeOK', DInv, NEW i \in Invocations, Look(i)
  PROVE  BarsInv(i)'
<1>1. UNCHANGED published /\ inv[i].pc \in {"list", "scan"}
      /\ inv[i].months \subseteq Months
  BY LookMoves DEF Look, TypeOK, Invocation
<1>2. CASE inv' = [inv EXCEPT ![i] = Idle("failed")]
  BY <1>2, EndedBars
<1>3. CASE inv' # [inv EXCEPT ![i] = Idle("failed")]
  <2>1. /\ inv'[i].months \subseteq Months /\ inv'[i].bars = inv[i].bars
        /\ inv'[i].pc \in {"list", "scan", "has", "read"}
        /\ inv'[i].pc = "read" => IsFirst(inv'[i].month, inv'[i].months)
    BY <1>1, <1>3, LookMoves
  <2>. QED
    BY <1>1, <2>1, BarsBeforeReading DEF IsFirst
<1>. QED
  BY <1>2, <1>3

(* The month just read joins the months before it, and they are all the      *)
(* months before the next one.                                               *)
LEMMA ReadBars ==
  ASSUME IInv, DInv, TypeOK', NEW i \in Invocations, Read(i)
  PROVE  BarsInv(i)'
<1> DEFINE m == inv[i].month
           read == [inv EXCEPT ![i].bars[m] = disk[Payload(m)].version]
<1>0. /\ TypeOK /\ inv[i] \in Invocation /\ m \in Months /\ m \in inv[i].months
      /\ Payload(m) \in FilesOnDisk /\ Payload(m)[1] = m
      /\ published' = published /\ inv[i].pc = "read" /\ inv[i].months \subseteq Months
  BY DEF Read, At, IInv, TypeOK, Working, Invocation, Payload, FilesOnDisk, Parts
<1>1. CASE Fail(i)
  BY <1>0, <1>1, EndedBars DEF Fail
<1>2. CASE /\ disk[Payload(m)].state = "whole"
           /\ \/ Later(i) = {} /\ inv' = [read EXCEPT ![i].pc = "store"]
              \/ \E n \in Later(i) : IsFirst(n, Later(i)) /\
                   inv' = [read EXCEPT ![i].month = n]
  <2>1. disk[Payload(m)].version \in 1 .. published[m] /\ published[m] \in Nat
    BY <1>0, <1>2 DEF IInv, StoredIsVerified, TypeOK
  <2>2. /\ read[i].months = inv[i].months /\ read[i].pc = "read"
        /\ read[i].bars = [inv[i].bars EXCEPT ![m] = disk[Payload(m)].version]
        /\ read \in [Invocations -> Invocation]
    BY <1>0, <2>1 DEF TypeOK, Invocation
  <2> HIDE DEF read
  <2>3. inv'[i].bars = read[i].bars /\ inv'[i].months = inv[i].months
    BY <1>2, <2>2 DEF Invocation
  <2>4. /\ inv[i].bars \in [Months -> Nat]
        /\ inv'[i].bars[m] = disk[Payload(m)].version
        /\ \A k \in Months : k # m => inv'[i].bars[k] = inv[i].bars[k]
    BY <1>0, <2>2, <2>3 DEF Invocation
  <2>5. \A k \in Months : inv'[i].bars[k] <= published'[k]
    BY <1>0, <2>1, <2>4 DEF DInv, BarsInv
  <2>6. BarsOf(i) = {k \in inv[i].months : k < m}
    BY <1>0 DEF DInv, BarsInv, At
  <2>7. BarsOf(i)' = {k \in Months : k = m \/ k \in BarsOf(i)}
    BY <1>0, <2>1, <2>4 DEF BarsOf
  <2>8. BarsOf(i)' = {k \in inv[i].months : k < m \/ k = m}
    BY <1>0, <2>6, <2>7
  <2>9. \A k \in inv[i].months : k \in Nat
    BY <1>0, RawStoreAssumption DEF Months
  <2>10. CASE Later(i) = {} /\ inv' = [read EXCEPT ![i].pc = "store"]
    <3>1. At(i, "store")' /\ ~At(i, "read")'
      BY <2>2, <2>10 DEF At, Invocation
    <3>2. \A k \in inv[i].months : k < m \/ k = m
      BY <1>0, <2>9, <2>10 DEF Later
    <3>3. BarsOf(i)' = inv'[i].months
      BY <2>3, <2>8, <3>2
    <3>. QED
      BY <2>5, <3>1, <3>3 DEF BarsInv
  <2>11. CASE \E n \in Later(i) : IsFirst(n, Later(i)) /\ inv' = [read EXCEPT ![i].month = n]
    <3>1. PICK n \in Later(i) : IsFirst(n, Later(i)) /\ inv' = [read EXCEPT ![i].month = n]
      BY <2>11
    <3>2. inv'[i].month = n /\ At(i, "read")' /\ ~At(i, "store")'
      BY <2>2, <3>1 DEF At, Invocation
    <3>3. n \in inv[i].months /\ n > m
      BY <3>1 DEF Later
    <3>4. \A k \in inv[i].months : (k < m \/ k = m) <=> k < n
      BY <1>0, <2>9, <3>1, <3>3 DEF IsFirst, Later
    <3>5. BarsOf(i)' = {k \in inv'[i].months : k < inv'[i].month}
      BY <2>3, <2>8, <3>2, <3>4
    <3>. QED
      BY <2>5, <3>2, <3>5 DEF BarsInv
  <2>. QED
    BY <1>2, <2>10, <2>11
<1>. QED
  BY <1>1, <1>2 DEF Read

(* What is stored is what was read: every month it had to, without a hole.   *)
LEMMA StoreBars ==
  ASSUME TypeOK, DInv, TypeOK', NEW i \in Invocations, StoreDerived(i)
  PROVE  DInv'
<1>0. inv[i].pc = "store" /\ published' = published
  BY DEF StoreDerived, At
<1>1. CASE Fail(i) /\ UNCHANGED derived
  BY <1>0, <1>1, FailType, EndedBars, NoBarRead DEF Fail
<1>2. CASE /\ Contiguous(inv[i].months)
           /\ derived' = inv[i].bars /\ inv' = [inv EXCEPT ![i] = Idle("done")]
  <2>1. BarsOf(i) = inv[i].months /\ \A m \in Months : inv[i].bars[m] <= published[m]
    BY <1>0 DEF DInv, BarsInv, At
  <2>2. {m \in Months : derived'[m] # 0} = inv[i].months
    BY <1>2, <2>1 DEF BarsOf
  <2>3. DerivedHasNoHoles'
    BY <1>0, <1>2, <2>1, <2>2 DEF DerivedHasNoHoles, Contiguous
  <2>4. \A j \in Invocations : BarsInv(j)'
    BY <1>0, <1>2, FailType, EndedBars, OthersKeepTheirBars DEF DInv
  <2>. QED
    BY <2>3, <2>4 DEF DInv
<1>. QED
  BY <1>1, <1>2 DEF StoreDerived

LEMMA StepBars ==
  ASSUME IInv, DInv, TypeOK', NEW i \in Invocations, Step(i)
  PROVE  DInv'
<1>0. TypeOK /\ inv[i] \in Invocation /\ inv[i].months \subseteq Months
  BY DEF IInv, TypeOK, Invocation
<1>1. CASE Has(i)
  <2>1. CASE inv' = [inv EXCEPT ![i].pc = "download"]
    <3>1. /\ inv'[i].bars = inv[i].bars /\ inv'[i].pc = "download"
          /\ inv'[i].months = inv[i].months
      BY <1>0, <2>1 DEF TypeOK, Invocation
    <3>2. BarsInv(i)'
      BY <1>0, <1>1, <3>1, BarsBeforeReading DEF Has, At
    <3>. QED
      BY <1>0, <1>1, <3>2, QuietFrame, NoBarRead DEF Has
  <2>2. CASE Advance(i, "has", "read")
    BY <1>0, <1>1, <2>2, AdvanceBars, QuietFrame, NoBarRead DEF Has, At
  <2>. QED
    BY <1>1, <2>1, <2>2 DEF Has
<1>2. CASE Seal(i)
  <2>1. CASE inv' = [inv EXCEPT ![i].part = "manifest"]
    <3>1. /\ inv'[i].bars = inv[i].bars /\ inv'[i].pc = "seal"
          /\ inv'[i].months = inv[i].months
      BY <1>0, <1>2, <2>1 DEF TypeOK, Invocation, Seal, At
    <3>2. BarsInv(i)'
      BY <1>0, <1>2, <3>1, BarsBeforeReading DEF Seal, At
    <3>. QED
      BY <1>0, <1>2, <3>2, SealFrame, NoBarRead DEF Seal
  <2>2. CASE Advance(i, "has", "read")
    BY <1>0, <1>2, <2>2, AdvanceBars, SealFrame, NoBarRead DEF Seal, At
  <2>. QED
    BY <1>2, <2>1, <2>2 DEF Seal
<1>3. CASE /\ inv[i].pc \notin {"read", "store", "unborn"}
           /\ \/ Download(i) \/ Unavailable(i) \/ Verify(i) \/ CheckAbsent(i)
              \/ Open(i) \/ Fill(i)
  <2>1. UNCHANGED <<published, derived>>
    BY <1>3 DEF Download, Unavailable, Verify, CheckAbsent, Open, Fill
  <2>2. CASE Fail(i)
    <3>1. \A j \in Invocations : j # i => inv'[j] = inv[j]
      BY <1>0, <2>2, FailType DEF Fail
    <3>. QED
      BY <1>0, <2>1, <2>2, <3>1, EndedBars, NoBarRead DEF Fail
  <2>3. CASE ~Fail(i)
    <3>1. /\ inv'[i].bars = inv[i].bars /\ inv'[i].months = inv[i].months
          /\ inv'[i].pc \notin {"read", "store"}
          /\ \A j \in Invocations : j # i => inv'[j] = inv[j]
      <4>1. CASE Download(i)
        BY <1>0, <4>1 DEF Download, TypeOK, Invocation
      <4>2. CASE Verify(i) \/ CheckAbsent(i)
        BY <1>0, <2>3, <4>2 DEF Verify, CheckAbsent, TypeOK, Invocation
      <4>3. CASE Open(i)
        BY <1>0, <2>3, <4>3 DEF Open, TypeOK, Invocation
      <4>4. CASE Fill(i)
        BY <1>0, <4>4 DEF Fill, TypeOK, Invocation
      <4>. QED
        BY <1>3, <2>3, <4>1, <4>2, <4>3, <4>4 DEF Unavailable
    <3>2. BarsInv(i)'
      BY <1>0, <1>3, <2>1, <3>1, BarsBeforeReading
    <3>. QED
      BY <1>0, <2>1, <3>1, <3>2, NoBarRead
  <2>. QED
    BY <2>2, <2>3
<1>4. CASE Read(i)
  BY <1>0, <1>4, ReadBars, QuietFrame, NoBarRead DEF Read
<1>5. CASE StoreDerived(i)
  BY <1>0, <1>5, StoreBars
<1>6. ASSUME Download(i) \/ Unavailable(i) \/ Verify(i) \/ CheckAbsent(i) \/ Open(i) \/ Fill(i)
      PROVE  inv[i].pc \notin {"read", "store", "unborn"}
  BY <1>6 DEF Download, Unavailable, Verify, CheckAbsent, Open, Fill, At
<1>7. CASE Look(i)
  BY <1>0, <1>7, LookBars, QuietFrame, NoBarRead DEF Look
<1>. QED
  BY <1>1, <1>2, <1>3, <1>4, <1>5, <1>6, <1>7 DEF Step

LEMMA NextBars == IInv /\ DInv /\ [Next]_vars => DInv'
<1>. SUFFICES ASSUME IInv, DInv, [Next]_vars PROVE DInv'
  OBVIOUS
<1>0. TypeOK /\ TypeOK'
  BY NextType DEF IInv
<1>1. ASSUME NEW i \in Invocations, NEW command \in Commands, Start(i, command)
      PROVE  DInv'
  <2>1. BarsInv(i)'
    BY <1>0, <1>1, StartMoves, BarsBeforeReading DEF Start
  <2>. QED
    BY <1>0, <1>1, <2>1, StartMoves, NoBarRead DEF Start
<1>2. ASSUME NEW i \in Invocations, Step(i)
      PROVE  DInv'
  BY <1>0, <1>2, StepBars
<1>3. ASSUME NEW i \in Invocations, Kill(i)
      PROVE  DInv'
  BY <1>0, <1>3, FailType, EndedBars, NoBarRead DEF Kill
<1>4. ASSUME NEW m \in Months, Publish(m)
      PROVE  DInv'
  <2>1. \A k \in Months : /\ published[k] \in Nat /\ published'[k] \in Nat
                         /\ published[k] <= published'[k]
    BY <1>0, <1>4 DEF Publish, TypeOK
  <2>2. derived' = derived /\ inv' = inv /\ derived \in [Months -> Nat]
        /\ \A j \in Invocations : inv[j].bars \in [Months -> Nat]
    BY <1>0, <1>4 DEF Publish, TypeOK, Invocation
  <2>3. DerivedHasNoHoles'
    BY <2>1, <2>2 DEF DInv, DerivedHasNoHoles
  <2>4. ASSUME NEW j \in Invocations PROVE BarsInv(j)'
    <3>1. BarsInv(j) /\ BarsOf(j)' = BarsOf(j)
          /\ \A k \in Months : inv[j].bars[k] \in Nat
      BY <2>2 DEF DInv, BarsOf
    <3>2. \A k \in Months : inv'[j].bars[k] <= published'[k]
      BY <2>1, <2>2, <3>1 DEF BarsInv
    <3>. QED
      BY <2>2, <3>1, <3>2 DEF BarsInv, At
  <2>. QED
    BY <2>3, <2>4 DEF DInv
<1>5. CASE UNCHANGED vars
  <2>1. \A j \in Invocations : BarsInv(j)'
    BY <1>5 DEF vars, DInv, BarsInv, BarsOf, At
  <2>. QED
    BY <1>5, <2>1 DEF vars, DInv, DerivedHasNoHoles
<1>. QED
  BY <1>1, <1>2, <1>3, <1>4, <1>5 DEF Next

(* Whoever races, dies or publishes again: the derived bars are a run of     *)
(* months without a hole, each in a version the archive published.           *)
THEOREM BarsHaveNoHoles == Spec => []DerivedHasNoHoles
<1>1. Init => DInv
  <2>. SUFFICES ASSUME Init PROVE DInv
    OBVIOUS
  <2>1. \A m \in Months : NoBars[m] = 0
    BY DEF NoBars
  <2>2. DerivedHasNoHoles
    BY <2>1 DEF Init, DerivedHasNoHoles, Contiguous
  <2>3. ASSUME NEW i \in Invocations PROVE BarsInv(i)
    <3>1. inv[i].bars = NoBars /\ inv[i].pc = "unborn" /\ published = [m \in Months |-> 0]
      BY DEF Init, Idle
    <3>2. BarsOf(i) = {}
      BY <2>1, <3>1 DEF BarsOf
    <3>. QED
      BY <2>1, <3>1, <3>2 DEF BarsInv, At
  <2>. QED
    BY <2>2, <2>3 DEF DInv
<1>2. DInv => DerivedHasNoHoles
  BY DEF DInv
<1>. QED
  BY <1>1, <1>2, InitInv, NextInv, NextBars, PTL DEF Spec
-----------------------------------------------------------------------------
(* A load runs down.  What can be proved of "every load ends": an           *)
(* invocation has a number of steps left that no other invocation, no       *)
(* publication and no kill can raise, and that each step of its own lowers. *)
Fetching == {"has", "download", "verify", "check", "open", "fill", "seal"}
MonthsLeft(i) == Cardinality(Later(i))

(* System calls left for the month at hand. *)
CallsLeft(i) ==
  LET calls == IF inv[i].part = "payload"
                 THEN [has |-> 9, download |-> 8, verify |-> 7, check |-> 6,
                       open |-> 5, fill |-> 4, seal |-> 1]
                 ELSE [has |-> 9, download |-> 8, verify |-> 7, check |-> 6,
                       open |-> 3, fill |-> 2, seal |-> 0]
  IN  calls[inv[i].pc]

(* The months are gone through up to three times: looked up, fetched, read. *)
StepsLeft(i) ==
  IF inv[i].pc \in {"list", "scan"}
    THEN MonthsLeft(i) + 11 * Cardinality(inv[i].months) + 2
  ELSE IF inv[i].pc \in Fetching
    THEN 10 * MonthsLeft(i) + CallsLeft(i) + Cardinality(inv[i].months) + 2
    ELSE IF At(i, "read") THEN MonthsLeft(i) + 2
    ELSE IF At(i, "store") THEN 1
    ELSE 0

(* A set that lacks one of another's members is smaller. *)
LEMMA OneFewer ==
  ASSUME NEW S \in SUBSET Months, NEW T \in SUBSET S, NEW b \in S, b \notin T
  PROVE  /\ Cardinality(S) \in Nat /\ Cardinality(T) \in Nat
         /\ Cardinality(T) + 1 <= Cardinality(S)
<1>1. IsFiniteSet(Months)
  BY FS_Interval, RawStoreAssumption DEF Months
<1>2. IsFiniteSet(S)
  BY <1>1, FS_Subset
<1>3. IsFiniteSet(S \ {b}) /\ Cardinality(S \ {b}) = Cardinality(S) - 1
  BY <1>2, FS_RemoveElement
<1>4. T \in SUBSET (S \ {b})
  OBVIOUS
<1>5. IsFiniteSet(T) /\ Cardinality(T) <= Cardinality(S \ {b})
  BY <1>3, <1>4, FS_Subset
<1>6. Cardinality(S) \in Nat /\ Cardinality(T) \in Nat
  BY <1>2, <1>5, FS_CardinalityType
<1>. QED
  BY <1>3, <1>5, <1>6

LEMMA StepsAreCounted ==
  ASSUME TypeOK, NEW i \in Invocations
  PROVE  /\ MonthsLeft(i) \in Nat /\ Cardinality(inv[i].months) \in Nat
         /\ inv[i].pc \in Fetching => CallsLeft(i) \in Nat
         /\ StepsLeft(i) \in Nat /\ (Working(i) => StepsLeft(i) > 0)
<1>1. inv[i] \in Invocation /\ inv[i].months \in SUBSET Months
  BY DEF TypeOK, Invocation
<1>2. IsFiniteSet(Months)
  BY FS_Interval, RawStoreAssumption DEF Months
<1>3. IsFiniteSet(inv[i].months)
  BY <1>1, <1>2, FS_Subset
<1>4. Later(i) \in SUBSET inv[i].months
  BY DEF Later
<1>5. IsFiniteSet(Later(i))
  BY <1>3, <1>4, FS_Subset
<1>6. MonthsLeft(i) \in Nat /\ Cardinality(inv[i].months) \in Nat
  BY <1>3, <1>5, FS_CardinalityType DEF MonthsLeft
<1>7. inv[i].pc \in Fetching => CallsLeft(i) \in Nat
  BY DEF Fetching, CallsLeft
<1>8. Working(i) => inv[i].pc \in Fetching \union {"list", "scan", "read", "store"}
  BY <1>1 DEF Working, Fetching, Invocation, Phases
<1>. QED
  BY <1>6, <1>7, <1>8 DEF StepsLeft, At

(* Going on to the next month, or to what follows the last. *)
LEMMA AdvanceCounts ==
  ASSUME TypeOK, NEW i \in Invocations, At(i, "has") \/ At(i, "seal"),
         Advance(i, "has", "read")
  PROVE  StepsLeft(i)' < StepsLeft(i)
<1>0. /\ inv[i] \in Invocation /\ inv[i].months \in SUBSET Months
      /\ inv[i].month \in Nat /\ Months \subseteq Nat
  BY RawStoreAssumption DEF TypeOK, Invocation, Months
<1>1. /\ MonthsLeft(i) \in Nat /\ Cardinality(inv[i].months) \in Nat
      /\ CallsLeft(i) \in Nat
      /\ StepsLeft(i) = 10 * MonthsLeft(i) + CallsLeft(i) + Cardinality(inv[i].months) + 2
  BY StepsAreCounted DEF At, Fetching, StepsLeft
<1>2. CASE \E m \in Later(i) :
             inv' = [inv EXCEPT ![i].pc = "has", ![i].month = m, ![i].part = "payload"]
  <2>1. PICK m \in Later(i) :
          inv' = [inv EXCEPT ![i].pc = "has", ![i].month = m, ![i].part = "payload"]
    BY <1>2
  <2>2. /\ inv'[i].pc = "has" /\ inv'[i].month = m /\ inv'[i].part = "payload"
        /\ inv'[i].months = inv[i].months
    BY <1>0, <2>1 DEF TypeOK, Invocation
  <2>3. Later(i)' \in SUBSET Later(i) /\ m \notin Later(i)' /\ Later(i) \in SUBSET Months
        /\ m \in Nat
    BY <1>0, <2>1, <2>2 DEF Later
  <2>4. MonthsLeft(i)' \in Nat /\ MonthsLeft(i)' + 1 <= MonthsLeft(i)
    BY <2>1, <2>3, OneFewer DEF MonthsLeft
  <2>5. CallsLeft(i)' = 9 /\ inv'[i].pc \in Fetching
    BY <2>2 DEF CallsLeft, Fetching
  <2>6. StepsLeft(i)' = 10 * MonthsLeft(i)' + 9 + Cardinality(inv[i].months) + 2
    BY <2>2, <2>5 DEF StepsLeft
  <2>. QED
    BY <1>1, <2>4, <2>6
<1>3. CASE \E m \in inv[i].months :
             inv' = [inv EXCEPT ![i].pc = "read", ![i].month = m, ![i].part = "payload"]
  <2>1. PICK m \in inv[i].months :
          inv' = [inv EXCEPT ![i].pc = "read", ![i].month = m, ![i].part = "payload"]
    BY <1>3
  <2>2. /\ inv'[i].pc = "read" /\ inv'[i].month = m /\ inv'[i].months = inv[i].months
    BY <1>0, <2>1 DEF TypeOK, Invocation
  <2>3. Later(i)' = {n \in inv[i].months : n > m}
    BY <2>2 DEF Later
  <2>0. m \notin Later(i)' /\ Later(i)' \in SUBSET inv[i].months
    <3>1. m \in Nat
      BY <1>0, <2>1
    <3>2. ~(m > m)
      BY <3>1
    <3>. QED
      BY <2>3, <3>2
  <2>4. MonthsLeft(i)' \in Nat /\ MonthsLeft(i)' + 1 <= Cardinality(inv[i].months)
    BY <1>0, <2>0, <2>1, OneFewer DEF MonthsLeft
  <2>5. StepsLeft(i)' = MonthsLeft(i)' + 2
    BY <2>2 DEF StepsLeft, At, Fetching
  <2>. QED
    BY <1>1, <2>4, <2>5
<1>. QED
  BY <1>2, <1>3 DEF Advance

(* An exception, or the bars stored, leave nothing to do. *)
LEMMA EndedCounts ==
  ASSUME TypeOK, NEW i \in Invocations, Working(i),
         NEW phase \in {"done", "failed", "killed"},
         inv' = [inv EXCEPT ![i] = Idle(phase)]
  PROVE  StepsLeft(i)' < StepsLeft(i)
<1>1. inv'[i].pc = phase
  BY FailType
<1>2. StepsLeft(i)' = 0
  BY <1>1 DEF StepsLeft, At, Fetching
<1>. QED
  BY <1>2, StepsAreCounted

(* One more month looked up, and fewer or as many to fetch and to read. *)
LEMMA LookCounts ==
  ASSUME TypeOK, TypeOK', NEW i \in Invocations, Look(i)
  PROVE  StepsLeft(i)' < StepsLeft(i)
<1>0. /\ inv[i].months \in SUBSET Months /\ inv'[i].months \in SUBSET Months
      /\ inv[i].month \in Nat /\ inv'[i].month \in Nat
  BY DEF TypeOK, Invocation
<1>4. inv[i].pc \in {"list", "scan"} /\ Working(i)
  BY LookMoves DEF Working
<1>5. IsFiniteSet(Months) /\ Months \subseteq Nat
  BY FS_Interval, RawStoreAssumption DEF Months
<1>1. /\ MonthsLeft(i) \in Nat /\ Cardinality(inv[i].months) \in Nat
      /\ StepsLeft(i) = MonthsLeft(i) + 11 * Cardinality(inv[i].months) + 2
  BY <1>4, StepsAreCounted DEF StepsLeft
<1>2. CASE inv' = [inv EXCEPT ![i] = Idle("failed")]
  BY <1>2, <1>4, EndedCounts
<1>3. CASE inv' # [inv EXCEPT ![i] = Idle("failed")]
  <2>1. /\ inv'[i].months \in SUBSET inv[i].months
        /\ \/ inv'[i].pc = inv[i].pc /\ inv'[i].month \in Later(i)
           \/ inv'[i].pc \in {"has", "read"} /\ inv'[i].month \in inv'[i].months
    BY <1>3, LookMoves DEF IsFirst
  <2>2. Cardinality(inv'[i].months) \in Nat
        /\ Cardinality(inv'[i].months) <= Cardinality(inv[i].months)
    <3>1. IsFiniteSet(inv[i].months)
      BY <1>0, <1>5, FS_Subset
    <3>. QED
      BY <2>1, <3>1, FS_Subset, FS_CardinalityType
  <2>3. CASE inv'[i].pc = inv[i].pc /\ inv'[i].month \in Later(i)
    <3>1. /\ Later(i)' \in SUBSET Later(i) /\ inv'[i].month \notin Later(i)'
          /\ Later(i) \in SUBSET Months
      <4>. DEFINE a == inv[i].month
                  b == inv'[i].month
      <4>1. b > a
        BY <2>3 DEF Later
      <4>2. a \in Nat /\ b \in Nat /\ \A m \in inv'[i].months : m \in Nat
        BY <1>0, <1>5
      <4>. HIDE DEF a, b
      <4>3. ~(b > b) /\ \A m \in inv'[i].months : m > b => m > a
        BY <4>1, <4>2
      <4>. QED
        BY <1>0, <2>1, <4>3 DEF Later, a, b
    <3>2. MonthsLeft(i)' \in Nat /\ MonthsLeft(i)' + 1 <= MonthsLeft(i)
      BY <2>3, <3>1, OneFewer DEF MonthsLeft
    <3>3. StepsLeft(i)' = MonthsLeft(i)' + 11 * Cardinality(inv'[i].months) + 2
      BY <1>4, <2>3 DEF StepsLeft
    <3>. QED
      BY <1>1, <2>2, <3>2, <3>3
  <2>4. CASE inv'[i].pc \in {"has", "read"} /\ inv'[i].month \in inv'[i].months
    <3>1. /\ Later(i)' \in SUBSET inv'[i].months /\ inv'[i].month \notin Later(i)'
      BY <1>0, <2>4 DEF Later
    <3>2. MonthsLeft(i)' \in Nat /\ MonthsLeft(i)' + 1 <= Cardinality(inv'[i].months)
      BY <1>0, <2>4, <3>1, OneFewer DEF MonthsLeft
    <3>3. \/ StepsLeft(i)' = MonthsLeft(i)' + 2
          \/ StepsLeft(i)' = 10 * MonthsLeft(i)' + 9 + Cardinality(inv'[i].months) + 2
      <4>1. CASE inv'[i].pc = "has"
        <5>1. CallsLeft(i)' = 9
          BY <4>1 DEF CallsLeft
        <5>. QED
          BY <4>1, <5>1 DEF StepsLeft, Fetching
      <4>2. CASE inv'[i].pc = "read"
        BY <4>2 DEF StepsLeft, Fetching, At
      <4>. QED
        BY <2>4, <4>1, <4>2
    <3>. QED
      BY <1>1, <2>2, <3>2, <3>3
  <2>. QED
    BY <2>1, <2>3, <2>4
<1>. QED
  BY <1>2, <1>3

(* One more system call for the month at hand. *)
LEMMA CallCounts ==
  ASSUME TypeOK, NEW i \in Invocations, inv[i].pc \in Fetching, inv'[i].pc \in Fetching,
         inv'[i].month = inv[i].month, inv'[i].months = inv[i].months,
         CallsLeft(i)' \in Nat, CallsLeft(i)' < CallsLeft(i)
  PROVE  StepsLeft(i)' < StepsLeft(i)
<1>1. MonthsLeft(i)' = MonthsLeft(i)
  BY DEF MonthsLeft, Later
<1>2. /\ StepsLeft(i) = 10 * MonthsLeft(i) + CallsLeft(i) + Cardinality(inv[i].months) + 2
      /\ StepsLeft(i)' = 10 * MonthsLeft(i) + CallsLeft(i)' + Cardinality(inv[i].months) + 2
  BY <1>1 DEF StepsLeft, Fetching
<1>3. /\ MonthsLeft(i) \in Nat /\ Cardinality(inv[i].months) \in Nat
      /\ CallsLeft(i) \in Nat
  BY StepsAreCounted
<1>. QED
  BY <1>2, <1>3

LEMMA EachStepCounts ==
  ASSUME TypeOK, TypeOK', NEW i \in Invocations, Step(i)
  PROVE  StepsLeft(i)' < StepsLeft(i)
<1>. USE DEF At
<1>0. inv[i] \in Invocation /\ inv \in [Invocations -> Invocation]
  BY DEF TypeOK
<1>1. CASE Has(i)
  <2>1. CASE inv' = [inv EXCEPT ![i].pc = "download"]
    BY <1>0, <1>1, <2>1, CallCounts DEF Has, Invocation, Fetching, CallsLeft
  <2>2. CASE Advance(i, "has", "read")
    BY <1>1, <2>2, AdvanceCounts DEF Has
  <2>. QED
    BY <1>1, <2>1, <2>2 DEF Has
<1>2. CASE Download(i)
  <2>1. PICK v : inv' = [inv EXCEPT ![i].pc = "verify", ![i].got = v]
    BY <1>2 DEF Download
  <2>. QED
    BY <1>0, <1>2, <2>1, CallCounts DEF Download, Invocation, Fetching, CallsLeft
<1>3. CASE Fail(i) /\ inv[i].pc \in Fetching \union {"read", "store"}
  BY <1>3, EndedCounts DEF Fail, Working, Fetching
<1>4. CASE Verify(i) /\ ~Fail(i)
  BY <1>0, <1>4, CallCounts DEF Verify, Invocation, Fetching, CallsLeft
<1>5. CASE CheckAbsent(i) /\ ~Fail(i)
  BY <1>0, <1>5, CallCounts DEF CheckAbsent, Invocation, Fetching, CallsLeft
<1>6. CASE Open(i) /\ ~Fail(i)
  BY <1>0, <1>6, CallCounts DEF Open, Invocation, Fetching, CallsLeft
<1>7. CASE Fill(i)
  BY <1>0, <1>7, CallCounts DEF Fill, Invocation, Fetching, CallsLeft
<1>8. CASE Seal(i)
  <2>1. CASE inv' = [inv EXCEPT ![i].part = "manifest"] /\ inv[i].part = "payload"
    BY <1>0, <1>8, <2>1, CallCounts DEF Seal, Invocation, Fetching, CallsLeft
  <2>2. CASE Advance(i, "has", "read")
    BY <1>8, <2>2, AdvanceCounts DEF Seal
  <2>. QED
    BY <1>8, <2>1, <2>2 DEF Seal
<1>9. CASE Read(i) /\ ~Fail(i)
  <2>. DEFINE m == inv[i].month
              read == [inv EXCEPT ![i].bars[m] = disk[Payload(m)].version]
  <2>1. StepsLeft(i) = MonthsLeft(i) + 2 /\ MonthsLeft(i) \in Nat
    BY <1>9, StepsAreCounted DEF Read, StepsLeft, Fetching
  <2>2. CASE inv' = [read EXCEPT ![i].pc = "store"]
    <3>1. inv'[i].pc = "store"
      BY <1>0, <2>2 DEF Invocation
    <3>2. StepsLeft(i)' = 1
      BY <3>1 DEF StepsLeft, Fetching
    <3>. QED
      BY <2>1, <3>2
  <2>3. CASE \E n \in Later(i) : inv' = [read EXCEPT ![i].month = n]
    <3>1. PICK n \in Later(i) : inv' = [read EXCEPT ![i].month = n]
      BY <2>3
    <3>2. inv'[i].pc = "read" /\ inv'[i].month = n /\ inv'[i].months = inv[i].months
      BY <1>0, <1>9, <3>1 DEF Read, Invocation
    <3>3. /\ Later(i)' \in SUBSET Later(i) /\ n \notin Later(i)'
          /\ Later(i) \in SUBSET Months
      BY <1>0, <3>1, <3>2, RawStoreAssumption DEF Later, Invocation, Months
    <3>4. MonthsLeft(i)' \in Nat /\ MonthsLeft(i)' + 1 <= MonthsLeft(i)
      BY <3>1, <3>3, OneFewer DEF MonthsLeft
    <3>5. StepsLeft(i)' = MonthsLeft(i)' + 2
      BY <3>2 DEF StepsLeft, Fetching
    <3>. QED
      BY <2>1, <3>4, <3>5
  <2>. QED
    BY <1>9, <2>2, <2>3 DEF Read
<1>10. CASE StoreDerived(i) /\ ~Fail(i)
  BY <1>10, EndedCounts DEF StoreDerived, Working
<1>11. CASE Unavailable(i)
  BY <1>3, <1>11 DEF Unavailable, Fetching
<1>13. CASE Look(i)
  BY <1>13, LookCounts
<1>12. ~Look(i) => inv[i].pc \in Fetching \union {"read", "store"}
  BY DEF Step, Has, Download, Unavailable, Verify, CheckAbsent, Open, Fill, Seal,
         Read, StoreDerived, Fetching
<1>. QED
  BY <1>1, <1>2, <1>3, <1>4, <1>5, <1>6, <1>7, <1>8, <1>9, <1>10, <1>11, <1>12, <1>13 DEF Step

(* A step of another invocation leaves an invocation as it is.               *)
LEMMA StepMovesOne ==
  ASSUME TypeOK, NEW j \in Invocations, Step(j), NEW i \in Invocations, i # j
  PROVE  inv'[i] = inv[i]
<1>. inv \in [Invocations -> Invocation]
  BY DEF TypeOK
<1>1. CASE \E r : inv' = [inv EXCEPT ![j] = r]
  BY <1>1
<1>2. CASE ~Look(j)
  <2>1. \E r : inv' = [inv EXCEPT ![j] = r]
    BY <1>2 DEF Step, Has, Download, Unavailable, Verify, CheckAbsent, Open, Fill, Seal,
           Read, StoreDerived, Advance, Fail
  <2>. QED
    BY <1>1, <2>1
<1>3. CASE Look(j)
  BY <1>3, LookMoves
<1>. QED
  BY <1>2, <1>3

(* Each step of an invocation under way lowers the number of its steps left, *)
(* and nothing that others do raises it: an invocation takes at most as many *)
(* as it has when it starts, about twelve a month.  With fairness, and a     *)
(* step to take whenever it is under way, this is that every load ends.      *)
THEOREM LoadsRunDown ==
  Spec => /\ [](\A i \in Invocations : StepsLeft(i) \in Nat)
          /\ [][\A i \in Invocations :
                  /\ Working(i) /\ inv'[i] # inv[i] => StepsLeft(i)' < StepsLeft(i)
                  /\ Step(i) => StepsLeft(i)' < StepsLeft(i)]_vars
<1>1. TypeOK => \A i \in Invocations : StepsLeft(i) \in Nat
  BY StepsAreCounted
<1>2. TypeOK /\ [Next]_vars =>
        [\A i \in Invocations : /\ Working(i) /\ inv'[i] # inv[i] => StepsLeft(i)' < StepsLeft(i)
                                /\ Step(i) => StepsLeft(i)' < StepsLeft(i)]_vars
  <2>. SUFFICES ASSUME TypeOK, TypeOK', Next, NEW i \in Invocations
                PROVE  /\ Working(i) /\ inv'[i] # inv[i] => StepsLeft(i)' < StepsLeft(i)
                       /\ Step(i) => StepsLeft(i)' < StepsLeft(i)
    BY NextType
  <2>2. Step(i) => StepsLeft(i)' < StepsLeft(i)
    BY EachStepCounts
  <2>4. Kill(i) => StepsLeft(i)' < StepsLeft(i)
    BY EndedCounts DEF Kill
  <2>5. Working(i) => Step(i) \/ Kill(i) \/ inv'[i] = inv[i]
    <3>1. CASE \E j \in Invocations, command \in Commands : Start(j, command)
      <4>1. PICK j \in Invocations, command \in Commands : Start(j, command)
        BY <3>1
      <4>. QED
        BY <4>1, StartMoves DEF Working
    <3>2. ASSUME NEW j \in Invocations, Step(j) \/ Kill(j), j # i
          PROVE  inv'[i] = inv[i]
      BY <3>2, StepMovesOne DEF Kill, TypeOK
    <3>3. CASE \E m \in Months : Publish(m)
      BY <3>3 DEF Publish
    <3>. QED
      BY <3>1, <3>2, <3>3 DEF Next
  <2>. QED
    BY <2>2, <2>4, <2>5
<1>. QED
  BY TypeCorrect, <1>1, <1>2, PTL DEF Spec
=============================================================================
