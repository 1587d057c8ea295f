----------------------- MODULE FamilySequencerProofs -----------------------
(***************************************************************************)
(* Proofs about FamilySequencer, for every number of families, roots,      *)
(* requests and files, every delivery order and every schedule of the      *)
(* garbage collector: slots, entries and locks agree; an item is applied   *)
(* at most once, in the order of the starts, and the sequencer implements  *)
(* ReplayQueue; effects in flight are counted on every path; a save during *)
(* an agent's edit is suppressed.                                          *)
(***************************************************************************)
EXTENDS FamilySequencer, FiniteSetTheorems, TLAPS

\* What the worker's program counter says about its job: it has one exactly
\* while it replaces or runs something, and its slot is then no longer in the
\* slot map.
JobInv ==
  /\ pc[Worker] \in Holding \cup {"waiting", "direct"} => job \in Jobs
  /\ Replacing => /\ job.slot \in Orders
                  /\ job.kind \in {"ReadyCommand", "Canceled"}
                  /\ slots[job.root] = None

SlotInv == JobInv /\ SlotFindsItsEntry /\ PendingEntryHasOwner /\ OrdinalsFresh

\* Mutexes: a thread that has or awaits one cloned it from the map, which has
\* only moved on to later ones since; holders of one mutex are the same thread.
LockInv ==
  /\ \A a \in Actors : pc[a] \in Holding \cup {"waiting"} =>
       arc[a] \in 1..lock[FamilyOf(a)]
  /\ \A a, b \in Actors :
       /\ pc[a] \in Holding /\ pc[b] \in Holding
       /\ FamilyOf(a) = FamilyOf(b) /\ arc[a] = arc[b]
       => a = b

IInv == TypeOK /\ SlotInv /\ LockInv

----------------------------------------------------------------------------
(* Types *)

LEMMA TypeInit == Init => TypeOK
  BY ConstantsAssumption
     DEF Init, TypeOK, Holding, PcValues, NormValues, NotYet, Actors, Items

LEMMA WorkerIsActor == Worker \in Actors /\ Requests \subseteq Actors
                       /\ \A a \in Actors : a # Worker => a \in Requests
  BY DEF Actors

\* An appended entry is an entry.
LEMMA EnqueueType ==
  ASSUME TypeOK, NEW t \in Nat, NEW f \in Families, NEW x \in Items,
         NEW k \in {"PendingRoot", "Checkpoint"}, k = "Checkpoint" <=> x \in Requests,
         Enqueue(t, f, x, k)
  PROVE  /\ entries' \in [Families -> SUBSET Entries]
         /\ nextOrdinal' \in [Families -> Nat \ {0}]
         /\ after' \in [Items -> SUBSET Items]
  <1>1. Entry(t, f, x, k) \in Entries
    BY DEF Entry, Entries, EntryKinds, TypeOK
  <1>2. Insert(entries[f], Entry(t, f, x, k)) \in SUBSET Entries
    BY <1>1 DEF Insert, TypeOK
  <1>3. InHand \subseteq Items
    <2>1. \A a \in Actors : ready[a] \subseteq Entries
      BY DEF TypeOK
    <2>2. \A a \in Actors : cur[a] # None => cur[a].entry \in Entries
      BY DEF TypeOK
    <2>3. \A e \in Entries : e.item \in Items
      BY DEF Entries
    <2> QED BY <2>1, <2>2, <2>3 DEF InHand
  <1> QED BY <1>2, <1>3 DEF Enqueue, TypeOK

\* Counting up or down keeps a function's type, whatever the argument.
LEMMA CountType ==
  ASSUME NEW S, NEW x
  PROVE  /\ \A g \in [S -> Nat] : [g EXCEPT ![x] = @ + 1] \in [S -> Nat]
         /\ \A g \in [S -> Int] : [g EXCEPT ![x] = @ - 1] \in [S -> Int]
  <1>1. CASE x \in S
    BY <1>1
  <1>2. CASE x \notin S
    <2>1. \A T : \A g \in [S -> T] : \A y : [g EXCEPT ![x] = y] = g
      BY <1>2
    <2> QED BY <2>1
  <1> QED BY <1>1, <1>2

LEMMA ProcessedType ==
  ASSUME TypeOK, Processed
  PROVE  /\ processed' \in Nat
         /\ pc' \in [Actors -> PcValues]
  BY WorkerIsActor DEF TypeOK, Processed, PcValues

LEMMA SkipType ==
  ASSUME TypeOK, NEW r \in Roots, NEW sl \in Orders \cup {None}, Skip(r, sl)
  PROVE  /\ slots' \in [Roots -> Orders \cup {None}]
         /\ processed' \in Nat
         /\ pc' \in [Actors -> PcValues]
         /\ arc' = arc /\ job' = job /\ inflight' = inflight
  BY ProcessedType DEF TypeOK, Skip

LEMMA SlotAfterStartType ==
  ASSUME TypeOK, NEW r \in Roots, NEW t \in Nat
  PROVE  SlotAfterStart(r, t) \in Orders \cup {None}
  BY ConstantsAssumption DEF SlotAfterStart, Orders, TypeOK, Items

LEMMA FinalizeType ==
  ASSUME TypeOK, NEW r \in Roots, NEW sl \in Orders \cup {None},
         FinalizeRootExit(r, sl)
  PROVE  /\ slots' \in [Roots -> Orders \cup {None}]
         /\ processed' \in Nat
         /\ pc' \in [Actors -> PcValues]
         /\ arc' \in [Actors -> Nat]
         /\ job' \in Jobs \cup {None}
         /\ inflight' \in [Families -> Int]
         /\ norm' \in [Roots -> NormValues]
  <1>0. Family[r] \in Families
    BY ConstantsAssumption DEF Items
  <1>1. CASE norm' = [norm EXCEPT ![r] = "absent"] /\ Skip(r, sl)
    BY <1>1, SkipType DEF TypeOK, NormValues
  <1>2. CASE Emit(r, sl) /\ sl # None
    <2>1. TakeSlot(r, sl, "ReadyCommand") /\ norm' = [norm EXCEPT ![r] = "completed"]
      BY <1>2 DEF Emit
    <2>2. [root |-> r, slot |-> sl, kind |-> "ReadyCommand"] \in Jobs
      BY DEF Jobs
    <2>3. lock[Family[r]] \in Nat
      BY <1>0 DEF TypeOK
    <2> QED BY <2>1, <2>2, <2>3, WorkerIsActor DEF TypeOK, TakeSlot, PcValues, NormValues
  <1>3. CASE Emit(r, sl) /\ sl = None
    <2>0. norm' \in [Roots -> NormValues]
      BY <1>3 DEF Emit, TypeOK, NormValues
    <2>1. CASE Skip(r, None)
      BY <2>0, <2>1, SkipType DEF TypeOK
    <2>2. CASE ~Skip(r, None)
      <3>1. [root |-> r, slot |-> None, kind |-> "direct"] \in Jobs
        BY DEF Jobs
      <3>2. /\ slots' = slots /\ arc' = arc /\ processed' = processed
            /\ job' = [root |-> r, slot |-> None, kind |-> "direct"]
            /\ inflight' = [inflight EXCEPT ![Family[r]] = @ + 1]
            /\ pc' = [pc EXCEPT ![Worker] = "direct"]
        BY <2>2, <1>3 DEF Emit, ApplyDirectly
      <3> QED BY <3>1, <3>2, <2>0, <1>0, WorkerIsActor DEF TypeOK, PcValues
    <2> QED BY <2>1, <2>2
  <1> QED BY <1>1, <1>2, <1>3 DEF FinalizeRootExit

LEMMA ReleaseType ==
  ASSUME TypeOK, NEW a \in Actors, Release(a)
  PROVE  /\ arc' \in [Actors -> Nat]
         /\ job' \in Jobs \cup {None}
         /\ processed' \in Nat
         /\ pc' \in [Actors -> PcValues]
  BY ProcessedType DEF TypeOK, Release, PcValues

LEMMA GcType ==
  ASSUME TypeOK, GcStaleFamilyState
  PROVE  /\ nextOrdinal' \in [Families -> Nat \ {0}]
         /\ lock' \in [Families -> Nat \ {0}]
         /\ edits' \in [Files -> Nat]
  BY ConstantsAssumption DEF TypeOK, GcStaleFamilyState, NotYet

LEMMA EditsType ==
  ASSUME TypeOK, NEW c, NEW fs,
         RegisterPendingEdits(c) \/ ClearPendingEdits(c, fs) \/ UNCHANGED editVars
  PROVE  edits' \in [Files -> Nat] /\ opens' \in [Agents -> [Files -> Nat]]
  <1>0. clock \in Nat /\ NotYet \in Nat
    BY ConstantsAssumption DEF TypeOK, NotYet
  <1> DEFINE Stamp(m, S, t) == [x \in Files |-> IF x \in S THEN t ELSE m[x]]
  <1>a. \A S : \A m \in [Files -> Nat], t \in Nat : Stamp(m, S, t) \in [Files -> Nat]
    OBVIOUS
  <1>b. \A S, g : \A t \in Nat :
          [opens EXCEPT ![g] = Stamp(@, S, t)] \in [Agents -> [Files -> Nat]]
    BY <1>a DEF TypeOK
  <1>1. CASE RegisterPendingEdits(c)
    <2>1. CASE c.role = "WillEdit" /\ c.agent # None
      <3>1. edits' = Stamp(edits, c.files, clock)
        BY <1>1, <2>1 DEF RegisterPendingEdits
      <3>2. opens' = [opens EXCEPT ![c.agent] = Stamp(@, c.files, clock)]
        BY <1>1, <2>1 DEF RegisterPendingEdits
      <3>3. edits \in [Files -> Nat]
        BY DEF TypeOK
      <3> HIDE DEF Stamp
      <3> QED BY <1>0, <1>a, <1>b, <3>1, <3>2, <3>3
    <2>2. CASE ~(c.role = "WillEdit" /\ c.agent # None)
      BY <1>1, <2>2 DEF RegisterPendingEdits, editVars, TypeOK
    <2> QED BY <2>1, <2>2
  <1>2. CASE ClearPendingEdits(c, fs)
    <2>1. CASE c.kind = "AiAgent" /\ c.role = "Edited"
      <3>1. edits' = Stamp(edits, fs, NotYet)
        BY <1>2, <2>1 DEF ClearPendingEdits
      <3>2. opens' \in [Agents -> [Files -> Nat]]
        <4>1. CASE c.agent = None
          BY <1>2, <2>1, <4>1 DEF ClearPendingEdits, TypeOK
        <4>2. CASE c.agent # None
          <5>1. opens' = [opens EXCEPT ![c.agent] = Stamp(@, fs, NotYet)]
            BY <1>2, <2>1, <4>2 DEF ClearPendingEdits
          <5> HIDE DEF Stamp
          <5> QED BY <1>0, <1>b, <5>1
        <4> QED BY <4>1, <4>2
      <3>3. edits \in [Files -> Nat]
        BY DEF TypeOK
      <3> HIDE DEF Stamp
      <3> QED BY <1>0, <1>a, <3>1, <3>2, <3>3
    <2>2. CASE ~(c.kind = "AiAgent" /\ c.role = "Edited")
      BY <1>2, <2>2 DEF ClearPendingEdits, editVars, TypeOK
    <2> QED BY <2>1, <2>2
  <1>3. CASE UNCHANGED editVars
    BY <1>3 DEF editVars, TypeOK
  <1> QED BY <1>1, <1>2, <1>3

LEMMA TypeNext == TypeOK /\ JobInv /\ [Next]_vars => TypeOK'
  <1> SUFFICES ASSUME TypeOK, JobInv, [Next]_vars PROVE TypeOK'
    OBVIOUS
  <1>0. \A x \in Items : Family[x] \in Families
    BY ConstantsAssumption
  <1>1. ASSUME NEW r \in Roots, IngestStart(r) PROVE TypeOK'
    <2>1. PICK t \in 0..clock :
            /\ AppendPendingRoot(r, t)
            /\ \/ FinalizeRootExit(r, SlotAfterStart(r, t))
               \/ /\ norm' = [norm EXCEPT ![r] = NormAfterStart(@)]
                  /\ Skip(r, SlotAfterStart(r, t))
      BY <1>1 DEF IngestStart
    <2>2. t \in Nat
      BY DEF TypeOK
    <2>3. SlotAfterStart(r, t) \in Orders \cup {None}
      BY <2>2, SlotAfterStartType
    <2>4. /\ entries' \in [Families -> SUBSET Entries]
          /\ nextOrdinal' \in [Families -> Nat \ {0}]
          /\ after' \in [Items -> SUBSET Items]
      BY <2>1, <2>2, <1>0, EnqueueType, ConstantsAssumption
         DEF AppendPendingRoot, TypeOK, Items, queueVars
    <2>5. /\ slots' \in [Roots -> Orders \cup {None}]
          /\ processed' \in Nat
          /\ pc' \in [Actors -> PcValues]
          /\ arc' \in [Actors -> Nat]
          /\ job' \in Jobs \cup {None}
          /\ inflight' \in [Families -> Int]
          /\ norm' \in [Roots -> NormValues]
      <3>1. CASE FinalizeRootExit(r, SlotAfterStart(r, t))
        BY <3>1, <2>3, FinalizeType
      <3>2. CASE /\ norm' = [norm EXCEPT ![r] = NormAfterStart(@)]
                 /\ Skip(r, SlotAfterStart(r, t))
        BY <3>2, <2>3, SkipType DEF TypeOK, NormValues, NormAfterStart
      <3> QED BY <2>1, <3>1, <3>2
    <2>6. todo' \in [Roots -> Seq(TraceEvents)]
      BY <1>1 DEF IngestStart, TypeOK
    <2> QED BY <1>1, <2>4, <2>5, <2>6 DEF IngestStart, TypeOK, editVars
  <1>2. ASSUME NEW r \in Roots, IngestTerminal(r) PROVE TypeOK'
    <2>1. todo' \in [Roots -> Seq(TraceEvents)]
      BY <1>2 DEF IngestTerminal, TypeOK
    <2>2. slots[r] \in Orders \cup {None}
      BY DEF TypeOK
    <2>3. /\ slots' \in [Roots -> Orders \cup {None}]
          /\ processed' \in Nat
          /\ pc' \in [Actors -> PcValues]
          /\ arc' \in [Actors -> Nat]
          /\ job' \in Jobs \cup {None}
          /\ inflight' \in [Families -> Int]
          /\ norm' \in [Roots -> NormValues]
      <3>1. CASE FinalizeRootExit(r, slots[r])
        BY <3>1, <2>2, FinalizeType
      <3>2. CASE ~FinalizeRootExit(r, slots[r])
        <4>1. norm' = [norm EXCEPT ![r] = NormAfterExit(@)]
          BY <1>2, <3>2 DEF IngestTerminal
        <4>2. norm' \in [Roots -> NormValues]
          BY <4>1 DEF TypeOK, NormValues, NormAfterExit
        <4>3. CASE slots[r] = None
          BY <1>2, <3>2, <4>2, <4>3, SkipType DEF IngestTerminal, TypeOK
        <4>4. CASE slots[r] # None
          <5>1. TakeSlot(r, slots[r], "Canceled")
            BY <1>2, <3>2, <4>4 DEF IngestTerminal
          <5>2. [root |-> r, slot |-> slots[r], kind |-> "Canceled"] \in Jobs
            BY <2>2 DEF Jobs
          <5>3. lock[Family[r]] \in Nat
            BY <1>0 DEF TypeOK, Items
          <5> QED BY <4>2, <5>1, <5>2, <5>3, WorkerIsActor
                  DEF TypeOK, TakeSlot, PcValues
        <4> QED BY <4>3, <4>4
      <3> QED BY <3>1, <3>2
    <2> QED BY <1>2, <2>1, <2>3 DEF IngestTerminal, TypeOK, editVars, queueVars
  <1>3. ASSUME FinishDirect PROVE TypeOK'
    <2>1. /\ ran' \in [Items -> Nat]
          /\ inflight' \in [Families -> Int]
          /\ leaked' \in [Families -> Nat]
          /\ job' \in Jobs \cup {None}
      <3>1. job \in Jobs
        BY <1>3 DEF FinishDirect, TypeOK, JobInv
      <3>2. job.root \in Items /\ Family[job.root] \in Families
        BY <3>1, <1>0 DEF Jobs, Items
      <3>3. PICK f \in Families : f = Family[job.root]
        BY <3>2
      <3>4. inflight' = inflight \/ inflight' = [inflight EXCEPT ![f] = @ - 1]
        BY <1>3, <3>3 DEF FinishDirect
      <3>5. leaked' = leaked \/ leaked' = [leaked EXCEPT ![f] = @ + 1]
        BY <1>3, <3>3 DEF FinishDirect
      <3>6. inflight' \in [Families -> Int] /\ leaked' \in [Families -> Nat]
        <4>1. /\ inflight \in [Families -> Int] /\ leaked \in [Families -> Nat]
              /\ inflight[f] - 1 \in Int /\ leaked[f] + 1 \in Nat
          BY <3>3 DEF TypeOK
        <4> QED BY <3>4, <3>5, <4>1
      <3>7. ran' \in [Items -> Nat] /\ job' \in Jobs \cup {None}
        BY <1>3, <3>2 DEF FinishDirect, TypeOK
      <3> QED BY <3>6, <3>7
    <2>2. processed' \in Nat /\ pc' \in [Actors -> PcValues]
      BY <1>3, ProcessedType DEF FinishDirect
    <2> QED BY <1>3, <2>1, <2>2
            DEF FinishDirect, TypeOK, editVars, queueVars, traceVars
  <1>4. ASSUME ReplacePendingRoot PROVE TypeOK'
    <2>1. CASE Replaceable # {}
      <3>1. Replacing /\ job \in Jobs /\ job.kind \in {"ReadyCommand", "Canceled"}
        BY <1>4 DEF ReplacePendingRoot, Replacing, JobInv, Holding, TypeOK
      <3>2. Family[job.root] \in Families
        BY <3>1, <1>0 DEF Jobs, Items
      <3>3. Replaceable \subseteq Entries
        BY <3>2 DEF Replaceable, TypeOK
      <3> DEFINE New == (entries[Family[job.root]] \ Replaceable)
                          \cup {[e EXCEPT !.kind = job.kind] : e \in Replaceable}
      <3>4. New \subseteq Entries
        <4>1. \A e \in Replaceable : [e EXCEPT !.kind = job.kind] \in Entries
          BY <3>1, <3>3 DEF Entries, EntryKinds, Replaceable
        <4> QED BY <4>1, <3>2 DEF TypeOK
      <3>a. entries' = [entries EXCEPT ![Family[job.root]] = New]
        BY <1>4, <2>1 DEF ReplacePendingRoot
      <3>5. entries' \in [Families -> SUBSET Entries]
        <4> HIDE DEF New
        <4> QED BY <3>a, <3>2, <3>4 DEF TypeOK
      <3> QED BY <1>4, <2>1, <3>5, WorkerIsActor
              DEF ReplacePendingRoot, TypeOK, PcValues, Holding, editVars, traceVars
    <2>2. CASE Replaceable = {}
      BY <1>4, <2>2, ReleaseType, WorkerIsActor
         DEF ReplacePendingRoot, TypeOK, editVars, traceVars
    <2> QED BY <2>1, <2>2
  <1>5. ASSUME NEW q \in Requests, CheckpointArrives(q) PROVE TypeOK'
    <2>1. lock[Family[q]] \in Nat /\ q \in Actors
      BY <1>0, WorkerIsActor DEF TypeOK, Items
    <2> QED BY <1>5, <2>1
            DEF CheckpointArrives, TypeOK, PcValues, editVars, queueVars,
                traceVars, gcVars
  <1>6. ASSUME NEW q \in Requests, AppendCheckpoint(q) PROVE TypeOK'
    <2>1. /\ entries' \in [Families -> SUBSET Entries]
          /\ nextOrdinal' \in [Families -> Nat \ {0}]
          /\ after' \in [Items -> SUBSET Items]
      <3>1. clock \in Nat /\ q \in Items /\ Family[q] \in Families
        BY <1>0 DEF TypeOK, Items
      <3> QED BY <1>6, <3>1, EnqueueType DEF AppendCheckpoint
    <2> QED BY <1>6, <2>1
            DEF AppendCheckpoint, TypeOK, PcValues, Holding, editVars,
                traceVars, gcVars
  <1>7. ASSUME NEW a \in Actors, AcquireLock(a) PROVE TypeOK'
    BY <1>7 DEF AcquireLock, TypeOK, PcValues, Holding, editVars, queueVars,
                traceVars, gcVars
  <1>8. ASSUME NEW a \in Actors, CollectReady(a) PROVE TypeOK'
    <2> DEFINE f == FamilyOf(a)
               R == ReadyPrefix(entries[f])
    <2>1. CASE R # {}
      <3>0. f \in Families
        BY <1>0, <1>8, WorkerIsActor
           DEF FamilyOf, Items, CollectReady, JobInv, Holding, TypeOK, Jobs
      <3>1. R \subseteq Entries /\ entries[f] \ R \subseteq Entries
        BY <3>0 DEF ReadyPrefix, TypeOK
      <3>2. /\ ready' = [ready EXCEPT ![a] = R]
            /\ entries' = [entries EXCEPT ![f] = entries[f] \ R]
            /\ inflight' = [inflight EXCEPT ![f] = @ + 1]
            /\ pc' = [pc EXCEPT ![a] = "draining"]
            /\ UNCHANGED <<arc, job, processed>>
        BY <1>8, <2>1 DEF CollectReady
      <3> HIDE DEF R, f
      <3>3. ready' \in [Actors -> SUBSET Entries]
            /\ entries' \in [Families -> SUBSET Entries]
            /\ inflight' \in [Families -> Int]
            /\ pc' \in [Actors -> PcValues]
        BY <3>0, <3>1, <3>2 DEF TypeOK, PcValues, Holding
      <3> QED BY <1>8, <3>2, <3>3 DEF CollectReady, TypeOK, editVars, traceVars
    <2>2. CASE R = {}
      <3>1. Release(a) /\ UNCHANGED <<ready, entries, inflight>>
        BY <1>8, <2>2 DEF CollectReady
      <3> QED BY <1>8, <3>1, ReleaseType DEF CollectReady, TypeOK, editVars, traceVars
    <2> QED BY <2>1, <2>2
  <1>9. ASSUME NEW a \in Actors, BeginEntry(a) PROVE TypeOK'
    <2>1. PICK e \in ready[a] :
            /\ \/ e.kind = "Canceled" /\ Drop(a, e) /\ UNCHANGED editVars
               \/ e.kind = "ReadyCommand" /\ Run(a, e, {}) /\ UNCHANGED editVars
               \/ /\ e.kind = "Checkpoint"
                  /\ RegisterPendingEdits(Class[e.item])
                  /\ \/ Drop(a, e)
                     \/ Run(a, e, FilesToApply(Class[e.item]))
      BY <1>9 DEF BeginEntry
    <2>2. edits' \in [Files -> Nat] /\ opens' \in [Agents -> [Files -> Nat]]
      BY <2>1, EditsType
    <2>3. \/ Drop(a, e)
          \/ \E fs \in SUBSET Files : Run(a, e, fs)
      <3>1. CASE e.kind = "Checkpoint" /\ Run(a, e, FilesToApply(Class[e.item]))
        <4>1. e.item \in Requests
          BY <3>1 DEF TypeOK, Entries
        <4>2. FilesToApply(Class[e.item]) \subseteq Files
          BY <4>1, ConstantsAssumption DEF FilesToApply
        <4> QED BY <3>1, <4>1, <4>2
      <3> QED BY <2>1, <3>1
    <2>4. /\ ready' \in [Actors -> SUBSET Entries]
          /\ cur' \in [Actors -> [entry : Entries, files : SUBSET Files] \cup {None}]
          /\ pc' \in [Actors -> PcValues]
      <3>1. e \in Entries
        BY DEF TypeOK
      <3>2. CASE Drop(a, e)
        BY <3>2 DEF Drop, TypeOK
      <3>3. ASSUME NEW fs \in SUBSET Files, Run(a, e, fs)
            PROVE  /\ ready' \in [Actors -> SUBSET Entries]
                   /\ cur' \in [Actors -> [entry : Entries, files : SUBSET Files] \cup {None}]
                   /\ pc' \in [Actors -> PcValues]
        <4>1. [entry |-> e, files |-> fs] \in [entry : Entries, files : SUBSET Files]
          BY <3>1
        <4> QED BY <3>3, <4>1 DEF Run, TypeOK, PcValues, Holding
      <3> QED BY <2>3, <3>2, <3>3
    <2> QED BY <1>9, <2>2, <2>4 DEF BeginEntry, TypeOK, queueVars, traceVars, gcVars
  <1>10. ASSUME NEW a \in Actors, FinishEntry(a) PROVE TypeOK'
    <2>1. edits' \in [Files -> Nat] /\ opens' \in [Agents -> [Files -> Nat]]
      BY <1>10, EditsType DEF FinishEntry
    <2>2. ran' \in [Items -> Nat]
      <3>1. ran' = [ran EXCEPT ![cur[a].entry.item] = @ + 1]
        BY <1>10 DEF FinishEntry
      <3>2. ran \in [Items -> Nat]
        BY DEF TypeOK
      <3> QED BY <3>1, <3>2, CountType
    <2> QED BY <1>10, <2>1, <2>2
            DEF FinishEntry, TypeOK, PcValues, Holding, queueVars, traceVars, gcVars
  <1>11. ASSUME NEW a \in Actors, EndDrain(a) PROVE TypeOK'
    <2>1. inflight' \in [Families -> Int]
      <3>1. inflight' = [inflight EXCEPT ![FamilyOf(a)] = @ - 1]
        BY <1>11 DEF EndDrain
      <3>2. inflight \in [Families -> Int]
        BY DEF TypeOK
      <3> QED BY <3>1, <3>2, CountType
    <2> QED BY <1>11, <2>1, ReleaseType
            DEF EndDrain, TypeOK, editVars, queueVars, traceVars
  <1>12. ASSUME WorkerGc PROVE TypeOK'
    BY <1>12, GcType, WorkerIsActor DEF WorkerGc, TypeOK, PcValues, traceVars, gcVars
  <1>13. ASSUME UpdateCheckGc PROVE TypeOK'
    BY <1>13, GcType, ConstantsAssumption DEF UpdateCheckGc, TypeOK, traceVars
  <1>14. ASSUME Tick PROVE TypeOK'
    BY <1>14, ConstantsAssumption
       DEF Tick, TypeOK, editVars, queueVars, traceVars, gcVars
  <1>15. ASSUME UNCHANGED vars PROVE TypeOK'
    BY <1>15 DEF vars, TypeOK
  <1> QED
    BY <1>1, <1>2, <1>3, <1>4, <1>5, <1>6, <1>7, <1>8, <1>9, <1>10, <1>11, <1>12,
       <1>13, <1>14, <1>15, WorkerIsActor
       DEF Next, WorkerStep, HandlerStep, DrainStep, Idle

----------------------------------------------------------------------------
(* The worker's job *)

LEMMA JobInit == Init => JobInv
  BY WorkerIsActor DEF Init, JobInv, Replacing, Holding

\* A step of another thread leaves the worker's job as it is.
LEMMA JobFrame ==
  ASSUME JobInv, pc'[Worker] = pc[Worker], job' = job, slots' = slots
  PROVE  JobInv'
  BY DEF JobInv, Replacing

LEMMA SkipJob ==
  ASSUME TypeOK, JobInv, pc[Worker] = "idle", NEW r \in Roots, NEW sl, Skip(r, sl)
  PROVE  JobInv'
  BY WorkerIsActor DEF Skip, Processed, JobInv, Replacing, Holding, TypeOK

LEMMA TakeSlotJob ==
  ASSUME TypeOK, NEW r \in Roots, NEW sl \in Orders,
         NEW k \in {"ReadyCommand", "Canceled"}, TakeSlot(r, sl, k)
  PROVE  JobInv'
  <1>1. job' = [root |-> r, slot |-> sl, kind |-> k] /\ job' \in Jobs
    BY DEF TakeSlot, Jobs
  <1>2. slots'[r] = None
    BY DEF TakeSlot, TypeOK
  <1>3. job'.root = r /\ job'.slot = sl /\ job'.kind = k
    BY <1>1
  <1> QED BY <1>1, <1>2, <1>3 DEF JobInv, Replacing

LEMMA FinalizeJob ==
  ASSUME TypeOK, JobInv, pc[Worker] = "idle", NEW r \in Roots,
         NEW sl \in Orders \cup {None}, FinalizeRootExit(r, sl)
  PROVE  JobInv'
  <1>1. CASE Skip(r, sl) \/ Skip(r, None)
    BY <1>1, SkipJob
  <1>2. CASE TakeSlot(r, sl, "ReadyCommand") /\ sl # None
    BY <1>2, TakeSlotJob
  <1>3. CASE ApplyDirectly(r) /\ ~Skip(r, None)
    <2>1. [root |-> r, slot |-> None, kind |-> "direct"] \in Jobs
      BY DEF Jobs
    <2>2. job' \in Jobs /\ pc'[Worker] = "direct"
      BY <1>3, <2>1, WorkerIsActor DEF ApplyDirectly, TypeOK
    <2> QED BY <2>2 DEF JobInv, Replacing, Holding
  <1> QED BY <1>1, <1>2, <1>3 DEF FinalizeRootExit, Emit

LEMMA ReleaseJob ==
  ASSUME TypeOK, JobInv, NEW a \in Actors, Release(a), slots' = slots
  PROVE  JobInv'
  <1>1. CASE a = Worker
    BY <1>1, WorkerIsActor DEF Release, Processed, JobInv, Replacing, Holding, TypeOK
  <1>2. CASE a # Worker
    BY <1>2, JobFrame, WorkerIsActor DEF Release, TypeOK
  <1> QED BY <1>1, <1>2

\* The worker enters the replacement only with a taken slot, and keeps its job
\* until it has released the lock.
LEMMA JobNext == TypeOK /\ JobInv /\ [Next]_vars => JobInv'
  <1> SUFFICES ASSUME TypeOK, JobInv, [Next]_vars PROVE JobInv'
    OBVIOUS
  <1>1. ASSUME NEW r \in Roots, IngestStart(r) PROVE JobInv'
    <2>1. PICK t \in 0..clock :
            \/ FinalizeRootExit(r, SlotAfterStart(r, t))
            \/ Skip(r, SlotAfterStart(r, t))
      BY <1>1 DEF IngestStart
    <2>2. SlotAfterStart(r, t) \in Orders \cup {None} /\ pc[Worker] = "idle"
      BY <1>1, SlotAfterStartType DEF IngestStart, TypeOK
    <2>3. CASE Skip(r, SlotAfterStart(r, t))
      BY <2>2, <2>3, SkipJob
    <2> QED BY <2>1, <2>2, <2>3, FinalizeJob
  <1>2. ASSUME NEW r \in Roots, IngestTerminal(r) PROVE JobInv'
    <2>1. slots[r] \in Orders \cup {None} /\ pc[Worker] = "idle"
      BY <1>2 DEF IngestTerminal, TypeOK
    <2>2. \/ FinalizeRootExit(r, slots[r])
          \/ slots[r] # None /\ TakeSlot(r, slots[r], "Canceled")
          \/ Skip(r, None)
      BY <1>2 DEF IngestTerminal
    <2> QED BY <2>1, <2>2, FinalizeJob, TakeSlotJob, SkipJob
  <1>3. ASSUME FinishDirect PROVE JobInv'
    BY <1>3, WorkerIsActor DEF FinishDirect, Processed, JobInv, Replacing, Holding, TypeOK
  <1>4. ASSUME ReplacePendingRoot PROVE JobInv'
    <2>1. CASE Release(Worker)
      BY <1>4, <2>1, ReleaseJob, WorkerIsActor DEF ReplacePendingRoot
    <2>2. CASE ~Release(Worker)
      BY <1>4, <2>2, WorkerIsActor DEF ReplacePendingRoot, JobInv, Replacing, Holding, TypeOK
    <2> QED BY <2>1, <2>2
  <1>5. ASSUME NEW q \in Requests, CheckpointArrives(q) \/ AppendCheckpoint(q)
        PROVE  JobInv'
    BY <1>5, JobFrame, ConstantsAssumption, WorkerIsActor
       DEF CheckpointArrives, AppendCheckpoint, TypeOK
  <1>6. ASSUME NEW a \in Actors, a # Worker,
               AcquireLock(a) \/ BeginEntry(a) \/ FinishEntry(a)
        PROVE  JobInv'
    BY <1>6, JobFrame, WorkerIsActor
       DEF AcquireLock, BeginEntry, Drop, Run, FinishEntry, TypeOK
  <1>7. ASSUME AcquireLock(Worker) \/ BeginEntry(Worker) \/ FinishEntry(Worker)
        PROVE  JobInv'
    <2>1. job' = job /\ slots' = slots
      BY <1>7 DEF AcquireLock, BeginEntry, FinishEntry
    <2>2. CASE AcquireLock(Worker)
      BY <2>1, <2>2, WorkerIsActor DEF AcquireLock, JobInv, Replacing, Holding, TypeOK
    <2>3. CASE BeginEntry(Worker) \/ FinishEntry(Worker)
      <3>1. pc[Worker] \in Holding /\ pc'[Worker] \in {"draining", "running"}
        BY <2>3, WorkerIsActor DEF BeginEntry, Drop, Run, FinishEntry, Holding, TypeOK
      <3> QED BY <2>1, <3>1 DEF JobInv, Replacing, Holding
    <2> QED BY <1>7, <2>2, <2>3
  <1>8. ASSUME NEW a \in Actors, CollectReady(a) PROVE JobInv'
    <2>1. CASE Release(a)
      BY <1>8, <2>1, ReleaseJob DEF CollectReady
    <2>2. CASE ~Release(a)
      <3>1. pc' = [pc EXCEPT ![a] = "draining"] /\ job' = job /\ slots' = slots
            /\ pc[a] = "appended"
        BY <1>8, <2>2 DEF CollectReady
      <3> QED BY <3>1, WorkerIsActor DEF JobInv, Replacing, Holding, TypeOK
    <2> QED BY <2>1, <2>2
  <1>9. ASSUME NEW a \in Actors, EndDrain(a) PROVE JobInv'
    BY <1>9, ReleaseJob DEF EndDrain
  <1>10. ASSUME WorkerGc PROVE JobInv'
    BY <1>10, WorkerIsActor DEF WorkerGc, JobInv, Replacing, Holding, TypeOK
  <1>11. ASSUME UpdateCheckGc \/ Tick \/ UNCHANGED vars PROVE JobInv'
    BY <1>11, JobFrame DEF UpdateCheckGc, Tick, vars
  <1> QED
    BY <1>1, <1>2, <1>3, <1>4, <1>5, <1>6, <1>7, <1>8, <1>9, <1>10, <1>11, WorkerIsActor
       DEF Next, WorkerStep, HandlerStep, DrainStep, Idle

----------------------------------------------------------------------------
(* Slots, pending entries, ordinals *)

\* The ordinal is fresh, so nothing is overwritten.
LEMMA EnqueueFresh ==
  ASSUME TypeOK, OrdinalsFresh, NEW t \in Nat, NEW f \in Families, NEW x \in Items,
         NEW k, Enqueue(t, f, x, k)
  PROVE  /\ entries'[f] = entries[f] \cup {Entry(t, f, x, k)}
         /\ \A g \in Families : g # f => entries'[g] = entries[g]
         /\ OrdinalsFresh'
  <1> DEFINE e == Entry(t, f, x, k)
  <1>1. e.ord = nextOrdinal[f] /\ nextOrdinal[f] \in Nat
    BY DEF Entry, TypeOK
  <1>2. \A y \in entries[f] : y.ord \in Nat /\ y.ord < e.ord
    BY <1>1 DEF OrdinalsFresh, TypeOK, Entries
  <1> HIDE DEF e
  <1>3. Insert(entries[f], e) = entries[f] \cup {e}
    BY <1>1, <1>2 DEF Insert, SameOrder
  <1>4. /\ entries'[f] = entries[f] \cup {e}
        /\ \A g \in Families : g # f => entries'[g] = entries[g]
    BY <1>3 DEF Enqueue, TypeOK, e
  <1>5. /\ nextOrdinal'[f] = nextOrdinal[f] + 1
        /\ \A g \in Families : g # f => nextOrdinal'[g] = nextOrdinal[g]
    BY DEF Enqueue, TypeOK
  <1>6. ASSUME NEW g \in Families
        PROVE  /\ \A y \in entries'[g] : y.ord < nextOrdinal'[g]
               /\ \A y, z \in entries'[g] : y.ord = z.ord => y = z
    <2>1. CASE g = f
      BY <1>1, <1>2, <1>4, <1>5, <2>1 DEF OrdinalsFresh
    <2>2. CASE g # f
      BY <1>4, <1>5, <2>2 DEF OrdinalsFresh
    <2> QED BY <2>1, <2>2
  <1>7. OrdinalsFresh'
    BY <1>6 DEF OrdinalsFresh
  <1> QED BY <1>4, <1>7 DEF e

\* A step that touches neither slots nor entries, and that does not begin or
\* end a replacement.
LEMMA SlotFrame ==
  ASSUME SlotFindsItsEntry, PendingEntryHasOwner, slots' = slots, entries' = entries,
         Replacing' = Replacing, Replacing => job' = job
  PROVE  SlotFindsItsEntry' /\ PendingEntryHasOwner'
  BY DEF SlotFindsItsEntry, PendingEntryHasOwner, IsPendingEntry

\* The same for a step that adds or removes only other entries.
LEMMA SlotPending ==
  ASSUME SlotFindsItsEntry, PendingEntryHasOwner, slots' = slots, job' = job,
         Replacing' = Replacing, JobInv,
         \A g \in Families : \A x : x.kind = "PendingRoot" =>
           (x \in entries'[g] <=> x \in entries[g])
  PROVE  SlotFindsItsEntry' /\ PendingEntryHasOwner'
  <1>1. \A r \in Roots : Family[r] \in Families
    BY ConstantsAssumption DEF Items
  <1>2. Replacing => job.root \in Roots
    BY DEF JobInv, Replacing, Jobs, Holding
  <1>3. SlotFindsItsEntry'
    BY <1>1, <1>2 DEF SlotFindsItsEntry, IsPendingEntry
  <1>4. PendingEntryHasOwner'
    BY DEF PendingEntryHasOwner
  <1> QED BY <1>3, <1>4

\* A payload of root r is ingested: sl, the slot r has after the possible
\* append, is either stored or taken for a replacement.
LEMMA SlotIngest ==
  ASSUME TypeOK, SlotFindsItsEntry, PendingEntryHasOwner, ~Replacing,
         NEW r \in Roots, NEW sl \in Orders \cup {None},
         slots' \in [Roots -> Orders \cup {None}],
         \A x \in Roots : x # r => slots'[x] = slots[x],
         \/ slots'[r] = sl /\ ~Replacing'
         \/ /\ slots'[r] = None /\ sl # None /\ Replacing'
            /\ job'.root = r /\ job'.slot = sl,
         \/ sl = slots[r] /\ entries' = entries
         \/ /\ slots[r] = None
            /\ \E e : /\ e.kind = "PendingRoot" /\ e.item = r /\ SameOrder(e, sl)
                      /\ entries'[Family[r]] = entries[Family[r]] \cup {e}
                      /\ \A g \in Families : g # Family[r] => entries'[g] = entries[g]
                      /\ sl # None
  PROVE  SlotFindsItsEntry' /\ PendingEntryHasOwner'
  <1>0. Family[r] \in Families /\ \A x \in Roots : Family[x] \in Families
    BY ConstantsAssumption DEF Items
  <1>1. sl # None => IsPendingEntry(Family[r], r, sl)'
    BY <1>0 DEF SlotFindsItsEntry, IsPendingEntry
  <1>2. \A x \in Roots : x # r /\ slots[x] # None => IsPendingEntry(Family[x], x, slots[x])'
    <2> SUFFICES ASSUME NEW x \in Roots, x # r, slots[x] # None
                 PROVE  \E e \in entries'[Family[x]] :
                          SameOrder(e, slots[x]) /\ e.kind = "PendingRoot" /\ e.item = x
      BY DEF IsPendingEntry
    <2>1. PICK e \in entries[Family[x]] :
            SameOrder(e, slots[x]) /\ e.kind = "PendingRoot" /\ e.item = x
      BY DEF SlotFindsItsEntry, IsPendingEntry
    <2>2. e \in entries'[Family[x]]
      BY <1>0, <2>1
    <2> QED BY <2>1, <2>2
  <1>3. SlotFindsItsEntry'
    BY <1>1, <1>2 DEF SlotFindsItsEntry, IsPendingEntry
  <1>4. ASSUME NEW f \in Families, NEW e \in entries'[f], e.kind = "PendingRoot"
        PROVE  /\ Family[e.item] = f
               /\ \/ slots'[e.item] # None /\ SameOrder(slots'[e.item], e)
                  \/ Replacing' /\ job'.root = e.item /\ SameOrder(job'.slot, e)
    <2>1. CASE e \in entries[f]
      <3>1. /\ Family[e.item] = f
            /\ slots[e.item] # None /\ SameOrder(slots[e.item], e)
        BY <1>4, <2>1 DEF PendingEntryHasOwner
      <3>2. e.item \in Items
        BY <2>1 DEF TypeOK, Entries
      <3>3. e.item \in Roots
        BY <1>4, <2>1, ConstantsAssumption DEF TypeOK, Entries, Items
      <3>4. CASE e.item # r
        BY <3>1, <3>3, <3>4
      <3>5. CASE e.item = r
        BY <3>1, <3>5
      <3> QED BY <3>4, <3>5
    <2>2. CASE e \notin entries[f]
      <3>1. f = Family[r] /\ e.item = r /\ SameOrder(e, sl) /\ sl # None
        BY <1>0, <1>4, <2>2
      <3> QED BY <3>1 DEF SameOrder
    <2> QED BY <2>1, <2>2
  <1>5. PendingEntryHasOwner'
    BY <1>4 DEF PendingEntryHasOwner
  <1> QED BY <1>3, <1>5

LEMMA OutcomeSlots ==
  ASSUME TypeOK, pc[Worker] = "idle", NEW r \in Roots, NEW sl \in Orders \cup {None},
         sl = None => slots[r] = None,
         \/ FinalizeRootExit(r, sl) \/ Skip(r, sl)
         \/ sl # None /\ TakeSlot(r, sl, "Canceled")
  PROVE  /\ slots' \in [Roots -> Orders \cup {None}]
         /\ \A x \in Roots : x # r => slots'[x] = slots[x]
         /\ \/ slots'[r] = sl /\ ~Replacing'
            \/ /\ slots'[r] = None /\ sl # None /\ Replacing'
               /\ job'.root = r /\ job'.slot = sl
  <1>1. CASE Skip(r, sl)
    BY <1>1, WorkerIsActor DEF Skip, Processed, Replacing, TypeOK
  <1>2. ASSUME NEW k, sl # None, TakeSlot(r, sl, k)
        PROVE  /\ slots' \in [Roots -> Orders \cup {None}]
               /\ \A x \in Roots : x # r => slots'[x] = slots[x]
               /\ slots'[r] = None /\ Replacing' /\ job'.root = r /\ job'.slot = sl
    BY <1>2, WorkerIsActor DEF TakeSlot, Replacing, TypeOK
  <1>3. CASE sl = None /\ ApplyDirectly(r) /\ ~Skip(r, None)
    BY <1>3, WorkerIsActor DEF ApplyDirectly, Replacing, TypeOK
  <1> QED BY <1>1, <1>2, <1>3 DEF FinalizeRootExit, Emit

\* A thread that leaves the lock was not in the middle of a replacement, or it
\* found nothing to replace.
LEMMA ReleaseSlots ==
  ASSUME TypeOK, SlotFindsItsEntry, PendingEntryHasOwner, NEW a \in Actors,
         Release(a), slots' = slots, entries' = entries,
         pc[a] \in {"appended", "draining"}
  PROVE  SlotFindsItsEntry' /\ PendingEntryHasOwner'
  <1>1. Replacing' = Replacing /\ (Replacing => job' = job)
    <2>1. CASE a = Worker
      BY <2>1, WorkerIsActor DEF Release, Processed, Replacing, TypeOK
    <2>2. CASE a # Worker
      BY <2>2, WorkerIsActor DEF Release, Replacing, TypeOK
    <2> QED BY <2>1, <2>2
  <1> QED BY <1>1, SlotFrame

\* The replacement itself: by OrdinalsFresh the slot's order names one entry,
\* which is the pending entry of the job's root.
LEMMA SlotReplace ==
  ASSUME TypeOK, JobInv, SlotFindsItsEntry, PendingEntryHasOwner, OrdinalsFresh,
         ReplacePendingRoot
  PROVE  SlotFindsItsEntry' /\ PendingEntryHasOwner' /\ OrdinalsFresh'
  <1> DEFINE f == Family[job.root]
  <1>1. /\ Replacing /\ job \in Jobs /\ job.root \in Roots /\ job.slot \in Orders
        /\ job.kind \in {"ReadyCommand", "Canceled"} /\ slots[job.root] = None
    BY DEF ReplacePendingRoot, Replacing, JobInv, Holding, Jobs
  <1>2. f \in Families
    BY <1>1, ConstantsAssumption DEF Items
  <1>3. PICK e \in entries[f] :
          SameOrder(e, job.slot) /\ e.kind = "PendingRoot" /\ e.item = job.root
    BY <1>1 DEF SlotFindsItsEntry, IsPendingEntry
  <1>4. Replaceable = {e}
    <2>1. \A x \in Replaceable : x.ord = e.ord /\ x \in entries[f]
      BY <1>3 DEF Replaceable, SameOrder
    <2>2. e \in Replaceable
      BY <1>3 DEF Replaceable
    <2> QED BY <1>2, <1>3, <2>1, <2>2 DEF OrdinalsFresh
  <1> DEFINE n == [e EXCEPT !.kind = job.kind]
  <1>5. /\ entries' = [entries EXCEPT ![f] = (entries[f] \ {e}) \cup {n}]
        /\ pc' = [pc EXCEPT ![Worker] = "appended"]
        /\ slots' = slots /\ nextOrdinal' = nextOrdinal
    BY <1>4 DEF ReplacePendingRoot
  <1>6. ~Replacing'
    BY <1>5, WorkerIsActor DEF Replacing, TypeOK
  <1>7. e \in Entries
    BY <1>2 DEF TypeOK
  <1>8. n.ord = e.ord /\ n.kind # "PendingRoot"
    BY <1>1, <1>7 DEF Entries
  <1> HIDE DEF n, f
  <1>9. /\ entries'[f] = (entries[f] \ {e}) \cup {n}
        /\ \A g \in Families : g # f => entries'[g] = entries[g]
    BY <1>2, <1>5 DEF TypeOK
  <1>10. OrdinalsFresh'
    <2>1. \A g \in Families : \A x \in entries'[g] :
            x.ord < nextOrdinal[g] /\ \E y \in entries[g] :
              y.ord = x.ord /\ (g # f \/ x # n => y = x) /\ (g = f /\ x = n => y = e)
      BY <1>2, <1>3, <1>8, <1>9 DEF OrdinalsFresh
    <2>2. \A x, y \in entries'[f] : x.ord = y.ord => x = y
      BY <1>2, <1>3, <1>8, <1>9 DEF OrdinalsFresh
    <2>3. \A g \in Families : g # f => \A x, y \in entries'[g] : x.ord = y.ord => x = y
      BY <1>9 DEF OrdinalsFresh
    <2> QED BY <1>5, <2>1, <2>2, <2>3 DEF OrdinalsFresh
  <1>11. SlotFindsItsEntry'
    <2> SUFFICES ASSUME NEW r \in Roots, slots[r] # None
                 PROVE  \E x \in entries'[Family[r]] :
                          SameOrder(x, slots[r]) /\ x.kind = "PendingRoot" /\ x.item = r
      BY <1>5, <1>6 DEF SlotFindsItsEntry, IsPendingEntry
    <2>1. PICK x \in entries[Family[r]] :
            SameOrder(x, slots[r]) /\ x.kind = "PendingRoot" /\ x.item = r
      BY DEF SlotFindsItsEntry, IsPendingEntry
    <2>2. x # e
      BY <1>1, <1>3, <2>1
    <2>3. Family[r] \in Families
      BY ConstantsAssumption DEF Items
    <2>4. x \in entries'[Family[r]]
      BY <1>9, <2>1, <2>2, <2>3
    <2> QED BY <2>1, <2>4
  <1>12. PendingEntryHasOwner'
    <2> SUFFICES ASSUME NEW g \in Families, NEW x \in entries'[g], x.kind = "PendingRoot"
                 PROVE  /\ Family[x.item] = g
                        /\ slots[x.item] # None /\ SameOrder(slots[x.item], x)
      BY <1>5, <1>6 DEF PendingEntryHasOwner
    <2>1. x \in entries[g] /\ (g = f => x # e)
      BY <1>8, <1>9
    <2>2. ~(job.root = x.item /\ SameOrder(job.slot, x))
      <3> SUFFICES ASSUME job.root = x.item, SameOrder(job.slot, x) PROVE FALSE
        OBVIOUS
      <3>1. g = f /\ x.ord = e.ord
        BY <1>3, <2>1 DEF SameOrder, PendingEntryHasOwner, f
      <3> QED BY <1>3, <2>1, <3>1 DEF OrdinalsFresh
    <2> QED BY <2>1, <2>2 DEF PendingEntryHasOwner
  <1> QED BY <1>10, <1>11, <1>12

LEMMA SlotInit == Init => SlotFindsItsEntry /\ PendingEntryHasOwner /\ OrdinalsFresh
  BY WorkerIsActor
     DEF Init, SlotFindsItsEntry, PendingEntryHasOwner, OrdinalsFresh, Replacing

LEMMA SlotNext ==
  TypeOK /\ JobInv /\ SlotFindsItsEntry /\ PendingEntryHasOwner /\ OrdinalsFresh /\ [Next]_vars
    => SlotFindsItsEntry' /\ PendingEntryHasOwner' /\ OrdinalsFresh'
  <1> SUFFICES ASSUME TypeOK, JobInv, SlotFindsItsEntry, PendingEntryHasOwner,
                      OrdinalsFresh, [Next]_vars
               PROVE  SlotFindsItsEntry' /\ PendingEntryHasOwner' /\ OrdinalsFresh'
    OBVIOUS
  <1> DEFINE Goal == SlotFindsItsEntry' /\ PendingEntryHasOwner' /\ OrdinalsFresh'
  <1>1. ASSUME NEW r \in Roots, IngestStart(r) PROVE Goal
    <2>1. PICK t \in 0..clock :
            /\ AppendPendingRoot(r, t)
            /\ \/ FinalizeRootExit(r, SlotAfterStart(r, t))
               \/ Skip(r, SlotAfterStart(r, t))
      BY <1>1 DEF IngestStart
    <2> DEFINE sl == SlotAfterStart(r, t)
    <2>a. t \in Nat
      BY DEF TypeOK
    <2>2. /\ t \in Nat /\ sl \in Orders \cup {None} /\ pc[Worker] = "idle"
          /\ r \in Items /\ Family[r] \in Families
      BY <1>1, <2>a, SlotAfterStartType, ConstantsAssumption DEF IngestStart, Items
    <2>3. ~Replacing
      BY <2>2 DEF Replacing
    <2>4. CASE Appends(r)
      <3>1. sl = [ts |-> t, ord |-> nextOrdinal[Family[r]]] /\ slots[r] = None
        BY <2>4 DEF SlotAfterStart, Appends
      <3>2. sl # None
        BY <2>2, <3>1, NoneAssumption DEF Orders, TypeOK
      <3> DEFINE e == Entry(t, Family[r], r, "PendingRoot")
      <3>3. /\ entries'[Family[r]] = entries[Family[r]] \cup {e}
            /\ \A g \in Families : g # Family[r] => entries'[g] = entries[g]
            /\ OrdinalsFresh'
        BY <2>1, <2>2, <2>4, EnqueueFresh DEF AppendPendingRoot
      <3>4. e.kind = "PendingRoot" /\ e.item = r /\ SameOrder(e, sl)
        BY <3>1 DEF Entry, SameOrder
      <3> HIDE DEF e, sl
      <3>5. /\ slots' \in [Roots -> Orders \cup {None}]
            /\ \A x \in Roots : x # r => slots'[x] = slots[x]
            /\ \/ slots'[r] = sl /\ ~Replacing'
               \/ /\ slots'[r] = None /\ sl # None /\ Replacing'
                  /\ job'.root = r /\ job'.slot = sl
        BY <2>1, <2>2, <3>2, OutcomeSlots DEF sl
      <3> QED BY <2>2, <2>3, <3>1, <3>2, <3>3, <3>4, <3>5, SlotIngest
    <2>5. CASE ~Appends(r)
      <3>1. sl = slots[r] /\ entries' = entries /\ nextOrdinal' = nextOrdinal
        BY <2>1, <2>5 DEF SlotAfterStart, AppendPendingRoot, queueVars
      <3> HIDE DEF sl
      <3>2. /\ slots' \in [Roots -> Orders \cup {None}]
            /\ \A x \in Roots : x # r => slots'[x] = slots[x]
            /\ \/ slots'[r] = sl /\ ~Replacing'
               \/ /\ slots'[r] = None /\ sl # None /\ Replacing'
                  /\ job'.root = r /\ job'.slot = sl
        BY <2>1, <2>2, <3>1, OutcomeSlots DEF sl
      <3>3. OrdinalsFresh'
        BY <3>1 DEF OrdinalsFresh
      <3> QED BY <2>2, <2>3, <3>1, <3>2, <3>3, SlotIngest
    <2> QED BY <2>4, <2>5
  <1>2. ASSUME NEW r \in Roots, IngestTerminal(r) PROVE Goal
    <2>1. slots[r] \in Orders \cup {None} /\ pc[Worker] = "idle" /\ ~Replacing
      BY <1>2 DEF IngestTerminal, TypeOK, Replacing
    <2>2. entries' = entries /\ nextOrdinal' = nextOrdinal
      BY <1>2 DEF IngestTerminal, queueVars
    <2>3. \/ FinalizeRootExit(r, slots[r]) \/ Skip(r, slots[r])
          \/ slots[r] # None /\ TakeSlot(r, slots[r], "Canceled")
      BY <1>2 DEF IngestTerminal
    <2>4. /\ slots' \in [Roots -> Orders \cup {None}]
          /\ \A x \in Roots : x # r => slots'[x] = slots[x]
          /\ \/ slots'[r] = slots[r] /\ ~Replacing'
             \/ /\ slots'[r] = None /\ slots[r] # None /\ Replacing'
                /\ job'.root = r /\ job'.slot = slots[r]
      BY <2>1, <2>3, OutcomeSlots
    <2>5. OrdinalsFresh'
      BY <2>2 DEF OrdinalsFresh
    <2> QED BY <2>1, <2>2, <2>4, <2>5, SlotIngest
  <1>3. ASSUME FinishDirect PROVE Goal
    <2>1. ~Replacing /\ Replacing' = Replacing
      BY <1>3, WorkerIsActor DEF FinishDirect, Processed, Replacing, TypeOK
    <2> QED BY <1>3, <2>1, SlotFrame DEF FinishDirect, queueVars, OrdinalsFresh
  <1>4. ASSUME ReplacePendingRoot PROVE Goal
    BY <1>4, SlotReplace
  <1>5. ASSUME NEW q \in Requests, CheckpointArrives(q) PROVE Goal
    <2>1. Replacing' = Replacing
      BY <1>5, ConstantsAssumption, WorkerIsActor DEF CheckpointArrives, Replacing, TypeOK
    <2> QED BY <1>5, <2>1, SlotFrame DEF CheckpointArrives, queueVars, OrdinalsFresh
  <1>6. ASSUME NEW q \in Requests, AppendCheckpoint(q) PROVE Goal
    <2>1. Replacing' = Replacing /\ job' = job /\ slots' = slots
      BY <1>6, ConstantsAssumption, WorkerIsActor DEF AppendCheckpoint, Replacing, TypeOK
    <2>2. q \in Items /\ Family[q] \in Families /\ clock \in Nat
      BY ConstantsAssumption DEF Items, TypeOK
    <2> DEFINE e == Entry(clock, Family[q], q, "Checkpoint")
    <2>3. /\ entries'[Family[q]] = entries[Family[q]] \cup {e}
          /\ \A g \in Families : g # Family[q] => entries'[g] = entries[g]
          /\ OrdinalsFresh'
      BY <1>6, <2>2, EnqueueFresh DEF AppendCheckpoint
    <2>4. e.kind # "PendingRoot"
      BY DEF Entry
    <2> HIDE DEF e
    <2>5. \A g \in Families : \A x : x.kind = "PendingRoot" =>
            (x \in entries'[g] <=> x \in entries[g])
      BY <2>3, <2>4
    <2> QED BY <2>1, <2>3, <2>5, SlotPending
  <1>7. ASSUME NEW a \in Actors, AcquireLock(a) PROVE Goal
    <2>1. Replacing' = Replacing
      BY <1>7, WorkerIsActor DEF AcquireLock, Replacing, TypeOK
    <2> QED BY <1>7, <2>1, SlotFrame DEF AcquireLock, queueVars, OrdinalsFresh
  <1>8. ASSUME NEW a \in Actors, CollectReady(a) PROVE Goal
    <2> DEFINE f == FamilyOf(a)
               R == ReadyPrefix(entries[f])
    <2>1. CASE R = {}
      <3>1. Release(a) /\ entries' = entries /\ slots' = slots
            /\ nextOrdinal' = nextOrdinal /\ pc[a] = "appended"
        BY <1>8, <2>1 DEF CollectReady
      <3> QED BY <3>1, ReleaseSlots DEF OrdinalsFresh
    <2>2. CASE R # {}
      <3>1. /\ entries' = [entries EXCEPT ![f] = entries[f] \ R]
            /\ pc' = [pc EXCEPT ![a] = "draining"] /\ pc[a] = "appended"
            /\ slots' = slots /\ job' = job /\ nextOrdinal' = nextOrdinal
        BY <1>8, <2>2 DEF CollectReady
      <3>2. \A x \in R : x.kind # "PendingRoot"
        BY DEF ReadyPrefix
      <3> HIDE DEF R, f
      <3>3. Replacing' = Replacing
        BY <3>1, WorkerIsActor DEF Replacing, TypeOK
      <3>4. \A g \in Families : entries'[g] \subseteq entries[g]
        BY <3>1 DEF TypeOK
      <3>5. \A g \in Families : \A x : x.kind = "PendingRoot" =>
              (x \in entries'[g] <=> x \in entries[g])
        BY <3>1, <3>2 DEF TypeOK
      <3>6. OrdinalsFresh'
        BY <3>1, <3>4 DEF OrdinalsFresh
      <3> QED BY <3>1, <3>3, <3>5, <3>6, SlotPending
    <2> QED BY <2>1, <2>2
  <1>9. ASSUME NEW a \in Actors, BeginEntry(a) \/ FinishEntry(a) PROVE Goal
    <2>1. Replacing' = Replacing
      BY <1>9, WorkerIsActor DEF BeginEntry, Drop, Run, FinishEntry, Replacing, TypeOK
    <2> QED BY <1>9, <2>1, SlotFrame DEF BeginEntry, FinishEntry, queueVars, OrdinalsFresh
  <1>10. ASSUME NEW a \in Actors, EndDrain(a) PROVE Goal
    BY <1>10, ReleaseSlots DEF EndDrain, queueVars, OrdinalsFresh
  <1>11. ASSUME GcStaleFamilyState, entries' = entries PROVE OrdinalsFresh'
    BY <1>11 DEF GcStaleFamilyState, OrdinalsFresh, TypeOK
  <1>12. ASSUME WorkerGc \/ UpdateCheckGc PROVE Goal
    <2>1. Replacing' = Replacing
      BY <1>12, WorkerIsActor DEF WorkerGc, UpdateCheckGc, Replacing, TypeOK
    <2> QED BY <1>11, <1>12, <2>1, SlotFrame DEF WorkerGc, UpdateCheckGc
  <1>13. ASSUME Tick \/ UNCHANGED vars PROVE Goal
    <2>1. Replacing' = Replacing
      BY <1>13 DEF Tick, vars, Replacing
    <2> QED BY <1>13, <2>1, SlotFrame DEF Tick, vars, queueVars, OrdinalsFresh
  <1> QED
    BY <1>1, <1>2, <1>3, <1>4, <1>5, <1>6, <1>7, <1>8, <1>9, <1>10, <1>12, <1>13, WorkerIsActor
       DEF Next, WorkerStep, HandlerStep, DrainStep, Idle

----------------------------------------------------------------------------
(* The execution lock *)

LEMMA LockInit == Init => LockInv
  BY DEF Init, LockInv, Holding

\* Steps that neither clone nor acquire a mutex.
LEMMA LockFrame ==
  ASSUME TypeOK, LockInv, TypeOK',
         \A b \in Actors : pc'[b] \in Holding \cup {"waiting"} =>
           /\ pc[b] \in Holding \cup {"waiting"}
           /\ pc'[b] \in Holding => pc[b] \in Holding
           /\ arc'[b] = arc[b] /\ FamilyOf(b)' = FamilyOf(b)
           /\ FamilyOf(b) \in Families,
         \A f \in Families : lock[f] <= lock'[f]
  PROVE  LockInv'
  <1>1. ASSUME NEW a \in Actors, pc'[a] \in Holding \cup {"waiting"}
        PROVE  arc'[a] \in 1..lock'[FamilyOf(a)']
    <2>1. FamilyOf(a) \in Families /\ arc[a] \in 1..lock[FamilyOf(a)]
      BY <1>1 DEF LockInv
    <2>2. lock[FamilyOf(a)] \in Nat /\ lock'[FamilyOf(a)] \in Nat
      BY <2>1 DEF TypeOK
    <2> QED BY <1>1, <2>1, <2>2
  <1>2. ASSUME NEW a \in Actors, NEW b \in Actors, pc'[a] \in Holding, pc'[b] \in Holding,
               FamilyOf(a)' = FamilyOf(b)', arc'[a] = arc'[b]
        PROVE  a = b
    BY <1>2 DEF LockInv
  <1> QED BY <1>1, <1>2 DEF LockInv

\* A thread clones the mutex that the map holds and waits for it.
LEMMA LockClone ==
  ASSUME TypeOK, LockInv, NEW a \in Actors, pc[a] \notin Holding,
         pc' = [pc EXCEPT ![a] = "waiting"],
         FamilyOf(a)' \in Families,
         arc' = [arc EXCEPT ![a] = lock[FamilyOf(a)']], lock' = lock,
         \A b \in Actors \ {a} : pc[b] \in Holding \cup {"waiting"} =>
           FamilyOf(b)' = FamilyOf(b)
  PROVE  LockInv'
  <1>1. \A b \in Actors \ {a} : pc'[b] = pc[b] /\ arc'[b] = arc[b]
    BY DEF TypeOK
  <1>2. pc'[a] = "waiting" /\ arc'[a] = lock[FamilyOf(a)'] /\ pc'[a] \notin Holding
    BY DEF TypeOK, Holding
  <1>3. arc'[a] \in 1..lock'[FamilyOf(a)']
    BY <1>2 DEF TypeOK
  <1>4. ASSUME NEW b \in Actors, pc'[b] \in Holding \cup {"waiting"}
        PROVE  arc'[b] \in 1..lock'[FamilyOf(b)']
    <2>1. CASE b = a
      BY <1>3, <2>1
    <2>2. CASE b # a
      BY <1>1, <1>4, <2>2 DEF LockInv
    <2> QED BY <2>1, <2>2
  <1>5. ASSUME NEW b \in Actors, NEW c \in Actors, pc'[b] \in Holding, pc'[c] \in Holding,
               FamilyOf(b)' = FamilyOf(c)', arc'[b] = arc'[c]
        PROVE  b = c
    BY <1>1, <1>2, <1>5 DEF LockInv
  <1> QED BY <1>4, <1>5 DEF LockInv

\* A thread's family is fixed as long as its job is.
LEMMA FamilyFixed ==
  ASSUME TypeOK, JobInv, NEW b \in Actors, b = Worker => job' = job
  PROVE  /\ FamilyOf(b)' = FamilyOf(b)
         /\ pc[b] \in Holding \cup {"waiting"} => FamilyOf(b) \in Families
  <1>1. FamilyOf(b)' = FamilyOf(b)
    BY DEF FamilyOf
  <1>2. CASE b = Worker
    BY <1>1, <1>2, ConstantsAssumption DEF FamilyOf, JobInv, Jobs, Items
  <1>3. CASE b # Worker
    BY <1>1, <1>3, ConstantsAssumption, WorkerIsActor DEF FamilyOf, Items
  <1> QED BY <1>1, <1>2, <1>3

LEMMA LockNext == TypeOK /\ JobInv /\ LockInv /\ TypeOK' /\ [Next]_vars => LockInv'
  <1> SUFFICES ASSUME TypeOK, JobInv, LockInv, TypeOK', [Next]_vars PROVE LockInv'
    OBVIOUS
  <1> DEFINE Calm == \A b \in Actors : pc'[b] \in Holding \cup {"waiting"} =>
                        /\ pc[b] \in Holding \cup {"waiting"}
                        /\ pc'[b] \in Holding => pc[b] \in Holding
                        /\ arc'[b] = arc[b]
                        /\ b = Worker => job' = job
  <1>0. \A f \in Families : lock[f] <= lock[f] /\ lock[f] <= lock[f] + 1
    BY DEF TypeOK
  <1>1. ASSUME Calm, lock' = lock \/ GcStaleFamilyState PROVE LockInv'
    <2>1. \A f \in Families : lock[f] <= lock'[f]
      BY <1>0, <1>1 DEF GcStaleFamilyState
    <2> QED BY <1>1, <2>1, FamilyFixed, LockFrame
  <1>2. ASSUME NEW r \in Roots, IngestStart(r) \/ IngestTerminal(r) PROVE LockInv'
    <2>1. pc[Worker] = "idle" /\ lock' = lock
      BY <1>2 DEF IngestStart, IngestTerminal
    <2>2. \/ \E sl, k : TakeSlot(r, sl, k)
          \/ \E sl : Skip(r, sl)
          \/ ApplyDirectly(r)
      BY <1>2 DEF IngestStart, IngestTerminal, FinalizeRootExit, Emit
    <2>3. CASE \E sl, k : TakeSlot(r, sl, k)
      <3>1. PICK sl, k : TakeSlot(r, sl, k)
        BY <2>3
      <3>2. FamilyOf(Worker)' = Family[r] /\ Family[r] \in Families
        BY <3>1, ConstantsAssumption DEF TakeSlot, FamilyOf, Items
      <3>3. \A b \in Actors \ {Worker} : FamilyOf(b)' = FamilyOf(b)
        BY DEF FamilyOf
      <3> QED BY <2>1, <3>1, <3>2, <3>3, LockClone, WorkerIsActor DEF TakeSlot, Holding
    <2>4. CASE (\E sl : Skip(r, sl)) \/ (ApplyDirectly(r) /\ ~Skip(r, None))
      <3>1. /\ pc'[Worker] \in {"idle", "gc", "direct"} /\ arc' = arc
            /\ \A b \in Actors : b # Worker => pc'[b] = pc[b]
        BY <2>4, WorkerIsActor DEF Skip, Processed, ApplyDirectly, TypeOK
      <3> QED BY <1>1, <2>1, <3>1 DEF Holding
    <2> QED BY <2>2, <2>3, <2>4
  <1>3. ASSUME FinishDirect PROVE LockInv'
    <2>1. /\ pc'[Worker] \in {"idle", "gc"} /\ arc' = arc /\ lock' = lock
          /\ \A b \in Actors : b # Worker => pc'[b] = pc[b]
      BY <1>3, WorkerIsActor DEF FinishDirect, Processed, TypeOK
    <2> QED BY <1>1, <2>1 DEF Holding
  <1>4. ASSUME NEW a \in Actors, Release(a), lock' = lock PROVE LockInv'
    <2>1. /\ pc'[a] \in {"idle", "gc", "done"}
          /\ \A b \in Actors : b # a => pc'[b] = pc[b] /\ arc'[b] = arc[b]
          /\ a # Worker => job' = job
      BY <1>4, WorkerIsActor DEF Release, Processed, TypeOK
    <2> QED BY <1>1, <1>4, <2>1 DEF Holding
  <1>5. ASSUME NEW a \in Actors, NEW p \in Holding, pc[a] \in Holding,
               pc' = [pc EXCEPT ![a] = p], arc' = arc, job' = job, lock' = lock
        PROVE  LockInv'
    BY <1>1, <1>5 DEF TypeOK
  <1>6. ASSUME ReplacePendingRoot PROVE LockInv'
    <2>1. CASE Release(Worker)
      BY <1>4, <1>6, <2>1, WorkerIsActor DEF ReplacePendingRoot
    <2>2. CASE ~Release(Worker)
      <3>1. /\ pc[Worker] \in Holding /\ "appended" \in Holding
            /\ pc' = [pc EXCEPT ![Worker] = "appended"]
            /\ arc' = arc /\ job' = job /\ lock' = lock
        BY <1>6, <2>2 DEF ReplacePendingRoot, Holding
      <3> QED BY <1>5, <3>1, WorkerIsActor
    <2> QED BY <2>1, <2>2
  <1>7. ASSUME NEW q \in Requests, CheckpointArrives(q) PROVE LockInv'
    <2>1. CASE Class[q].files = {}
      <3>1. /\ pc'[q] = "done" /\ arc' = arc /\ lock' = lock /\ job' = job
            /\ \A b \in Actors : b # q => pc'[b] = pc[b]
        BY <1>7, <2>1, WorkerIsActor DEF CheckpointArrives, TypeOK
      <3> QED BY <1>1, <3>1 DEF Holding
    <2>2. CASE Class[q].files # {}
      <3>1. FamilyOf(q)' = Family[q] /\ Family[q] \in Families /\ q \in Actors
        BY ConstantsAssumption, WorkerIsActor DEF FamilyOf, Items
      <3>2. \A b \in Actors : FamilyOf(b)' = FamilyOf(b)
        BY <1>7 DEF CheckpointArrives, FamilyOf
      <3> QED BY <1>7, <2>2, <3>1, <3>2, LockClone DEF CheckpointArrives, Holding
    <2> QED BY <2>1, <2>2
  <1>8. ASSUME NEW q \in Requests, AppendCheckpoint(q) PROVE LockInv'
    <2>1. /\ pc[q] \in Holding /\ "appended" \in Holding
          /\ pc' = [pc EXCEPT ![q] = "appended"]
          /\ arc' = arc /\ job' = job /\ lock' = lock
      BY <1>8 DEF AppendCheckpoint, Holding
    <2> QED BY <1>5, <2>1, WorkerIsActor
  <1>9. ASSUME NEW a \in Actors, AcquireLock(a) PROVE LockInv'
    <2>1. /\ pc' = [pc EXCEPT ![a] = "locked"] /\ pc[a] = "waiting"
          /\ arc' = arc /\ job' = job /\ lock' = lock
          /\ \A b \in Actors : pc[b] \in Holding =>
                                 ~(FamilyOf(b) = FamilyOf(a) /\ arc[b] = arc[a])
      BY <1>9 DEF AcquireLock
    <2>2. \A b \in Actors : FamilyOf(b)' = FamilyOf(b)
      BY <2>1 DEF FamilyOf
    <2>3. \A b \in Actors : b # a => pc'[b] = pc[b]
      BY <2>1 DEF TypeOK
    <2>4. ASSUME NEW b \in Actors, pc'[b] \in Holding \cup {"waiting"}
          PROVE  arc'[b] \in 1..lock'[FamilyOf(b)']
      BY <2>1, <2>2, <2>3, <2>4 DEF LockInv
    <2>5. ASSUME NEW b \in Actors, NEW c \in Actors, pc'[b] \in Holding, pc'[c] \in Holding,
                 FamilyOf(b)' = FamilyOf(c)', arc'[b] = arc'[c]
          PROVE  b = c
      BY <2>1, <2>2, <2>3, <2>5 DEF LockInv
    <2> QED BY <2>4, <2>5 DEF LockInv
  <1>10. ASSUME NEW a \in Actors, CollectReady(a) PROVE LockInv'
    <2>1. CASE Release(a)
      BY <1>4, <1>10, <2>1 DEF CollectReady
    <2>2. CASE ~Release(a)
      <3>1. /\ pc[a] \in Holding /\ "draining" \in Holding
            /\ pc' = [pc EXCEPT ![a] = "draining"]
            /\ arc' = arc /\ job' = job /\ lock' = lock
        BY <1>10, <2>2 DEF CollectReady, Holding
      <3> QED BY <1>5, <3>1
    <2> QED BY <2>1, <2>2
  <1>11. ASSUME NEW a \in Actors, BeginEntry(a) \/ FinishEntry(a) PROVE LockInv'
    <2>1. /\ pc[a] \in Holding /\ arc' = arc /\ job' = job /\ lock' = lock
          /\ \E p \in Holding : pc' = [pc EXCEPT ![a] = p]
      <3>1. pc[a] \in {"draining", "running"} /\ {"draining", "running"} \subseteq Holding
        BY <1>11 DEF BeginEntry, FinishEntry, Holding
      <3>2. pc' = pc => pc' = [pc EXCEPT ![a] = pc[a]]
        BY DEF TypeOK
      <3> QED BY <1>11, <3>1, <3>2 DEF BeginEntry, Drop, Run, FinishEntry
    <2> QED BY <1>5, <2>1
  <1>12. ASSUME NEW a \in Actors, EndDrain(a) PROVE LockInv'
    BY <1>4, <1>12 DEF EndDrain
  <1>13. ASSUME WorkerGc \/ UpdateCheckGc PROVE LockInv'
    <2>1. /\ arc' = arc /\ job' = job /\ GcStaleFamilyState
          /\ \A b \in Actors : pc'[b] = pc[b] \/ pc'[b] = "idle"
      BY <1>13, WorkerIsActor DEF WorkerGc, UpdateCheckGc, TypeOK
    <2> QED BY <1>1, <2>1 DEF Holding
  <1>14. ASSUME Tick \/ UNCHANGED vars PROVE LockInv'
    BY <1>1, <1>14 DEF Tick, vars
  <1> QED
    BY <1>2, <1>3, <1>6, <1>7, <1>8, <1>9, <1>10, <1>11, <1>12, <1>13, <1>14, WorkerIsActor
       DEF Next, WorkerStep, HandlerStep, DrainStep, Idle

----------------------------------------------------------------------------
(* Theorems *)

\* The inductive invariant holds in every reachable state.
THEOREM Inductive == Spec => []IInv
  <1>1. Init => IInv
    BY TypeInit, JobInit, SlotInit, LockInit DEF IInv, SlotInv
  <1>2. IInv /\ [Next]_vars => IInv'
    BY TypeNext, JobNext, SlotNext, LockNext DEF IInv, SlotInv
  <1> QED BY <1>1, <1>2, PTL DEF Spec

\* Every variable of the sequencer keeps its type (the maps of the daemon's
\* coordinator hold what their Rust types say).
THEOREM TypeCorrect == Spec => []TypeOK
  <1>1. IInv => TypeOK
    BY DEF IInv
  <1> QED BY <1>1, Inductive, PTL

\* A slot, or the slot the worker has taken, always names a PendingRoot entry of
\* its root, so replace_pending_root_entry finds it pending and its two error
\* returns are unreachable; and every PendingRoot entry has a slot or a
\* replacement under way that can remove it from the front of its family's map.
THEOREM SlotsAndEntriesAgree == Spec => []SlotsMatchEntries
  <1>1. IInv => SlotsMatchEntries
    BY DEF IInv, SlotInv, SlotsMatchEntries
  <1> QED BY <1>1, Inductive, PTL

\* Ordinals of queued entries stay distinct although gc_stale_family_state
\* restarts them: no insertion overwrites a queued command or checkpoint.
THEOREM NoEntryOverwritten == Spec => []OrdinalsFresh
  <1>1. IInv => OrdinalsFresh
    BY DEF IInv, SlotInv
  <1> QED BY <1>1, Inductive, PTL

\* As long as the collector has not dropped a family's mutex, at most one
\* thread is between acquiring and releasing it: the drains of the family are
\* serialised.
THEOREM DrainsExclusive == Spec => []ExclusiveUntilSwept
  <1>1. TypeOK /\ JobInv /\ LockInv => ExclusiveUntilSwept
    <2> SUFFICES ASSUME TypeOK, JobInv, LockInv, NEW a \in Actors, NEW b \in Actors,
                        pc[a] \in Holding, pc[b] \in Holding,
                        FamilyOf(a) = FamilyOf(b), lock[FamilyOf(a)] = 1
                 PROVE  a = b
      BY DEF ExclusiveUntilSwept
    <2>1. arc[a] \in 1..1 /\ arc[b] \in 1..1
      BY DEF LockInv
    <2>2. arc[a] = arc[b]
      BY <2>1
    <2> QED BY <2>2 DEF LockInv
  <1>2. IInv => ExclusiveUntilSwept
    BY <1>1 DEF IInv, SlotInv
  <1> QED BY <1>2, Inductive, PTL

----------------------------------------------------------------------------
(* Queues and hands *)

\* A thread has entries in its hands only while it drains, none of them a
\* PendingRoot, and the one it runs is the first of them and not canceled.
DrainInv ==
  \A a \in Actors :
    /\ pc[a] \notin {"draining", "running"} => ready[a] = {}
    /\ pc[a] = "running" <=> cur[a] # None
    /\ \A e \in ready[a] : e.kind # "PendingRoot"
    /\ cur[a] # None => /\ cur[a].entry.kind \in {"ReadyCommand", "Checkpoint"}
                        /\ cur[a].entry \notin ready[a]
                        /\ \A e \in ready[a] : Before(cur[a].entry, e)

\* An item is in one place, in the map of its family or in the hands of one
\* thread, and was not applied before.
Queued(x) == \E f \in Families : \E e \in entries[f] : e.item = x
Carried(x) == \E a \in Actors : \E e \in Taken(a) : e.item = x

PlaceInv ==
  /\ \A f \in Families : \A e \in entries[f] : Family[e.item] = f
  /\ \A f \in Families : \A d, e \in entries[f] : d.item = e.item => d = e
  /\ \A x \in Items : ~(Queued(x) /\ Carried(x))
  /\ \A a, b \in Actors : \A d \in Taken(a), e \in Taken(b) :
       d.item = e.item => a = b /\ d = e
  /\ \A x \in Items : ran[x] \in {0, 1} /\ (Queued(x) \/ Carried(x) => ran[x] = 0)

Untouched(x) == ran[x] = 0 /\ ~Queued(x) /\ ~Carried(x)

Starts(s) == \E i \in DOMAIN s : s[i] = "start"
StartsOnce(s) == \A i, j \in DOMAIN s : s[i] = "start" /\ s[j] = "start" => i = j

\* A request enters once, when its handler has the lock; a root that is still to
\* start, that is pending without an entry, or whose command runs outside the
\* sequencer, has not entered.
EntryInv ==
  /\ \A q \in Requests : pc[q] \in {"idle", "waiting", "locked"} => Untouched(q)
  /\ \A r \in Roots : StartsOnce(todo[r])
  /\ \A r \in Roots : Starts(todo[r]) =>
       norm[r] \in {"absent", "deferred"} /\ slots[r] = None /\ Untouched(r)
  /\ \A r \in Roots : norm[r] = "pending" /\ slots[r] = None => Untouched(r)
  /\ \A r \in Roots : pc[Worker] = "direct" /\ job.root = r =>
       norm[r] = "completed" /\ Untouched(r)

QInv == IInv /\ DrainInv /\ PlaceInv /\ EntryInv

Begun == {"draining", "running"}
NotIn == {"idle", "waiting", "locked"}

----------------------------------------------------------------------------
(* What a drain has in its hands *)

LEMMA DrainInit == Init => DrainInv
  BY DEF Init, DrainInv

LEMMA DrainFrame ==
  ASSUME DrainInv, ready' = ready, cur' = cur,
         \A a \in Actors : /\ pc'[a] \notin Begun => ready[a] = {}
                           /\ pc'[a] = "running" <=> pc[a] = "running"
  PROVE  DrainInv'
  BY DEF DrainInv, Begun

LEMMA ReleaseDrain ==
  ASSUME TypeOK, DrainInv, NEW a \in Actors, ready[a] = {}, pc[a] # "running",
         Release(a), ready' = ready, cur' = cur
  PROVE  DrainInv'
  <1>1. pc'[a] \notin Begun /\ \A b \in Actors : b # a => pc'[b] = pc[b]
    BY WorkerIsActor DEF Release, Processed, TypeOK, Begun
  <1>2. pc'[a] # "running"
    BY <1>1 DEF Begun
  <1>3. \A b \in Actors : pc[b] \notin Begun => ready[b] = {}
    BY DEF DrainInv, Begun
  <1> QED BY <1>1, <1>2, <1>3, DrainFrame

\* What a drain applies of a checkpoint are files of it.
LEMMA RunType ==
  ASSUME TypeOK, NEW a \in Actors, BeginEntry(a), NEW e \in ready[a], NEW fs,
         \/ e.kind = "ReadyCommand" /\ fs = {}
         \/ e.kind = "Checkpoint" /\ fs = FilesToApply(Class[e.item])
  PROVE  e \in Entries /\ [entry |-> e, files |-> fs] # None
  <1>1. e \in Entries
    BY DEF TypeOK
  <1>2. fs \subseteq Files
    <2>1. CASE e.kind = "Checkpoint"
      <3>1. e.item \in Requests
        BY <1>1, <2>1 DEF Entries
      <3>2. Class[e.item].files \subseteq Files
        BY <3>1, ConstantsAssumption
      <3> QED BY <2>1, <3>2 DEF FilesToApply
    <2> QED BY <2>1
  <1>3. [entry |-> e, files |-> fs] \in [entry : Entries, files : SUBSET Files]
    BY <1>1, <1>2
  <1> QED BY <1>1, <1>3, IdleAssumption

LEMMA DrainNext == TypeOK /\ DrainInv /\ [Next]_vars => DrainInv'
  <1> SUFFICES ASSUME TypeOK, DrainInv, [Next]_vars PROVE DrainInv'
    OBVIOUS
  <1>0. \A a \in Actors : pc[a] \notin Begun => ready[a] = {}
    BY DEF DrainInv, Begun
  <1>1. ASSUME NEW a \in Actors, NEW p, pc[a] \notin Begun, p \notin Begun,
               pc' = [pc EXCEPT ![a] = p], ready' = ready, cur' = cur
        PROVE  DrainInv'
    <2>1. \A b \in Actors : pc'[b] = (IF b = a THEN p ELSE pc[b])
      BY <1>1 DEF TypeOK
    <2> QED BY <1>0, <1>1, <2>1, DrainFrame DEF Begun
  <1>2. ASSUME NEW r \in Roots, IngestStart(r) \/ IngestTerminal(r) PROVE DrainInv'
    <2>1. pc[Worker] \notin Begun /\ ready' = ready /\ cur' = cur
      BY <1>2 DEF IngestStart, IngestTerminal, Begun
    <2>2. \E p : p \notin Begun /\ pc' = [pc EXCEPT ![Worker] = p]
      BY <1>2 DEF IngestStart, IngestTerminal, FinalizeRootExit, Emit, TakeSlot,
                  ApplyDirectly, Skip, Processed, Begun
    <2> QED BY <1>1, <2>1, <2>2, WorkerIsActor
  <1>3. ASSUME FinishDirect PROVE DrainInv'
    <2>1. pc[Worker] \notin Begun /\ ready' = ready /\ cur' = cur
      BY <1>3 DEF FinishDirect, Begun
    <2>2. \E p : p \notin Begun /\ pc' = [pc EXCEPT ![Worker] = p]
      BY <1>3 DEF FinishDirect, Processed, Begun
    <2> QED BY <1>1, <2>1, <2>2, WorkerIsActor
  <1>4. ASSUME ReplacePendingRoot PROVE DrainInv'
    <2>1. pc[Worker] \notin Begun /\ ready' = ready /\ cur' = cur
      BY <1>4 DEF ReplacePendingRoot, Begun
    <2>2. \E p : p \notin Begun /\ pc' = [pc EXCEPT ![Worker] = p]
      BY <1>4 DEF ReplacePendingRoot, Release, Processed, Begun
    <2> QED BY <1>1, <2>1, <2>2, WorkerIsActor
  <1>5. ASSUME WorkerGc PROVE DrainInv'
    <2>1. pc[Worker] \notin Begun /\ "idle" \notin Begun /\ ready' = ready /\ cur' = cur
          /\ pc' = [pc EXCEPT ![Worker] = "idle"]
      BY <1>5 DEF WorkerGc, Begun
    <2> QED BY <1>1, <2>1, WorkerIsActor
  <1>6. ASSUME NEW q \in Requests, CheckpointArrives(q) \/ AppendCheckpoint(q)
        PROVE  DrainInv'
    <2>1. pc[q] \notin Begun /\ ready' = ready /\ cur' = cur
      BY <1>6 DEF CheckpointArrives, AppendCheckpoint, Begun
    <2>2. \E p : p \notin Begun /\ pc' = [pc EXCEPT ![q] = p]
      BY <1>6 DEF CheckpointArrives, AppendCheckpoint, Begun
    <2> QED BY <1>1, <2>1, <2>2, WorkerIsActor
  <1>7. ASSUME NEW a \in Actors, AcquireLock(a) PROVE DrainInv'
    <2>1. pc[a] \notin Begun /\ "locked" \notin Begun /\ ready' = ready /\ cur' = cur
          /\ pc' = [pc EXCEPT ![a] = "locked"]
      BY <1>7 DEF AcquireLock, Begun
    <2> QED BY <1>1, <2>1
  <1>8. ASSUME NEW a \in Actors, CollectReady(a) PROVE DrainInv'
    <2> DEFINE R == ReadyPrefix(entries[FamilyOf(a)])
    <2>1. pc[a] = "appended" /\ cur' = cur
      BY <1>8 DEF CollectReady
    <2>2. CASE R = {}
      <3>1. ready[a] = {} /\ Release(a) /\ ready' = ready
        BY <1>0, <1>8, <2>1, <2>2 DEF CollectReady, Begun
      <3> QED BY <2>1, <3>1, ReleaseDrain
    <2>3. CASE R # {}
      <3>1. /\ ready' = [ready EXCEPT ![a] = R]
            /\ pc' = [pc EXCEPT ![a] = "draining"]
        BY <1>8, <2>3 DEF CollectReady
      <3>2. \A e \in R : e.kind # "PendingRoot"
        BY DEF ReadyPrefix
      <3>3. cur[a] = None
        BY <2>1 DEF DrainInv
      <3> HIDE DEF R
      <3>4. /\ ready'[a] = R /\ pc'[a] = "draining"
            /\ \A b \in Actors : b # a => ready'[b] = ready[b] /\ pc'[b] = pc[b]
        BY <3>1 DEF TypeOK
      <3> QED BY <2>1, <3>2, <3>3, <3>4 DEF DrainInv
    <2> QED BY <2>2, <2>3
  <1>9. ASSUME NEW a \in Actors, BeginEntry(a) PROVE DrainInv'
    <2>1. PICK e \in ready[a] :
            /\ IsFirst(a, e)
            /\ \/ Drop(a, e)
               \/ e.kind = "ReadyCommand" /\ Run(a, e, {})
               \/ e.kind = "Checkpoint" /\ Run(a, e, FilesToApply(Class[e.item]))
      BY <1>9 DEF BeginEntry
    <2>2. pc[a] = "draining" /\ cur[a] = None
      BY <1>9 DEF BeginEntry, DrainInv
    <2>3. CASE Drop(a, e)
      <3>1. /\ ready'[a] = ready[a] \ {e} /\ pc' = pc /\ cur' = cur
            /\ \A b \in Actors : b # a => ready'[b] = ready[b]
        BY <2>3 DEF Drop, TypeOK
      <3> QED BY <2>2, <3>1 DEF DrainInv
    <2>4. CASE \/ e.kind = "ReadyCommand" /\ Run(a, e, {})
               \/ e.kind = "Checkpoint" /\ Run(a, e, FilesToApply(Class[e.item]))
      <3>1. PICK fs : /\ Run(a, e, fs)
                      /\ \/ e.kind = "ReadyCommand" /\ fs = {}
                         \/ e.kind = "Checkpoint" /\ fs = FilesToApply(Class[e.item])
        BY <2>4
      <3>2. /\ ready'[a] = ready[a] \ {e} /\ pc'[a] = "running"
            /\ cur'[a] = [entry |-> e, files |-> fs]
            /\ \A b \in Actors : b # a =>
                 ready'[b] = ready[b] /\ pc'[b] = pc[b] /\ cur'[b] = cur[b]
        BY <3>1 DEF Run, TypeOK
      <3>3. cur'[a].entry = e
        BY <3>2
      <3>4. cur'[a] # None
        <4>1. [entry |-> e, files |-> fs] # None
          BY <1>9, <3>1, RunType
        <4> QED BY <3>2, <4>1
      <3>5. \A x \in ready'[a] : Before(e, x)
        BY <2>1, <3>2 DEF IsFirst
      <3> QED BY <2>4, <3>2, <3>3, <3>4, <3>5 DEF DrainInv
    <2> QED BY <2>1, <2>3, <2>4
  <1>10. ASSUME NEW a \in Actors, FinishEntry(a) PROVE DrainInv'
    <2>1. /\ cur'[a] = None /\ pc'[a] = "draining" /\ ready' = ready
          /\ \A b \in Actors : b # a => pc'[b] = pc[b] /\ cur'[b] = cur[b]
      BY <1>10 DEF FinishEntry, TypeOK
    <2> QED BY <2>1 DEF DrainInv
  <1>11. ASSUME NEW a \in Actors, EndDrain(a) PROVE DrainInv'
    BY <1>11, ReleaseDrain DEF EndDrain
  <1>12. ASSUME UpdateCheckGc \/ Tick \/ UNCHANGED vars PROVE DrainInv'
    BY <1>0, <1>12, DrainFrame DEF UpdateCheckGc, Tick, vars
  <1> QED
    BY <1>2, <1>3, <1>4, <1>5, <1>6, <1>7, <1>8, <1>9, <1>10, <1>11, <1>12, WorkerIsActor
       DEF Next, WorkerStep, HandlerStep, DrainStep, Idle

----------------------------------------------------------------------------
(* Where an item is *)

LEMMA PlaceInit == Init => PlaceInv
  BY DEF Init, PlaceInv, Queued, Carried, Taken

\* Threads hand an item on, or do something else.
LEMMA PlaceFrame ==
  ASSUME PlaceInv, entries' = entries, ran' = ran, \A b \in Actors : Taken(b)' = Taken(b)
  PROVE  PlaceInv' /\ \A y \in Items : Untouched(y) => Untouched(y)'
  <1>1. \A y \in Items : (Queued(y)' <=> Queued(y)) /\ (Carried(y)' <=> Carried(y))
    BY DEF Queued, Carried
  <1>2. PlaceInv'
    BY <1>1 DEF PlaceInv
  <1> QED BY <1>1, <1>2 DEF Untouched

\* An item enters.
LEMMA PlaceEnter ==
  ASSUME PlaceInv, NEW x \in Items, Untouched(x), NEW e, e.item = x, Family[x] \in Families,
         entries'[Family[x]] = entries[Family[x]] \cup {e},
         \A g \in Families : g # Family[x] => entries'[g] = entries[g],
         ran' = ran, \A b \in Actors : Taken(b)' = Taken(b)
  PROVE  PlaceInv' /\ \A y \in Items : y # x /\ Untouched(y) => Untouched(y)'
  <1>1. \A y \in Items : Carried(y)' <=> Carried(y)
    BY DEF Carried
  <1>2. ASSUME NEW g \in Families, NEW d \in entries'[g]
        PROVE  d \in entries[g] \/ (d = e /\ g = Family[x])
    BY <1>2
  <1>3. \A y \in Items : Queued(y)' => Queued(y) \/ y = x
    BY <1>2 DEF Queued
  <1>4. \A g \in Families : \A d \in entries'[g] : Family[d.item] = g
    BY <1>2 DEF PlaceInv
  <1>5. ASSUME NEW g \in Families, NEW c \in entries'[g], NEW d \in entries'[g],
               c.item = d.item
        PROVE  c = d
    BY <1>2, <1>5 DEF PlaceInv, Untouched, Queued
  <1>6. \A y \in Items : ~(Queued(y)' /\ Carried(y)')
    BY <1>1, <1>3 DEF PlaceInv, Untouched
  <1>7. \A y \in Items : ran'[y] \in {0, 1} /\ (Queued(y)' \/ Carried(y)' => ran'[y] = 0)
    BY <1>1, <1>3 DEF PlaceInv, Untouched
  <1>8. \A a, b \in Actors : \A c \in Taken(a)', d \in Taken(b)' :
          c.item = d.item => a = b /\ c = d
    BY DEF PlaceInv
  <1>9. PlaceInv'
    BY <1>4, <1>5, <1>6, <1>7, <1>8 DEF PlaceInv
  <1>10. \A y \in Items : y # x /\ Untouched(y) => Untouched(y)'
    BY <1>1, <1>3 DEF Untouched
  <1> QED BY <1>9, <1>10

\* The entry of an item changes.
LEMMA PlaceRelabel ==
  ASSUME PlaceInv, NEW f \in Families, NEW e \in entries[f], NEW n, n.item = e.item,
         entries'[f] = (entries[f] \ {e}) \cup {n},
         \A g \in Families : g # f => entries'[g] = entries[g],
         ran' = ran, \A b \in Actors : Taken(b)' = Taken(b)
  PROVE  PlaceInv' /\ \A y \in Items : Untouched(y) => Untouched(y)'
  <1>1. \A y \in Items : Carried(y)' <=> Carried(y)
    BY DEF Carried
  <1>2. ASSUME NEW g \in Families, NEW d \in entries'[g]
        PROVE  (d \in entries[g] /\ (g = f => d # e)) \/ (d = n /\ g = f)
    BY <1>2
  <1>3. \A y \in Items : Queued(y)' => Queued(y)
    BY <1>2 DEF Queued
  <1>4. \A g \in Families : \A d \in entries'[g] : Family[d.item] = g
    BY <1>2 DEF PlaceInv
  <1>5. ASSUME NEW g \in Families, NEW c \in entries'[g], NEW d \in entries'[g],
               c.item = d.item
        PROVE  c = d
    BY <1>2, <1>5 DEF PlaceInv
  <1>6. \A y \in Items : ~(Queued(y)' /\ Carried(y)')
    BY <1>1, <1>3 DEF PlaceInv
  <1>7. \A y \in Items : ran'[y] \in {0, 1} /\ (Queued(y)' \/ Carried(y)' => ran'[y] = 0)
    BY <1>1, <1>3 DEF PlaceInv
  <1>8. \A a, b \in Actors : \A c \in Taken(a)', d \in Taken(b)' :
          c.item = d.item => a = b /\ c = d
    BY DEF PlaceInv
  <1>9. PlaceInv'
    BY <1>4, <1>5, <1>6, <1>7, <1>8 DEF PlaceInv
  <1> QED BY <1>1, <1>3, <1>9 DEF Untouched

\* A thread with empty hands takes entries from a map.
LEMMA PlaceTake ==
  ASSUME PlaceInv, TypeOK, NEW f \in Families, NEW a \in Actors, NEW R \in SUBSET entries[f],
         Taken(a) = {}, Taken(a)' = R,
         entries'[f] = entries[f] \ R,
         \A g \in Families : g # f => entries'[g] = entries[g],
         ran' = ran, \A b \in Actors : b # a => Taken(b)' = Taken(b)
  PROVE  PlaceInv' /\ \A y \in Items : Untouched(y) => Untouched(y)'
  <1>1. \A y \in Items : Queued(y)' => Queued(y)
    BY DEF Queued
  <1>2. \A y \in Items : Carried(y)' => Carried(y) \/ Queued(y)
    BY DEF Carried, Queued
  <1>3. ASSUME NEW y \in Items, Queued(y)', Carried(y)' PROVE FALSE
    <2>1. PICK g, d : g \in Families /\ d \in entries'[g] /\ d.item = y
      BY <1>3 DEF Queued
    <2>2. PICK b, c : b \in Actors /\ c \in Taken(b)' /\ c.item = y
      BY <1>3 DEF Carried
    <2>3. d \in entries[g] /\ Queued(y)
      BY <2>1 DEF Queued
    <2>4. b = a /\ c \in R
      BY <2>2, <2>3 DEF PlaceInv, Carried
    <2>5. g = f /\ d = c
      BY <2>1, <2>2, <2>3, <2>4 DEF PlaceInv
    <2> QED BY <2>1, <2>4, <2>5
  <1>4. ASSUME NEW b \in Actors, NEW c \in Actors, NEW d \in Taken(b)', NEW e \in Taken(c)',
               d.item = e.item
        PROVE  b = c /\ d = e
    <2>1. \A x \in R : x \in entries[f] /\ x.item \in Items /\ Queued(x.item)
      BY DEF Queued, TypeOK, Entries
    <2>2. \A g \in Actors \ {a} : \A x \in Taken(g) : Carried(x.item)
      BY DEF Carried
    <2>3. CASE b = a /\ c = a
      BY <1>4, <2>3 DEF PlaceInv
    <2>4. CASE b # a /\ c # a
      BY <1>4, <2>4 DEF PlaceInv
    <2>5. CASE (b = a /\ c # a) \/ (b # a /\ c = a)
      BY <1>4, <2>1, <2>2, <2>5 DEF PlaceInv
    <2> QED BY <2>3, <2>4, <2>5
  <1>5. \A g \in Families : \A d \in entries'[g] : Family[d.item] = g
    BY DEF PlaceInv
  <1>6. \A g \in Families : \A d, e \in entries'[g] : d.item = e.item => d = e
    BY DEF PlaceInv
  <1>7. \A y \in Items : ran'[y] \in {0, 1} /\ (Queued(y)' \/ Carried(y)' => ran'[y] = 0)
    BY <1>1, <1>2 DEF PlaceInv
  <1>8. PlaceInv'
    BY <1>3, <1>4, <1>5, <1>6, <1>7 DEF PlaceInv
  <1> QED BY <1>1, <1>2, <1>8 DEF Untouched

\* An entry leaves the hands of a thread, applied or not.
LEMMA PlaceLeave ==
  ASSUME PlaceInv, TypeOK, NEW a \in Actors, NEW e \in Taken(a), e.item \in Items,
         entries' = entries, Taken(a)' = Taken(a) \ {e},
         \A b \in Actors : b # a => Taken(b)' = Taken(b),
         ran' = ran \/ ran' = [ran EXCEPT ![e.item] = @ + 1]
  PROVE  PlaceInv' /\ \A y \in Items : Untouched(y) => Untouched(y)'
  <1>1. \A y \in Items : Queued(y)' <=> Queued(y)
    BY DEF Queued
  <1>2. \A y \in Items : Carried(y)' => Carried(y)
    BY DEF Carried
  <1>3. Carried(e.item) /\ ran[e.item] = 0
    BY DEF Carried, PlaceInv
  <1>4. ~Carried(e.item)'
    BY DEF Carried, PlaceInv
  <1>5. ~Queued(e.item)'
    BY <1>1, <1>3 DEF PlaceInv
  <1>6. \A y \in Items : y # e.item => ran'[y] = ran[y]
    BY DEF TypeOK
  <1>7. ran'[e.item] \in {0, 1}
    BY <1>3 DEF TypeOK
  <1>8. \A y \in Items : ran'[y] \in {0, 1} /\ (Queued(y)' \/ Carried(y)' => ran'[y] = 0)
    BY <1>1, <1>2, <1>4, <1>5, <1>6, <1>7 DEF PlaceInv
  <1>9. \A b, c \in Actors : \A x \in Taken(b)', y \in Taken(c)' :
          x.item = y.item => b = c /\ x = y
    <2>1. \A b \in Actors : Taken(b)' \subseteq Taken(b)
      OBVIOUS
    <2> QED BY <2>1 DEF PlaceInv
  <1>10. \A y \in Items : ~(Queued(y)' /\ Carried(y)')
    BY <1>1, <1>2 DEF PlaceInv
  <1>11. PlaceInv'
    BY <1>8, <1>9, <1>10 DEF PlaceInv
  <1>12. \A y \in Items : Untouched(y) => y # e.item
    BY <1>3 DEF Untouched
  <1> QED BY <1>1, <1>2, <1>6, <1>11, <1>12 DEF Untouched

\* An item that has not entered is applied.
LEMMA PlaceApply ==
  ASSUME PlaceInv, TypeOK, NEW x \in Items, Untouched(x), entries' = entries,
         \A b \in Actors : Taken(b)' = Taken(b), ran' = [ran EXCEPT ![x] = @ + 1]
  PROVE  PlaceInv' /\ \A y \in Items : y # x /\ Untouched(y) => Untouched(y)'
  <1>1. \A y \in Items : (Queued(y)' <=> Queued(y)) /\ (Carried(y)' <=> Carried(y))
    BY DEF Queued, Carried
  <1>2. ran'[x] = 1 /\ \A y \in Items : y # x => ran'[y] = ran[y]
    BY DEF TypeOK, Untouched
  <1>3. \A y \in Items : ran'[y] \in {0, 1} /\ (Queued(y)' \/ Carried(y)' => ran'[y] = 0)
    BY <1>1, <1>2 DEF PlaceInv, Untouched
  <1>4. PlaceInv'
    BY <1>1, <1>3 DEF PlaceInv
  <1> QED BY <1>1, <1>2, <1>4 DEF Untouched

----------------------------------------------------------------------------
(* Who has entered *)

LEMMA EntryInit == Init => EntryInv
  <1> SUFFICES ASSUME Init PROVE EntryInv
    OBVIOUS
  <1>1. \A x \in Items : Untouched(x)
    BY DEF Init, Untouched, Queued, Carried, Taken
  <1>2. \A r \in Roots : r \in Items /\ norm[r] = "absent" /\ slots[r] = None
                         /\ todo[r] \in Deliveries
    BY DEF Init, Items
  <1>3. \A r \in Roots : StartsOnce(todo[r])
    BY <1>2, StartsAssumption DEF StartsOnce
  <1>4. pc[Worker] = "idle"
    BY WorkerIsActor DEF Init
  <1> QED BY <1>1, <1>2, <1>3, <1>4 DEF EntryInv, Items

\* Nothing but z can enter, and the worker ingests nothing.
LEMMA EntryKeep ==
  ASSUME TypeOK, JobInv, EntryInv, NEW z \in Items,
         \A y \in Items : y # z /\ Untouched(y) => Untouched(y)',
         \/ Untouched(z) => Untouched(z)'
         \/ z \in Requests /\ pc'[z] \notin NotIn
         \/ z \in Roots /\ norm[z] = "completed" /\ pc'[Worker] # "direct",
         \A q \in Requests : pc'[q] \in NotIn => pc[q] \in NotIn,
         todo' = todo, norm' = norm, slots' = slots,
         pc'[Worker] = "direct" => pc[Worker] = "direct" /\ job' = job
  PROVE  EntryInv'
  <1>1. \A q \in Requests : q \in Items /\ q \notin Roots
    BY ConstantsAssumption DEF Items
  <1>2. \A r \in Roots : r \in Items
    BY DEF Items
  <1>3. \A q \in Requests : pc'[q] \in {"idle", "waiting", "locked"} => Untouched(q)'
    BY <1>1 DEF EntryInv, NotIn
  <1>4. \A r \in Roots : StartsOnce(todo'[r])
    BY DEF EntryInv
  <1>5. \A r \in Roots : Starts(todo'[r]) =>
          norm'[r] \in {"absent", "deferred"} /\ slots'[r] = None /\ Untouched(r)'
    BY <1>1, <1>2 DEF EntryInv
  <1>6. \A r \in Roots : norm'[r] = "pending" /\ slots'[r] = None => Untouched(r)'
    BY <1>1, <1>2 DEF EntryInv
  <1>7. \A r \in Roots : pc'[Worker] = "direct" /\ job'.root = r =>
          norm'[r] = "completed" /\ Untouched(r)'
    BY <1>1, <1>2 DEF EntryInv
  <1> HIDE DEF NotIn
  <1> QED BY <1>3, <1>4, <1>5, <1>6, <1>7 DEF EntryInv

LEMMA TailStarts ==
  ASSUME NEW s \in Seq(TraceEvents), s # <<>>, StartsOnce(s)
  PROVE  /\ StartsOnce(Tail(s))
         /\ Head(s) = "start" => Starts(s) /\ ~Starts(Tail(s))
         /\ Starts(Tail(s)) => Starts(s)
  <1>1. /\ DOMAIN Tail(s) = 1..(Len(s) - 1) /\ DOMAIN s = 1..Len(s) /\ Len(s) \in Nat \ {0}
        /\ \A i \in 1..(Len(s) - 1) : Tail(s)[i] = s[i + 1]
        /\ Head(s) = s[1]
    OBVIOUS
  <1>2. \A i \in 1..(Len(s) - 1) : i + 1 \in 1..Len(s) /\ i + 1 # 1
    BY <1>1
  <1>3. 1 \in 1..Len(s)
    BY <1>1
  <1>4. StartsOnce(Tail(s))
    <2> SUFFICES ASSUME NEW i \in DOMAIN Tail(s), NEW j \in DOMAIN Tail(s),
                        Tail(s)[i] = "start", Tail(s)[j] = "start"
                 PROVE  i = j
      BY DEF StartsOnce
    <2>1. i + 1 = j + 1
      BY <1>1, <1>2 DEF StartsOnce
    <2> QED BY <1>1, <2>1
  <1>5. Head(s) = "start" => Starts(s) /\ ~Starts(Tail(s))
    BY <1>1, <1>2, <1>3 DEF Starts, StartsOnce
  <1>6. Starts(Tail(s)) => Starts(s)
    BY <1>1, <1>2 DEF Starts
  <1> QED BY <1>4, <1>5, <1>6

\* A payload of root r is ingested.
LEMMA EntryIngest ==
  ASSUME TypeOK, EntryInv, NEW r \in Roots, pc[Worker] = "idle",
         \A y \in Items : y # r /\ Untouched(y) => Untouched(y)',
         \A q \in Requests : pc'[q] = pc[q],
         todo[r] # <<>>, todo' = [todo EXCEPT ![r] = Tail(@)],
         \A x \in Roots : x # r => norm'[x] = norm[x] /\ slots'[x] = slots[x],
         Starts(Tail(todo[r])) =>
           norm'[r] \in {"absent", "deferred"} /\ slots'[r] = None /\ Untouched(r)',
         norm'[r] = "pending" /\ slots'[r] = None => Untouched(r)',
         pc'[Worker] = "direct" =>
           job'.root = r /\ norm'[r] = "completed" /\ Untouched(r)'
  PROVE  EntryInv'
  <1>1. \A q \in Requests : q \in Items /\ q # r
    BY ConstantsAssumption DEF Items
  <1>2. \A x \in Roots : x \in Items
    BY DEF Items
  <1>3. \A q \in Requests : pc'[q] \in {"idle", "waiting", "locked"} => Untouched(q)'
    BY <1>1 DEF EntryInv
  <1>4. /\ todo'[r] = Tail(todo[r]) /\ todo[r] \in Seq(TraceEvents)
        /\ \A x \in Roots : x # r => todo'[x] = todo[x]
    BY DEF TypeOK
  <1>5. StartsOnce(Tail(todo[r]))
    BY <1>4, TailStarts DEF EntryInv
  <1>6. \A x \in Roots : StartsOnce(todo'[x])
    BY <1>4, <1>5 DEF EntryInv
  <1>7. \A x \in Roots : Starts(todo'[x]) =>
          norm'[x] \in {"absent", "deferred"} /\ slots'[x] = None /\ Untouched(x)'
    BY <1>2, <1>4 DEF EntryInv
  <1>8. \A x \in Roots : norm'[x] = "pending" /\ slots'[x] = None => Untouched(x)'
    BY <1>2 DEF EntryInv
  <1> QED BY <1>3, <1>6, <1>7, <1>8 DEF EntryInv

\* What an outcome does to slots, and when it runs the command directly.
LEMMA Outcome ==
  ASSUME TypeOK, NEW r \in Roots, NEW sl, pc[Worker] = "idle",
         FinalizeRootExit(r, sl) \/ (norm' = norm /\ Skip(r, sl))
           \/ (norm' = norm /\ sl # None /\ TakeSlot(r, sl, "Canceled"))
  PROVE  /\ \A q \in Requests : pc'[q] = pc[q]
         /\ \A x \in Roots : x # r => norm'[x] = norm[x] /\ slots'[x] = slots[x]
  <1>1. \A q \in Requests : q # Worker
    BY ConstantsAssumption
  <1>2. \A q \in Requests : pc'[q] = pc[q]
    <2>1. \E l : pc' = [pc EXCEPT ![Worker] = l]
      BY DEF FinalizeRootExit, Emit, TakeSlot, ApplyDirectly, Skip, Processed
    <2> QED BY <1>1, <2>1, WorkerIsActor DEF TypeOK
  <1>3. \A x \in Roots : x # r => norm'[x] = norm[x] /\ slots'[x] = slots[x]
    BY DEF FinalizeRootExit, Emit, TakeSlot, ApplyDirectly, Skip, TypeOK
  <1> QED BY <1>2, <1>3

\* A step that leaves queues, hands and counts alone.
LEMMA QFrame ==
  ASSUME TypeOK, JobInv, PlaceInv, EntryInv, entries' = entries, ready' = ready,
         cur' = cur, ran' = ran, todo' = todo, norm' = norm, slots' = slots,
         \A q \in Requests : pc'[q] \in NotIn => pc[q] \in NotIn,
         pc'[Worker] = "direct" => pc[Worker] = "direct" /\ job' = job
  PROVE  PlaceInv' /\ EntryInv'
  <1>1. \A b \in Actors : Taken(b)' = Taken(b)
    BY DEF Taken
  <1>2. PlaceInv' /\ \A y \in Items : Untouched(y) => Untouched(y)'
    BY <1>1, PlaceFrame
  <1>3. CASE Items = {}
    <2>1. Requests = {} /\ Roots = {}
      BY <1>3 DEF Items
    <2> QED BY <1>2, <2>1 DEF EntryInv
  <1>4. ASSUME NEW z \in Items PROVE EntryInv'
    BY <1>2, EntryKeep
  <1> QED BY <1>2, <1>3, <1>4

LEMMA QStart ==
  ASSUME TypeOK, JobInv, OrdinalsFresh, PlaceInv, EntryInv, NEW r \in Roots, IngestStart(r)
  PROVE  PlaceInv' /\ EntryInv'
  <1>1. PICK t \in 0..clock :
          /\ AppendPendingRoot(r, t)
          /\ \/ norm[r] = "deferred" /\ FinalizeRootExit(r, SlotAfterStart(r, t))
             \/ /\ norm[r] # "deferred"
                /\ norm' = [norm EXCEPT ![r] = NormAfterStart(@)]
                /\ Skip(r, SlotAfterStart(r, t))
    BY DEF IngestStart
  <1> DEFINE sl == SlotAfterStart(r, t)
  <1>2. /\ pc[Worker] = "idle" /\ todo[r] # <<>> /\ Head(todo[r]) = "start"
        /\ todo' = [todo EXCEPT ![r] = Tail(@)] /\ ready' = ready /\ cur' = cur /\ ran' = ran
    BY DEF IngestStart
  <1>3. \A b \in Actors : Taken(b)' = Taken(b)
    BY <1>2 DEF Taken
  <1>4. r \in Items /\ Family[r] \in Families /\ t \in Nat /\ todo[r] \in Seq(TraceEvents)
    BY ConstantsAssumption DEF Items, TypeOK
  <1>5. Starts(todo[r]) /\ ~Starts(Tail(todo[r]))
    BY <1>2, <1>4, TailStarts DEF EntryInv
  <1>6. norm[r] \in {"absent", "deferred"} /\ slots[r] = None /\ Untouched(r)
    BY <1>5 DEF EntryInv
  <1>7. /\ PlaceInv' /\ \A y \in Items : y # r /\ Untouched(y) => Untouched(y)'
        /\ sl = None => Untouched(r)'
    <2>1. CASE Appends(r)
      <3> DEFINE e == Entry(t, Family[r], r, "PendingRoot")
      <3>1. Enqueue(t, Family[r], r, "PendingRoot")
        BY <1>1, <2>1 DEF AppendPendingRoot
      <3>2. /\ entries'[Family[r]] = entries[Family[r]] \cup {e}
            /\ \A g \in Families : g # Family[r] => entries'[g] = entries[g]
        BY <1>4, <3>1, EnqueueFresh
      <3>3. e.item = r
        BY DEF Entry
      <3>4. sl # None
        <4>1. nextOrdinal[Family[r]] \in Nat
          BY <1>4 DEF TypeOK
        <4> QED BY <1>4, <2>1, <4>1, NoneAssumption DEF SlotAfterStart, Orders
      <3> HIDE DEF e, sl
      <3>5. PlaceInv' /\ \A y \in Items : y # r /\ Untouched(y) => Untouched(y)'
        BY <1>2, <1>3, <1>4, <1>6, <3>2, <3>3, PlaceEnter
      <3> QED BY <3>4, <3>5
    <2>2. CASE ~Appends(r)
      <3>1. entries' = entries
        BY <1>1, <2>2 DEF AppendPendingRoot, queueVars
      <3> QED BY <1>2, <1>3, <1>4, <1>6, <3>1, PlaceFrame
    <2> QED BY <2>1, <2>2
  <1>8. /\ \A q \in Requests : pc'[q] = pc[q]
        /\ \A x \in Roots : x # r => norm'[x] = norm[x] /\ slots'[x] = slots[x]
    <2>1. CASE FinalizeRootExit(r, sl)
      BY <1>2, <2>1, Outcome
    <2>2. CASE norm' = [norm EXCEPT ![r] = NormAfterStart(@)] /\ Skip(r, sl)
      <3>1. \A q \in Requests : q # Worker
        BY ConstantsAssumption
      <3>2. \E l : pc' = [pc EXCEPT ![Worker] = l]
        BY <2>2 DEF Skip, Processed
      <3> QED BY <2>2, <3>1, <3>2, WorkerIsActor DEF Skip, TypeOK
    <2> QED BY <1>1, <2>1, <2>2
  <1>9. norm'[r] = "pending" /\ slots'[r] = None => Untouched(r)'
    <2>1. CASE FinalizeRootExit(r, sl)
      BY <2>1 DEF FinalizeRootExit, Emit, TypeOK
    <2>2. CASE Skip(r, sl)
      <3>1. slots'[r] = sl
        BY <2>2 DEF Skip, TypeOK
      <3> QED BY <1>7, <3>1
    <2> QED BY <1>1, <2>1, <2>2
  <1>10. pc'[Worker] = "direct" => job'.root = r /\ norm'[r] = "completed" /\ Untouched(r)'
    <2>1. Skip(r, sl) \/ Skip(r, None) => pc'[Worker] # "direct"
      BY WorkerIsActor DEF Skip, Processed, TypeOK
    <2>2. ASSUME NEW k, TakeSlot(r, sl, k) PROVE pc'[Worker] # "direct"
      BY <2>2, WorkerIsActor DEF TakeSlot, TypeOK
    <2>3. CASE Emit(r, sl) /\ sl = None
      BY <1>7, <2>1, <2>3 DEF Emit, ApplyDirectly, TypeOK
    <2> HIDE DEF sl
    <2> QED BY <1>1, <2>1, <2>2, <2>3 DEF FinalizeRootExit, Emit, sl
  <1> HIDE DEF sl
  <1>11. EntryInv'
    BY <1>2, <1>5, <1>7, <1>8, <1>9, <1>10, EntryIngest
  <1> QED BY <1>7, <1>11

LEMMA QTerminal ==
  ASSUME TypeOK, JobInv, PlaceInv, EntryInv, NEW r \in Roots, IngestTerminal(r)
  PROVE  PlaceInv' /\ EntryInv'
  <1>1. /\ pc[Worker] = "idle" /\ todo[r] # <<>>
        /\ todo' = [todo EXCEPT ![r] = Tail(@)] /\ ready' = ready /\ cur' = cur /\ ran' = ran
        /\ entries' = entries
    BY DEF IngestTerminal, queueVars
  <1>2. \A b \in Actors : Taken(b)' = Taken(b)
    BY <1>1 DEF Taken
  <1>3. PlaceInv' /\ \A y \in Items : Untouched(y) => Untouched(y)'
    BY <1>1, <1>2, PlaceFrame
  <1>4. r \in Items /\ todo[r] \in Seq(TraceEvents)
    BY DEF Items, TypeOK
  <1>5. CASE norm[r] = "pending"
    <2>1. FinalizeRootExit(r, slots[r])
      BY <1>5 DEF IngestTerminal
    <2>2. ~Starts(todo[r]) /\ ~Starts(Tail(todo[r]))
      BY <1>1, <1>4, <1>5, TailStarts DEF EntryInv
    <2>3. norm'[r] \in {"completed", "absent"}
      BY <2>1 DEF FinalizeRootExit, Emit, TypeOK
    <2>4. pc'[Worker] = "direct" => job'.root = r /\ norm'[r] = "completed" /\ Untouched(r)'
      <3>1. Skip(r, slots[r]) \/ Skip(r, None) => pc'[Worker] # "direct"
        BY WorkerIsActor DEF Skip, Processed, TypeOK
      <3>2. ASSUME NEW k, TakeSlot(r, slots[r], k) PROVE pc'[Worker] # "direct"
        BY <3>2, WorkerIsActor DEF TakeSlot, TypeOK
      <3>3. CASE Emit(r, slots[r]) /\ slots[r] = None
        <4>1. Untouched(r)'
          BY <1>3, <1>4, <1>5, <3>3 DEF EntryInv
        <4> QED BY <3>1, <3>3, <4>1 DEF Emit, ApplyDirectly, TypeOK
      <3> QED BY <2>1, <3>1, <3>2, <3>3 DEF FinalizeRootExit, Emit
    <2>5. /\ \A q \in Requests : pc'[q] = pc[q]
          /\ \A x \in Roots : x # r => norm'[x] = norm[x] /\ slots'[x] = slots[x]
      BY <1>1, <2>1, Outcome
    <2>6. EntryInv'
      BY <1>1, <1>3, <2>2, <2>3, <2>4, <2>5, EntryIngest
    <2> QED BY <1>3, <2>6
  <1>6. CASE norm[r] # "pending"
    <2>1. /\ norm' = [norm EXCEPT ![r] = NormAfterExit(@)]
          /\ \/ slots[r] # None /\ TakeSlot(r, slots[r], "Canceled")
             \/ slots[r] = None /\ Skip(r, None)
      BY <1>6 DEF IngestTerminal
    <2>2. slots'[r] = None /\ pc'[Worker] # "direct"
      BY <2>1, WorkerIsActor DEF TakeSlot, Skip, Processed, TypeOK
    <2>3. norm'[r] = NormAfterExit(norm[r]) /\ norm'[r] # "pending"
      BY <1>6, <2>1 DEF TypeOK, NormAfterExit
    <2>4. /\ \A q \in Requests : pc'[q] = pc[q]
          /\ \A x \in Roots : x # r => norm'[x] = norm[x] /\ slots'[x] = slots[x]
      <3>1. \A q \in Requests : q # Worker
        BY ConstantsAssumption
      <3>2. \E l : pc' = [pc EXCEPT ![Worker] = l]
        BY <2>1 DEF TakeSlot, Skip, Processed
      <3>3. \A q \in Requests : pc'[q] = pc[q]
        BY <3>1, <3>2, WorkerIsActor DEF TypeOK
      <3>4. \A x \in Roots : x # r => norm'[x] = norm[x] /\ slots'[x] = slots[x]
        BY <2>1 DEF TakeSlot, Skip, TypeOK
      <3> QED BY <3>3, <3>4
    <2>5. Starts(Tail(todo[r])) =>
            norm'[r] \in {"absent", "deferred"} /\ slots'[r] = None /\ Untouched(r)'
      <3> SUFFICES ASSUME Starts(Tail(todo[r]))
                   PROVE  norm'[r] \in {"absent", "deferred"} /\ Untouched(r)'
        BY <2>2
      <3>1. Starts(todo[r])
        BY <1>1, <1>4, TailStarts DEF EntryInv
      <3>2. norm[r] \in {"absent", "deferred"} /\ Untouched(r)
        BY <3>1 DEF EntryInv
      <3> QED BY <1>3, <1>4, <2>3, <3>2 DEF NormAfterExit
    <2>6. EntryInv'
      BY <1>1, <1>3, <2>2, <2>3, <2>4, <2>5, EntryIngest
    <2> QED BY <1>3, <2>6
  <1> QED BY <1>5, <1>6

----------------------------------------------------------------------------
(* What the other actions do to queues and hands *)

\* The thread begins or drops the first of its entries, or is done with it.
Leaves(a, e) ==
  /\ e \in Taken(a) /\ e.item \in Items /\ e.kind # "PendingRoot"
  /\ \A d \in Taken(a) \ {e} : Before(e, d)
  /\ Taken(a)' = Taken(a) \ {e}
  /\ \A b \in Actors : b # a => Taken(b)' = Taken(b)
  /\ entries' = entries

LEMMA CollectHands ==
  ASSUME TypeOK, JobInv, DrainInv, NEW a \in Actors, CollectReady(a), ready' # ready
  PROVE  LET f == FamilyOf(a)
             R == ReadyPrefix(entries[f])
         IN  /\ f \in Families /\ R # {} /\ Taken(a) = {} /\ Taken(a)' = R
             /\ entries' = [entries EXCEPT ![f] = @ \ R]
             /\ \A b \in Actors : b # a => Taken(b)' = Taken(b)
             /\ ran' = ran
  <1> DEFINE f == FamilyOf(a)
             R == ReadyPrefix(entries[f])
  <1>1. pc[a] = "appended" /\ cur' = cur /\ ran' = ran
    BY DEF CollectReady
  <1>2. ready[a] = {} /\ cur[a] = None
    BY <1>1 DEF DrainInv
  <1>3. /\ R # {} /\ ready' = [ready EXCEPT ![a] = R]
        /\ entries' = [entries EXCEPT ![f] = @ \ R]
    BY DEF CollectReady
  <1>4. f \in Families
    <2>1. CASE a = Worker
      BY <1>1, <2>1, ConstantsAssumption DEF FamilyOf, JobInv, Jobs, Items, Holding
    <2>2. CASE a # Worker
      BY <2>2, ConstantsAssumption, WorkerIsActor DEF FamilyOf, Items
    <2> QED BY <2>1, <2>2
  <1> HIDE DEF R, f
  <1>5. ready'[a] = R /\ \A b \in Actors : b # a => ready'[b] = ready[b]
    BY <1>3 DEF TypeOK
  <1>6. Taken(a) = {} /\ Taken(a)' = R /\ \A b \in Actors : b # a => Taken(b)' = Taken(b)
    BY <1>1, <1>2, <1>5 DEF Taken
  <1> QED BY <1>1, <1>3, <1>4, <1>6 DEF f, R

LEMMA BeginHands ==
  ASSUME TypeOK, DrainInv, NEW a \in Actors, BeginEntry(a)
  PROVE  /\ entries' = entries /\ ran' = ran
         /\ \/ \A b \in Actors : Taken(b)' = Taken(b)
            \/ \E e \in Entries : Leaves(a, e)
  <1>1. PICK e \in ready[a] :
          /\ IsFirst(a, e)
          /\ \/ Drop(a, e) /\ e.kind # "PendingRoot"
             \/ e.kind = "ReadyCommand" /\ Run(a, e, {})
             \/ e.kind = "Checkpoint" /\ Run(a, e, FilesToApply(Class[e.item]))
    BY DEF BeginEntry
  <1>2. cur[a] = None /\ e \in Entries /\ e.item \in Items /\ entries' = entries /\ ran' = ran
    BY DEF BeginEntry, DrainInv, TypeOK, Entries, queueVars
  <1>3. CASE Drop(a, e) /\ e.kind # "PendingRoot"
    <2>1. /\ cur' = cur /\ ready'[a] = ready[a] \ {e}
          /\ \A b \in Actors : b # a => ready'[b] = ready[b]
      BY <1>3 DEF Drop, TypeOK
    <2>2. /\ Taken(a) = ready[a] /\ Taken(a)' = ready[a] \ {e}
          /\ \A b \in Actors : b # a => Taken(b)' = Taken(b)
      BY <1>2, <2>1 DEF Taken
    <2> QED BY <1>1, <1>2, <1>3, <2>2 DEF Leaves, IsFirst
  <1>4. CASE \/ e.kind = "ReadyCommand" /\ Run(a, e, {})
             \/ e.kind = "Checkpoint" /\ Run(a, e, FilesToApply(Class[e.item]))
    <2>1. PICK fs : /\ Run(a, e, fs)
                    /\ \/ e.kind = "ReadyCommand" /\ fs = {}
                       \/ e.kind = "Checkpoint" /\ fs = FilesToApply(Class[e.item])
      BY <1>4
    <2>2. /\ ready'[a] = ready[a] \ {e} /\ cur'[a] = [entry |-> e, files |-> fs]
          /\ \A b \in Actors : b # a => ready'[b] = ready[b] /\ cur'[b] = cur[b]
      BY <2>1 DEF Run, TypeOK
    <2>3. cur'[a] # None
      <3>1. [entry |-> e, files |-> fs] # None
        BY <2>1, RunType
      <3> QED BY <2>2, <3>1
    <2>4. cur'[a].entry = e
      BY <2>2
    <2>5. Taken(a)' = Taken(a)
      BY <1>2, <2>2, <2>3, <2>4 DEF Taken
    <2>6. \A b \in Actors : b # a => Taken(b)' = Taken(b)
      BY <2>2 DEF Taken
    <2> QED BY <1>2, <2>5, <2>6
  <1> QED BY <1>1, <1>3, <1>4

LEMMA FinishHands ==
  ASSUME TypeOK, DrainInv, NEW a \in Actors, FinishEntry(a)
  PROVE  \E e \in Entries : /\ Leaves(a, e) /\ e.kind \in {"ReadyCommand", "Checkpoint"}
                            /\ ran' = [ran EXCEPT ![e.item] = @ + 1]
  <1> DEFINE e == cur[a].entry
  <1>1. /\ ran' = [ran EXCEPT ![e.item] = @ + 1] /\ ready' = ready /\ entries' = entries
        /\ cur'[a] = None /\ \A b \in Actors : b # a => cur'[b] = cur[b]
    BY DEF FinishEntry, TypeOK, queueVars
  <1>2. cur[a] # None
    BY DEF FinishEntry, DrainInv
  <1>3. e \in Entries /\ e.item \in Items
    BY <1>2 DEF TypeOK, Entries
  <1>4. /\ e.kind \in {"ReadyCommand", "Checkpoint"} /\ e \notin ready[a]
        /\ \A d \in ready[a] : Before(e, d)
    BY <1>2 DEF DrainInv
  <1> HIDE DEF e
  <1>5. Taken(a) = ready[a] \cup {e} /\ Taken(a)' = ready[a]
    BY <1>1, <1>2 DEF Taken, e
  <1>6. \A b \in Actors : b # a => Taken(b)' = Taken(b)
    BY <1>1 DEF Taken
  <1>7. Leaves(a, e)
    BY <1>1, <1>3, <1>4, <1>5, <1>6 DEF Leaves
  <1> QED BY <1>1, <1>3, <1>4, <1>7

\* By SlotsMatchEntries the replacement finds exactly the entry of its root.
LEMMA ReplaceHands ==
  ASSUME TypeOK, JobInv, SlotFindsItsEntry, OrdinalsFresh, ReplacePendingRoot
  PROVE  \E f \in Families : \E e \in entries[f], k \in {"ReadyCommand", "Canceled"} :
           /\ e.kind = "PendingRoot"
           /\ entries' = [entries EXCEPT ![f] = (@ \ {e}) \cup {[e EXCEPT !.kind = k]}]
           /\ pc' = [pc EXCEPT ![Worker] = "appended"]
  <1> DEFINE f == Family[job.root]
  <1>1. /\ Replacing /\ job.root \in Roots /\ job.slot \in Orders
        /\ job.kind \in {"ReadyCommand", "Canceled"}
    BY DEF ReplacePendingRoot, Replacing, JobInv, Holding, Jobs
  <1>2. f \in Families
    BY <1>1, ConstantsAssumption DEF Items
  <1>3. PICK e \in entries[f] :
          SameOrder(e, job.slot) /\ e.kind = "PendingRoot" /\ e.item = job.root
    BY <1>1 DEF SlotFindsItsEntry, IsPendingEntry
  <1>4. Replaceable = {e}
    <2>1. \A x \in Replaceable : x.ord = e.ord /\ x \in entries[f]
      BY <1>3 DEF Replaceable, SameOrder
    <2>2. e \in Replaceable
      BY <1>3 DEF Replaceable
    <2> QED BY <1>2, <1>3, <2>1, <2>2 DEF OrdinalsFresh
  <1>5. /\ entries' = [entries EXCEPT ![f] = (entries[f] \ {e})
                                               \cup {[e EXCEPT !.kind = job.kind]}]
        /\ pc' = [pc EXCEPT ![Worker] = "appended"]
    BY <1>4 DEF ReplacePendingRoot
  <1> QED BY <1>1, <1>2, <1>3, <1>5

----------------------------------------------------------------------------
(* The invariant of queues and hands *)

LEMMA QReplace ==
  ASSUME TypeOK, JobInv, SlotFindsItsEntry, OrdinalsFresh, PlaceInv, EntryInv,
         ReplacePendingRoot
  PROVE  PlaceInv' /\ EntryInv'
  <1>1. PICK f, e, k :
          /\ f \in Families /\ e \in entries[f]
          /\ entries' = [entries EXCEPT ![f] = (@ \ {e}) \cup {[e EXCEPT !.kind = k]}]
          /\ pc' = [pc EXCEPT ![Worker] = "appended"]
    BY ReplaceHands
  <1> DEFINE n == [e EXCEPT !.kind = k]
  <1>2. /\ ready' = ready /\ cur' = cur /\ ran' = ran /\ todo' = todo /\ norm' = norm
        /\ slots' = slots
    BY DEF ReplacePendingRoot, traceVars
  <1>3. e \in Entries /\ e.item \in Items
    BY <1>1 DEF TypeOK, Entries
  <1>4. n.item = e.item
    BY <1>3 DEF Entries
  <1> HIDE DEF n
  <1>5. /\ entries'[f] = (entries[f] \ {e}) \cup {n}
        /\ \A g \in Families : g # f => entries'[g] = entries[g]
    BY <1>1 DEF TypeOK, n
  <1>6. \A b \in Actors : Taken(b)' = Taken(b)
    BY <1>2 DEF Taken
  <1>7. PlaceInv' /\ \A y \in Items : Untouched(y) => Untouched(y)'
    BY <1>1, <1>2, <1>4, <1>5, <1>6, PlaceRelabel
  <1>8. pc'[Worker] = "appended" /\ \A q \in Requests : pc'[q] = pc[q]
    BY <1>1, WorkerIsActor, ConstantsAssumption DEF TypeOK
  <1>9. EntryInv'
    BY <1>2, <1>3, <1>7, <1>8, EntryKeep
  <1> QED BY <1>7, <1>9

LEMMA QAppend ==
  ASSUME TypeOK, JobInv, OrdinalsFresh, PlaceInv, EntryInv, NEW q \in Requests,
         AppendCheckpoint(q)
  PROVE  PlaceInv' /\ EntryInv'
  <1> DEFINE e == Entry(clock, Family[q], q, "Checkpoint")
  <1>1. /\ pc[q] = "locked" /\ Enqueue(clock, Family[q], q, "Checkpoint")
        /\ pc' = [pc EXCEPT ![q] = "appended"]
        /\ ready' = ready /\ cur' = cur /\ ran' = ran /\ todo' = todo /\ norm' = norm
        /\ slots' = slots /\ job' = job
    BY DEF AppendCheckpoint, traceVars
  <1>2. q \in Items /\ Family[q] \in Families /\ clock \in Nat /\ q # Worker
    BY ConstantsAssumption DEF Items, TypeOK
  <1>3. /\ entries'[Family[q]] = entries[Family[q]] \cup {e}
        /\ \A g \in Families : g # Family[q] => entries'[g] = entries[g]
    BY <1>1, <1>2, EnqueueFresh
  <1>4. e.item = q
    BY DEF Entry
  <1> HIDE DEF e
  <1>5. Untouched(q)
    BY <1>1 DEF EntryInv
  <1>6. \A b \in Actors : Taken(b)' = Taken(b)
    BY <1>1 DEF Taken
  <1>7. PlaceInv' /\ \A y \in Items : y # q /\ Untouched(y) => Untouched(y)'
    BY <1>1, <1>2, <1>3, <1>4, <1>5, <1>6, PlaceEnter
  <1>8. /\ pc'[q] \notin NotIn /\ pc'[Worker] = pc[Worker]
        /\ \A x \in Requests : x # q => pc'[x] = pc[x]
    BY <1>1, <1>2, WorkerIsActor DEF TypeOK, NotIn
  <1>9. EntryInv'
    BY <1>1, <1>2, <1>7, <1>8, EntryKeep
  <1> QED BY <1>7, <1>9

\* The steps of a drain.
LEMMA QDrain ==
  ASSUME TypeOK, JobInv, DrainInv, PlaceInv, EntryInv, NEW a \in Actors,
         CollectReady(a) \/ BeginEntry(a) \/ FinishEntry(a) \/ EndDrain(a)
  PROVE  PlaceInv' /\ EntryInv'
  <1>1. /\ pc[a] \in {"appended", "draining", "running"}
        /\ todo' = todo /\ norm' = norm /\ slots' = slots
    BY DEF CollectReady, BeginEntry, FinishEntry, EndDrain, traceVars
  <1>2. \E p : /\ p \notin {"direct", "waiting", "locked"}
               /\ p = "idle" => a = Worker
               /\ pc' = [pc EXCEPT ![a] = p]
    <2>1. CASE Release(a)
      BY <2>1 DEF Release, Processed
    <2>2. CASE pc' = pc
      <3>1. pc' = [pc EXCEPT ![a] = pc[a]]
        BY <2>2 DEF TypeOK
      <3> QED BY <1>1, <3>1
    <2>3. CASE \E p \in {"draining", "running"} : pc' = [pc EXCEPT ![a] = p]
      BY <2>3
    <2> QED BY <2>1, <2>2, <2>3 DEF CollectReady, BeginEntry, FinishEntry, EndDrain, Drop, Run
  <1>3. /\ \A q \in Requests : pc'[q] \in NotIn => pc[q] \in NotIn
        /\ pc'[Worker] = "direct" => pc[Worker] = "direct" /\ job' = job
    <2>1. PICK p : /\ p \notin {"direct", "waiting", "locked"}
                   /\ p = "idle" => a = Worker
                   /\ pc' = [pc EXCEPT ![a] = p]
      BY <1>2
    <2>2. pc'[a] = p /\ \A b \in Actors : b # a => pc'[b] = pc[b]
      BY <2>1 DEF TypeOK
    <2>3. \A q \in Requests : q \in Actors /\ q # Worker
      BY WorkerIsActor, ConstantsAssumption
    <2>4. a # Worker => job' = job
      BY DEF CollectReady, BeginEntry, FinishEntry, EndDrain, Release
    <2> QED BY <2>1, <2>2, <2>3, <2>4, WorkerIsActor DEF NotIn
  <1> SUFFICES PlaceInv' /\ \A y \in Items : Untouched(y) => Untouched(y)'
    <2>1. CASE Items = {}
      <3>1. Requests = {} /\ Roots = {}
        BY <2>1 DEF Items
      <3> QED BY <3>1 DEF EntryInv
    <2>2. ASSUME NEW z \in Items PROVE EntryInv'
      BY <1>1, <1>3, EntryKeep
    <2> QED BY <2>1, <2>2
  <1>4. CASE CollectReady(a)
    <2>1. CASE ready' = ready
      <3>1. entries' = entries /\ ran' = ran /\ cur' = cur
        <4>1. CASE ReadyPrefix(entries[FamilyOf(a)]) = {}
          BY <1>4, <4>1 DEF CollectReady
        <4>2. CASE ReadyPrefix(entries[FamilyOf(a)]) # {}
          <5>1. ready[a] = {}
            BY <1>4 DEF CollectReady, DrainInv
          <5>2. ready' = [ready EXCEPT ![a] = ReadyPrefix(entries[FamilyOf(a)])]
            BY <1>4, <4>2 DEF CollectReady
          <5>3. ready'[a] # {}
            BY <4>2, <5>2 DEF TypeOK
          <5> QED BY <2>1, <5>1, <5>3
        <4> QED BY <4>1, <4>2
      <3>2. \A b \in Actors : Taken(b)' = Taken(b)
        BY <2>1, <3>1 DEF Taken
      <3> QED BY <3>1, <3>2, PlaceFrame
    <2>2. CASE ready' # ready
      <3> DEFINE f == FamilyOf(a)
                 R == ReadyPrefix(entries[f])
      <3>1. /\ f \in Families /\ Taken(a) = {} /\ Taken(a)' = R
            /\ entries' = [entries EXCEPT ![f] = @ \ R]
            /\ \A b \in Actors : b # a => Taken(b)' = Taken(b)
            /\ ran' = ran
        BY <1>4, <2>2, CollectHands
      <3>2. R \in SUBSET entries[f]
        BY DEF ReadyPrefix
      <3> HIDE DEF R, f
      <3>3. /\ entries'[f] = entries[f] \ R
            /\ \A g \in Families : g # f => entries'[g] = entries[g]
        BY <3>1 DEF TypeOK
      <3> QED BY <3>1, <3>2, <3>3, PlaceTake
    <2> QED BY <2>1, <2>2
  <1>5. CASE BeginEntry(a)
    <2>1. entries' = entries /\ ran' = ran
      BY <1>5, BeginHands
    <2>2. CASE \A b \in Actors : Taken(b)' = Taken(b)
      BY <2>1, <2>2, PlaceFrame
    <2>3. ASSUME NEW e, Leaves(a, e) PROVE PlaceInv' /\ \A y \in Items : Untouched(y) => Untouched(y)'
      BY <2>1, <2>3, PlaceLeave DEF Leaves
    <2> QED BY <1>5, <2>2, <2>3, BeginHands
  <1>6. CASE FinishEntry(a)
    <2>1. PICK e : Leaves(a, e) /\ ran' = [ran EXCEPT ![e.item] = @ + 1]
      BY <1>6, FinishHands
    <2> QED BY <2>1, PlaceLeave DEF Leaves
  <1>7. CASE EndDrain(a)
    <2>1. entries' = entries /\ ran' = ran /\ \A b \in Actors : Taken(b)' = Taken(b)
      BY <1>7 DEF EndDrain, queueVars, Taken
    <2> QED BY <2>1, PlaceFrame
  <1> QED BY <1>4, <1>5, <1>6, <1>7

LEMMA QDirect ==
  ASSUME TypeOK, JobInv, PlaceInv, EntryInv, FinishDirect
  PROVE  /\ PlaceInv' /\ EntryInv'
         /\ job.root \in Items /\ Untouched(job.root)
         /\ ran' = [ran EXCEPT ![job.root] = @ + 1]
         /\ entries' = entries /\ \A b \in Actors : Taken(b)' = Taken(b)
  <1>1. pc[Worker] = "direct" /\ job.root \in Roots
    BY DEF FinishDirect, JobInv, Jobs
  <1>2. PICK r \in Roots : r = job.root
    BY <1>1
  <1>3. r \in Items /\ Untouched(r) /\ norm[r] = "completed"
    BY <1>1, <1>2 DEF EntryInv, Items
  <1>4. /\ ran' = [ran EXCEPT ![r] = @ + 1] /\ entries' = entries /\ ready' = ready
        /\ cur' = cur /\ slots' = slots /\ todo' = todo /\ norm' = norm
    BY <1>2 DEF FinishDirect, queueVars, traceVars
  <1>5. \A b \in Actors : Taken(b)' = Taken(b)
    BY <1>4 DEF Taken
  <1>6. PlaceInv' /\ \A y \in Items : y # r /\ Untouched(y) => Untouched(y)'
    BY <1>3, <1>4, <1>5, PlaceApply
  <1>7. pc'[Worker] # "direct" /\ \A q \in Requests : pc'[q] = pc[q]
    <2>1. \E p \in {"gc", "idle"} : pc' = [pc EXCEPT ![Worker] = p]
      BY DEF FinishDirect, Processed
    <2>2. \A q \in Requests : q \in Actors /\ q # Worker
      BY WorkerIsActor, ConstantsAssumption
    <2> QED BY <2>1, <2>2, WorkerIsActor DEF TypeOK
  <1>8. EntryInv'
    BY <1>2, <1>3, <1>4, <1>6, <1>7, EntryKeep
  <1> QED BY <1>2, <1>3, <1>4, <1>5, <1>6, <1>8

LEMMA QNext == QInv /\ [Next]_vars => PlaceInv' /\ EntryInv'
  <1> SUFFICES ASSUME TypeOK, JobInv, SlotFindsItsEntry, OrdinalsFresh, DrainInv, PlaceInv,
                      EntryInv, [Next]_vars
               PROVE  PlaceInv' /\ EntryInv'
    BY DEF QInv, IInv, SlotInv
  <1>1. ASSUME NEW r \in Roots, IngestStart(r) \/ IngestTerminal(r) PROVE PlaceInv' /\ EntryInv'
    BY <1>1, QStart, QTerminal
  <1>2. ASSUME NEW q \in Requests, CheckpointArrives(q) PROVE PlaceInv' /\ EntryInv'
    <2>1. /\ pc[q] = "idle" /\ \E p : pc' = [pc EXCEPT ![q] = p]
      BY <1>2 DEF CheckpointArrives
    <2>2. q # Worker /\ \A b \in Actors : b # q => pc'[b] = pc[b]
      BY <2>1, ConstantsAssumption DEF TypeOK
    <2>3. \A x \in Requests : pc'[x] \in NotIn => pc[x] \in NotIn
      BY <2>1, <2>2, WorkerIsActor DEF NotIn
    <2> QED BY <1>2, <2>2, <2>3, WorkerIsActor, QFrame
            DEF CheckpointArrives, queueVars, traceVars
  <1>3. ASSUME NEW a \in Actors, AcquireLock(a) PROVE PlaceInv' /\ EntryInv'
    <2>1. /\ pc[a] = "waiting" /\ pc'[a] = "locked"
          /\ \A b \in Actors : b # a => pc'[b] = pc[b]
      BY <1>3 DEF AcquireLock, TypeOK
    <2>2. \A x \in Requests : pc'[x] \in NotIn => pc[x] \in NotIn
      BY <2>1, WorkerIsActor DEF NotIn
    <2> QED BY <1>3, <2>1, <2>2, WorkerIsActor, QFrame
            DEF AcquireLock, queueVars, traceVars
  <1>4. ASSUME WorkerGc PROVE PlaceInv' /\ EntryInv'
    <2>1. pc'[Worker] = "idle" /\ \A b \in Actors : b # Worker => pc'[b] = pc[b]
      BY <1>4, WorkerIsActor DEF WorkerGc, TypeOK
    <2>2. \A x \in Requests : pc'[x] \in NotIn => pc[x] \in NotIn
      BY <2>1, WorkerIsActor, ConstantsAssumption
    <2> QED BY <1>4, <2>1, <2>2, QFrame DEF WorkerGc, traceVars
  <1>5. ASSUME UpdateCheckGc \/ Tick \/ UNCHANGED vars PROVE PlaceInv' /\ EntryInv'
    BY <1>5, QFrame DEF UpdateCheckGc, Tick, vars, queueVars, traceVars
  <1> QED
    BY <1>1, <1>2, <1>3, <1>4, <1>5, QReplace, QAppend, QDrain, QDirect, WorkerIsActor
       DEF Next, WorkerStep, HandlerStep, DrainStep, Idle

\* Queues, hands and counts agree in every reachable state.
THEOREM QInductive == Spec => []QInv
  <1>1. Init => QInv
    BY TypeInit, JobInit, SlotInit, LockInit, DrainInit, PlaceInit, EntryInit
       DEF QInv, IInv, SlotInv
  <1>2. QInv /\ [Next]_vars => QInv'
    <2>1. IInv /\ [Next]_vars => IInv'
      BY TypeNext, JobNext, SlotNext, LockNext DEF IInv, SlotInv
    <2>2. IInv => TypeOK
      BY DEF IInv
    <2> QED BY <2>1, <2>2, DrainNext, QNext DEF QInv
  <1> QED BY <1>1, <1>2, PTL DEF Spec

\* An item is in at most one place, and in none once it has been applied.
THEOREM AppliedOnce == Spec => []AppliedAtMostOnce
  <1>1. QInv => AppliedAtMostOnce
    <2> SUFFICES ASSUME TypeOK, DrainInv, PlaceInv, NEW x \in Items
                 PROVE  Cardinality(Places(x)) + ran[x] <= 1
      BY DEF QInv, IInv, AppliedAtMostOnce
    <2>1. /\ \A p \in Places(x) : Queued(x) \/ Carried(x)
          /\ \A p, q \in Places(x) : p = q
      <3>1. ASSUME NEW f \in Families, NEW e \in entries[f], e.item = x
            PROVE  Queued(x) /\ Family[x] = f
        BY <3>1 DEF Queued, PlaceInv
      <3>2. ASSUME NEW a \in Actors, NEW e \in ready[a], e.item = x
            PROVE  Carried(x) /\ e \in Taken(a)
        BY <3>2 DEF Carried, Taken
      <3>3. ASSUME NEW a \in Actors, cur[a] # None, cur[a].entry.item = x
            PROVE  Carried(x) /\ cur[a].entry \in Taken(a) /\ cur[a].entry \notin ready[a]
        BY <3>3 DEF Carried, Taken, DrainInv
      <3>4. ~(Queued(x) /\ Carried(x))
        BY DEF PlaceInv
      <3>5. ASSUME NEW a \in Actors, NEW b \in Actors, NEW d \in Taken(a), NEW e \in Taken(b),
                   d.item = x, e.item = x
            PROVE  a = b /\ d = e
        BY <3>5 DEF PlaceInv
      <3>6. \A p \in Places(x) :
              \/ \E f \in Families : \E e : p = <<"map", f>> /\ e \in entries[f] /\ e.item = x
              \/ \E a \in Actors : \E e : p = <<"ready", a>> /\ e \in ready[a] /\ e.item = x
              \/ \E a \in Actors : p = <<"running", a>> /\ cur[a] # None /\ cur[a].entry.item = x
        BY DEF Places
      <3>7. \A p \in Places(x) : Queued(x) \/ Carried(x)
        BY <3>1, <3>2, <3>3, <3>6
      <3>8. CASE Queued(x)
        <4>1. \A p \in Places(x) : p = <<"map", Family[x]>>
          BY <3>1, <3>2, <3>3, <3>4, <3>6, <3>8
        <4> QED BY <3>7, <4>1
      <3>9. CASE ~Queued(x)
        <4>1. \A p \in Places(x) :
                \/ \E a \in Actors : \E e : /\ p = <<"ready", a>> /\ e \in ready[a]
                                             /\ e \in Taken(a) /\ e.item = x
                \/ \E a \in Actors : \E e : /\ p = <<"running", a>> /\ e \notin ready[a]
                                             /\ e \in Taken(a) /\ e.item = x
          BY <3>1, <3>2, <3>3, <3>6, <3>9
        <4> QED BY <3>5, <3>7, <4>1
      <3> QED BY <3>8, <3>9
    <2>2. CASE Places(x) = {}
      <3>1. Cardinality(Places(x)) = 0
        BY <2>2, FS_EmptySet
      <3> QED BY <3>1 DEF PlaceInv
    <2>3. ASSUME NEW p \in Places(x)
          PROVE  Cardinality(Places(x)) + ran[x] <= 1
      <3>1. Places(x) = {p} /\ ran[x] = 0
        BY <2>1 DEF PlaceInv
      <3>2. Cardinality({p}) = 1
        BY FS_Singleton
      <3> QED BY <3>1, <3>2
    <2> QED BY <2>2, <2>3
  <1> QED BY <1>1, QInductive, PTL

----------------------------------------------------------------------------
(* Steps of the sequencer are steps of ReplayQueue *)

LEMMA AbstractPlace ==
  ASSUME NEW e \in Entries
  PROVE  /\ Place(e) \in Replay!Places /\ Place(e).item = e.item
         /\ Place(e).mode = "open" <=> e.kind = "PendingRoot"
         /\ Place(e).mode = "void" <=> e.kind = "Canceled"
         /\ Place(e).ts = e.ts /\ Place(e).ord = e.ord
         /\ \A k \in EntryKinds : Place([e EXCEPT !.kind = k]) = [Place(e) EXCEPT !.mode = Mode(k)]
  BY DEF Entries, EntryKinds, Place, Mode, Replay!Places, Replay!Modes

LEMMA AbstractSame ==
  /\ entries' = entries => AbstractQueue' = AbstractQueue
  /\ (\A b \in Actors : Taken(b)' = Taken(b)) => AbstractBatch' = AbstractBatch
  BY DEF AbstractQueue, AbstractBatch

LEMMA AbstractQueueAt ==
  ASSUME NEW f \in Families, \A g \in Families : g # f => entries'[g] = entries[g]
  PROVE  AbstractQueue' = [AbstractQueue EXCEPT ![f] = {Place(e) : e \in entries'[f]}]
  BY DEF AbstractQueue

LEMMA AbstractBatchAt ==
  ASSUME NEW a \in Actors, \A b \in Actors : b # a => Taken(b)' = Taken(b)
  PROVE  AbstractBatch' = [AbstractBatch EXCEPT ![a] = {Place(e) : e \in Taken(a)'}]
  BY DEF AbstractBatch

LEMMA StepFresh ==
  ASSUME TypeOK, NEW x \in Items, Untouched(x)
  PROVE  Replay!Fresh(x)
  <1>1. \A f \in Families : \A p \in AbstractQueue[f] : p.item # x
    BY DEF AbstractQueue, Place, Untouched, Queued
  <1>2. \A a \in Actors : \A p \in AbstractBatch[a] : p.item # x
    BY DEF AbstractBatch, Place, Untouched, Carried
  <1> QED BY <1>1, <1>2 DEF Replay!Fresh, Untouched

LEMMA StepEnter ==
  ASSUME TypeOK, NEW x \in Items, Untouched(x), Family[x] \in Families,
         NEW e \in Entries, e.item = x, e.kind # "Canceled",
         \A d \in entries[Family[x]] : d.ord # e.ord,
         entries'[Family[x]] = entries[Family[x]] \cup {e},
         \A g \in Families : g # Family[x] => entries'[g] = entries[g],
         ran' = ran, \A b \in Actors : Taken(b)' = Taken(b)
  PROVE  Replay!Enter(x)
  <1> DEFINE f == Family[x]
             p == Place(e)
  <1>1. AbstractQueue' = [AbstractQueue EXCEPT ![f] = {Place(d) : d \in entries'[f]}]
    BY AbstractQueueAt
  <1>2. {Place(d) : d \in entries'[f]} = AbstractQueue[f] \cup {p}
    BY DEF AbstractQueue
  <1>3. AbstractQueue' = [AbstractQueue EXCEPT ![f] = @ \cup {p}]
    BY <1>1, <1>2
  <1>4. p \in AbstractQueue'[f]
    BY DEF AbstractQueue
  <1>5. p \in Replay!Places /\ p.item = x /\ p.mode # "void"
    BY AbstractPlace
  <1>6. \A q \in AbstractQueue[f] : q.ord # p.ord
    BY DEF AbstractQueue, Place
  <1> HIDE DEF p, f
  <1> QED BY <1>3, <1>4, <1>5, <1>6, StepFresh, AbstractSame DEF Replay!Enter, f

LEMMA StepClose ==
  ASSUME TypeOK, PlaceInv, NEW f \in Families, NEW e \in entries[f],
         NEW k \in {"ReadyCommand", "Canceled"}, e.kind = "PendingRoot",
         entries' = [entries EXCEPT ![f] = (@ \ {e}) \cup {[e EXCEPT !.kind = k]}],
         ran' = ran, \A b \in Actors : Taken(b)' = Taken(b)
  PROVE  Replay!Close(f)
  <1> DEFINE p == Place(e)
             n == [e EXCEPT !.kind = k]
             m == Mode(k)
  <1>1. e \in Entries /\ k \in EntryKinds /\ m \in {"live", "void"}
    BY DEF TypeOK, EntryKinds, Mode
  <1>2. p \in AbstractQueue[f] /\ p.mode = "open" /\ Place(n) = [p EXCEPT !.mode = m]
    BY <1>1, AbstractPlace DEF AbstractQueue
  <1>3. \A d \in entries[f] : Place(d) = p => d = e
    BY DEF Place, PlaceInv
  <1> HIDE DEF m, n
  <1>4. /\ entries'[f] = (entries[f] \ {e}) \cup {n}
        /\ \A g \in Families : g # f => entries'[g] = entries[g]
    BY DEF TypeOK, n
  <1>5. AbstractQueue' = [AbstractQueue EXCEPT ![f] = {Place(d) : d \in entries'[f]}]
    BY <1>4, AbstractQueueAt
  <1>6. {Place(d) : d \in entries'[f]} = (AbstractQueue[f] \ {p}) \cup {Place(n)}
    <2>1. \A d \in entries[f] \ {e} : Place(d) # p
      BY <1>3
    <2> QED BY <1>4, <2>1 DEF AbstractQueue
  <1> HIDE DEF p
  <1>7. AbstractQueue' = [AbstractQueue EXCEPT ![f] = (@ \ {p}) \cup {[p EXCEPT !.mode = m]}]
    BY <1>2, <1>5, <1>6
  <1> QED BY <1>1, <1>2, <1>7, AbstractSame DEF Replay!Close

LEMMA StepTake ==
  ASSUME TypeOK, PlaceInv, NEW f \in Families, NEW a \in Actors, Taken(a) = {},
         ReadyPrefix(entries[f]) # {}, Taken(a)' = ReadyPrefix(entries[f]),
         entries' = [entries EXCEPT ![f] = @ \ ReadyPrefix(entries[f])],
         \A b \in Actors : b # a => Taken(b)' = Taken(b), ran' = ran
  PROVE  Replay!Take(a, f)
  <1> DEFINE R == ReadyPrefix(entries[f])
             C == {Place(e) : e \in R}
  <1>1. R \subseteq entries[f] /\ entries[f] \subseteq Entries
    BY DEF ReadyPrefix, TypeOK
  <1>2. Replay!Closed(f) = C
    <2>1. ASSUME NEW d \in Entries, NEW e \in Entries
          PROVE  Replay!Earlier(Place(d), Place(e)) <=> Before(d, e)
      BY AbstractPlace DEF Replay!Earlier, Before
    <2>2. \A d, e \in entries[f] :
            /\ Replay!Earlier(Place(d), Place(e)) <=> Before(d, e)
            /\ Place(e).mode = "open" <=> e.kind = "PendingRoot"
      BY <1>1, <2>1, AbstractPlace
    <2>3. ASSUME NEW e \in entries[f]
          PROVE  e \in R <=> \A q \in AbstractQueue[f] :
                               q.mode = "open" => Replay!Earlier(Place(e), q)
      <3>1. ~Before(e, e)
        BY <1>1 DEF Before, Entries
      <3>2. e \in R <=> \A d \in entries[f] : d.kind = "PendingRoot" => Before(e, d)
        BY <3>1 DEF ReadyPrefix
      <3>3. (\A q \in AbstractQueue[f] : q.mode = "open" => Replay!Earlier(Place(e), q))
              <=> \A d \in entries[f] : Place(d).mode = "open"
                                          => Replay!Earlier(Place(e), Place(d))
        BY DEF AbstractQueue
      <3> QED BY <2>2, <3>2, <3>3
    <2> HIDE DEF R
    <2>4. AbstractQueue[f] = {Place(e) : e \in entries[f]}
      BY DEF AbstractQueue
    <2> QED BY <1>1, <2>3, <2>4 DEF Replay!Closed
  <1> HIDE DEF R
  <1>3. /\ entries'[f] = entries[f] \ R
        /\ \A g \in Families : g # f => entries'[g] = entries[g]
    BY DEF TypeOK, R
  <1>4. {Place(d) : d \in entries'[f]} = AbstractQueue[f] \ C
    <2>1. \A d, e \in entries[f] : Place(d) = Place(e) => d = e
      BY DEF Place, PlaceInv
    <2>2. \A d \in entries[f] \ R : Place(d) \notin C
      BY <1>1, <2>1
    <2> QED BY <1>3, <2>2 DEF AbstractQueue
  <1>5. AbstractBatch[a] = {}
    BY DEF AbstractBatch
  <1>6. C # {} /\ R = Taken(a)'
    BY DEF R
  <1>7. AbstractBatch' = [AbstractBatch EXCEPT ![a] = C]
    BY <1>6, AbstractBatchAt
  <1>8. AbstractQueue' = [AbstractQueue EXCEPT ![f] = @ \ C]
    BY <1>3, <1>4, AbstractQueueAt
  <1> HIDE DEF C
  <1> QED BY <1>2, <1>5, <1>6, <1>7, <1>8 DEF Replay!Take

LEMMA StepLeave ==
  ASSUME TypeOK, PlaceInv, NEW a \in Actors, NEW e \in Entries, Leaves(a, e),
         \/ ran' = ran
         \/ /\ e.kind \in {"ReadyCommand", "Checkpoint"}
            /\ ran' = [ran EXCEPT ![e.item] = @ + 1]
  PROVE  Replay!Leave(a)
  <1> DEFINE p == Place(e)
  <1>1. /\ e \in Taken(a) /\ e.item \in Items /\ entries' = entries
        /\ Taken(a)' = Taken(a) \ {e} /\ \A b \in Actors : b # a => Taken(b)' = Taken(b)
        /\ \A d \in Taken(a) \ {e} : Before(e, d)
    BY DEF Leaves
  <1>2. \A d \in Taken(a) : Place(d) = p => d = e
    BY <1>1 DEF Place, PlaceInv
  <1>3. p \in AbstractBatch[a]
    BY <1>1 DEF AbstractBatch
  <1>4. \A q \in AbstractBatch[a] \ {p} : Replay!Earlier(p, q)
    <2>1. \A d \in Taken(a) \ {e} : Replay!Earlier(p, Place(d))
      BY <1>1 DEF Replay!Earlier, Before, Place
    <2> QED BY <2>1 DEF AbstractBatch
  <1>5. {Place(d) : d \in Taken(a)'} = AbstractBatch[a] \ {p}
    <2>1. \A d \in Taken(a) \ {e} : Place(d) # p
      BY <1>2
    <2> QED BY <1>1, <2>1 DEF AbstractBatch
  <1>6. AbstractBatch' = [AbstractBatch EXCEPT ![a] = @ \ {p}]
    BY <1>1, <1>5, AbstractBatchAt
  <1>7. p.item = e.item /\ (e.kind \in {"ReadyCommand", "Checkpoint"} => p.mode = "live")
    BY DEF Place, Mode
  <1>8. \/ ran' = ran
        \/ p.mode = "live" /\ ran' = [ran EXCEPT ![p.item] = 1]
    <2>1. ran[e.item] = 0
      BY <1>1 DEF PlaceInv, Carried
    <2> QED BY <1>7, <2>1
  <1> HIDE DEF p
  <1> QED BY <1>1, <1>3, <1>4, <1>6, <1>8, AbstractSame DEF Replay!Leave

LEMMA StepBypass ==
  ASSUME TypeOK, NEW x \in Items, Untouched(x), ran' = [ran EXCEPT ![x] = @ + 1],
         entries' = entries, \A b \in Actors : Taken(b)' = Taken(b)
  PROVE  Replay!Bypass(x)
  <1>1. ran' = [ran EXCEPT ![x] = 1]
    BY DEF Untouched
  <1> QED BY <1>1, StepFresh, AbstractSame DEF Replay!Bypass

LEMMA StepStutter ==
  ASSUME entries' = entries, ran' = ran, \A b \in Actors : Taken(b)' = Taken(b)
  PROVE  UNCHANGED Replay!vars
  BY AbstractSame DEF Replay!vars

\* The order of an appended entry is nobody else's.
LEMMA StepEnqueue ==
  ASSUME TypeOK, OrdinalsFresh, NEW x \in Items, Untouched(x), Family[x] \in Families,
         NEW t \in Nat, NEW k \in {"PendingRoot", "Checkpoint"},
         k = "Checkpoint" <=> x \in Requests,
         Enqueue(t, Family[x], x, k), ran' = ran, \A b \in Actors : Taken(b)' = Taken(b)
  PROVE  Replay!Enter(x)
  <1> DEFINE f == Family[x]
             e == Entry(t, f, x, k)
  <1>1. /\ entries'[f] = entries[f] \cup {e}
        /\ \A g \in Families : g # f => entries'[g] = entries[g]
    BY EnqueueFresh
  <1>2. e \in Entries /\ e.item = x /\ e.kind # "Canceled" /\ e.ord = nextOrdinal[f]
    BY DEF Entry, Entries, EntryKinds, TypeOK
  <1>3. \A d \in entries[f] : d.ord # e.ord
    BY <1>2 DEF OrdinalsFresh, TypeOK, Entries
  <1> HIDE DEF e
  <1> QED BY <1>1, <1>2, <1>3, StepEnter

LEMMA StepIngest ==
  ASSUME TypeOK, OrdinalsFresh, EntryInv, NEW r \in Roots,
         IngestStart(r) \/ IngestTerminal(r)
  PROVE  Replay!Next \/ UNCHANGED Replay!vars
  <1>1. r \in Items /\ r \notin Requests /\ Family[r] \in Families /\ todo[r] \in Seq(TraceEvents)
    BY ConstantsAssumption DEF Items, TypeOK
  <1>2. ran' = ran /\ \A b \in Actors : Taken(b)' = Taken(b)
    BY DEF IngestStart, IngestTerminal, Taken
  <1>3. CASE entries' = entries
    BY <1>2, <1>3, StepStutter
  <1>4. CASE entries' # entries
    <2>1. PICK t \in 0..clock : AppendPendingRoot(r, t) /\ Head(todo[r]) = "start" /\ todo[r] # <<>>
      BY <1>4 DEF IngestStart, IngestTerminal, queueVars
    <2>2. t \in Nat /\ Enqueue(t, Family[r], r, "PendingRoot")
      BY <1>4, <2>1 DEF AppendPendingRoot, queueVars, TypeOK
    <2>3. Untouched(r)
      BY <1>1, <2>1, TailStarts DEF EntryInv
    <2>4. Replay!Enter(r)
      BY <1>1, <1>2, <2>2, <2>3, StepEnqueue
    <2> QED BY <1>1, <2>4 DEF Replay!Next
  <1> QED BY <1>3, <1>4

LEMMA StepDrain ==
  ASSUME TypeOK, JobInv, DrainInv, PlaceInv, NEW a \in Actors,
         CollectReady(a) \/ BeginEntry(a) \/ FinishEntry(a) \/ EndDrain(a)
  PROVE  Replay!Next \/ UNCHANGED Replay!vars
  <1>1. CASE CollectReady(a) /\ ready' # ready
    <2>1. FamilyOf(a) \in Families /\ Replay!Take(a, FamilyOf(a))
      BY <1>1, CollectHands, StepTake
    <2> QED BY <2>1 DEF Replay!Next
  <1>2. CASE CollectReady(a) /\ ready' = ready
    <2>1. ReadyPrefix(entries[FamilyOf(a)]) = {}
      <3> SUFFICES ASSUME ReadyPrefix(entries[FamilyOf(a)]) # {} PROVE FALSE
        OBVIOUS
      <3>1. ready[a] = {} /\ ready' = [ready EXCEPT ![a] = ReadyPrefix(entries[FamilyOf(a)])]
        BY <1>2 DEF CollectReady, DrainInv
      <3> QED BY <1>2, <3>1 DEF TypeOK
    <2>2. entries' = entries /\ ran' = ran /\ cur' = cur
      BY <1>2, <2>1 DEF CollectReady
    <2> QED BY <1>2, <2>2, StepStutter DEF Taken
  <1>3. CASE BeginEntry(a)
    <2>1. entries' = entries /\ ran' = ran
      BY <1>3, BeginHands
    <2>2. CASE \A b \in Actors : Taken(b)' = Taken(b)
      BY <2>1, <2>2, StepStutter
    <2>3. ASSUME NEW e \in Entries, Leaves(a, e) PROVE Replay!Next
      BY <2>1, <2>3, StepLeave DEF Replay!Next
    <2> QED BY <1>3, <2>2, <2>3, BeginHands
  <1>4. CASE FinishEntry(a)
    <2>1. PICK e \in Entries : /\ Leaves(a, e) /\ e.kind \in {"ReadyCommand", "Checkpoint"}
                               /\ ran' = [ran EXCEPT ![e.item] = @ + 1]
      BY <1>4, FinishHands
    <2>2. Replay!Leave(a)
      BY <2>1, StepLeave
    <2> QED BY <2>2 DEF Replay!Next
  <1>5. CASE EndDrain(a)
    BY <1>5, StepStutter DEF EndDrain, queueVars, Taken
  <1> QED BY <1>1, <1>2, <1>3, <1>4, <1>5

LEMMA StepImplements == QInv /\ [Next]_vars => Replay!Next \/ UNCHANGED Replay!vars
  <1> SUFFICES ASSUME TypeOK, JobInv, SlotFindsItsEntry, OrdinalsFresh, DrainInv, PlaceInv,
                      EntryInv, [Next]_vars
               PROVE  Replay!Next \/ UNCHANGED Replay!vars
    BY DEF QInv, IInv, SlotInv
  <1>1. ASSUME NEW q \in Requests, AppendCheckpoint(q) PROVE Replay!Next
    <2>1. q \in Items /\ Family[q] \in Families /\ clock \in Nat
      BY ConstantsAssumption DEF Items, TypeOK
    <2>2. /\ Untouched(q) /\ Enqueue(clock, Family[q], q, "Checkpoint") /\ ran' = ran
          /\ \A b \in Actors : Taken(b)' = Taken(b)
      BY <1>1 DEF AppendCheckpoint, EntryInv, Taken
    <2>3. Replay!Enter(q)
      BY <2>1, <2>2, StepEnqueue
    <2> QED BY <2>1, <2>3 DEF Replay!Next
  <1>2. ASSUME ReplacePendingRoot PROVE Replay!Next
    <2>1. PICK f, e, k :
            /\ f \in Families /\ e \in entries[f] /\ k \in {"ReadyCommand", "Canceled"} /\ e.kind = "PendingRoot"
            /\ entries' = [entries EXCEPT ![f] = (@ \ {e}) \cup {[e EXCEPT !.kind = k]}]
      BY <1>2, ReplaceHands
    <2>2. ran' = ran /\ \A b \in Actors : Taken(b)' = Taken(b)
      BY <1>2 DEF ReplacePendingRoot, Taken
    <2>3. Replay!Close(f)
      BY <2>1, <2>2, StepClose
    <2> QED BY <2>1, <2>3 DEF Replay!Next
  <1>3. ASSUME FinishDirect PROVE Replay!Next
    <2>1. job.root \in Items /\ Replay!Bypass(job.root)
      BY <1>3, QDirect, StepBypass
    <2> QED BY <2>1 DEF Replay!Next
  <1>4. ASSUME \/ WorkerGc \/ UpdateCheckGc \/ Tick \/ UNCHANGED vars
               \/ \E a \in Actors : AcquireLock(a)
               \/ \E q \in Requests : CheckpointArrives(q)
        PROVE  UNCHANGED Replay!vars
    <2>1. entries' = entries /\ ready' = ready /\ cur' = cur /\ ran' = ran
      BY <1>4 DEF WorkerGc, UpdateCheckGc, Tick, vars, AcquireLock, CheckpointArrives, queueVars
    <2> QED BY <2>1, StepStutter DEF Taken
  <1> QED
    BY <1>1, <1>2, <1>3, <1>4, StepIngest, StepDrain, WorkerIsActor
       DEF Next, WorkerStep, HandlerStep, DrainStep, Idle

\* The sequencer implements ReplayQueue: whatever threads, locks, slots and
\* collections do, and for any number of families, roots and requests, a family's
\* items are taken in the order of their start up to the first command that is
\* still running, and each is applied at most once, in that order within a batch.
THEOREM ImplementsReplayQueue == Spec => ReplaysQueue
  <1>1. Init => Replay!Init
    BY DEF Init, Replay!Init, AbstractQueue, AbstractBatch, Taken
  <1>2. QInv /\ [Next]_vars => [Replay!Next]_(Replay!vars)
    BY StepImplements
  <1> QED BY <1>1, <1>2, QInductive, PTL DEF Spec, ReplaysQueue, Replay!Spec

----------------------------------------------------------------------------
(* The order of departure *)

\* A drain works for one family, and what is queued there and precedes an entry
\* in its hands came after the entry had been taken.
DepartInv ==
  \A a \in Actors : \A e \in Taken(a) :
    /\ Family[e.item] = FamilyOf(a)
    /\ \A x \in entries[FamilyOf(a)] : Before(x, e) => e.item \in after[x.item]

LEMMA TakenType ==
  ASSUME TypeOK, NEW a \in Actors, NEW e \in Taken(a)
  PROVE  e \in Entries /\ e.item \in Items /\ Family[e.item] \in Families
  <1>1. e \in Entries
    BY DEF TypeOK, Taken
  <1> QED BY <1>1, ConstantsAssumption DEF Entries

LEMMA TakenInHand ==
  ASSUME NEW a \in Actors, NEW e \in Taken(a)
  PROVE  e.item \in InHand
  <1>1. CASE e \in ready[a]
    BY <1>1 DEF InHand
  <1>2. CASE cur[a] # None /\ e = cur[a].entry
    <2>1. a \in {b \in Actors : cur[b] # None}
      BY <1>2
    <2> QED BY <1>2, <2>1 DEF InHand
  <1> QED BY <1>1, <1>2 DEF Taken

\* Hands only empty themselves, and an entry of the map was there before under
\* the same order or is noted to come after what is in hand.
LEMMA DepartFrame ==
  ASSUME TypeOK, DepartInv,
         \A a \in Actors : Taken(a)' \subseteq Taken(a),
         \A a \in Actors : Taken(a)' # {} => FamilyOf(a)' = FamilyOf(a),
         \A f \in Families : \A x \in entries'[f] :
           \/ after'[x.item] = InHand
           \/ /\ after'[x.item] = after[x.item]
              /\ \E y \in entries[f] : SameOrder(x, y) /\ y.item = x.item
  PROVE  DepartInv'
  <1> SUFFICES ASSUME NEW a \in Actors, NEW e \in Taken(a)'
               PROVE  /\ Family[e.item] = FamilyOf(a)'
                      /\ \A x \in entries'[FamilyOf(a)'] : Before(x, e) => e.item \in after'[x.item]
    BY DEF DepartInv
  <1>1. e \in Taken(a) /\ FamilyOf(a)' = FamilyOf(a)
    OBVIOUS
  <1>2. PICK f \in Families : f = FamilyOf(a) /\ Family[e.item] = f
    BY <1>1, TakenType DEF DepartInv
  <1>3. \A y \in entries[f] : Before(y, e) => e.item \in after[y.item]
    BY <1>1, <1>2 DEF DepartInv
  <1>4. e.item \in InHand
    BY <1>1, TakenInHand
  <1>5. ASSUME NEW x \in entries'[f], Before(x, e) PROVE e.item \in after'[x.item]
    <2>1. CASE after'[x.item] = InHand
      BY <1>4, <2>1
    <2>2. ASSUME NEW y \in entries[f], SameOrder(x, y), y.item = x.item, after'[x.item] = after[x.item]
          PROVE  e.item \in after'[x.item]
      <3>1. Before(y, e)
        BY <1>5, <2>2 DEF Before, SameOrder
      <3> QED BY <1>3, <2>2, <3>1
    <2> QED BY <2>1, <2>2
  <1> QED BY <1>1, <1>2, <1>5

LEMMA DepartSame ==
  ASSUME TypeOK, DepartInv, entries' = entries, after' = after,
         \A a \in Actors : Taken(a)' \subseteq Taken(a),
         \A a \in Actors : Taken(a)' # {} => FamilyOf(a)' = FamilyOf(a)
  PROVE  DepartInv'
  BY DepartFrame DEF SameOrder

LEMMA DepartEnqueue ==
  ASSUME TypeOK, OrdinalsFresh, DepartInv, NEW t \in Nat, NEW f \in Families, NEW x \in Items, NEW k,
         Enqueue(t, f, x, k), ready' = ready, cur' = cur,
         \A a \in Actors : Taken(a) # {} => FamilyOf(a)' = FamilyOf(a)
  PROVE  DepartInv'
  <1> DEFINE n == Entry(t, f, x, k)
  <1>1. /\ entries'[f] = entries[f] \cup {n}
        /\ \A g \in Families : g # f => entries'[g] = entries[g]
    BY EnqueueFresh
  <1>2. n.item = x
    BY DEF Entry
  <1> HIDE DEF n
  <1>3. \A y \in Items : after'[y] = IF y = x THEN InHand ELSE after[y]
    BY DEF Enqueue, TypeOK
  <1>4. \A g \in Families : \A y \in entries[g] : y.item \in Items
    BY DEF TypeOK, Entries
  <1>5. \A g \in Families : \A y \in entries'[g] :
          \/ after'[y.item] = InHand
          \/ /\ after'[y.item] = after[y.item]
             /\ \E z \in entries[g] : SameOrder(y, z) /\ z.item = y.item
    <2> TAKE g \in Families
    <2> TAKE y \in entries'[g]
    <2>1. y \in entries[g] \/ y = n
      BY <1>1
    <2> QED BY <1>2, <1>3, <1>4, <2>1 DEF SameOrder
  <1>6. \A a \in Actors : Taken(a)' = Taken(a)
    BY DEF Taken
  <1> QED BY <1>5, <1>6, DepartFrame

\* An idle worker has nothing in its hands.
LEMMA NothingTaken ==
  ASSUME DrainInv, NEW a \in Actors, pc[a] \notin Begun
  PROVE  Taken(a) = {}
  BY DEF DrainInv, Taken, Begun

LEMMA FamilyStays ==
  ASSUME DrainInv, job' = job \/ pc[Worker] \notin Begun
  PROVE  \A a \in Actors : Taken(a) # {} => FamilyOf(a)' = FamilyOf(a)
  <1> SUFFICES ASSUME NEW a \in Actors, Taken(a) # {} PROVE FamilyOf(a)' = FamilyOf(a)
    OBVIOUS
  <1>1. pc[a] \in Begun
    BY NothingTaken
  <1>2. a # Worker \/ job' = job
    BY <1>1
  <1> QED BY <1>2 DEF FamilyOf

\* What precedes an entry that a drain may take may be taken as well.
LEMMA DepartCollect ==
  ASSUME TypeOK, JobInv, DrainInv, PlaceInv, DepartInv, NEW a \in Actors, CollectReady(a)
  PROVE  DepartInv'
  <1>0. pc[a] = "appended" /\ after' = after
    BY DEF CollectReady
  <1>1. CASE ready' = ready
    <2>1. entries' = entries /\ cur' = cur
      <3>1. CASE ReadyPrefix(entries[FamilyOf(a)]) = {}
        BY <3>1 DEF CollectReady
      <3>2. CASE ReadyPrefix(entries[FamilyOf(a)]) # {}
        <4>1. ready[a] = {}
          BY <1>0 DEF DrainInv
        <4>2. ready' = [ready EXCEPT ![a] = ReadyPrefix(entries[FamilyOf(a)])]
          BY <3>2 DEF CollectReady
        <4>3. ready'[a] # {}
          BY <3>2, <4>2 DEF TypeOK
        <4> QED BY <1>1, <4>1, <4>3
      <3> QED BY <3>1, <3>2
    <2>2. job' = job \/ pc[Worker] \notin Begun
      BY <1>0 DEF CollectReady, Release, Begun
    <2>3. \A b \in Actors : Taken(b)' = Taken(b)
      BY <1>1, <2>1 DEF Taken
    <2> QED BY <1>0, <2>1, <2>2, <2>3, FamilyStays, DepartSame
  <1>2. CASE ready' # ready
    <2> DEFINE f == FamilyOf(a)
               R == ReadyPrefix(entries[f])
    <2>1. /\ f \in Families /\ Taken(a) = {} /\ Taken(a)' = R
          /\ entries' = [entries EXCEPT ![f] = @ \ R]
          /\ \A b \in Actors : b # a => Taken(b)' = Taken(b)
      BY <1>2, CollectHands
    <2>2. job' = job
      BY <1>2 DEF CollectReady
    <2>3. \A b \in Actors : FamilyOf(b)' = FamilyOf(b)
      BY <2>2 DEF FamilyOf
    <2>4. \A e \in R : /\ e \in entries[f]
                       /\ \A p \in entries[f] : p.kind = "PendingRoot" => Before(e, p)
      BY DEF ReadyPrefix
    <2>5. \A x \in entries[f] \ R : \E p \in entries[f] :
            p.kind = "PendingRoot" /\ (x = p \/ ~Before(x, p))
      BY DEF ReadyPrefix
    <2>t. \A x \in entries[f] : x.ts \in Nat /\ x.ord \in Nat
      BY <2>1 DEF TypeOK, Entries
    <2> HIDE DEF f, R
    <2>6. \A e \in R : \A x \in entries[f] \ R : ~Before(x, e)
      <3> TAKE e \in R
      <3> TAKE x \in entries[f] \ R
      <3>1. PICK p \in entries[f] : p.kind = "PendingRoot" /\ (x = p \/ ~Before(x, p))
        BY <2>5
      <3>2. Before(e, p) /\ e \in entries[f]
        BY <2>4, <3>1
      <3>3. /\ e.ts \in Nat /\ e.ord \in Nat /\ p.ts \in Nat /\ p.ord \in Nat
            /\ x.ts \in Nat /\ x.ord \in Nat
        BY <2>t, <3>2
      <3> QED BY <3>1, <3>2, <3>3 DEF Before
    <2>7. entries'[f] = entries[f] \ R /\ \A g \in Families : entries'[g] \subseteq entries[g]
      BY <2>1 DEF TypeOK
    <2>8. \A e \in R : Family[e.item] = f
      BY <2>1, <2>4 DEF PlaceInv
    <2>9. ASSUME NEW b \in Actors, NEW e \in Taken(b)'
          PROVE  /\ Family[e.item] = FamilyOf(b)
                 /\ \A x \in entries'[FamilyOf(b)] : Before(x, e) => e.item \in after[x.item]
      <3>1. CASE b = a
        <4>1. e \in R /\ FamilyOf(b) = f
          BY <2>1, <2>9, <3>1 DEF f
        <4> QED BY <2>6, <2>7, <2>8, <4>1
      <3>2. CASE b # a
        <4>1. e \in Taken(b)
          BY <2>1, <2>9, <3>2
        <4>2. Family[e.item] = FamilyOf(b) /\ FamilyOf(b) \in Families
          BY <4>1, TakenType DEF DepartInv
        <4> QED BY <2>7, <4>1, <4>2 DEF DepartInv
      <3> QED BY <3>1, <3>2
    <2> QED BY <1>0, <2>3, <2>9 DEF DepartInv
  <1> QED BY <1>1, <1>2

LEMMA DepartReplace ==
  ASSUME TypeOK, JobInv, SlotFindsItsEntry, OrdinalsFresh, DrainInv, DepartInv, ReplacePendingRoot
  PROVE  DepartInv'
  <1>0. /\ pc[Worker] \notin Begun /\ ready' = ready /\ cur' = cur /\ after' = after
    BY DEF ReplacePendingRoot, Begun
  <1>1. \A a \in Actors : Taken(a)' = Taken(a)
    BY <1>0 DEF Taken
  <1>2. \A a \in Actors : Taken(a)' # {} => FamilyOf(a)' = FamilyOf(a)
    BY <1>0, <1>1, FamilyStays
  <1>3. CASE entries' = entries
    BY <1>0, <1>1, <1>2, <1>3, DepartSame
  <1>4. CASE entries' # entries
    <2>1. PICK f \in Families : \E e \in entries[f], k \in {"ReadyCommand", "Canceled"} :
             entries' = [entries EXCEPT ![f] = (@ \ {e}) \cup {[e EXCEPT !.kind = k]}]
      BY ReplaceHands
    <2>2. PICK e \in entries[f], k \in {"ReadyCommand", "Canceled"} :
             entries' = [entries EXCEPT ![f] = (@ \ {e}) \cup {[e EXCEPT !.kind = k]}]
      BY <2>1
    <2>3. e \in Entries
      BY DEF TypeOK
    <2> DEFINE n == [e EXCEPT !.kind = k]
    <2>4. SameOrder(n, e) /\ n.item = e.item
      BY <2>3 DEF SameOrder, Entries
    <2>5. /\ entries'[f] = (entries[f] \ {e}) \cup {n}
          /\ \A g \in Families : g # f => entries'[g] = entries[g]
      BY <2>2 DEF TypeOK
    <2> HIDE DEF n
    <2>6. \A g \in Families : \A x \in entries'[g] :
            \E y \in entries[g] : SameOrder(x, y) /\ y.item = x.item
      <3> TAKE g \in Families
      <3> TAKE x \in entries'[g]
      <3>1. CASE x \in entries[g]
        BY <3>1 DEF SameOrder
      <3>2. CASE g = f /\ x = n
        BY <2>4, <3>2
      <3> QED BY <2>5, <3>1, <3>2
    <2>7. \A g \in Families : \A x \in entries'[g] :
            /\ after'[x.item] = after[x.item]
            /\ \E y \in entries[g] : SameOrder(x, y) /\ y.item = x.item
      BY <1>0, <2>6
    <2> QED BY <1>1, <1>2, <2>7, DepartFrame
  <1> QED BY <1>3, <1>4

LEMMA DepartNext ==
  ASSUME QInv, DepartInv, [Next]_vars
  PROVE  DepartInv'
  <1>0. /\ TypeOK /\ JobInv /\ SlotFindsItsEntry /\ OrdinalsFresh
        /\ DrainInv /\ PlaceInv
    BY DEF QInv, IInv, SlotInv
  <1>s. ASSUME ready' = ready, cur' = cur, job' = job \/ pc[Worker] \notin Begun
        PROVE  /\ \A a \in Actors : Taken(a)' \subseteq Taken(a)
               /\ \A a \in Actors : Taken(a) # {} => FamilyOf(a)' = FamilyOf(a)
               /\ \A a \in Actors : Taken(a)' # {} => FamilyOf(a)' = FamilyOf(a)
    <2>1. \A a \in Actors : Taken(a)' = Taken(a)
      BY <1>s DEF Taken
    <2> QED BY <1>0, <1>s, <2>1, FamilyStays
  <1>1. ASSUME NEW r \in Roots, IngestStart(r) PROVE DepartInv'
    <2>1. /\ pc[Worker] \notin Begun /\ ready' = ready /\ cur' = cur
      BY <1>1 DEF IngestStart, Begun
    <2>2. PICK t \in 0..clock : AppendPendingRoot(r, t)
      BY <1>1 DEF IngestStart
    <2>3. CASE Appends(r)
      <3>1. t \in Nat /\ Family[r] \in Families /\ r \in Items
        BY <1>0, ConstantsAssumption DEF TypeOK, Items
      <3>2. Enqueue(t, Family[r], r, "PendingRoot")
        BY <2>2, <2>3 DEF AppendPendingRoot
      <3> QED BY <1>0, <1>s, <2>1, <3>1, <3>2, DepartEnqueue
    <2>4. CASE ~Appends(r)
      <3>1. entries' = entries /\ after' = after
        BY <2>2, <2>4 DEF AppendPendingRoot, queueVars
      <3> QED BY <1>0, <1>s, <2>1, <3>1, DepartSame
    <2> QED BY <2>3, <2>4
  <1>2. ASSUME NEW r \in Roots, IngestTerminal(r) PROVE DepartInv'
    <2>1. /\ pc[Worker] \notin Begun /\ ready' = ready /\ cur' = cur
          /\ entries' = entries /\ after' = after
      BY <1>2 DEF IngestTerminal, Begun, queueVars
    <2> QED BY <1>0, <1>s, <2>1, DepartSame
  <1>3. ASSUME FinishDirect PROVE DepartInv'
    <2>1. /\ pc[Worker] \notin Begun /\ ready' = ready /\ cur' = cur
          /\ entries' = entries /\ after' = after
      BY <1>3 DEF FinishDirect, Begun, queueVars
    <2> QED BY <1>0, <1>s, <2>1, DepartSame
  <1>4. ASSUME NEW q \in Requests, AppendCheckpoint(q) PROVE DepartInv'
    <2>1. /\ Enqueue(clock, Family[q], q, "Checkpoint")
          /\ ready' = ready /\ cur' = cur /\ job' = job
      BY <1>4 DEF AppendCheckpoint
    <2>2. clock \in Nat /\ Family[q] \in Families /\ q \in Items
      BY <1>0, ConstantsAssumption DEF TypeOK, Items
    <2> QED BY <1>0, <1>s, <2>1, <2>2, DepartEnqueue
  <1>5. ASSUME NEW q \in Requests, CheckpointArrives(q) PROVE DepartInv'
    BY <1>0, <1>s, <1>5, DepartSame DEF CheckpointArrives, queueVars
  <1>6. ASSUME NEW a \in Actors, AcquireLock(a) PROVE DepartInv'
    BY <1>0, <1>s, <1>6, DepartSame DEF AcquireLock, queueVars
  <1>7. ASSUME WorkerGc \/ UpdateCheckGc \/ Tick \/ UNCHANGED vars PROVE DepartInv'
    BY <1>0, <1>s, <1>7, DepartSame DEF WorkerGc, UpdateCheckGc, Tick, vars, queueVars
  <1>8. ASSUME NEW a \in Actors, BeginEntry(a) PROVE DepartInv'
    <2>1. /\ entries' = entries
          /\ \/ \A b \in Actors : Taken(b)' = Taken(b)
             \/ \E e \in Entries : Leaves(a, e)
      BY <1>0, <1>8, BeginHands
    <2>2. \A b \in Actors : Taken(b)' \subseteq Taken(b)
      BY <2>1 DEF Leaves
    <2>3. job' = job /\ after' = after
      BY <1>8 DEF BeginEntry
    <2>4. \A b \in Actors : FamilyOf(b)' = FamilyOf(b)
      BY <2>3 DEF FamilyOf
    <2> QED BY <1>0, <2>1, <2>2, <2>3, <2>4, DepartSame
  <1>9. ASSUME NEW a \in Actors, FinishEntry(a) PROVE DepartInv'
    <2>1. \E e \in Entries : Leaves(a, e)
      BY <1>0, <1>9, FinishHands
    <2>2. entries' = entries /\ \A b \in Actors : Taken(b)' \subseteq Taken(b)
      BY <2>1 DEF Leaves
    <2>3. job' = job /\ after' = after
      BY <1>9 DEF FinishEntry
    <2>4. \A b \in Actors : FamilyOf(b)' = FamilyOf(b)
      BY <2>3 DEF FamilyOf
    <2> QED BY <1>0, <2>2, <2>3, <2>4, DepartSame
  <1>10. ASSUME NEW a \in Actors, EndDrain(a) PROVE DepartInv'
    <2>1. /\ ready[a] = {} /\ pc[a] = "draining" /\ ready' = ready /\ cur' = cur
          /\ entries' = entries /\ after' = after /\ Release(a)
      BY <1>10 DEF EndDrain, queueVars
    <2>2. Taken(a) = {}
      BY <1>0, <2>1 DEF DrainInv, Taken
    <2>3. \A b \in Actors : Taken(b)' = Taken(b)
      BY <2>1 DEF Taken
    <2>4. a = Worker \/ job' = job
      BY <2>1 DEF Release
    <2>5. \A b \in Actors : Taken(b)' # {} => FamilyOf(b)' = FamilyOf(b)
      BY <2>2, <2>3, <2>4 DEF FamilyOf
    <2> QED BY <1>0, <2>1, <2>3, <2>5, DepartSame
  <1> QED
    BY <1>0, <1>1, <1>2, <1>3, <1>4, <1>5, <1>6, <1>7, <1>8, <1>9, <1>10,
       DepartReplace, DepartCollect, WorkerIsActor
       DEF Next, WorkerStep, HandlerStep, DrainStep, Idle

LEMMA DepartInit == Init => DepartInv
  BY DEF Init, DepartInv, Taken

\* Checkpoints and commands the sequencer knows of are applied in the order of
\* their start, and none overtakes a command that is still running.
THEOREM StartsInOrder == Spec => []StartOrderRespected
  <1>1. QInv /\ DepartInv => StartOrderRespected
    <2> SUFFICES ASSUME TypeOK, JobInv, LockInv, DrainInv, DepartInv,
                        NEW a \in Actors, pc[a] = "running", lock[FamilyOf(a)] = 1,
                        NEW x \in Waiting(FamilyOf(a)), Family[x.item] = FamilyOf(a),
                        Before(x, cur[a].entry)
                 PROVE  cur[a].entry.item \in after[x.item]
      BY DEF QInv, IInv, SlotInv, StartOrderRespected
    <2> DEFINE e == cur[a].entry
    <2>1. cur[a] # None
      BY DEF DrainInv
    <2>2. e \in Taken(a) /\ e \in Entries
      BY <2>1 DEF Taken, TypeOK
    <2>3. CASE x \in entries[FamilyOf(a)]
      BY <2>2, <2>3 DEF DepartInv
    <2>4. ASSUME NEW b \in Actors, x \in ready[b], pc[b] \in Begun PROVE FALSE
      <3>1. x \in Taken(b) /\ x \in Entries
        BY <2>4 DEF Taken, TypeOK
      <3>2. FamilyOf(b) = FamilyOf(a)
        BY <3>1 DEF DepartInv
      <3>3. pc[a] \in Holding /\ pc[b] \in Holding
        BY <2>4 DEF Holding, Begun
      <3>4. arc[a] \in 1..1 /\ arc[b] \in 1..1
        BY <3>2, <3>3 DEF LockInv
      <3>5. arc[a] = arc[b]
        BY <3>4
      <3>6. a = b
        BY <3>2, <3>3, <3>5 DEF LockInv
      <3>7. Before(e, x)
        BY <2>1, <2>4, <3>6 DEF DrainInv
      <3>8. Before(x, e)
        OBVIOUS
      <3>9. x.ts \in Nat /\ x.ord \in Nat /\ e.ts \in Nat /\ e.ord \in Nat
        BY <2>2, <3>1 DEF Entries
      <3> HIDE DEF e
      <3> QED BY <3>7, <3>8, <3>9 DEF Before
    <2> QED BY <2>3, <2>4 DEF Waiting, Begun
  <1>2. DepartInv /\ QInv /\ [Next]_vars => DepartInv'
    BY DepartNext
  <1> QED BY <1>1, <1>2, DepartInit, QInductive, PTL DEF Spec

----------------------------------------------------------------------------
(* Effects in flight *)

InEffect == {"draining", "running", "direct"}
Counted(f) == {a \in Actors : pc[a] \in InEffect /\ FamilyOf(a) = f}

CountInv == \A f \in Families : inflight[f] = leaked[f] + Cardinality(Counted(f))

\* Nobody begins or ends an effect.
LEMMA CountSame ==
  ASSUME CountInv, inflight' = inflight, leaked' = leaked,
         \A a \in Actors : /\ pc'[a] \in InEffect <=> pc[a] \in InEffect
                           /\ pc[a] \in InEffect => FamilyOf(a)' = FamilyOf(a)
  PROVE  CountInv'
  <1>1. \A f \in Families : Counted(f)' = Counted(f)
    BY DEF Counted
  <1> QED BY <1>1 DEF CountInv

\* One thread begins or ends an effect, which is counted for its family, or
\* leaves it counted.
LEMMA CountStep ==
  ASSUME TypeOK, CountInv, IsFiniteSet(Requests), NEW a \in Actors, NEW f \in Families,
         \A b \in Actors : b # a => pc'[b] = pc[b] /\ FamilyOf(b)' = FamilyOf(b),
         \/ /\ pc[a] \notin InEffect /\ pc'[a] \in InEffect /\ FamilyOf(a)' = f
            /\ inflight' = [inflight EXCEPT ![f] = @ + 1] /\ leaked' = leaked
         \/ /\ pc[a] \in InEffect /\ FamilyOf(a) = f /\ pc'[a] \notin InEffect
            /\ \/ inflight' = [inflight EXCEPT ![f] = @ - 1] /\ leaked' = leaked
               \/ inflight' = inflight /\ leaked' = [leaked EXCEPT ![f] = @ + 1]
  PROVE  CountInv'
  <1>1. IsFiniteSet(Actors)
    <2>1. Actors = Requests \cup {Worker}
      BY DEF Actors
    <2> QED BY <2>1, FS_AddElement
  <1>2. \A g \in Families : IsFiniteSet(Counted(g))
    <2> TAKE g \in Families
    <2>1. Counted(g) \in SUBSET Actors
      BY DEF Counted
    <2> QED BY <1>1, <2>1, FS_Subset
  <1>3. /\ \A g \in Families : g # f => inflight'[g] = inflight[g] /\ leaked'[g] = leaked[g]
        /\ \A g \in Families : /\ inflight[g] \in Int /\ leaked[g] \in Nat
                               /\ Cardinality(Counted(g)) \in Nat
    <2>1. \A g \in Families : Cardinality(Counted(g)) \in Nat
      BY <1>2, FS_CardinalityType
    <2> QED BY <2>1 DEF TypeOK
  <1>4. CASE /\ pc[a] \notin InEffect /\ pc'[a] \in InEffect /\ FamilyOf(a)' = f
             /\ inflight' = [inflight EXCEPT ![f] = @ + 1] /\ leaked' = leaked
    <2>1. Counted(f)' = Counted(f) \cup {a} /\ a \notin Counted(f)
      BY <1>4 DEF Counted
    <2>2. \A g \in Families : g # f => Counted(g)' = Counted(g)
      BY <1>4 DEF Counted
    <2>3. Cardinality(Counted(f) \cup {a}) = Cardinality(Counted(f)) + 1
      BY <1>2, <2>1, FS_AddElement
    <2>4. inflight'[f] = inflight[f] + 1
      BY <1>4 DEF TypeOK
    <2>5. inflight[f] = leaked[f] + Cardinality(Counted(f))
      BY DEF CountInv
    <2>6. leaked'[f] = leaked[f]
      BY <1>4
    <2>7. /\ inflight[f] \in Int /\ leaked[f] \in Nat /\ Cardinality(Counted(f)) \in Nat
      BY <1>3
    <2>8. inflight'[f] = leaked'[f] + (Cardinality(Counted(f)) + 1)
      BY <2>4, <2>5, <2>6, <2>7
    <2>9. inflight'[f] = leaked'[f] + Cardinality(Counted(f)')
      BY <2>1, <2>3, <2>8
    <2>10. ASSUME NEW g \in Families, g # f
           PROVE  inflight'[g] = leaked'[g] + Cardinality(Counted(g)')
      <3>1. inflight[g] = leaked[g] + Cardinality(Counted(g))
        BY DEF CountInv
      <3>2. inflight'[g] = inflight[g] /\ leaked'[g] = leaked[g]
        BY <1>3, <2>10
      <3>3. Counted(g)' = Counted(g)
        BY <2>2, <2>10
      <3> QED BY <3>1, <3>2, <3>3
    <2> QED BY <2>9, <2>10 DEF CountInv
  <1>5. CASE /\ pc[a] \in InEffect /\ FamilyOf(a) = f /\ pc'[a] \notin InEffect
             /\ \/ inflight' = [inflight EXCEPT ![f] = @ - 1] /\ leaked' = leaked
                \/ inflight' = inflight /\ leaked' = [leaked EXCEPT ![f] = @ + 1]
    <2>1. Counted(f)' = Counted(f) \ {a} /\ a \in Counted(f)
      BY <1>5 DEF Counted
    <2>2. \A g \in Families : g # f => Counted(g)' = Counted(g)
      BY <1>5 DEF Counted
    <2>3. Cardinality(Counted(f) \ {a}) = Cardinality(Counted(f)) - 1
      BY <1>2, <2>1, FS_RemoveElement
    <2>4. inflight'[f] - leaked'[f] = (inflight[f] - leaked[f]) - 1
      <3>1. CASE inflight' = [inflight EXCEPT ![f] = @ - 1] /\ leaked' = leaked
        BY <1>3, <3>1 DEF TypeOK
      <3>2. CASE inflight' = inflight /\ leaked' = [leaked EXCEPT ![f] = @ + 1]
        BY <1>3, <3>2 DEF TypeOK
      <3> QED BY <1>5, <3>1, <3>2
    <2>5. inflight'[f] \in Int /\ leaked'[f] \in Int
      BY <1>3, <1>5 DEF TypeOK
    <2>6. inflight[f] = leaked[f] + Cardinality(Counted(f))
      BY DEF CountInv
    <2>7. /\ inflight[f] \in Int /\ leaked[f] \in Nat /\ Cardinality(Counted(f)) \in Nat
      BY <1>3
    <2>8. inflight'[f] = leaked'[f] + (Cardinality(Counted(f)) - 1)
      BY <2>4, <2>5, <2>6, <2>7
    <2>9. inflight'[f] = leaked'[f] + Cardinality(Counted(f)')
      BY <2>1, <2>3, <2>8
    <2>10. ASSUME NEW g \in Families, g # f
           PROVE  inflight'[g] = leaked'[g] + Cardinality(Counted(g)')
      <3>1. inflight[g] = leaked[g] + Cardinality(Counted(g))
        BY DEF CountInv
      <3>2. inflight'[g] = inflight[g] /\ leaked'[g] = leaked[g]
        BY <1>3, <2>10
      <3>3. Counted(g)' = Counted(g)
        BY <2>2, <2>10
      <3> QED BY <3>1, <3>2, <3>3
    <2> QED BY <2>9, <2>10 DEF CountInv
  <1> QED BY <1>4, <1>5

\* What a command's outcome does to the count.
LEMMA CountOutcome ==
  ASSUME TypeOK, CountInv, IsFiniteSet(Requests), NEW r \in Roots, NEW sl, pc[Worker] = "idle",
         \/ FinalizeRootExit(r, sl) \/ Skip(r, sl)
         \/ TakeSlot(r, sl, "Canceled"),
         leaked' = leaked
  PROVE  CountInv'
  <1>0. \A b \in Actors : b # Worker => FamilyOf(b)' = FamilyOf(b)
    BY DEF FamilyOf
  <1>1. CASE ApplyDirectly(r) /\ ~Skip(r, None)
    <2>1. /\ inflight' = [inflight EXCEPT ![Family[r]] = @ + 1]
          /\ pc' = [pc EXCEPT ![Worker] = "direct"] /\ job'.root = r
      BY <1>1 DEF ApplyDirectly
    <2>2. /\ pc'[Worker] = "direct" /\ pc[Worker] \notin InEffect /\ "direct" \in InEffect
          /\ \A b \in Actors : b # Worker => pc'[b] = pc[b]
      BY <2>1, WorkerIsActor DEF TypeOK, InEffect
    <2>3. FamilyOf(Worker)' = Family[r] /\ Family[r] \in Families
      BY <2>1, ConstantsAssumption DEF FamilyOf, Items
    <2> QED BY <1>0, <2>1, <2>2, <2>3, WorkerIsActor, CountStep
  <1>2. CASE Skip(r, sl) \/ Skip(r, None) \/ \E k : TakeSlot(r, sl, k)
    <2>1. inflight' = inflight
          /\ \E p \in {"idle", "gc", "waiting"} : pc' = [pc EXCEPT ![Worker] = p]
      BY <1>2 DEF Skip, Processed, TakeSlot
    <2>2. pc[Worker] \notin InEffect /\ pc'[Worker] \notin InEffect
          /\ \A b \in Actors : b # Worker => pc'[b] = pc[b]
      BY <2>1, WorkerIsActor DEF TypeOK, InEffect
    <2> QED BY <1>0, <2>1, <2>2, CountSame
  <1> QED BY <1>1, <1>2 DEF FinalizeRootExit, Emit

LEMMA CountNext ==
  ASSUME TypeOK, JobInv, CountInv, IsFiniteSet(Requests), [Next]_vars
  PROVE  CountInv'
  <1>f. \A a \in Actors : pc[a] \in Holding \cup {"direct"} => FamilyOf(a) \in Families
    BY ConstantsAssumption, WorkerIsActor DEF FamilyOf, JobInv, Jobs, Items
  <1>e. ASSUME NEW a \in Actors, NEW p, pc[a] \notin InEffect, p \notin InEffect,
               pc' = [pc EXCEPT ![a] = p], inflight' = inflight, leaked' = leaked, job' = job \/ a = Worker
        PROVE  CountInv'
    <2>1. pc'[a] \notin InEffect /\ \A b \in Actors : b # a => pc'[b] = pc[b]
      BY <1>e DEF TypeOK
    <2>2. \A b \in Actors : b # a => FamilyOf(b)' = FamilyOf(b)
      BY <1>e DEF FamilyOf
    <2> QED BY <1>e, <2>1, <2>2, CountSame
  <1>r. ASSUME NEW a \in Actors, Release(a)
        PROVE  /\ \E p : p \notin InEffect /\ pc' = [pc EXCEPT ![a] = p]
               /\ job' = job \/ a = Worker
    BY <1>r DEF Release, Processed, InEffect
  <1>1. ASSUME NEW r \in Roots, IngestStart(r) PROVE CountInv'
    <2>1. pc[Worker] = "idle" /\ leaked' = leaked /\ \E sl : FinalizeRootExit(r, sl) \/ Skip(r, sl)
      BY <1>1 DEF IngestStart
    <2> QED BY <2>1, CountOutcome
  <1>2. ASSUME NEW r \in Roots, IngestTerminal(r) PROVE CountInv'
    <2>1. leaked' = leaked /\ pc[Worker] = "idle" /\ \E sl : \/ FinalizeRootExit(r, sl) \/ Skip(r, sl)
                                                             \/ TakeSlot(r, sl, "Canceled")
      BY <1>2 DEF IngestTerminal
    <2> QED BY <2>1, CountOutcome
  <1>3. ASSUME FinishDirect PROVE CountInv'
    <2>1. /\ pc[Worker] = "direct" /\ "direct" \in InEffect
          /\ \/ inflight' = [inflight EXCEPT ![Family[job.root]] = @ - 1] /\ leaked' = leaked
             \/ inflight' = inflight /\ leaked' = [leaked EXCEPT ![Family[job.root]] = @ + 1]
          /\ \E p \in {"gc", "idle"} : pc' = [pc EXCEPT ![Worker] = p]
      BY <1>3 DEF FinishDirect, Processed, InEffect
    <2>2. /\ FamilyOf(Worker) = Family[job.root] /\ FamilyOf(Worker) \in Families
          /\ \A b \in Actors : b # Worker => FamilyOf(b)' = FamilyOf(b)
      BY <1>f, <2>1, WorkerIsActor DEF FamilyOf
    <2>3. pc'[Worker] \notin InEffect /\ \A b \in Actors : b # Worker => pc'[b] = pc[b]
      BY <2>1, WorkerIsActor DEF TypeOK, InEffect
    <2> QED BY <2>1, <2>2, <2>3, WorkerIsActor, CountStep
  <1>4. ASSUME NEW q \in Requests, CheckpointArrives(q) PROVE CountInv'
    <2>1. pc[q] \notin InEffect /\ inflight' = inflight /\ leaked' = leaked /\ job' = job
          /\ \E p : p \notin InEffect /\ pc' = [pc EXCEPT ![q] = p]
      BY <1>4 DEF CheckpointArrives, InEffect
    <2> QED BY <1>e, <2>1, WorkerIsActor
  <1>5. ASSUME NEW q \in Requests, AppendCheckpoint(q) PROVE CountInv'
    <2>1. pc[q] \notin InEffect /\ inflight' = inflight /\ leaked' = leaked /\ job' = job
          /\ "appended" \notin InEffect /\ pc' = [pc EXCEPT ![q] = "appended"]
      BY <1>5 DEF AppendCheckpoint, InEffect
    <2> QED BY <1>e, <2>1, WorkerIsActor
  <1>6. ASSUME NEW a \in Actors, AcquireLock(a) PROVE CountInv'
    <2>1. pc[a] \notin InEffect /\ inflight' = inflight /\ leaked' = leaked /\ job' = job
          /\ "locked" \notin InEffect /\ pc' = [pc EXCEPT ![a] = "locked"]
      BY <1>6 DEF AcquireLock, InEffect
    <2> QED BY <1>e, <2>1
  <1>7. ASSUME ReplacePendingRoot PROVE CountInv'
    <2>1. pc[Worker] \notin InEffect /\ inflight' = inflight /\ leaked' = leaked
          /\ \E p : p \notin InEffect /\ pc' = [pc EXCEPT ![Worker] = p]
      BY <1>r, <1>7, WorkerIsActor DEF ReplacePendingRoot, InEffect
    <2> QED BY <1>e, <2>1, WorkerIsActor
  <1>8. ASSUME NEW a \in Actors, CollectReady(a) PROVE CountInv'
    <2>1. pc[a] = "appended" /\ pc[a] \notin InEffect /\ leaked' = leaked
      BY <1>8 DEF CollectReady, InEffect
    <2>2. CASE Release(a) /\ inflight' = inflight
      BY <1>e, <1>r, <2>1, <2>2
    <2>3. CASE /\ inflight' = [inflight EXCEPT ![FamilyOf(a)] = @ + 1]
               /\ pc' = [pc EXCEPT ![a] = "draining"] /\ job' = job
      <3>1. /\ pc'[a] = "draining" /\ "draining" \in InEffect
            /\ \A b \in Actors : b # a => pc'[b] = pc[b]
        BY <2>3 DEF TypeOK, InEffect
      <3>2. FamilyOf(a) \in Families /\ \A b \in Actors : FamilyOf(b)' = FamilyOf(b)
        BY <1>f, <2>1, <2>3 DEF FamilyOf, Holding
      <3> QED BY <2>1, <2>3, <3>1, <3>2, CountStep
    <2> QED BY <1>8, <2>2, <2>3 DEF CollectReady
  <1>9. ASSUME NEW a \in Actors, BeginEntry(a) \/ FinishEntry(a) PROVE CountInv'
    <2>1. /\ pc[a] \in {"draining", "running"} /\ inflight' = inflight /\ leaked' = leaked /\ job' = job
          /\ pc' = pc \/ \E p \in {"draining", "running"} : pc' = [pc EXCEPT ![a] = p]
      BY <1>9 DEF BeginEntry, FinishEntry, Drop, Run
    <2>2. \A b \in Actors : /\ pc'[b] \in InEffect <=> pc[b] \in InEffect
                            /\ FamilyOf(b)' = FamilyOf(b)
      BY <2>1 DEF TypeOK, InEffect, FamilyOf
    <2> QED BY <2>1, <2>2, CountSame
  <1>10. ASSUME NEW a \in Actors, EndDrain(a) PROVE CountInv'
    <2>1. /\ pc[a] = "draining" /\ "draining" \in InEffect /\ Release(a)
          /\ inflight' = [inflight EXCEPT ![FamilyOf(a)] = @ - 1] /\ leaked' = leaked
      BY <1>10 DEF EndDrain, InEffect
    <2>2. /\ FamilyOf(a) \in Families
          /\ \A b \in Actors : b # a => FamilyOf(b)' = FamilyOf(b)
      BY <1>f, <1>r, <2>1 DEF FamilyOf, Holding
    <2>3. pc'[a] \notin InEffect /\ \A b \in Actors : b # a => pc'[b] = pc[b]
      BY <1>r, <2>1 DEF TypeOK
    <2> QED BY <2>1, <2>2, <2>3, CountStep
  <1>11. ASSUME WorkerGc PROVE CountInv'
    <2>1. /\ pc[Worker] \notin InEffect /\ "idle" \notin InEffect /\ inflight' = inflight /\ leaked' = leaked
          /\ pc' = [pc EXCEPT ![Worker] = "idle"]
      BY <1>11 DEF WorkerGc, InEffect
    <2> QED BY <1>e, <2>1, WorkerIsActor
  <1>12. ASSUME UpdateCheckGc \/ Tick \/ UNCHANGED vars PROVE CountInv'
    BY <1>12, CountSame DEF UpdateCheckGc, Tick, vars, FamilyOf
  <1> QED
    BY <1>1, <1>2, <1>3, <1>4, <1>5, <1>6, <1>7, <1>8, <1>9, <1>10, <1>11, <1>12, WorkerIsActor
       DEF Next, WorkerStep, HandlerStep, DrainStep, Idle

\* However a drain ends, it is taken off the effects in flight of its family, and
\* so is a command that is not sequenced unless it panics: then it stays counted
\* for ever.  For any finite number of requests.
THEOREM EffectsAreCounted ==
  ASSUME IsFiniteSet(Requests)
  PROVE  Spec => []InflightCounted
  <1>1. Init => CountInv
    <2> SUFFICES ASSUME Init, NEW f \in Families
                 PROVE  inflight[f] = leaked[f] + Cardinality(Counted(f))
      BY DEF CountInv
    <2>1. Counted(f) = {} /\ inflight[f] = 0 /\ leaked[f] = 0
      BY DEF Init, Counted, InEffect
    <2> QED BY <2>1, FS_EmptySet
  <1>2. IInv /\ CountInv /\ [Next]_vars => CountInv'
    BY CountNext DEF IInv, SlotInv
  <1>3. CountInv => InflightCounted
    BY DEF CountInv, InflightCounted, Counted, InEffect
  <1> QED BY <1>1, <1>2, <1>3, Inductive, PTL DEF Spec

----------------------------------------------------------------------------
(* Saves during an agent's edit *)

\* Who finishes an edit of a file is the agent that announced one: pending edits
\* are kept per file (register_pending_ai_edits), so a second agent's post-edit
\* takes the first one's protection away.
OneAgentPerFile ==
  \A p, q \in Requests :
    /\ Class[p].role = "WillEdit" /\ Class[p].agent # None
    /\ Class[q].kind = "AiAgent" /\ Class[q].role = "Edited"
    /\ Class[p].files \cap Class[q].files # {}
    => Class[q].agent = Class[p].agent

\* An edit that is open was announced by a request, and while it is young the map
\* of pending edits has it or a later one of the file.
Announced(g, x) ==
  \E p \in Requests : Class[p].role = "WillEdit" /\ Class[p].agent = g /\ x \in Class[p].files

Covered(g, x) == Pending(opens[g][x]) => edits[x] # NotYet /\ edits[x] >= opens[g][x]

OpenInv ==
  \A g \in Agents, x \in Files : opens[g][x] # NotYet =>
    opens[g][x] <= clock /\ Announced(g, x) /\ Covered(g, x)

\* A checkpoint is applied to files it names.
FilesInv ==
  \A a \in Actors : cur[a] # None /\ cur[a].entry.kind = "Checkpoint" =>
    cur[a].files \subseteq Class[cur[a].entry.item].files

LEMMA FilesFrame ==
  ASSUME FilesInv, \A a \in Actors : cur'[a] = cur[a] \/ cur'[a] = None
  PROVE  FilesInv'
  BY DEF FilesInv

LEMMA FilesNext ==
  ASSUME TypeOK, FilesInv, [Next]_vars
  PROVE  FilesInv'
  <1>1. ASSUME NEW a \in Actors, BeginEntry(a) PROVE FilesInv'
    <2>1. PICK e \in ready[a] :
            \/ Drop(a, e)
            \/ e.kind = "ReadyCommand" /\ Run(a, e, {})
            \/ e.kind = "Checkpoint" /\ Run(a, e, FilesToApply(Class[e.item]))
      BY <1>1 DEF BeginEntry
    <2>2. CASE Drop(a, e)
      BY <2>2, FilesFrame DEF Drop
    <2>3. CASE e.kind = "ReadyCommand" /\ Run(a, e, {})
      <3>1. /\ cur'[a].entry.kind = "ReadyCommand"
            /\ \A b \in Actors : b # a => cur'[b] = cur[b]
        BY <2>3 DEF Run, TypeOK
      <3> QED BY <3>1 DEF FilesInv
    <2>4. CASE e.kind = "Checkpoint" /\ Run(a, e, FilesToApply(Class[e.item]))
      <3>1. /\ cur'[a].entry = e /\ cur'[a].files = FilesToApply(Class[e.item])
            /\ \A b \in Actors : b # a => cur'[b] = cur[b]
        BY <2>4 DEF Run, TypeOK
      <3>2. FilesToApply(Class[e.item]) \subseteq Class[e.item].files
        BY DEF FilesToApply
      <3> QED BY <3>1, <3>2 DEF FilesInv
    <2> QED BY <2>1, <2>2, <2>3, <2>4
  <1>2. ASSUME NEW a \in Actors, FinishEntry(a) PROVE FilesInv'
    BY <1>2, FilesFrame DEF FinishEntry, TypeOK
  <1>3. CASE cur' = cur
    BY <1>3, FilesFrame
  <1>4. ASSUME NEW a \in Actors, AcquireLock(a) \/ CollectReady(a) \/ EndDrain(a)
        PROVE  cur' = cur
    BY <1>4 DEF AcquireLock, CollectReady, EndDrain
  <1>5. ASSUME NEW r \in Roots, IngestStart(r) \/ IngestTerminal(r) PROVE cur' = cur
    BY <1>5 DEF IngestStart, IngestTerminal
  <1>6. ASSUME NEW q \in Requests, CheckpointArrives(q) \/ AppendCheckpoint(q) PROVE cur' = cur
    BY <1>6 DEF CheckpointArrives, AppendCheckpoint
  <1>7. FinishDirect \/ ReplacePendingRoot \/ WorkerGc \/ UpdateCheckGc \/ Tick \/ UNCHANGED vars
          => cur' = cur
    BY DEF FinishDirect, ReplacePendingRoot, WorkerGc, UpdateCheckGc, Tick, vars
  <1> QED
    BY <1>1, <1>2, <1>3, <1>4, <1>5, <1>6, <1>7, WorkerIsActor
       DEF Next, WorkerStep, HandlerStep, DrainStep, Idle

LEMMA NotYetLater ==
  ASSUME TypeOK
  PROVE  clock \in Nat /\ NotYet \in Nat /\ clock < NotYet
  BY ConstantsAssumption DEF TypeOK, NotYet

\* Time goes by, and what has expired is forgotten.
LEMMA OpenFrame ==
  ASSUME TypeOK, OpenInv, opens' = opens, clock' \in Nat, clock' >= clock,
         \A x \in Files : edits'[x] = edits[x] \/ (~Pending(edits[x]) /\ clock' = clock)
  PROVE  OpenInv'
  <1> SUFFICES ASSUME NEW g \in Agents, NEW x \in Files, opens[g][x] # NotYet
               PROVE  opens[g][x] <= clock' /\ Covered(g, x)'
    BY DEF OpenInv, Announced
  <1>1. PICK t \in Nat : t = opens[g][x]
    BY DEF TypeOK
  <1>2. PICK d \in Nat : d = edits[x]
    BY DEF TypeOK
  <1>3. t <= clock /\ (t # NotYet /\ clock - t < EditTimeout => d # NotYet /\ d >= t)
    BY <1>1, <1>2 DEF OpenInv, Covered, Pending
  <1>4. clock \in Nat /\ EditTimeout \in Nat
    BY NotYetLater, ConstantsAssumption
  <1>5. edits'[x] = d \/ (~(d # NotYet /\ clock - d < EditTimeout) /\ clock' = clock)
    BY <1>2 DEF Pending
  <1>6. ASSUME t # NotYet, clock' - t < EditTimeout PROVE edits'[x] # NotYet /\ edits'[x] >= t
    <2>1. clock - t < EditTimeout
      <3>1. \A m, n, u, v \in Nat : m <= n /\ n - u < v => m - u < v
        OBVIOUS
      <3>2. clock <= clock' /\ clock' - t < EditTimeout
        BY <1>4, <1>6
      <3> QED BY <1>4, <3>1, <3>2
    <2>2. d # NotYet /\ d >= t
      BY <1>3, <1>6, <2>1
    <2>3. clock - d < EditTimeout
      BY <1>4, <2>1, <2>2
    <2> QED BY <1>5, <2>2, <2>3
  <1>7. NotYet' = NotYet
    BY DEF NotYet
  <1>8. opens'[g][x] = t
    BY <1>1
  <1>9. Covered(g, x)'
    BY <1>6, <1>7, <1>8 DEF Covered, Pending
  <1> QED BY <1>1, <1>3, <1>4, <1>9

\* A pre-edit is noted in both maps.
LEMMA OpenRegister ==
  ASSUME TypeOK, OpenInv, NEW q \in Requests, RegisterPendingEdits(Class[q]), clock' = clock
  PROVE  OpenInv'
  <1> DEFINE c == Class[q]
  <1>1. CASE ~(c.role = "WillEdit" /\ c.agent # None)
    <2>1. opens' = opens /\ edits' = edits
      BY <1>1 DEF RegisterPendingEdits, editVars
    <2> QED BY <2>1, OpenFrame, NotYetLater
  <1>2. CASE c.role = "WillEdit" /\ c.agent # None
    <2>1. PICK h \in Agents : h = c.agent
      BY <1>2, ConstantsAssumption
    <2>2. \A x \in Files : edits'[x] = (IF x \in c.files THEN clock ELSE edits[x])
      BY <1>2 DEF RegisterPendingEdits
    <2>3. opens' = [opens EXCEPT ![h] = [x \in Files |-> IF x \in c.files THEN clock ELSE @[x]]]
      BY <1>2, <2>1 DEF RegisterPendingEdits
    <2>4. \A x \in Files : opens'[h][x] = (IF x \in c.files THEN clock ELSE opens[h][x])
      BY <2>3 DEF TypeOK
    <2>5. \A g \in Agents : g # h => opens'[g] = opens[g]
      BY <2>3 DEF TypeOK
    <2> SUFFICES ASSUME NEW g \in Agents, NEW x \in Files, opens'[g][x] # NotYet
                 PROVE  opens'[g][x] <= clock /\ Announced(g, x) /\ Covered(g, x)'
      BY DEF OpenInv, NotYet, Announced
    <2>6. opens[g][x] \in Nat /\ edits[x] \in Nat
      BY DEF TypeOK
    <2>7. NotYet' = NotYet
      BY DEF NotYet
    <2>8. CASE g = h /\ x \in c.files
      <3>1. opens'[g][x] = clock /\ edits'[x] = clock
        BY <2>2, <2>4, <2>8
      <3>2. Announced(g, x)
        BY <1>2, <2>1, <2>8 DEF Announced
      <3> QED BY <2>7, <3>1, <3>2, NotYetLater DEF Covered
    <2>9. CASE ~(g = h /\ x \in c.files)
      <3>1. opens'[g][x] = opens[g][x]
        BY <2>4, <2>5, <2>9
      <3>2. opens[g][x] <= clock /\ Announced(g, x) /\ Covered(g, x)
        BY <2>9, <3>1 DEF OpenInv
      <3>3. Pending(opens[g][x])' <=> Pending(opens[g][x])
        BY <2>7, <3>1 DEF Pending
      <3>4. CASE x \in c.files
        <4>1. edits'[x] = clock
          BY <2>2, <3>4
        <4> QED BY <2>6, <2>7, <3>1, <3>2, <4>1, NotYetLater DEF Covered
      <3>5. CASE x \notin c.files
        <4>1. edits'[x] = edits[x]
          BY <2>2, <3>5
        <4> QED BY <2>7, <3>1, <3>2, <3>3, <4>1 DEF Covered
      <3> QED BY <3>4, <3>5
    <2> QED BY <2>8, <2>9
  <1> QED BY <1>1, <1>2

\* A post-edit ends the edits of its agent, which are all there are on its files.
LEMMA OpenClear ==
  ASSUME OneAgentPerFile, TypeOK, OpenInv, NEW q \in Requests, NEW fs, fs \subseteq Class[q].files,
         ClearPendingEdits(Class[q], fs), clock' = clock
  PROVE  OpenInv'
  <1> DEFINE c == Class[q]
  <1>1. CASE ~(c.kind = "AiAgent" /\ c.role = "Edited")
    <2>1. opens' = opens /\ edits' = edits
      BY <1>1 DEF ClearPendingEdits, editVars
    <2> QED BY <2>1, OpenFrame, NotYetLater
  <1>2. CASE c.kind = "AiAgent" /\ c.role = "Edited"
    <2>1. \A x \in Files : edits'[x] = (IF x \in fs THEN NotYet ELSE edits[x])
      BY <1>2 DEF ClearPendingEdits
    <2>2. \A g \in Agents, x \in Files :
            opens'[g][x] = (IF g = c.agent /\ x \in fs THEN NotYet ELSE opens[g][x])
      <3>1. CASE c.agent = None
        <4>1. opens' = opens
          BY <1>2, <3>1 DEF ClearPendingEdits
        <4>2. \A g \in Agents : g # c.agent
          BY <3>1, ConstantsAssumption
        <4> QED BY <4>1, <4>2
      <3>2. CASE c.agent # None
        <4>1. PICK h \in Agents : h = c.agent
          BY <3>2, ConstantsAssumption
        <4>2. opens' = [opens EXCEPT ![h] = [x \in Files |-> IF x \in fs THEN NotYet ELSE @[x]]]
          BY <1>2, <3>2, <4>1 DEF ClearPendingEdits
        <4>3. \A x \in Files : opens'[h][x] = (IF x \in fs THEN NotYet ELSE opens[h][x])
          BY <4>2 DEF TypeOK
        <4>4. \A g \in Agents : g # h => opens'[g] = opens[g]
          BY <4>2 DEF TypeOK
        <4> QED BY <4>1, <4>3, <4>4
      <3> QED BY <3>1, <3>2
    <2> SUFFICES ASSUME NEW g \in Agents, NEW x \in Files, opens'[g][x] # NotYet
                 PROVE  opens'[g][x] <= clock /\ Announced(g, x) /\ Covered(g, x)'
      BY DEF OpenInv, NotYet, Announced
    <2>3. opens'[g][x] = opens[g][x] /\ ~(g = c.agent /\ x \in fs)
      BY <2>2
    <2>4. opens[g][x] <= clock /\ Announced(g, x) /\ Covered(g, x)
      BY <2>3 DEF OpenInv
    <2>5. x \notin fs
      <3>1. SUFFICES ASSUME x \in fs PROVE FALSE
        OBVIOUS
      <3>2. PICK p \in Requests : Class[p].role = "WillEdit" /\ Class[p].agent = g /\ x \in Class[p].files
        BY <2>4 DEF Announced
      <3>3. g # None
        BY ConstantsAssumption
      <3>4. c.agent = g
        BY <1>2, <3>1, <3>2, <3>3 DEF OneAgentPerFile
      <3> QED BY <2>3, <3>1, <3>4
    <2>6. edits'[x] = edits[x]
      BY <2>1, <2>5
    <2>7. NotYet' = NotYet
      BY DEF NotYet
    <2>8. Pending(opens[g][x])' <=> Pending(opens[g][x])
      BY <2>3, <2>7 DEF Pending
    <2> QED BY <2>3, <2>4, <2>6, <2>7, <2>8 DEF Covered
  <1> QED BY <1>1, <1>2

LEMMA OpenNext ==
  ASSUME OneAgentPerFile, TypeOK, DrainInv, FilesInv, OpenInv, [Next]_vars
  PROVE  OpenInv'
  <1>0. ASSUME edits' = edits, opens' = opens, clock' = clock PROVE OpenInv'
    BY <1>0, OpenFrame, NotYetLater
  <1>1. ASSUME NEW a \in Actors, BeginEntry(a) PROVE OpenInv'
    <2>1. PICK e \in ready[a] :
            UNCHANGED editVars \/ (e.kind = "Checkpoint" /\ RegisterPendingEdits(Class[e.item]))
      BY <1>1 DEF BeginEntry
    <2>2. clock' = clock
      BY <1>1 DEF BeginEntry
    <2>3. e \in Entries
      BY DEF TypeOK
    <2>4. e.kind = "Checkpoint" => e.item \in Requests
      BY <2>3 DEF Entries
    <2> QED BY <1>0, <2>1, <2>2, <2>4, OpenRegister DEF editVars
  <1>2. ASSUME NEW a \in Actors, FinishEntry(a) PROVE OpenInv'
    <2> DEFINE e == cur[a].entry
    <2>1. /\ clock' = clock
          /\ \/ UNCHANGED editVars
             \/ e.kind = "Checkpoint" /\ ClearPendingEdits(Class[e.item], cur[a].files)
      BY <1>2 DEF FinishEntry
    <2>2. cur[a] # None
      BY <1>2 DEF FinishEntry, DrainInv
    <2>3. e \in Entries
      BY <2>2 DEF TypeOK
    <2>4. e.kind = "Checkpoint" => e.item \in Requests /\ cur[a].files \subseteq Class[e.item].files
      BY <2>2, <2>3 DEF Entries, FilesInv
    <2> QED BY <1>0, <2>1, <2>4, OpenClear DEF editVars
  <1>3. ASSUME NEW a \in Actors, AcquireLock(a) \/ CollectReady(a) \/ EndDrain(a) PROVE OpenInv'
    BY <1>0, <1>3 DEF AcquireLock, CollectReady, EndDrain, editVars
  <1>4. ASSUME NEW r \in Roots, IngestStart(r) \/ IngestTerminal(r) PROVE OpenInv'
    BY <1>0, <1>4 DEF IngestStart, IngestTerminal, editVars
  <1>5. ASSUME NEW q \in Requests, CheckpointArrives(q) \/ AppendCheckpoint(q) PROVE OpenInv'
    BY <1>0, <1>5 DEF CheckpointArrives, AppendCheckpoint, editVars
  <1>6. ASSUME FinishDirect \/ ReplacePendingRoot \/ UNCHANGED vars PROVE OpenInv'
    BY <1>0, <1>6 DEF FinishDirect, ReplacePendingRoot, editVars, vars
  <1>7. ASSUME WorkerGc \/ UpdateCheckGc PROVE OpenInv'
    <2>1. GcStaleFamilyState /\ opens' = opens /\ clock' = clock
      BY <1>7 DEF WorkerGc, UpdateCheckGc
    <2>2. \A x \in Files : edits'[x] = edits[x] \/ ~Pending(edits[x])
      BY <2>1 DEF GcStaleFamilyState
    <2> QED BY <2>1, <2>2, OpenFrame, NotYetLater
  <1>8. ASSUME Tick PROVE OpenInv'
    <2>1. edits' = edits /\ opens' = opens /\ clock' = clock + 1
      BY <1>8 DEF Tick, editVars
    <2> QED BY <2>1, OpenFrame, NotYetLater
  <1> QED
    BY <1>1, <1>2, <1>3, <1>4, <1>5, <1>6, <1>7, <1>8, WorkerIsActor
       DEF Next, WorkerStep, HandlerStep, DrainStep, Idle

\* Only a drain that begins an entry runs one.
LEMMA RunningBegins ==
  ASSUME TypeOK, [Next]_vars, NEW a \in Actors, pc[a] # "running", pc'[a] = "running"
  PROVE  BeginEntry(a)
  <1>1. \A b \in Actors : \A p : pc' = [pc EXCEPT ![b] = p] => p = "running" /\ b = a
    BY DEF TypeOK
  <1>2. pc' # pc
    OBVIOUS
  <1>p. ~Processed
    <2>1. Processed => \E p \in {"gc", "idle"} : pc' = [pc EXCEPT ![Worker] = p]
      BY DEF Processed
    <2> QED BY <1>1, <2>1, WorkerIsActor
  <1>r. \A b \in Actors : ~Release(b)
    BY <1>1, <1>p DEF Release
  <1>3. ASSUME NEW r \in Roots, IngestStart(r) \/ IngestTerminal(r) PROVE FALSE
    <2>1. \E sl, k : FinalizeRootExit(r, sl) \/ Skip(r, sl) \/ TakeSlot(r, sl, k)
      BY <1>3 DEF IngestStart, IngestTerminal
    <2>2. \E p \in {"direct", "waiting"} : Processed \/ pc' = [pc EXCEPT ![Worker] = p]
      BY <2>1 DEF FinalizeRootExit, Emit, Skip, TakeSlot, ApplyDirectly
    <2> QED BY <1>1, <1>p, <2>2, WorkerIsActor
  <1>4. ASSUME NEW q \in Requests, CheckpointArrives(q) \/ AppendCheckpoint(q) PROVE FALSE
    <2>1. \E p \in {"done", "waiting", "appended"} : pc' = [pc EXCEPT ![q] = p]
      BY <1>4 DEF CheckpointArrives, AppendCheckpoint
    <2> QED BY <1>1, <2>1, WorkerIsActor
  <1>5. ASSUME FinishDirect \/ ReplacePendingRoot \/ WorkerGc PROVE FALSE
    <2>1. \E p \in {"appended", "idle"} :
            Processed \/ Release(Worker) \/ pc' = [pc EXCEPT ![Worker] = p]
      BY <1>5 DEF FinishDirect, ReplacePendingRoot, WorkerGc
    <2> QED BY <1>1, <1>p, <1>r, <2>1, WorkerIsActor
  <1>6. ASSUME NEW b \in Actors, AcquireLock(b) \/ CollectReady(b) \/ FinishEntry(b) \/ EndDrain(b)
        PROVE  FALSE
    <2>1. \E p \in {"locked", "draining"} : Release(b) \/ pc' = [pc EXCEPT ![b] = p]
      BY <1>6 DEF AcquireLock, CollectReady, FinishEntry, EndDrain
    <2> QED BY <1>1, <1>r, <2>1
  <1>7. ASSUME UpdateCheckGc \/ Tick \/ UNCHANGED vars PROVE FALSE
    BY <1>2, <1>7 DEF UpdateCheckGc, Tick, vars
  <1>8. ASSUME NEW b \in Actors, BeginEntry(b) PROVE b = a
    <2>1. pc' = pc \/ \E p : pc' = [pc EXCEPT ![b] = p]
      BY <1>8 DEF BeginEntry, Drop, Run
    <2> QED BY <1>1, <1>2, <2>1
  <1> QED
    BY <1>3, <1>4, <1>5, <1>6, <1>7, <1>8, WorkerIsActor
       DEF Next, WorkerStep, HandlerStep, DrainStep, Idle

\* A save that reaches its drain while an agent's edit of the file is open and
\* young is not applied to the file, however checkpoints, collections and the
\* clock interleave, as long as only the agent that announced an edit ends it.
THEOREM SavesAreSuppressed ==
  ASSUME OneAgentPerFile
  PROVE  Spec => SaveDuringEditSuppressed
  <1>1. Init => FilesInv /\ OpenInv
    BY DEF Init, FilesInv, OpenInv
  <1>2. QInv /\ FilesInv /\ OpenInv /\ [Next]_vars => FilesInv' /\ OpenInv'
    BY FilesNext, OpenNext DEF QInv, IInv
  <1>3. QInv /\ OpenInv /\ [Next]_vars =>
          [\A a \in Actors :
             /\ pc[a] # "running" /\ pc'[a] = "running"
             /\ cur'[a].entry.kind = "Checkpoint"
             /\ Class[cur'[a].entry.item].kind = "KnownHuman"
             => \A x \in cur'[a].files, g \in Agents : ~Pending(opens[g][x])]_vars
    <2> SUFFICES ASSUME TypeOK, OpenInv, [Next]_vars, NEW a \in Actors,
                        pc[a] # "running", pc'[a] = "running",
                        cur'[a].entry.kind = "Checkpoint",
                        Class[cur'[a].entry.item].kind = "KnownHuman",
                        NEW x \in cur'[a].files, NEW g \in Agents, Pending(opens[g][x])
                 PROVE  FALSE
      BY DEF QInv, IInv
    <2>1. BeginEntry(a)
      BY RunningBegins
    <2>2. PICK e \in ready[a] :
            \/ Drop(a, e)
            \/ e.kind = "ReadyCommand" /\ Run(a, e, {})
            \/ /\ e.kind = "Checkpoint" /\ Run(a, e, FilesToApply(Class[e.item]))
      BY <2>1 DEF BeginEntry
    <2>3. ~Drop(a, e)
      BY DEF Drop
    <2>4. \A fs : Run(a, e, fs) => cur'[a].entry = e /\ cur'[a].files = fs
      BY DEF Run, TypeOK
    <2>5. cur'[a].entry = e /\ cur'[a].files = FilesToApply(Class[e.item])
      BY <2>2, <2>3, <2>4
    <2>6. e.item \in Requests
      <3>1. e \in Entries
        BY DEF TypeOK
      <3> QED BY <2>5, <3>1 DEF Entries
    <2>7. x \in Files /\ ~Pending(edits[x])
      BY <2>5, <2>6, ConstantsAssumption DEF FilesToApply
    <2>8. PICK t \in Nat : t = opens[g][x]
      BY <2>7 DEF TypeOK
    <2>9. PICK d \in Nat : d = edits[x]
      BY <2>7 DEF TypeOK
    <2>10. t # NotYet /\ clock - t < EditTimeout /\ d # NotYet /\ d >= t
      BY <2>7, <2>8, <2>9 DEF OpenInv, Covered, Pending
    <2>11. clock - d < EditTimeout
      BY <2>10, NotYetLater, ConstantsAssumption
    <2> QED BY <2>7, <2>9, <2>10, <2>11 DEF Pending
  <1> QED BY <1>1, <1>2, <1>3, QInductive, PTL DEF Spec, SaveDuringEditSuppressed

=============================================================================
