-------------------------- MODULE FamilySequencer --------------------------
(***************************************************************************)
(* The per-family sequencer of the daemon (src/src/daemon.rs).             *)
(*                                                                         *)
(* A family is a repository with all its worktrees.  Git commands (traced  *)
(* "roots") and checkpoint requests of one family are put in one ordered   *)
(* map and applied in the order of their start, although they reach the    *)
(* daemon through different threads:                                       *)
(*   - the single trace ingest worker appends a PendingRoot when a root's  *)
(*     "start" event is ingested and replaces it, under the family's       *)
(*     execution lock, by ReadyCommand or Canceled at its terminal event;  *)
(*   - one control-connection handler per checkpoint request takes the     *)
(*     execution lock and appends a Checkpoint;                            *)
(*   - whoever changed the map drains the entries that no PendingRoot      *)
(*     precedes and runs them one by one while it keeps the lock;          *)
(*   - a garbage collector, run by the ingest worker and by the update     *)
(*     check thread, prunes the maps.                                      *)
(*                                                                         *)
(* The trace normalizer is kept to the part that decides what an event     *)
(* does to the sequencer (norm).  after, leaked and opens are history      *)
(* variables.                                                              *)
(***************************************************************************)
EXTENDS Integers, FiniteSets, Sequences

CONSTANTS
  Families,      \* family keys (common git directories)
  Roots,         \* root sids of traced git commands
  Requests,      \* checkpoint requests; each one is also its handler thread
  Files,         \* files of the families' worktrees
  Agents,        \* AI agents that send pre-edit and post-edit checkpoints
  Worker,        \* the trace ingest worker
  None,          \* the absent value (no slot, no agent, nothing running)
  Family,        \* the family of a root or of a request
  Sequenced,     \* roots whose command participates in the sequencer
  Class,         \* a request's kind, path role, agent and files
  Deliveries,    \* the orders in which a root's events may be ingested
  MaxClock,      \* bound of the clock (named bound of the model)
  EditTimeout,   \* PENDING_AI_EDIT_TIMEOUT_NS, in clock ticks
  GcInterval,    \* GC_INTERVAL: payloads between two collections
  MaxPeriodicGc  \* how often the update check thread collects (bound; some of
                 \* it may have been used before the behaviour starts)

Items == Roots \cup Requests
Actors == Requests \cup {Worker}

Kinds == {"Human", "KnownHuman", "AiAgent"}
Roles == {"WillEdit", "Edited"}
TraceEvents == {"start", "exit", "atexit"}

ASSUME ConstantsAssumption ==
  /\ Roots \cap Requests = {}
  /\ Worker \notin Requests
  /\ None \notin Items
  /\ None \notin Agents
  /\ Family \in [Items -> Families]
  /\ Sequenced \subseteq Roots
  /\ Class \in [Requests -> [kind : Kinds, role : Roles,
                             agent : Agents \cup {None}, files : SUBSET Files]]
  /\ \A p, q \in Requests :
       Family[p] # Family[q] => Class[p].files \cap Class[q].files = {}
  /\ Deliveries \subseteq Seq(TraceEvents)
  /\ MaxClock \in Nat
  /\ EditTimeout \in Nat
  /\ GcInterval \in Nat \ {0}
  /\ MaxPeriodicGc \in Nat

\* A git process reports its start once.
ASSUME StartsAssumption ==
  \A d \in Deliveries : \A i, j \in DOMAIN d : d[i] = "start" /\ d[j] = "start" => i = j

VARIABLES
  clock,        \* now_unix_nanos(), in ticks
  nextOrdinal,  \* family_sequencers_by_family: next_ordinal
  entries,      \* family_sequencers_by_family: entries
  slots,        \* pending_root_slots_by_root
  lock,         \* side_effect_exec_locks: which mutex the map holds
  pc,           \* where each thread is
  arc,          \* the mutex a thread cloned from the map (0: none)
  job,          \* the worker's replacement: root, its slot, the new kind
  ready,        \* entries a drain has taken out and not yet run
  cur,          \* the entry a drain is running
  inflight,     \* inflight_effects_by_family
  edits,        \* pending_ai_edits_by_family: file -> registered_at
  norm,         \* what the normalizer keeps of each root
  todo,         \* events of a root still to be ingested
  processed,    \* gc_counter of the ingest worker
  periodic,     \* collections made by the update check thread
  ran,          \* history: how often an item was applied
  after,        \* history: items in a drain's hands when an item was put in
  leaked,       \* history: effects counted for ever, their thread having panicked
  opens         \* history: pre-edits of an agent on a file, not yet closed

vars == <<clock, nextOrdinal, entries, slots, lock, pc, arc, job, ready, cur,
          inflight, edits, norm, todo, processed, periodic, ran, after, leaked, opens>>

queueVars == <<nextOrdinal, entries>>
editVars == <<edits, opens>>
traceVars == <<norm, todo>>
gcVars == <<processed, periodic>>

----------------------------------------------------------------------------
(* Orders, entries, slots *)

Orders == [ts : Nat, ord : Nat]

ASSUME NoneAssumption == None \notin Orders

EntryKinds == {"PendingRoot", "ReadyCommand", "Checkpoint", "Canceled"}
Entries == {e \in [ts : Nat, ord : Nat, item : Items, kind : EntryKinds] :
              e.kind = "Checkpoint" <=> e.item \in Requests}

ASSUME IdleAssumption == None \notin [entry : Entries, files : SUBSET Files]

\* The derived Ord of FamilySequencerOrder: started_at_ns, then ordinal.
Before(x, y) == x.ts < y.ts \/ (x.ts = y.ts /\ x.ord < y.ord)

SameOrder(x, y) == x.ts = y.ts /\ x.ord = y.ord

\* BTreeMap::insert: a value under the same order is overwritten.
Insert(E, e) == {x \in E : ~SameOrder(x, e)} \cup {e}

Entry(t, f, x, k) == [ts |-> t, ord |-> nextOrdinal[f], item |-> x, kind |-> k]

\* Mutants: PendingRoot entries are stepped over; they are drained as well.
ReadyPrefix_SkipsPending(E) == {e \in E : e.kind # "PendingRoot"}
ReadyPrefix_TakesPending(E) == E

\* The longest prefix of the map without a PendingRoot.
ReadyPrefix(E) ==
  {e \in E : /\ e.kind # "PendingRoot"
             /\ \A p \in E : p.kind = "PendingRoot" => Before(e, p)}

\* The family a thread works for while it has a mutex or runs entries.
FamilyOf(a) == IF a = Worker THEN Family[job.root] ELSE Family[a]

\* pc values between the acquisition and the release of the execution lock.
Holding == {"locked", "appended", "draining", "running"}

\* Arc::strong_count of the mutex in the map is greater than one.
LockInUse(f) ==
  \E a \in Actors : pc[a] \in Holding \cup {"waiting"}
                    /\ FamilyOf(a) = f /\ arc[a] = lock[f]

NotYet == MaxClock + EditTimeout + 1   \* "no entry" in the edit maps

Pending(t) == t # NotYet /\ clock - t < EditTimeout

----------------------------------------------------------------------------
Init ==
  /\ clock = 0
  /\ nextOrdinal = [f \in Families |-> 1]
  /\ entries = [f \in Families |-> {}]
  /\ slots = [r \in Roots |-> None]
  /\ lock = [f \in Families |-> 1]
  /\ pc = [a \in Actors |-> "idle"]
  /\ arc = [a \in Actors |-> 0]
  /\ job = None
  /\ ready = [a \in Actors |-> {}]
  /\ cur = [a \in Actors |-> None]
  /\ inflight = [f \in Families |-> 0]
  /\ edits = [x \in Files |-> NotYet]
  /\ norm = [r \in Roots |-> "absent"]
  /\ todo \in [Roots -> Deliveries]
  /\ processed = 0
  /\ periodic \in 0..MaxPeriodicGc
  /\ ran = [x \in Items |-> 0]
  /\ after = [x \in Items |-> {}]
  /\ leaked = [f \in Families |-> 0]
  /\ opens = [g \in Agents |-> [x \in Files |-> NotYet]]

----------------------------------------------------------------------------
(* The ingest worker: apply_trace_payload_to_state *)

\* Items that drains have taken out of the map and not finished.
InHand == {e.item : e \in UNION {ready[a] : a \in Actors}}
            \cup {cur[a].entry.item : a \in {b \in Actors : cur[b] # None}}

\* A root or a request is put in its family's map.
Enqueue(t, f, x, k) ==
  /\ entries' = [entries EXCEPT ![f] = Insert(@, Entry(t, f, x, k))]
  /\ nextOrdinal' = [nextOrdinal EXCEPT ![f] = @ + 1]
  /\ after' = [after EXCEPT ![x] = InHand]

\* append_pending_root_entry, reached for the start of a sequenced root.  The
\* caller takes no execution lock; a root that has a slot is left alone.
Appends(r) == r \in Sequenced /\ slots[r] = None

AppendPendingRoot(r, t) ==
  IF Appends(r) THEN Enqueue(t, Family[r], r, "PendingRoot")
                ELSE UNCHANGED <<queueVars, after>>

SlotAfterStart(r, t) ==
  IF Appends(r) THEN [ts |-> t, ord |-> nextOrdinal[Family[r]]] ELSE slots[r]

\* The payload is accounted for; every GcInterval payloads a collection is due.
Processed ==
  /\ processed' = processed + 1
  /\ pc' = [pc EXCEPT ![Worker] =
              IF (processed + 1) % GcInterval = 0 THEN "gc" ELSE "idle"]

\* The normalizer answered with nothing to apply.
Skip(r, sl) ==
  /\ slots' = [slots EXCEPT ![r] = sl]
  /\ Processed
  /\ UNCHANGED <<arc, job, inflight>>

\* replace_pending_root_entry up to the wait for the execution lock: the slot
\* is taken first, then the mutex is cloned from the map.
TakeSlot(r, sl, k) ==
  /\ slots' = [slots EXCEPT ![r] = None]
  /\ job' = [root |-> r, slot |-> sl, kind |-> k]
  /\ arc' = [arc EXCEPT ![Worker] = lock[Family[r]]]
  /\ pc' = [pc EXCEPT ![Worker] = "waiting"]
  /\ UNCHANGED <<processed, inflight>>

\* A command without a slot is routed at once, outside the execution lock, or
\* the family actor refuses it.
ApplyDirectly(r) ==
  \/ /\ slots' = slots
     /\ job' = [root |-> r, slot |-> None, kind |-> "direct"]
     /\ inflight' = [inflight EXCEPT ![Family[r]] = @ + 1]
     /\ pc' = [pc EXCEPT ![Worker] = "direct"]
     /\ UNCHANGED <<arc, processed>>
  \/ Skip(r, None)

\* The normalizer returned a command.
Emit(r, sl) ==
  /\ norm' = [norm EXCEPT ![r] = "completed"]
  /\ IF sl # None THEN TakeSlot(r, sl, "ReadyCommand") ELSE ApplyDirectly(r)

\* Mutant: the slot is taken before the normalizer is asked, and lost on error.
FinalizeRootExit_LosesSlot(r, sl) ==
  \/ Emit(r, sl)
  \/ norm' = [norm EXCEPT ![r] = "absent"] /\ Skip(r, None)

\* finalize_root_exit: the pending command is removed first; then either the
\* command is built and the root marked completed, or an error is returned.
FinalizeRootExit(r, sl) ==
  \/ Emit(r, sl)
  \/ norm' = [norm EXCEPT ![r] = "absent"] /\ Skip(r, sl)

\* handle_start: the root becomes pending, unless it is completed.
NormAfterStart(n) == IF n = "absent" THEN "pending" ELSE n

\* handle_exit of a root that is not pending: the exit is deferred until its
\* start is seen, unless the root is completed.
NormAfterExit(n) == IF n = "absent" THEN "deferred" ELSE n

IngestStart(r) ==
  /\ pc[Worker] = "idle"
  /\ todo[r] # <<>> /\ Head(todo[r]) = "start"
  /\ todo' = [todo EXCEPT ![r] = Tail(@)]
  /\ \E t \in 0..clock :
       /\ AppendPendingRoot(r, t)
       /\ LET sl == SlotAfterStart(r, t)
          IN  \/ norm[r] = "deferred" /\ FinalizeRootExit(r, sl)
              \/ /\ norm[r] # "deferred"
                 /\ norm' = [norm EXCEPT ![r] = NormAfterStart(@)]
                 /\ Skip(r, sl)
  /\ UNCHANGED <<clock, lock, ready, cur, editVars, periodic, ran, leaked>>

\* Mutant: a terminal event for which the normalizer returns nothing does not
\* cancel the root's entry.
IngestTerminal_NeverCancels(r) ==
  /\ pc[Worker] = "idle"
  /\ todo[r] # <<>> /\ Head(todo[r]) \in {"exit", "atexit"}
  /\ todo' = [todo EXCEPT ![r] = Tail(@)]
  /\ \/ /\ norm[r] = "pending"
        /\ FinalizeRootExit(r, slots[r])
     \/ /\ norm[r] # "pending"
        /\ norm' = [norm EXCEPT ![r] = NormAfterExit(@)]
        /\ Skip(r, slots[r])
  /\ UNCHANGED <<clock, queueVars, lock, ready, cur, editVars, periodic, ran,
                 after, leaked>>

IngestTerminal(r) ==
  /\ pc[Worker] = "idle"
  /\ todo[r] # <<>> /\ Head(todo[r]) \in {"exit", "atexit"}
  /\ todo' = [todo EXCEPT ![r] = Tail(@)]
  /\ \/ /\ norm[r] = "pending"
        /\ FinalizeRootExit(r, slots[r])
     \/ /\ norm[r] # "pending"
        /\ norm' = [norm EXCEPT ![r] = NormAfterExit(@)]
        /\ IF slots[r] # None THEN TakeSlot(r, slots[r], "Canceled")
                              ELSE Skip(r, None)
  /\ UNCHANGED <<clock, queueVars, lock, ready, cur, editVars, periodic, ran,
                 after, leaked>>

\* The side effects of a command that is not sequenced: they succeed, fail, or
\* panic.  A panic is caught by the worker only, which goes on with the next
\* payload, and nobody takes the effect off the count.
FinishDirect ==
  LET f == Family[job.root]
  IN
  /\ pc[Worker] = "direct"
  /\ ran' = [ran EXCEPT ![job.root] = @ + 1]
  /\ \/ inflight' = [inflight EXCEPT ![f] = @ - 1] /\ leaked' = leaked
     \/ inflight' = inflight /\ leaked' = [leaked EXCEPT ![f] = @ + 1]
  /\ job' = None
  /\ Processed
  /\ UNCHANGED <<clock, queueVars, slots, lock, arc, ready, cur, editVars,
                 traceVars, periodic, after>>

----------------------------------------------------------------------------
(* The execution lock, and what is done under it *)

\* ingest_checkpoint_payload: a request without files is answered at once, any
\* other waits for the mutex that the map holds when it arrives.
CheckpointArrives(q) ==
  /\ pc[q] = "idle"
  /\ IF Class[q].files = {}
     THEN pc' = [pc EXCEPT ![q] = "done"] /\ arc' = arc
     ELSE /\ pc' = [pc EXCEPT ![q] = "waiting"]
          /\ arc' = [arc EXCEPT ![q] = lock[Family[q]]]
  /\ UNCHANGED <<clock, queueVars, slots, lock, job, ready, cur, inflight,
                 editVars, traceVars, gcVars, ran, after, leaked>>

\* Mutant: the guard is dropped as soon as it is acquired (let _ = lock().await).
AcquireLock_GuardDropped(a) ==
  /\ pc[a] = "waiting"
  /\ pc' = [pc EXCEPT ![a] = "locked"]
  /\ UNCHANGED <<clock, queueVars, slots, lock, arc, job, ready, cur, inflight,
                 editVars, traceVars, gcVars, ran, after, leaked>>

\* exec_lock.lock().await: exclusion is per mutex, not per family.
AcquireLock(a) ==
  /\ pc[a] = "waiting"
  /\ \A b \in Actors : pc[b] \in Holding =>
                         ~(FamilyOf(b) = FamilyOf(a) /\ arc[b] = arc[a])
  /\ pc' = [pc EXCEPT ![a] = "locked"]
  /\ UNCHANGED <<clock, queueVars, slots, lock, arc, job, ready, cur, inflight,
                 editVars, traceVars, gcVars, ran, after, leaked>>

\* The thread leaves: its guard and its Arc are dropped.
Release(a) ==
  /\ arc' = [arc EXCEPT ![a] = 0]
  /\ IF a = Worker THEN job' = None /\ Processed
     ELSE pc' = [pc EXCEPT ![a] = "done"] /\ UNCHANGED <<job, processed>>

AppendCheckpoint(q) ==
  /\ pc[q] = "locked"
  /\ Enqueue(clock, Family[q], q, "Checkpoint")
  /\ pc' = [pc EXCEPT ![q] = "appended"]
  /\ UNCHANGED <<clock, slots, lock, arc, job, ready, cur, inflight, editVars,
                 traceVars, gcVars, ran, leaked>>

\* The entry under the slot's order must still be there and pending; otherwise
\* replace_pending_root_entry returns an error and nothing is drained.
Replaceable == {e \in entries[Family[job.root]] :
                  SameOrder(e, job.slot) /\ e.kind = "PendingRoot"}

ReplacePendingRoot ==
  /\ pc[Worker] = "locked"
  /\ IF Replaceable # {}
     THEN /\ entries' = [entries EXCEPT ![Family[job.root]] =
               (@ \ Replaceable)
                 \cup {[e EXCEPT !.kind = job.kind] : e \in Replaceable}]
          /\ pc' = [pc EXCEPT ![Worker] = "appended"]
          /\ UNCHANGED <<arc, job, processed>>
     ELSE entries' = entries /\ Release(Worker)
  /\ UNCHANGED <<clock, nextOrdinal, slots, lock, ready, cur, inflight,
                 editVars, traceVars, periodic, ran, after, leaked>>

----------------------------------------------------------------------------
(* drain_ready_family_sequencer_entries_locked *)

\* Mutant: ready entries are copied out of the map and not removed.
CollectReady_Copies(a) ==
  /\ pc[a] = "appended"
  /\ LET f == FamilyOf(a)
         R == ReadyPrefix(entries[f])
     IN  \/ /\ R # {}
            /\ ready' = [ready EXCEPT ![a] = R]
            /\ inflight' = [inflight EXCEPT ![f] = @ + 1]
            /\ pc' = [pc EXCEPT ![a] = "draining"]
            /\ UNCHANGED <<arc, job, processed>>
         \/ R = {} /\ Release(a) /\ UNCHANGED <<ready, inflight>>
  /\ UNCHANGED <<clock, queueVars, slots, lock, cur, editVars, traceVars,
                 periodic, ran, after, leaked>>

CollectReady(a) ==
  /\ pc[a] = "appended"
  /\ LET f == FamilyOf(a)
         R == ReadyPrefix(entries[f])
     IN  \/ /\ R # {}
            /\ ready' = [ready EXCEPT ![a] = R]
            /\ entries' = [entries EXCEPT ![f] = @ \ R]
            /\ inflight' = [inflight EXCEPT ![f] = @ + 1]
            /\ pc' = [pc EXCEPT ![a] = "draining"]
            /\ UNCHANGED <<arc, job, processed>>
         \/ R = {} /\ Release(a) /\ UNCHANGED <<ready, entries, inflight>>
  /\ UNCHANGED <<clock, nextOrdinal, slots, lock, cur, editVars, traceVars,
                 periodic, ran, after, leaked>>

\* The entry a drain handles next.
IsFirst(a, e) == e \in ready[a] /\ \A x \in ready[a] \ {e} : Before(e, x)

\* An entry that has no effect is dropped.
Drop(a, e) ==
  /\ ready' = [ready EXCEPT ![a] = @ \ {e}]
  /\ UNCHANGED <<pc, cur>>

Run(a, e, fs) ==
  /\ ready' = [ready EXCEPT ![a] = @ \ {e}]
  /\ cur' = [cur EXCEPT ![a] = [entry |-> e, files |-> fs]]
  /\ pc' = [pc EXCEPT ![a] = "running"]

\* register_pending_ai_edits: only agents' pre-edit checkpoints have an agent
\* with the role WillEdit.
RegisterPendingEdits(c) ==
  IF c.role = "WillEdit" /\ c.agent # None
  THEN /\ edits' = [x \in Files |-> IF x \in c.files THEN clock ELSE edits[x]]
       /\ opens' = [opens EXCEPT ![c.agent] =
                      [x \in Files |-> IF x \in c.files THEN clock ELSE @[x]]]
  ELSE UNCHANGED editVars

\* Mutant: the filter forgets a file whose pre-edit is one tick old.
FilesToApply_ShortTimeout(c) ==
  IF c.kind = "KnownHuman"
  THEN {x \in c.files : edits[x] = NotYet \/ clock - edits[x] >= EditTimeout - 1}
  ELSE c.files

\* The files of a checkpoint that are left after the KnownHuman filter.
FilesToApply(c) ==
  IF c.kind = "KnownHuman" THEN {x \in c.files : ~Pending(edits[x])}
                           ELSE c.files

BeginEntry(a) ==
  /\ pc[a] = "draining"
  /\ \E e \in ready[a] :
       /\ IsFirst(a, e)
       /\ \/ e.kind = "Canceled" /\ Drop(a, e) /\ UNCHANGED editVars
          \/ e.kind = "ReadyCommand" /\ Run(a, e, {}) /\ UNCHANGED editVars
          \/ /\ e.kind = "Checkpoint"
             /\ RegisterPendingEdits(Class[e.item])
             /\ LET fs == FilesToApply(Class[e.item])
                IN  IF fs = {} THEN Drop(a, e) ELSE Run(a, e, fs)
  /\ UNCHANGED <<clock, queueVars, slots, lock, arc, job, inflight, traceVars,
                 gcVars, ran, after, leaked>>

\* clear_pending_ai_edits, after a successful post-edit checkpoint.
ClearPendingEdits(c, fs) ==
  IF c.kind = "AiAgent" /\ c.role = "Edited"
  THEN /\ edits' = [x \in Files |-> IF x \in fs THEN NotYet ELSE edits[x]]
       /\ opens' = IF c.agent = None THEN opens
                   ELSE [opens EXCEPT ![c.agent] =
                           [x \in Files |-> IF x \in fs THEN NotYet ELSE @[x]]]
  ELSE UNCHANGED editVars

\* The command or checkpoint is applied, or fails (error or caught panic): the
\* error is recorded and the drain goes on.
FinishEntry(a) ==
  /\ pc[a] = "running"
  /\ LET e == cur[a].entry
     IN  /\ ran' = [ran EXCEPT ![e.item] = @ + 1]
         /\ \/ /\ e.kind = "Checkpoint"
               /\ ClearPendingEdits(Class[e.item], cur[a].files)
            \/ UNCHANGED editVars
  /\ cur' = [cur EXCEPT ![a] = None]
  /\ pc' = [pc EXCEPT ![a] = "draining"]
  /\ UNCHANGED <<clock, queueVars, slots, lock, arc, job, ready, inflight,
                 traceVars, gcVars, after, leaked>>

\* Mutants: the counter is not decremented; the lock is kept until the
\* family's map is empty.
EndDrain_KeepsCount(a) ==
  /\ pc[a] = "draining"
  /\ ready[a] = {}
  /\ inflight' = inflight
  /\ Release(a)
  /\ UNCHANGED <<clock, queueVars, slots, lock, ready, cur, editVars,
                 traceVars, periodic, ran, after, leaked>>

EndDrain_AwaitsEmptyMap(a) ==
  /\ pc[a] = "draining"
  /\ ready[a] = {}
  /\ entries[FamilyOf(a)] = {}
  /\ inflight' = [inflight EXCEPT ![FamilyOf(a)] = @ - 1]
  /\ Release(a)
  /\ UNCHANGED <<clock, queueVars, slots, lock, ready, cur, editVars,
                 traceVars, periodic, ran, after, leaked>>

EndDrain(a) ==
  /\ pc[a] = "draining"
  /\ ready[a] = {}
  /\ inflight' = [inflight EXCEPT ![FamilyOf(a)] = @ - 1]
  /\ Release(a)
  /\ UNCHANGED <<clock, queueVars, slots, lock, ready, cur, editVars,
                 traceVars, periodic, ran, after, leaked>>

----------------------------------------------------------------------------
(* gc_stale_family_state *)

\* Mutant: ordinals restart at the default 0.
GcStaleFamilyState_DefaultOrdinal ==
  /\ nextOrdinal' = [f \in Families |->
                       IF entries[f] = {} THEN 0 ELSE nextOrdinal[f]]
  /\ lock' = [f \in Families |-> IF LockInUse(f) THEN lock[f] + 1 ELSE lock[f]]
  /\ edits' = [x \in Files |-> IF Pending(edits[x]) THEN edits[x] ELSE NotYet]

\* Families without entries lose their state, so their ordinals start again at
\* 1; mutexes with strong_count <= 1 are kept and the others leave the map, so
\* that the next thread finds a new one; expired pre-edits are forgotten.
GcStaleFamilyState ==
  /\ nextOrdinal' = [f \in Families |->
                       IF entries[f] = {} THEN 1 ELSE nextOrdinal[f]]
  /\ lock' = [f \in Families |-> IF LockInUse(f) THEN lock[f] + 1 ELSE lock[f]]
  /\ edits' = [x \in Files |-> IF Pending(edits[x]) THEN edits[x] ELSE NotYet]

WorkerGc ==
  /\ pc[Worker] = "gc"
  /\ GcStaleFamilyState
  /\ pc' = [pc EXCEPT ![Worker] = "idle"]
  /\ UNCHANGED <<clock, entries, slots, arc, job, ready, cur, inflight, opens,
                 traceVars, gcVars, ran, after, leaked>>

UpdateCheckGc ==
  /\ periodic < MaxPeriodicGc
  /\ periodic' = periodic + 1
  /\ GcStaleFamilyState
  /\ UNCHANGED <<clock, entries, slots, pc, arc, job, ready, cur, inflight,
                 opens, traceVars, processed, ran, after, leaked>>

Tick ==
  /\ clock < MaxClock
  /\ clock' = clock + 1
  /\ UNCHANGED <<queueVars, slots, lock, pc, arc, job, ready, cur, inflight,
                 editVars, traceVars, gcVars, ran, after, leaked>>

----------------------------------------------------------------------------
\* The steps of a thread that has, or waits for, the execution lock.
DrainStep(a) == \/ AcquireLock(a) \/ CollectReady(a) \/ BeginEntry(a)
                \/ FinishEntry(a) \/ EndDrain(a)

WorkerStep ==
  \/ \E r \in Roots : IngestStart(r) \/ IngestTerminal(r)
  \/ FinishDirect \/ ReplacePendingRoot \/ WorkerGc
  \/ DrainStep(Worker)

HandlerStep(q) == CheckpointArrives(q) \/ AppendCheckpoint(q) \/ DrainStep(q)

Quiescent ==
  /\ pc[Worker] = "idle"
  /\ \A q \in Requests : pc[q] = "done"
  /\ \A r \in Roots : todo[r] = <<>>

\* A daemon with nothing left to do waits.
Idle == Quiescent /\ UNCHANGED vars

Next == \/ WorkerStep \/ \E q \in Requests : HandlerStep(q)
        \/ UpdateCheckGc \/ Tick \/ Idle

Spec == Init /\ [][Next]_vars

\* Every thread that can take a step eventually does, and every git command
\* that was started ends: its events are delivered.
Fairness == WF_vars(WorkerStep) /\ \A q \in Requests : WF_vars(HandlerStep(q))

FairSpec == Spec /\ Fairness

----------------------------------------------------------------------------
(* What all this implements *)

Mode(k) == CASE k = "PendingRoot" -> "open" [] k = "Canceled" -> "void" [] OTHER -> "live"

Place(e) == [item |-> e.item, ts |-> e.ts, ord |-> e.ord, mode |-> Mode(e.kind)]

\* What a drain has taken and not finished, the running entry included.
Taken(a) == ready[a] \cup (IF cur[a] = None THEN {} ELSE {cur[a].entry})

AbstractQueue == [f \in Families |-> {Place(e) : e \in entries[f]}]
AbstractBatch == [a \in Actors |-> {Place(e) : e \in Taken(a)}]

Replay == INSTANCE ReplayQueue WITH
  Replayers <- Actors, Home <- Family,
  queue <- AbstractQueue, batch <- AbstractBatch, applied <- ran

----------------------------------------------------------------------------
(* Properties *)

\* The sequencer's threads, locks, slots and collections implement the queue of
\* ReplayQueue: every item enters once, a drain takes in one step exactly what
\* precedes the first command that is still running, and the entries it took
\* are applied once and in the order of their start, canceled ones never, also
\* when the collector has let a second drain run beside the first.
ReplaysQueue == Replay!Spec

PcValues == Holding \cup {"idle", "waiting", "direct", "gc", "done"}
NormValues == {"absent", "pending", "deferred", "completed"}
Jobs == [root : Roots, slot : Orders \cup {None},
         kind : {"ReadyCommand", "Canceled", "direct"}]

TypeOK ==
  /\ clock \in 0..MaxClock
  /\ nextOrdinal \in [Families -> Nat \ {0}]
  /\ entries \in [Families -> SUBSET Entries]
  /\ slots \in [Roots -> Orders \cup {None}]
  /\ lock \in [Families -> Nat \ {0}]
  /\ pc \in [Actors -> PcValues]
  /\ arc \in [Actors -> Nat]
  /\ job \in Jobs \cup {None}
  /\ ready \in [Actors -> SUBSET Entries]
  /\ cur \in [Actors -> [entry : Entries, files : SUBSET Files] \cup {None}]
  /\ inflight \in [Families -> Int]
  /\ edits \in [Files -> Nat]
  /\ norm \in [Roots -> NormValues]
  /\ todo \in [Roots -> Seq(TraceEvents)]
  /\ processed \in Nat
  /\ periodic \in 0..MaxPeriodicGc
  /\ ran \in [Items -> Nat]
  /\ after \in [Items -> SUBSET Items]
  /\ leaked \in [Families -> Nat]
  /\ opens \in [Agents -> [Files -> Nat]]

\* The worker has taken the slot of job.root and has not replaced its entry.
Replacing == pc[Worker] \in {"waiting", "locked"}

IsPendingEntry(f, r, sl) ==
  \E e \in entries[f] : SameOrder(e, sl) /\ e.kind = "PendingRoot" /\ e.item = r

\* A slot, or the slot the worker has taken, always names a PendingRoot entry
\* of its root: the errors "missing pending root sequencer entry" and "was not
\* pending" of replace_pending_root_entry cannot occur, whatever is drained,
\* appended or collected between the append and the replacement.
SlotFindsItsEntry ==
  /\ \A r \in Roots : slots[r] # None => IsPendingEntry(Family[r], r, slots[r])
  /\ Replacing => IsPendingEntry(Family[job.root], job.root, job.slot)

\* A PendingRoot entry that nobody can resolve would block its family for ever:
\* each one belongs to a slot or to the replacement the worker is making.
PendingEntryHasOwner ==
  \A f \in Families : \A e \in entries[f] :
    e.kind = "PendingRoot" =>
      /\ Family[e.item] = f
      /\ \/ slots[e.item] # None /\ SameOrder(slots[e.item], e)
         \/ Replacing /\ job.root = e.item /\ SameOrder(job.slot, e)

\* The slots of the worker and the PendingRoot entries of the maps agree in both
\* directions: no replacement fails and no entry blocks its family for ever.
SlotsMatchEntries == SlotFindsItsEntry /\ PendingEntryHasOwner

\* Ordinals of queued entries are distinct and below next_ordinal even though
\* the collector restarts them, so an insert never overwrites a queued entry.
OrdinalsFresh ==
  \A f \in Families :
    /\ \A e \in entries[f] : e.ord < nextOrdinal[f]
    /\ \A x, y \in entries[f] : x.ord = y.ord => x = y

\* Every place where an item can be between its append and its application.
Places(x) ==
  {<<"map", f>> : f \in {g \in Families : \E e \in entries[g] : e.item = x}}
    \cup {<<"ready", a>> : a \in {b \in Actors : \E e \in ready[b] : e.item = x}}
    \cup {<<"running", a>> : a \in {b \in Actors : cur[b] # None
                                                  /\ cur[b].entry.item = x}}

\* A command or checkpoint is applied at most once, is never in two places, and
\* is nowhere once it has been applied: a drain that runs beside another one,
\* an error or a collection neither repeats nor duplicates it.
AppliedAtMostOnce ==
  \A x \in Items : Cardinality(Places(x)) + ran[x] <= 1

\* Until the collector has replaced a family's mutex, one thread at a time
\* changes the family's map under the lock and runs its entries.
ExclusiveUntilSwept ==
  \A a, b \in Actors :
    /\ pc[a] \in Holding /\ pc[b] \in Holding /\ FamilyOf(a) = FamilyOf(b)
    /\ lock[FamilyOf(a)] = 1
    => a = b

\* Queued or in some drain's hands, and not yet begun.
Waiting(f) == entries[f] \cup UNION {ready[a] : a \in {b \in Actors :
                                       pc[b] = "draining" \/ pc[b] = "running"}}

\* While an entry runs, every entry of its family with an earlier start that is
\* not yet applied arrived only after the running one had left the map:
\* checkpoints and commands that are known to the sequencer are applied in the
\* order of their start, and never past a command that is still running.
StartOrderRespected ==
  \A a \in Actors : pc[a] = "running" =>
    LET e == cur[a].entry
        f == FamilyOf(a)
    IN  lock[f] = 1 =>
          \A x \in Waiting(f) :
            Family[x.item] = f /\ Before(x, e) => e.item \in after[x.item]

\* No drain begins to apply a KnownHuman checkpoint to a file on which an agent's
\* pre-edit is open and younger than the timeout: such a save is the editor's
\* reaction to the agent's own write.
SaveDuringEditSuppressed ==
  [][\A a \in Actors :
       /\ pc[a] # "running" /\ pc'[a] = "running"
       /\ cur'[a].entry.kind = "Checkpoint"
       /\ Class[cur'[a].entry.item].kind = "KnownHuman"
       => \A x \in cur'[a].files, g \in Agents : ~Pending(opens[g][x])]_vars

\* inflight_effects counts the drains that run entries, however the entries end,
\* and the worker's unsequenced command; and for ever those unsequenced commands
\* that panicked.  It is never below the effects that run, and nothing else
\* makes it wrong.
InflightCounted ==
  \A f \in Families :
    inflight[f] = leaked[f] + Cardinality({a \in Actors :
                     pc[a] \in {"draining", "running", "direct"} /\ FamilyOf(a) = f})

\* The collector forgets only locks that nobody uses.
SweepsOnlyIdleLocks ==
  [][\A f \in Families : lock'[f] # lock[f] => ~LockInUse(f)]_vars

\* A handler that waits for the execution lock is eventually answered.
HandlerAnswered ==
  \A q \in Requests : pc[q] = "waiting" ~> pc[q] = "done"

\* A queued checkpoint leaves the map: no command that ended, was canceled or
\* could not be normalized blocks its family for ever.
QueueDrains ==
  \A f \in Families : entries[f] # {} ~> entries[f] = {}

============================================================================
