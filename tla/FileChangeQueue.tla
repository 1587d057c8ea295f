-------------------------- MODULE FileChangeQueue --------------------------
(***************************************************************************)
(* The per-file change counts (file_change_counts, src/src/file_changes):  *)
(* checkpoints add to them, the telemetry flush uploads the totals of the  *)
(* rows that changed.                                                      *)
(*                                                                         *)
(* A row is not locked while its total is being sent, and the answer is    *)
(* recorded by the path of the file, whatever the row holds by then.       *)
(* Checkpoints and the flush are threads of the daemon and share one       *)
(* connection; hold, release and purge come from other processes.          *)
(*                                                                         *)
(* server, owed, raced, held and late are history variables.               *)
(***************************************************************************)
EXTENDS Integers, FiniteSets

CONSTANTS
  Files,
  MaxTouches,   \* bound: changes counted for one file
  MaxFaults,    \* bound: refused or lost uploads and crashes
  MaxSwitches   \* bound: changes of the mode

VARIABLES
  row,        \* the table
  connected,  \* platform_sync_enabled
  flush,      \* the flush thread
  faults, switches,
  server,     \* history: the total the org database holds
  owed,       \* history: the total when the row was last marked for upload
  raced,      \* history: files whose last change in connected mode came
              \* while their total was being sent
  held,       \* history: files a hold covers
  late        \* history: those that were being sent when they were held

consent == <<held, late>>

vars == <<row, connected, flush, faults, switches, server, owed, raced, consent>>

Absent == [count |-> 0, synced |-> TRUE, retry |-> "due"]

\* todo: dequeued rows of groups not yet sent; done, failed: the answer for one.
IdleFlush == [at |-> "idle", todo |-> {}, done |-> {}, failed |-> {}]

Init ==
  /\ row = [f \in Files |-> Absent]
  /\ connected \in BOOLEAN
  /\ flush = IdleFlush
  /\ faults = 0 /\ switches = 0
  /\ server = [f \in Files |-> 0]
  /\ owed = [f \in Files |-> 0]
  /\ raced = {} /\ held = {} /\ late = {}

Fault == faults < MaxFaults /\ faults' = faults + 1

BeingSent == {t.file : t \in flush.todo} \cup flush.done \cup flush.failed

\* Mutant: a touch makes the row due.
Record_Reschedules(f) ==
  LET r == row[f] IN
  /\ r.count < MaxTouches
  /\ row' = [row EXCEPT ![f] = [count  |-> r.count + 1,
                                synced |-> r.synced /\ ~connected,
                                retry  |-> "due"]]
  /\ owed' = IF connected THEN [owed EXCEPT ![f] = r.count + 1] ELSE owed
  /\ raced' = IF ~connected THEN raced
            ELSE IF f \in BeingSent THEN raced \cup {f} ELSE raced \ {f}
  /\ UNCHANGED <<connected, flush, faults, switches, server, consent>>

\* record_change: local mode counts, and leaves the upload state alone.
Record(f) ==
  LET r == row[f] IN
  /\ r.count < MaxTouches
  /\ row' = [row EXCEPT ![f] = [count  |-> r.count + 1,
                                synced |-> r.synced /\ ~connected,
                                retry  |-> r.retry]]
  /\ owed' = IF connected THEN [owed EXCEPT ![f] = r.count + 1] ELSE owed
  /\ raced' = IF ~connected THEN raced
            ELSE IF f \in BeingSent THEN raced \cup {f} ELSE raced \ {f}
  /\ UNCHANGED <<connected, flush, faults, switches, server, consent>>

SwitchMode ==
  /\ switches < MaxSwitches
  /\ switches' = switches + 1
  /\ connected' = ~connected
  /\ UNCHANGED <<row, flush, faults, server, owed, raced, consent>>

----------------------------------------------------------------------------
(* flush_pending_to_cloud *)

\* dequeue_pending, in one transaction.
Dequeue ==
  LET due == {f \in Files : ~row[f].synced /\ row[f].retry = "due"} IN
  /\ flush.at = "idle"
  /\ connected
  /\ due # {}
  /\ flush' = [IdleFlush EXCEPT !.at = "send",
                 !.todo = {[file |-> f, count |-> row[f].count] : f \in due}]
  /\ UNCHANGED <<row, connected, faults, switches, server, owed, raced, consent>>

\* The rows of one organization are sent together.  The server may refuse some
\* of them; a request may fail, or its answer be lost, and then all have failed.
Send(group) ==
  LET files == {t.file : t \in group}
      Stored(done) == [f \in Files |->
        IF f \in done THEN (CHOOSE t \in group : t.file = f).count ELSE server[f]]
  IN
  /\ flush.at = "send"
  /\ \E done \in SUBSET files :
       /\ server' = Stored(done)
       /\ \/ /\ flush' = [at |-> "record", todo |-> flush.todo \ group,
                          done |-> done, failed |-> files \ done]
             /\ IF done = files THEN UNCHANGED faults ELSE Fault
          \/ /\ flush' = [at |-> "record", todo |-> flush.todo \ group,
                          done |-> {}, failed |-> files]
             /\ done \in {{}, files}
             /\ Fault
  /\ UNCHANGED <<row, connected, switches, owed, raced, consent>>

\* Mutant: what the server refused is marked with the rest.
MarkSynced_All ==
  /\ flush.at = "record"
  /\ row' = [f \in Files |-> IF f \in flush.done \cup flush.failed
                             THEN [count |-> row[f].count, synced |-> TRUE, retry |-> "due"] ELSE row[f]]
  /\ flush' = [flush EXCEPT !.at = "refused", !.done = {}]
  /\ UNCHANGED <<connected, faults, switches, server, owed, raced, consent>>

\* mark_synced
MarkSynced ==
  /\ flush.at = "record"
  /\ row' = [f \in Files |-> IF f \in flush.done /\ row[f] # Absent
                             THEN [count |-> row[f].count, synced |-> TRUE, retry |-> "due"] ELSE row[f]]
  /\ flush' = [flush EXCEPT !.at = "refused", !.done = {}]
  /\ UNCHANGED <<connected, faults, switches, server, owed, raced, consent>>

\* mark_failed and mark_batch_failed, five minutes later at the earliest.
MarkFailed ==
  /\ flush.at = "refused"
  /\ row' = [f \in Files |-> IF f \in flush.failed /\ row[f] # Absent
                             THEN [row[f] EXCEPT !.retry = "later"] ELSE row[f]]
  /\ flush' = IF flush.todo = {} THEN IdleFlush ELSE [flush EXCEPT !.at = "send", !.failed = {}]
  /\ UNCHANGED <<connected, faults, switches, server, owed, raced, consent>>

----------------------------------------------------------------------------
(* The rest of the world *)

RetryTime(f) ==
  /\ row[f].retry = "later"
  /\ row' = [row EXCEPT ![f].retry = "due"]
  /\ UNCHANGED <<connected, flush, faults, switches, server, owed, raced, consent>>

\* hold_pending, release_held, delete_pending
Hold ==
  /\ row' = [f \in Files |-> IF row[f].synced THEN row[f] ELSE [row[f] EXCEPT !.retry = "held"]]
  /\ held' = {f \in Files : ~row[f].synced}
  /\ late' = BeingSent
  /\ UNCHANGED <<connected, flush, faults, switches, server, owed, raced>>

Release ==
  /\ row' = [f \in Files |-> IF ~row[f].synced /\ row[f].retry = "held"
                             THEN [row[f] EXCEPT !.retry = "due"] ELSE row[f]]
  /\ held' = {} /\ late' = {}
  /\ UNCHANGED <<connected, flush, faults, switches, server, owed, raced>>

Purge ==
  /\ row' = [f \in Files |-> IF row[f].synced THEN row[f] ELSE Absent]
  /\ owed' = [f \in Files |-> IF row[f].synced THEN owed[f] ELSE 0]
  /\ held' = {} /\ late' = {}
  /\ UNCHANGED <<connected, flush, faults, switches, server, raced>>

Crash ==
  /\ Fault
  /\ flush' = IdleFlush
  /\ UNCHANGED <<row, connected, switches, server, owed, raced, consent>>

----------------------------------------------------------------------------

Flush ==
  \/ Dequeue
  \/ \E group \in (SUBSET flush.todo) \ {{}} : Send(group)
  \/ MarkSynced \/ MarkFailed

Next ==
  \/ \E f \in Files : Record(f) \/ RetryTime(f)
  \/ SwitchMode
  \/ Flush
  \/ Hold \/ Release \/ Purge \/ Crash

Spec == Init /\ [][Next]_vars

----------------------------------------------------------------------------
(* Properties *)

Counts == 0 .. MaxTouches

\* The type of the state.
TypeOK ==
  /\ row \in [Files -> [count : Counts, synced : BOOLEAN, retry : {"due", "later", "held"}]]
  /\ connected \in BOOLEAN
  /\ flush.at \in {"idle", "send", "record", "refused"}
  /\ flush.todo \subseteq [file : Files, count : Counts]
  /\ flush.done \cup flush.failed \subseteq Files
  /\ faults \in 0 .. MaxFaults /\ switches \in 0 .. MaxSwitches
  /\ server \in [Files -> Counts] /\ owed \in [Files -> Counts]
  /\ raced \cup held \cup late \subseteq Files

\* A row that counts as synced has sent every change made in connected mode,
\* unless the last of them came while an earlier total was being sent: the
\* answer marks it synced, and it stays behind until the file changes again.
SyncedCountIsComplete ==
  \A f \in Files : row[f].synced /\ f \notin raced => server[f] >= owed[f]

\* "A held row touched again stays held" (file_changes/db.rs): unless its total
\* was being sent when it was held, it waits for the user's decision.
HeldUntilReleased == \A f \in held \ late : row[f].retry = "held"
=============================================================================
