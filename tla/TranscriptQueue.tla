-------------------------- MODULE TranscriptQueue --------------------------
(***************************************************************************)
(* The queue of transcripts to upload (cas_sync_queue of                   *)
(* src/src/authorship/internal_db.rs), filled from a checkpoint's or a     *)
(* commit's transcript file (authorship/cas_bridge.rs) and drained by      *)
(* flush_cas_queue (daemon/telemetry_worker.rs).                           *)
(*                                                                         *)
(* A transcript is named by the hash of its content, so a row never        *)
(* changes what it holds.  Rows are selected and locked by one statement.  *)
(* A row that failed MaxAttempts times stays, readable and never sent.     *)
(*                                                                         *)
(* wanted, server, failures, held and late are history variables.          *)
(***************************************************************************)
EXTENDS Integers, FiniteSets

CONSTANTS
  Hashes,       \* transcripts
  MaxAttempts,  \* dequeue_cas_batch: attempts < 6
  MaxFaults     \* bound: failed or partial uploads and crashes

VARIABLES
  row,       \* cas_sync_queue
  flush,     \* the flush thread
  faults,
  wanted,    \* history: transcripts queued for upload and not purged since
  server,    \* history: transcripts the server stores
  failures,  \* history: uploads of a transcript that failed
  held,      \* history: transcripts a hold covers
  late       \* history: those that were being sent when they were held

consent == <<held, late>>

vars == <<row, flush, faults, wanted, server, failures, consent>>

Absent == [status |-> "absent", attempts |-> 0, retry |-> "due"]

Queued(h) == row[h].status # "absent"

\* sent: the transcripts of the batch; ok, failed: what the answer says of them.
IdleFlush == [at |-> "idle", sent |-> {}, ok |-> {}, failed |-> {}]

Init ==
  /\ row = [h \in Hashes |-> Absent]
  /\ flush = IdleFlush
  /\ faults = 0
  /\ wanted = {} /\ server = {}
  /\ failures = [h \in Hashes |-> 0]
  /\ held = {} /\ late = {}

Fault == faults < MaxFaults /\ faults' = faults + 1

\* enqueue_transcript_file with sharing allowed: INSERT OR IGNORE.
Enqueue(h) ==
  /\ row' = IF Queued(h) THEN row ELSE [row EXCEPT ![h] = [Absent EXCEPT !.status = "pending"]]
  /\ wanted' = wanted \cup {h}
  /\ failures' = IF Queued(h) THEN failures ELSE [failures EXCEPT ![h] = 0]
  /\ UNCHANGED <<flush, faults, server, consent>>

\* A lock older than ten minutes belongs to a flush that died.
Recovered == [h \in Hashes |-> IF row[h].status = "stale" THEN [row[h] EXCEPT !.status = "pending"]
                               ELSE row[h]]

\* dequeue_cas_batch
Dequeue ==
  LET due == {h \in Hashes : Recovered[h].status = "pending" /\ Recovered[h].retry = "due"
                             /\ Recovered[h].attempts < MaxAttempts}
  IN
  /\ flush.at = "idle"
  /\ due # {}
  /\ row' = [h \in Hashes |-> IF h \in due THEN [Recovered[h] EXCEPT !.status = "processing"]
                              ELSE Recovered[h]]
  /\ flush' = [IdleFlush EXCEPT !.at = "send", !.sent = due]
  /\ UNCHANGED <<faults, wanted, server, failures, consent>>

\* flush_cas: one request for the batch.  The answer names each transcript as
\* stored or rejected; one it does not name stays locked.  A request that
\* fails, or whose answer is lost, has failed for all of them.
Send ==
  /\ flush.at = "send"
  /\ \E stored \in SUBSET flush.sent :
       /\ server' = server \cup stored
       /\ \E ok \in SUBSET stored, failed \in SUBSET flush.sent :
            /\ ok \cap failed = {}
            /\ flush' = [flush EXCEPT !.at = "record", !.ok = ok, !.failed = failed]
            /\ IF ok = flush.sent THEN UNCHANGED faults ELSE Fault
  /\ UNCHANGED <<row, wanted, failures, consent>>

\* Mutant: the batch is deleted once the request was answered.
DeleteStored_Batch ==
  /\ flush.at = "record"
  /\ row' = [h \in Hashes |-> IF h \in flush.sent \ flush.failed THEN Absent ELSE row[h]]
  /\ flush' = [flush EXCEPT !.at = "failed"]
  /\ UNCHANGED <<faults, wanted, server, failures, consent>>

\* delete_cas_by_hashes
DeleteStored ==
  /\ flush.at = "record"
  /\ row' = [h \in Hashes |-> IF h \in flush.ok THEN Absent ELSE row[h]]
  /\ flush' = [flush EXCEPT !.at = "failed"]
  /\ UNCHANGED <<faults, wanted, server, failures, consent>>

\* Mutant: what the answer does not name has failed, too.
MarkFailed_Twice ==
  /\ flush.at = "failed"
  /\ row' = [h \in Hashes |-> IF h \in flush.sent \ flush.ok /\ Queued(h)
                              THEN [status |-> "pending", attempts |-> row[h].attempts + 1, retry |-> "later"]
                              ELSE row[h]]
  /\ failures' = [h \in Hashes |-> failures[h] + IF h \in flush.failed THEN 1 ELSE 0]
  /\ flush' = IdleFlush
  /\ UNCHANGED <<faults, wanted, server, consent>>

\* mark_cas_failed: by hash, whatever has happened to the row.
MarkFailed ==
  /\ flush.at = "failed"
  /\ row' = [h \in Hashes |-> IF h \in flush.failed /\ Queued(h)
                              THEN [status |-> "pending", attempts |-> row[h].attempts + 1, retry |-> "later"]
                              ELSE row[h]]
  /\ failures' = [h \in Hashes |-> failures[h] + IF h \in flush.failed THEN 1 ELSE 0]
  /\ flush' = IdleFlush
  /\ UNCHANGED <<faults, wanted, server, consent>>

----------------------------------------------------------------------------
(* The rest of the world *)

RetryTime(h) ==
  /\ row[h].retry = "later"
  /\ row' = [row EXCEPT ![h].retry = "due"]
  /\ UNCHANGED <<flush, faults, wanted, server, failures, consent>>

LockAges(h) ==
  /\ row[h].status = "processing"
  /\ row' = [row EXCEPT ![h].status = "stale"]
  /\ UNCHANGED <<flush, faults, wanted, server, failures, consent>>

\* hold_pending_cas, release_held_cas, delete_pending_cas
Hold ==
  /\ row' = [h \in Hashes |-> IF Queued(h)
                              THEN [status |-> "pending", attempts |-> row[h].attempts, retry |-> "held"]
                              ELSE row[h]]
  /\ held' = {h \in Hashes : Queued(h)}
  /\ late' = flush.sent
  /\ UNCHANGED <<flush, faults, wanted, server, failures>>

Release ==
  /\ row' = [h \in Hashes |-> IF row[h].retry = "held" THEN [row[h] EXCEPT !.retry = "due"] ELSE row[h]]
  /\ held' = {} /\ late' = {}
  /\ UNCHANGED <<flush, faults, wanted, server, failures>>

Purge ==
  /\ row' = [h \in Hashes |-> Absent]
  /\ wanted' = {}
  /\ held' = {} /\ late' = {}
  /\ UNCHANGED <<flush, faults, server, failures>>

Crash ==
  /\ Fault
  /\ flush' = IdleFlush
  /\ UNCHANGED <<row, wanted, server, failures, consent>>

----------------------------------------------------------------------------

Flush == Dequeue \/ Send \/ DeleteStored \/ MarkFailed

Next ==
  \/ \E h \in Hashes : Enqueue(h) \/ RetryTime(h) \/ LockAges(h)
  \/ Flush
  \/ Hold \/ Release \/ Purge \/ Crash

Spec == Init /\ [][Next]_vars

----------------------------------------------------------------------------
(* Properties *)

\* The type of the state.
TypeOK ==
  /\ row \in [Hashes -> [status : {"absent", "pending", "processing", "stale"},
                         attempts : 0 .. MaxFaults, retry : {"due", "later", "held"}]]
  /\ flush.at \in {"idle", "send", "record", "failed"}
  /\ flush.sent \cup flush.ok \cup flush.failed \subseteq Hashes
  /\ faults \in 0 .. MaxFaults
  /\ wanted \cup server \cup held \cup late \subseteq Hashes
  /\ failures \in [Hashes -> 0 .. MaxFaults]

\* A transcript leaves the queue for the server only, unless the user purges it:
\* the queue "doubles as the local store that show-prompt reads".
TranscriptNotLost == \A h \in wanted : Queued(h) \/ h \in server

\* A transcript is given up after MaxAttempts failed uploads and not before:
\* neither a crash nor a lock taken back counts as an attempt.
AttemptsAreFailures == \A h \in Hashes : Queued(h) => row[h].attempts <= failures[h]

\* Unless it was being sent when it was held, a held transcript waits for the
\* user's decision.
HeldUntilReleased == \A h \in held \ late : row[h].retry = "held"
=============================================================================
