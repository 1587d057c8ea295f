----------------------------- MODULE NotesQueue -----------------------------
(***************************************************************************)
(* The authorship-notes upload queue: the table "notes" of notes-db        *)
(* (src/src/notes/db.rs), the daemon threads that drain it                 *)
(* (src/src/daemon/telemetry_worker.rs, flush_notes) and the upload hold   *)
(* (src/src/upload_hold.rs).                                               *)
(*                                                                         *)
(* Several flushes run at once: the periodic loop, and one blocking task   *)
(* per ControlRequest::FlushNotes.  They share one connection behind a     *)
(* mutex; command line processes have connections of their own, so their   *)
(* statements fall between two statements of a flush.                      *)
(*                                                                         *)
(* Times are kept to what the queries ask of them: next_retry_at is due,   *)
(* later or held (HELD_RETRY_AT); processing_started_at is absent (free),  *)
(* less than ten minutes old (fresh) or older (stale).                     *)
(* raced and blocked are history variables.                                *)
(***************************************************************************)
EXTENDS Integers, FiniteSets

CONSTANTS
  Commits,      \* commit shas
  Contents,     \* contents a note may have
  Flushers,     \* threads that run flush_notes
  Periodic,     \* the one of the flush loop
  Org,          \* the organisation that owns a commit's repository
  Legacy,       \* commits an earlier version may have queued notes for
  Shared,       \* commits other machines may have uploaded notes for
  NoRow,        \* no row, or no content on the server
  BatchSize,    \* rows of one dequeue (50)
  MaxAttempts,  \* attempts after which a row is left alone (6)
  MaxCacheRows, \* synced rows kept before an eviction (10 000)
  MaxWrites,    \* bound: local writes of notes
  MaxHolds,     \* bound: holds asked for by the user
  MaxFaults     \* bound: crashes, lost logins and failed database calls

ASSUME NotesAssumption ==
  /\ Periodic \in Flushers
  /\ IsFiniteSet(Commits)
  /\ NoRow \notin Contents
  /\ Legacy \subseteq Commits
  /\ Shared \subseteq Commits
  /\ BatchSize \in Nat \ {0}
  /\ MaxAttempts \in Nat \ {0}
  /\ MaxCacheRows \in Nat
  /\ MaxWrites \in Nat /\ MaxHolds \in Nat /\ MaxFaults \in Nat

VARIABLES
  notes,     \* the table: a row, or NoRow, for each commit
  migrated,  \* upload_hold.json: the legacy migration has been applied
  backoff,   \* DURABLE_SYNC_AUTH_RETRY_AFTER lies in the future
  pc,        \* where each flush is
  picked,    \* the shas a flush has selected and not yet locked
  batch,     \* rows a flush has read and not yet sent
  sent,      \* rows of the request whose answer a flush handles
  ok,        \* that answer: nothing failed
  server,    \* the note the platform holds for each commit
  fetched,   \* notes a command line process has read and not yet cached
  writes, holds, faults,
  raced,     \* history: commits whose row was changed behind an upload
  blocked    \* history: commits whose note waits for the user's consent

vars == <<notes, migrated, backoff, pc, picked, batch, sent, ok, server,
          fetched, writes, holds, faults, raced, blocked>>

flushVars == <<pc, picked, batch, sent, ok>>
bounds == <<writes, holds, faults>>
history == <<raced, blocked>>

----------------------------------------------------------------------------
(* Rows *)

Locks == {"free", "fresh", "stale"}
Retries == {"due", "later", "held"}

Rows == [content : Contents, synced : BOOLEAN, lock : Locks,
         retry : Retries, attempts : Nat]

ASSUME RowAssumption == NoRow \notin Rows

Entries == [sha : Commits, content : Contents]

Exists(c) == notes[c] # NoRow
Unsynced(c) == Exists(c) /\ ~notes[c].synced

\* The rows in a flush's hands, and the commits any flush is uploading.
Carried(f) == {e.sha : e \in batch[f] \cup sent[f]}
InUpload(c) == \E f \in Flushers : c \in Carried(f)

\* The commits a flush has selected, read or sent.
Underway(c) == \E f \in Flushers : c \in picked[f] \cup Carried(f)

Waiting == {c \in Commits : Unsynced(c)}

\* Rows an earlier version queued, in any state it may have stopped in.
LegacyRows ==
  {r \in [content : Contents, synced : BOOLEAN, lock : Locks,
           retry : {"due", "later"}, attempts : {0}] : ~r.synced}

Init ==
  /\ notes \in {n \in [Commits -> LegacyRows \cup {NoRow}] :
                  \A c \in Commits \ Legacy : n[c] = NoRow}
  /\ migrated = FALSE
  /\ backoff = FALSE
  /\ pc = [f \in Flushers |-> "idle"]
  /\ picked = [f \in Flushers |-> {}]
  /\ batch = [f \in Flushers |-> {}]
  /\ sent = [f \in Flushers |-> {}]
  /\ ok = [f \in Flushers |-> FALSE]
  /\ server \in {s \in [Commits -> Contents \cup {NoRow}] :
                   \A c \in Commits \ Shared : s[c] = NoRow}
  /\ fetched = [c \in Commits |-> NoRow]
  /\ writes = 0 /\ holds = 0 /\ faults = 0
  /\ raced = {}
  /\ blocked = Waiting

Fault == faults < MaxFaults /\ faults' = faults + 1

----------------------------------------------------------------------------
(* Writers: command line processes and the daemon's side effects *)

Inserted(v) == [content |-> v, synced |-> FALSE, lock |-> "free",
                retry |-> "due", attempts |-> 0]

Upserted(c, v) ==
  IF ~Exists(c) THEN Inserted(v)
  ELSE IF notes[c].content = v THEN notes[c]
  ELSE [notes[c] EXCEPT !.content = v, !.synced = FALSE, !.retry = "due",
                        !.attempts = 0]

Changes(c, v) == ~Exists(c) \/ notes[c].content # v

\* http_write_note, http_write_batch: upsert, then ask the daemon for a flush;
\* the request may be lost.
UpsertNotes(new) ==
  LET S == DOMAIN new IN
  /\ writes < MaxWrites
  /\ writes' = writes + 1
  /\ notes' = [c \in Commits |-> IF c \in S THEN Upserted(c, new[c]) ELSE notes[c]]
  /\ \/ UNCHANGED pc
     \/ \E f \in Flushers \ {Periodic} :
          pc[f] = "idle" /\ pc' = [pc EXCEPT ![f] = "requested"]
  /\ raced' = raced \cup {c \in S : InUpload(c) /\ Changes(c, new[c])}
  /\ blocked' = blocked \ {c \in S : Changes(c, new[c])}
  /\ UNCHANGED <<migrated, backoff, picked, batch, sent, ok, server, fetched,
                 holds, faults>>

\* A reader found no row and asks the platform.
FetchNote(c) ==
  /\ ~Exists(c)
  /\ server[c] # NoRow
  /\ fetched' = [fetched EXCEPT ![c] = server[c]]
  /\ UNCHANGED <<notes, migrated, backoff, flushVars, server, bounds, history>>

Cached(c, v) ==
  IF ~Exists(c) THEN [Inserted(v) EXCEPT !.synced = TRUE]
  ELSE [notes[c] EXCEPT !.content = v, !.synced = TRUE]

CacheSyncedNotes ==
  LET S == {c \in Commits : fetched[c] # NoRow} IN
  /\ S # {}
  /\ notes' = [c \in Commits |-> IF c \in S THEN Cached(c, fetched[c]) ELSE notes[c]]
  /\ fetched' = [c \in Commits |-> NoRow]
  /\ raced' = raced \cup {c \in S : InUpload(c) \/ Exists(c) \/ fetched[c] # server[c]}
  /\ blocked' = blocked \ S
  /\ UNCHANGED <<migrated, backoff, flushVars, server, bounds>>

Held(c) == [notes[c] EXCEPT !.retry = "held", !.lock = "free"]

\* Mutant: a row under upload is not held.
AllHeld_SkipsLocked ==
  [c \in Commits |-> IF Unsynced(c) /\ notes[c].lock = "free" THEN Held(c)
                     ELSE notes[c]]

AllHeld ==
  [c \in Commits |-> IF Unsynced(c) /\ notes[c].retry # "held" THEN Held(c)
                     ELSE notes[c]]

\* Uploads whose row a hold takes the lock away from.
HoldRaces == {c \in Commits : Unsynced(c) /\ InUpload(c)}

\* autter onboard --connect.  A flush that has selected a row before the hold
\* locks it, reads it and uploads it, and an upload under way goes on.
HoldPendingUploads ==
  /\ migrated
  /\ holds < MaxHolds
  /\ holds' = holds + 1
  /\ notes' = AllHeld
  /\ raced' = raced \cup HoldRaces
  /\ blocked' = blocked \cup {c \in Waiting : ~Underway(c)}
  /\ UNCHANGED <<migrated, backoff, flushVars, server, fetched, writes, faults>>

\* autter sync import, or "Import" while connecting
ReleaseHeldUploads ==
  /\ migrated
  /\ \E c \in Commits : Unsynced(c) /\ notes[c].retry = "held"
  /\ notes' = [c \in Commits |->
                 IF Unsynced(c) /\ notes[c].retry = "held"
                 THEN [notes[c] EXCEPT !.retry = "due"] ELSE notes[c]]
  /\ blocked' = {}
  /\ UNCHANGED <<migrated, backoff, flushVars, server, fetched, bounds, raced>>

\* autter sync purge
DeletePending ==
  /\ \E c \in Commits : Unsynced(c)
  /\ notes' = [c \in Commits |-> IF Unsynced(c) THEN NoRow ELSE notes[c]]
  /\ raced' = raced \cup HoldRaces
  /\ blocked' = {}
  /\ UNCHANGED <<migrated, backoff, flushVars, server, fetched, bounds>>

----------------------------------------------------------------------------
(* flush_notes *)

\* The mutex of NotesDatabase::global() is held from "select" to "claim".
MutexFree(f) == \A g \in Flushers \ {f} : pc[g] # "claim"

Goto(f, l) == pc' = [pc EXCEPT ![f] = l]

\* count_pending
CountPending ==
  {c \in Commits : Unsynced(c) /\ notes[c].attempts < MaxAttempts
                               /\ notes[c].retry # "held"}

\* The cheap check, then the login: without one the loop backs off.
Gate(f) ==
  \/ /\ CountPending = {}
     /\ Goto(f, "idle")
     /\ UNCHANGED <<backoff, faults>>
  \/ /\ CountPending # {}
     /\ Goto(f, "select")
     /\ UNCHANGED <<backoff, faults>>
  \/ /\ CountPending # {}
     /\ Fault
     /\ backoff' = TRUE
     /\ Goto(f, "idle")

\* A tick of telemetry_flush_loop.
Tick ==
  /\ pc[Periodic] = "idle"
  /\ ~backoff
  /\ Goto(Periodic, "requested")
  /\ UNCHANGED <<notes, migrated, backoff, picked, batch, sent, ok, server,
                 fetched, bounds, history>>

\* ensure_legacy_migration reads its marker.
Begin(f) ==
  /\ pc[f] = "requested"
  /\ \/ migrated /\ Gate(f)
     \/ ~migrated /\ Goto(f, "hold") /\ UNCHANGED <<backoff, faults>>
  /\ UNCHANGED <<notes, migrated, picked, batch, sent, ok, server, fetched,
                 writes, holds, history>>

\* hold_all for the legacy backlog; another database's error, before or after
\* the notes were held, ends the flush.
HoldLegacy(f) ==
  /\ pc[f] = "hold"
  /\ MutexFree(f)
  /\ \/ Goto(f, "save") /\ UNCHANGED faults
     \/ Fault /\ Goto(f, "idle")
  /\ \/ notes' = AllHeld /\ raced' = raced \cup HoldRaces
     \/ UNCHANGED <<notes, raced>> /\ faults' # faults
  /\ UNCHANGED <<migrated, backoff, picked, batch, sent, ok, server, fetched,
                 writes, holds, blocked>>

\* save_state
SaveMigrated(f) ==
  /\ pc[f] = "save"
  /\ \/ migrated' = TRUE /\ Gate(f)
     \/ Fault /\ Goto(f, "idle") /\ UNCHANGED <<migrated, backoff>>
  /\ UNCHANGED <<notes, picked, batch, sent, ok, server, fetched, writes,
                 holds, history>>

\* Mutant: the lock of a dead flush is never released.
Unlocked_Never == notes

Unlocked ==
  [c \in Commits |-> IF Unsynced(c) /\ notes[c].lock = "stale"
                     THEN [notes[c] EXCEPT !.lock = "free"] ELSE notes[c]]

Eligible ==
  {c \in Commits : /\ Unsynced(c)
                   /\ Unlocked[c].lock = "free"
                   /\ notes[c].retry = "due"
                   /\ notes[c].attempts < MaxAttempts}

\* A batch the query may return: BatchSize rows, or all when there are fewer.
Batches ==
  {S \in SUBSET Eligible :
     Cardinality(S) = BatchSize \/ (Cardinality(S) < BatchSize /\ S = Eligible)}

\* dequeue_pending: free the stale locks, select.
DequeueSelect(f) ==
  /\ pc[f] = "select"
  /\ MutexFree(f)
  /\ notes' = Unlocked
  /\ \E S \in Batches :
       /\ picked' = [picked EXCEPT ![f] = S]
       /\ Goto(f, IF S = {} THEN "idle" ELSE "claim")
  /\ raced' = raced \cup {c \in Commits : InUpload(c) /\ Unlocked[c] # notes[c]}
  /\ UNCHANGED <<migrated, backoff, batch, sent, ok, server, fetched, bounds,
                 blocked>>

\* Mutant: the rows are read and not locked.
DequeueClaim_NoLock(f) ==
  LET S == {c \in picked[f] : Exists(c)} IN
  /\ pc[f] = "claim"
  /\ batch' = [batch EXCEPT ![f] = {[sha |-> c, content |-> notes[c].content] : c \in S}]
  /\ picked' = [picked EXCEPT ![f] = {}]
  /\ Goto(f, IF S = {} THEN "idle" ELSE "send")
  /\ UNCHANGED <<notes, migrated, backoff, sent, ok, server, fetched, bounds, history>>

\* dequeue_pending: lock the selected rows and read them back.
DequeueClaim(f) ==
  LET S == {c \in picked[f] : Exists(c)} IN
  /\ pc[f] = "claim"
  /\ notes' = [c \in Commits |-> IF c \in S THEN [notes[c] EXCEPT !.lock = "fresh"]
                                 ELSE notes[c]]
  /\ batch' = [batch EXCEPT ![f] = {[sha |-> c, content |-> notes[c].content] : c \in S}]
  /\ picked' = [picked EXCEPT ![f] = {}]
  /\ Goto(f, IF S = {} THEN "idle" ELSE "send")
  /\ UNCHANGED <<migrated, backoff, sent, ok, server, fetched, bounds, history>>

\* One request per organisation.  The platform may apply any part of a request
\* that fails or whose answer is lost, nothing when no token could be minted.
UploadNotes(f, o) ==
  LET G == {e \in batch[f] : Org[e.sha] = o} IN
  /\ pc[f] = "send"
  /\ G # {}
  /\ \E A \in SUBSET G, b \in BOOLEAN :
       /\ b => A = G
       /\ server' = [c \in Commits |->
                       IF \E e \in A : e.sha = c
                       THEN (CHOOSE e \in A : e.sha = c).content ELSE server[c]]
       /\ ok' = [ok EXCEPT ![f] = b]
       /\ backoff' \in {backoff, FALSE}
       /\ b => ~backoff'
       /\ A = {} => UNCHANGED backoff
  /\ sent' = [sent EXCEPT ![f] = G]
  /\ batch' = [batch EXCEPT ![f] = @ \ G]
  /\ Goto(f, "answer")
  /\ UNCHANGED <<notes, migrated, picked, fetched, bounds, history>>

MarkSynced(S) ==
  [c \in Commits |-> IF c \in S /\ Exists(c)
                     THEN [notes[c] EXCEPT !.synced = TRUE, !.lock = "free"]
                     ELSE notes[c]]

\* Mutants: a partial failure counts as success; attempts are counted down.
MarkFailed_AsSynced(S) == MarkSynced(S)

MarkFailed_CountsDown(S) ==
  [c \in Commits |-> IF c \in S /\ Unsynced(c)
                     THEN [notes[c] EXCEPT !.lock = "free", !.retry = "later",
                                           !.attempts = @ - 1]
                     ELSE notes[c]]

MarkFailed(S) ==
  [c \in Commits |-> IF c \in S /\ Unsynced(c)
                     THEN [notes[c] EXCEPT !.lock = "free", !.retry = "later",
                                           !.attempts = @ + 1]
                     ELSE notes[c]]

\* The answer is recorded; a database error is ignored.
RecordAnswer(f) ==
  LET S == {e.sha : e \in sent[f]} IN
  /\ pc[f] = "answer"
  /\ MutexFree(f)
  /\ \/ notes' = (IF ok[f] THEN MarkSynced(S) ELSE MarkFailed(S)) /\ UNCHANGED faults
     \/ Fault /\ UNCHANGED notes
  /\ sent' = [sent EXCEPT ![f] = {}]
  /\ Goto(f, IF batch[f] = {} THEN "evict" ELSE "send")
  /\ UNCHANGED <<migrated, backoff, picked, batch, ok, server, fetched,
                 writes, holds, history>>

SyncedRows == {c \in Commits : Exists(c) /\ notes[c].synced}

\* evict_stale_cache, on every hundredth flush.
EvictStaleCache(f) ==
  /\ pc[f] = "evict"
  /\ MutexFree(f)
  /\ \/ UNCHANGED notes
     \/ /\ Cardinality(SyncedRows) > MaxCacheRows
        /\ \E S \in SUBSET SyncedRows :
             notes' = [c \in Commits |-> IF c \in S THEN NoRow ELSE notes[c]]
  /\ Goto(f, "idle")
  /\ UNCHANGED <<migrated, backoff, picked, batch, sent, ok, server, fetched,
                 bounds, history>>

----------------------------------------------------------------------------
(* The environment *)

\* The daemon dies and is started again; the tables keep its locks.
Crash ==
  /\ \E f \in Flushers : pc[f] # "idle"
  /\ Fault
  /\ pc' = [f \in Flushers |-> "idle"]
  /\ picked' = [f \in Flushers |-> {}]
  /\ batch' = [f \in Flushers |-> {}]
  /\ sent' = [f \in Flushers |-> {}]
  /\ ok' = [f \in Flushers |-> FALSE]
  /\ backoff' = FALSE
  /\ UNCHANGED <<notes, migrated, server, fetched, writes, holds, history>>

\* Time: a retry falls due, a lock grows old, the login is tried again.
RetryDue(c) ==
  /\ Exists(c) /\ notes[c].retry = "later"
  /\ notes' = [notes EXCEPT ![c].retry = "due"]
  /\ UNCHANGED <<migrated, backoff, flushVars, server, fetched, bounds, history>>

LockStale(c) ==
  /\ Exists(c) /\ notes[c].lock = "fresh"
  /\ notes' = [notes EXCEPT ![c].lock = "stale"]
  /\ UNCHANGED <<migrated, backoff, flushVars, server, fetched, bounds, history>>

BackoffOver ==
  /\ backoff
  /\ backoff' = FALSE
  /\ UNCHANGED <<notes, migrated, flushVars, server, fetched, bounds, history>>

Flush(f) ==
  \/ Begin(f) \/ HoldLegacy(f) \/ SaveMigrated(f)
  \/ DequeueSelect(f) \/ DequeueClaim(f)
  \/ \E o \in {Org[c] : c \in Commits} : UploadNotes(f, o)
  \/ RecordAnswer(f) \/ EvictStaleCache(f)

Next ==
  \/ \E S \in (SUBSET Commits) \ {{}} : \E new \in [S -> Contents] : UpsertNotes(new)
  \/ \E c \in Commits : FetchNote(c)
  \/ CacheSyncedNotes
  \/ HoldPendingUploads
  \/ ReleaseHeldUploads
  \/ DeletePending
  \/ Tick
  \/ \E f \in Flushers : Flush(f)
  \/ Crash
  \/ \E c \in Commits : RetryDue(c)
  \/ \E c \in Commits : LockStale(c)
  \/ BackoffOver

Spec == Init /\ [][Next]_vars

Fairness ==
  /\ WF_vars(Tick)
  /\ WF_vars(BackoffOver)
  /\ \A f \in Flushers : WF_vars(Flush(f))
  /\ \A c \in Commits : WF_vars(RetryDue(c)) /\ WF_vars(LockStale(c))

FairSpec == Spec /\ Fairness

----------------------------------------------------------------------------
(* Properties *)

Labels == {"idle", "requested", "hold", "save", "select", "claim", "send",
           "answer", "evict"}

\* The type of the state; a flush holds rows only while it handles them.
TypeOK ==
  /\ notes \in [Commits -> Rows \cup {NoRow}]
  /\ migrated \in BOOLEAN
  /\ backoff \in BOOLEAN
  /\ pc \in [Flushers -> Labels]
  /\ picked \in [Flushers -> SUBSET Commits]
  /\ batch \in [Flushers -> SUBSET Entries]
  /\ sent \in [Flushers -> SUBSET Entries]
  /\ ok \in [Flushers -> BOOLEAN]
  /\ server \in [Commits -> Contents \cup {NoRow}]
  /\ fetched \in [Commits -> Contents \cup {NoRow}]
  /\ writes \in Nat /\ holds \in Nat /\ faults \in Nat
  /\ raced \subseteq Commits
  /\ blocked \subseteq Commits

\* Two flushes never upload the same note at once (dequeue_pending locks the
\* rows it returns), unless the row's lock was lost behind the first upload.
UploadedByOne ==
  \A f, g \in Flushers : \A c \in Commits :
    f # g /\ c \in Carried(f) /\ c \in Carried(g) => c \in raced

\* A row marked synced has the content the platform holds, whatever failed,
\* was lost or crashed on the way, unless the row was changed behind an upload
\* or behind the read that cached it.
SyncedMatchesServer ==
  \A c \in Commits :
    Exists(c) /\ notes[c].synced /\ c \notin raced => notes[c].content = server[c]

\* No flush dequeues a note that waits for the user's consent: the backlog of
\* an earlier version (ensure_legacy_migration), and what the user held unless
\* a flush had it in its hands.  Between the two statements of dequeue_pending
\* a hold comes too late: the second locks and reads the rows the first
\* selected, whatever next_retry_at says by then.
NoHeldDequeue ==
  [][\A f \in Flushers : \A e \in batch'[f] \ batch[f] :
       e.sha \notin blocked]_vars

\* What upsert_note promises: a content that was written and is not on the
\* platform is queued for upload.
ChangedNoteQueued ==
  \A c \in Commits : Exists(c) /\ notes[c].synced => notes[c].content = server[c]

\* A note waiting for upload does not wait for ever: it is uploaded, given up
\* after MaxAttempts failures, held or deleted, also when the daemon died with
\* the row locked.
PendingNoteSettles ==
  \A c \in Commits :
    (Unsynced(c) /\ notes[c].attempts < MaxAttempts)
      ~> (~Unsynced(c) \/ notes[c].attempts >= MaxAttempts \/ notes[c].retry = "held")
=============================================================================
