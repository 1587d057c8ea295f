---------------------------- MODULE SummaryQueue ----------------------------
(***************************************************************************)
(* The queue of commit summaries (commit_summary_queue of                  *)
(* src/src/notes/db.rs), filled by post_commit                             *)
(* (src/src/authorship/post_commit.rs) and drained by the telemetry flush  *)
(* (src/src/daemon/telemetry_worker.rs).                                   *)
(*                                                                         *)
(* post_commit and the flush are threads of the daemon and share one       *)
(* database connection behind a mutex; `autter onboard` and `autter sync`  *)
(* change the table from processes of their own.  Rows are found by the    *)
(* sha of their commit only, never by what they hold.                      *)
(*                                                                         *)
(* made, server, raced, purged, held and late are history variables.                   *)
(***************************************************************************)
EXTENDS Integers, FiniteSets

CONSTANTS
  Shas,         \* commits
  MaxVersions,  \* bound: how often one commit is processed
  MaxFaults     \* bound: failed requests, lost answers, crashes, slow uploads

VARIABLES
  row,     \* the table: sha -> row
  post,    \* the thread that runs post_commit
  flush,   \* the thread that runs flush_commit_summaries
  faults,
  made,    \* history: the last summary computed for a commit
  server,  \* history: the summary the org database holds
  raced,   \* history: commits processed again while a summary was being sent
  purged,  \* history: commits whose row was deleted by `autter sync purge`
  held,    \* history: commits whose row a hold covers
  late     \* history: those that were being sent when they were held

consent == <<purged, held, late>>

vars == <<row, post, flush, faults, made, server, raced, consent>>

Absent == [version |-> 0, lock |-> "free", retry |-> "due"]

Queued(s) == row[s] # Absent

IdlePost == [at |-> "idle", sha |-> CHOOSE s \in Shas : TRUE, version |-> 0]

\* todo: what the dequeue returned; sent: the one whose answer is known.
IdleFlush == [at |-> "idle", picked |-> {}, todo |-> {}, sent |-> {}]

Init ==
  /\ row = [s \in Shas |-> Absent]
  /\ post = IdlePost
  /\ flush = IdleFlush
  /\ faults = 0
  /\ made = [s \in Shas |-> 0]
  /\ server = [s \in Shas |-> 0]
  /\ raced = {} /\ purged = {} /\ held = {} /\ late = {}

Fault == faults < MaxFaults /\ faults' = faults + 1

Summary(s, v) == [sha |-> s, version |-> v]

\* The summaries that are on their way to the server.
InFlight ==
  flush.todo \cup flush.sent
    \cup (IF post.at = "idle" THEN {} ELSE {Summary(post.sha, post.version)})

\* upload_commit_authorship_summary of the client: an upsert.  Its answer can
\* be lost after the server has done it.
Upload(s, v, accepted, refused) ==
  \/ /\ server' = [server EXCEPT ![s] = v]
     /\ \/ accepted /\ UNCHANGED faults
        \/ refused /\ Fault
  \/ refused /\ Fault /\ UNCHANGED server

\* The dequeue keeps the mutex of the connection until it returns.
MutexFree == flush.at \notin {"lock", "read"}

----------------------------------------------------------------------------
(* post_commit *)

\* Mutant: a summary that waits already is kept.
Enqueue_Ignores(s) ==
  /\ post.at = "idle"
  /\ MutexFree
  /\ made[s] < MaxVersions
  /\ made' = [made EXCEPT ![s] = @ + 1]
  /\ row' = [row EXCEPT ![s] = IF Queued(s) THEN @ ELSE [Absent EXCEPT !.version = made[s] + 1]]
  /\ raced' = IF \E m \in InFlight : m.sha = s THEN raced \cup {s} ELSE raced
  /\ purged' = purged \ {s}
  /\ held' = held \ {s}
  /\ UNCHANGED late
  /\ post' = [at |-> "upload", sha |-> s, version |-> made[s] + 1]
  /\ UNCHANGED <<flush, faults, server>>

\* enqueue_commit_summary: the newer summary replaces the row, its lock and
\* its hold.
Enqueue(s) ==
  /\ post.at = "idle"
  /\ MutexFree
  /\ made[s] < MaxVersions
  /\ made' = [made EXCEPT ![s] = @ + 1]
  /\ row' = [row EXCEPT ![s] = [Absent EXCEPT !.version = made[s] + 1]]
  /\ raced' = IF \E m \in InFlight : m.sha = s THEN raced \cup {s} ELSE raced
  /\ purged' = purged \ {s}
  /\ held' = held \ {s}
  /\ UNCHANGED late
  /\ post' = [at |-> "upload", sha |-> s, version |-> made[s] + 1]
  /\ UNCHANGED <<flush, faults, server>>

\* Without a token the row is left to the flush.
LiveUpload ==
  /\ post.at = "upload"
  /\ \/ /\ post' = IdlePost
        /\ UNCHANGED <<server, faults>>
     \/ Upload(post.sha, post.version,
               post' = [post EXCEPT !.at = "synced"], post' = IdlePost)
  /\ UNCHANGED <<row, flush, made, raced, consent>>

\* mark_commit_summary_synced
LiveSynced ==
  /\ post.at = "synced"
  /\ MutexFree
  /\ row' = [row EXCEPT ![post.sha] = Absent]
  /\ post' = IdlePost
  /\ UNCHANGED <<flush, faults, made, server, raced, consent>>

----------------------------------------------------------------------------
(* flush_commit_summaries *)

Due(s) == Queued(s) /\ row[s].lock # "locked" /\ row[s].retry = "due"

\* dequeue_commit_summaries: locks older than ten minutes are dropped, and the
\* rows to send are selected.
Select ==
  /\ flush.at = "idle"
  /\ \E s \in Shas : Queued(s) /\ row[s].retry # "held"
  /\ row' = [s \in Shas |-> IF row[s].lock = "old" THEN [row[s] EXCEPT !.lock = "free"] ELSE row[s]]
  /\ flush' = LET due == {s \in Shas : Due(s)}
              IN  IF due = {} THEN IdleFlush
                  ELSE [IdleFlush EXCEPT !.at = "lock", !.picked = due]
  /\ UNCHANGED <<post, faults, made, server, raced, consent>>

\* The transaction that locks them, by sha.
Lock ==
  /\ flush.at = "lock"
  /\ row' = [s \in Shas |-> IF s \in flush.picked /\ Queued(s)
                            THEN [row[s] EXCEPT !.lock = "locked"] ELSE row[s]]
  /\ flush' = [flush EXCEPT !.at = "read"]
  /\ UNCHANGED <<post, faults, made, server, raced, consent>>

\* The payloads are read back.  A row that is gone fails the whole dequeue.
ReadBack ==
  /\ flush.at = "read"
  /\ flush' = IF \E s \in flush.picked : ~Queued(s) THEN IdleFlush
              ELSE [IdleFlush EXCEPT !.at = "send",
                      !.todo = {Summary(s, row[s].version) : s \in flush.picked}]
  /\ UNCHANGED <<row, post, faults, made, server, raced, consent>>

\* No org token for this row's repository, a refusal or a lost answer.
FlushUpload(m) ==
  /\ flush.at = "send"
  /\ flush' \in {[IdleFlush EXCEPT !.at = a, !.todo = flush.todo \ {m}, !.sent = {m}] : a \in {"synced", "failed"}}
  /\ Upload(m.sha, m.version, flush'.at = "synced", flush'.at = "failed")
  /\ UNCHANGED <<row, post, made, raced, consent>>

AfterAnswer ==
  IF flush.todo = {} THEN IdleFlush ELSE [IdleFlush EXCEPT !.at = "send", !.todo = flush.todo]

\* mark_commit_summary_synced: whatever the row holds by now is deleted.
FlushSynced ==
  /\ flush.at = "synced"
  /\ row' = [s \in Shas |-> IF \E m \in flush.sent : m.sha = s THEN Absent ELSE row[s]]
  /\ flush' = AfterAnswer
  /\ UNCHANGED <<post, faults, made, server, raced, consent>>

\* Mutant: a failed upload gives its row up.
FlushFailed_Deletes ==
  /\ flush.at = "failed"
  /\ row' = [s \in Shas |-> IF \E m \in flush.sent : m.sha = s THEN Absent ELSE row[s]]
  /\ flush' = AfterAnswer
  /\ UNCHANGED <<post, faults, made, server, raced, consent>>

\* mark_commit_summary_failed, which also ends a hold placed in the meantime.
FlushFailed ==
  /\ flush.at = "failed"
  /\ row' = [s \in Shas |-> IF (\E m \in flush.sent : m.sha = s) /\ Queued(s)
                            THEN [version |-> row[s].version, lock |-> "free", retry |-> "later"]
                            ELSE row[s]]
  /\ flush' = AfterAnswer
  /\ UNCHANGED <<post, faults, made, server, raced, consent>>

----------------------------------------------------------------------------
(* The rest of the world *)

BeingSent == flush.picked \cup {m.sha : m \in InFlight}

\* A retry time is reached.
RetryTime(s) ==
  /\ row[s].retry = "later"
  /\ row' = [row EXCEPT ![s].retry = "due"]
  /\ UNCHANGED <<post, flush, faults, made, server, raced, consent>>

\* Ten minutes pass since the row was locked; its upload may still run.
LockAges(s) ==
  /\ row[s].lock = "locked"
  /\ MutexFree
  /\ IF s \in BeingSent THEN Fault ELSE UNCHANGED faults
  /\ row' = [row EXCEPT ![s].lock = "old"]
  /\ UNCHANGED <<post, flush, made, server, raced, consent>>

\* hold_pending_uploads and release_held_uploads
Hold ==
  /\ row' = [s \in Shas |-> IF Queued(s) THEN [version |-> row[s].version, lock |-> "free", retry |-> "held"]
                            ELSE row[s]]
  /\ held' = {s \in Shas : Queued(s)}
  /\ late' = BeingSent
  /\ UNCHANGED <<post, flush, faults, made, server, raced, purged>>

Release ==
  /\ row' = [s \in Shas |-> IF row[s].retry = "held" THEN [row[s] EXCEPT !.retry = "due"] ELSE row[s]]
  /\ held' = {} /\ late' = {}
  /\ UNCHANGED <<post, flush, faults, made, server, raced, purged>>

\* delete_pending_commit_summaries
Purge ==
  /\ purged' = purged \cup {s \in Shas : Queued(s)}
  /\ row' = [s \in Shas |-> Absent]
  /\ held' = {} /\ late' = {}
  /\ UNCHANGED <<post, flush, faults, made, server, raced>>

\* The daemon dies and is started again.
Crash ==
  /\ Fault
  /\ post' = IdlePost
  /\ flush' = IdleFlush
  /\ UNCHANGED <<row, made, server, raced, consent>>

----------------------------------------------------------------------------

Post == (\E s \in Shas : Enqueue(s)) \/ LiveUpload \/ LiveSynced

Flush ==
  \/ Select \/ Lock \/ ReadBack
  \/ \E m \in flush.todo : FlushUpload(m)
  \/ FlushSynced \/ FlushFailed

Next ==
  \/ Post \/ Flush
  \/ \E s \in Shas : RetryTime(s) \/ LockAges(s)
  \/ Hold \/ Release \/ Purge \/ Crash

Spec == Init /\ [][Next]_vars

----------------------------------------------------------------------------
(* Properties *)

Versions == 0 .. MaxVersions

Rows == [version : Versions, lock : {"free", "locked", "old"}, retry : {"due", "later", "held"}]

\* The type of the state.
TypeOK ==
  /\ row \in [Shas -> Rows]
  /\ post \in [at : {"idle", "upload", "synced"}, sha : Shas, version : Versions]
  /\ flush.at \in {"idle", "lock", "read", "send", "synced", "failed"}
  /\ flush.picked \subseteq Shas
  /\ flush.todo \cup flush.sent \subseteq [sha : Shas, version : Versions]
  /\ faults \in 0 .. MaxFaults
  /\ made \in [Shas -> Versions]
  /\ server \in [Shas -> Versions]
  /\ raced \cup purged \cup held \cup late \subseteq Shas

\* "A commit must never lose its query-friendly provenance summary"
\* (post_commit.rs): one that was computed is queued, or the server has a
\* summary of the commit, or the user purged it.
SummaryNotLost ==
  \A s \in Shas : made[s] > 0 => Queued(s) \/ server[s] > 0 \/ s \in purged

\* What the server ends with is the last summary of the commit, unless the
\* commit was processed again while an earlier summary of it was being sent:
\* then the answer for the earlier one deletes the row of the later.
SettledIsLatest ==
  \A s \in Shas : ~Queued(s) /\ s \notin raced \cup purged => server[s] = made[s]

\* "A held item stays on disk but is never dequeued" (upload_hold.rs): unless
\* it was being sent when it was held, it waits for the user's decision.
HeldUntilReleased == \A s \in held \ late : row[s].retry = "held"
=============================================================================
