# Autter CLI: formal models

TLA+ models of the Autter daemon and of the state it shares with the command
line, the TLC configurations that check them, and proofs for the TLA+ proof
system (TLAPS). Everything is translated from the Rust sources under
`src/src/`; line numbers below refer to them.

Autter records which lines of a repository an AI agent wrote. A background
daemon listens to git's trace2 events and to checkpoint requests of agent
plugins, keeps a working log per repository, and turns it into *authorship
notes* when commits are made. Notes, metrics, transcripts, file changes and
summaries are queued in SQLite databases and uploaded by the daemon.

## 1. Inventory

### How the parts interact

```
 git processes ──trace2──► connection threads ──bounded channel──► ingest worker
                              (TraceIngress)                           │
 git wrapper ──pre, post state──► wrapper states ──────────► trace normalizer
                                                                       │
 agents, editors ──control socket──► checkpoint handlers ──►  family sequencer
        │                                                              │ side effects
 bash tool hooks ◄──watermarks, sessions──  family actor  ◄── commands ┤
                                                                       ▼
                     working log (AttributionTracker, CheckpointFile) ──► git notes
                                                                       │ CommitReplay
     command line ───────────────► notes-db, metrics-db, internal-db ◄─┘
                                               │
              telemetry worker, stream worker ──HTTPS, sign-in──► platform
```

| Component (source) | State | Operations | What is hard | What makes it correct |
|---|---|---|---|---|
| Trace ingress: connection threads and queue (`daemon.rs` 4120–5600, 8600–8700) | `TraceIngressState`, sequence counter, channel, reorder buffer | augment, stamp, enqueue, reorder, close accounting, fallback exit, clear | threads stamp and send in different orders; processes killed; children outlive their command | no gaps in the numbers; per-process order; every started command ends; its own exit wins |
| Trace normalizer (`daemon/trace_normalizer.rs`) | pending roots, deferred exits, completed roots | start, exit, finalize | exit before start, errors while finalizing | a root is completed at most once |
| Family sequencer (`daemon.rs` 4300–4720, 5990–6260) | ordered map of entries per family, slot per root, execution mutex per family, in-flight counter, pending AI edits | append pending root, replace, cancel, append checkpoint, drain, collect garbage | slot, lock and map are taken in separate critical sections; the collector runs between them | entries applied once, in start order, never two drains at once; nothing blocks a family for ever |
| Family actor and reducer (`daemon/family_actor.rs`, `reducer.rs`, `coordinator.rs`) | watermarks | record, prune | pruned across worktrees; raised by checkpoints of single files | a snapshot sees every file a command changed |
| Wrapper overlay (`daemon.rs` 8190–8288) | pre and post states by invocation | wait up to 750 ms, take, expire | late answers, lost wake-ups | both states of one command or none; no wait is for ever |
| Control API (`daemon/control_api.rs`, `daemon.rs`) | none of its own | checkpoint, flush, status, sessions, shutdown | one thread per connection | each request is answered |
| Checkpoints (`daemon/checkpoint.rs`, `commands/checkpoint_agent/`) | working log | Human, KnownHuman, AiAgent checkpoints | an editor's save caused by an agent's write | attribution of each line |
| Attribution (`authorship/attribution_tracker.rs`, `move_detection.rs`, `imara_diff_utils.rs`) | none | diff, move, merge, lines from bytes | offsets through three kinds of diff | text keeps its author |
| Commit attribution (`authorship/virtual_attribution.rs`, `post_commit.rs`, `daemon.rs` 600–1000) | working logs of commits | snapshot, split, carry over | the daemon replays a commit after it happened; partial staging | the note names the right lines and what is left is still known |
| Bash tool sessions (`bash_tool.rs`, `daemon/bash_sessions.rs`) | snapshots by session and tool use | start, end, prune | read-then-use watermarks, long commands | a changed file is attributed to the tool that changed it |
| Notes queue and uploader (`notes/db.rs`, `daemon/telemetry_worker.rs`, `git/notes_api.rs`) | table `notes`, auth back-off | upsert, dequeue, upload, mark, cache, evict | several flushes and processes on one table; crash with locked rows | each content reaches the platform; no double upload; nothing lost |
| Upload hold and consent (`upload_hold.rs`, `commands/onboard.rs`, `commands/sync.rs`) | migration marker, held rows of every queue | migrate, hold, release, purge | crash between hold and marker; a hold during a dequeue | no backlog is uploaded before consent |
| Commit summaries (`notes/db.rs` 567–713, `authorship/post_commit.rs`) | table `commit_summary_queue` | live upload, enqueue, dequeue, mark | re-enqueue during an upload | newest payload is uploaded |
| CAS queue (`authorship/internal_db.rs`, `cas_bridge.rs`) | table of transcripts | enqueue, dequeue, partial answers | stale locks, attempts | nothing leaves but for the server |
| Metrics (`daemon/telemetry_worker.rs`, `metrics/db.rs`, `commands/flush_metrics_db.rs`) | in-memory buffer, tables `metrics` and `metrics_held` | send live, store, replay, drop, hold | loop, manual flush and hold on the same rows | no event lost or doubled; refused ones do not block others |
| File changes (`file_changes/`) | table of counts | record, flush per organisation | touched while uploaded; local mode | a synced row is complete |
| Transcript streams (`daemon/stream_worker.rs`, `sweep_coordinator.rs`, `streams/`) | watermark and file metadata per session, task queues | notify, sweep, read, retry, drain at shutdown | watermark saved before the events are durable; file grows while read | no event lost or sent twice |
| Credentials (`auth/`, `api/client.rs`) | token file, lock file, refusal mark | login, refresh, logout | refresh token rotates; several processes | the newest token survives |
| Daemon lifecycle (`daemon.rs` 312–330, 3713–3830, 8904–9180) | lock file, sockets, shutdown flag | start, stop, restart | what a stop or a crash loses | every thread ends |

The remaining components (formats of agents' transcripts, git access, CI,
editor set-up, upgrade, configuration, reports, logging, rewrites of notes) are
listed in `PROJECT.json` with the reason each is left out.

## 2. Plan

Order of work, most important behaviour first. All of it is done but the last
line.

1. **FamilySequencer** and the queue it implements, **ReplayQueue**: everything
   that changes a repository's attribution passes through it.
2. **NotesQueue**: the part that promises durability and consent.
3. **TraceIngress**: decides that a command started and ended.
4. **StreamWorker**: transcripts up to the telemetry buffer.
5. **SummaryQueue**, **FileChangeQueue**, **TranscriptQueue**, **MetricsQueue**:
   the other durable queues, composed in `MCUploadQueues`. They differ in what
   identifies a row, in whether a row can change while it is uploaded and in how
   it is locked, so each has a module.
6. **AttributionTracker** and **CheckpointFile**: the algorithms of attribution.
7. **CommitReplay**: from checkpoints to notes, with a daemon that lags behind.
8. **BashTool**, **WrapperState**, **Credentials**: parts that read state in one
   step and use it in a later one.
9. Proofs: the invariants of 1–8, the action properties of the sequencer and of
   trace ingress, and the refinement of ReplayQueue.
10. Not done: what rebase, amend, reset, squash and cherry-pick do to notes; the
    start and stop of the daemon (lock file, pid file, sockets).

## 3. The modules

The recursion-free style (sets, functions, folds, sequences by index) keeps the
detailed modules within TLAPS' reach. Definitions named `X_Y` with the comment
*Mutant* are plausible wrong versions of `X`; no action uses them. They exist so
that one can see each property fail.

| Module | Models | Composed in | Proofs |
|---|---|---|---|
| `FamilySequencer` | threads of the sequencer | `MCFamilySequencer`, `MCTraceIngress` | `FamilySequencerProofs` |
| `ReplayQueue` | what the sequencer promises | instance in `FamilySequencer` | `FamilySequencerProofs` |
| `TraceIngress` | connection threads, channel, worker, normalizer | `MCTraceIngress`, `MCServices` | `TraceIngressProofs` |
| `NotesQueue` | table `notes` and its flushes | `MCNotesQueue` | `NotesQueueProofs` |
| `StreamWorker` | transcript streams | `MCStreamWorker` | `StreamWorkerProofs` |
| `SummaryQueue`, `FileChangeQueue`, `TranscriptQueue` | queues of commit summaries, file changes, transcripts | `MCUploadQueues` | `UploadQueuesProofs` |
| `MetricsQueue` | metric events and their upload | `MCUploadQueues` | `UploadQueuesProofs` |
| `AttributionTracker`, `CheckpointFile` | attribution of a file's bytes and lines | `MCFileEdits` | `FileEditsProofs` |
| `BashTool` | hooks around shell commands | `MCFileEdits` | `FileEditsProofs` |
| `CommitReplay` | working logs and notes of commits | `MCCommitReplay` | `CommitReplayProofs` |
| `Credentials`, `WrapperState` | sign-in, wrapper states | `MCServices` | `ServicesProofs` |

`MCFileEdits`, `MCServices`, `MCTraceIngress` and `MCUploadQueues` put instances
that share no state *side by side*: a variable (`side` or `which`) is chosen in the
initial state and only the instance it names takes steps, so the state space is
the sum and not the product. A property of such a module says which instance it
is about, and joins what the instance's module states separately. The sizes and bounds of
the instances of `MCServices` and `MCUploadQueues` are CONSTANTS of these modules, so that
their theorems hold for every value; the `.cfg` files choose the small ones.

### FamilySequencer and ReplayQueue

A family is a repository with its worktrees. State and code:

| Variable | Code |
|---|---|
| `entries`, `nextOrdinal` | `family_sequencers_by_family` (`BTreeMap<FamilySequencerOrder, _>`) |
| `slots` | `pending_root_slots_by_root` |
| `lock`, `arc` | `side_effect_exec_locks`: which mutex the map holds, which one a thread cloned |
| `ready`, `cur` | locals of `drain_ready_family_sequencer_entries_locked` |
| `inflight` | `inflight_effects_by_family` |
| `edits` | `pending_ai_edits_by_family` |
| `norm` | what the normalizer knows of a root |
| `opens`, `after`, `ran`, `leaked` | history variables for the properties |

The single ingest worker (`IngestStart`, `IngestTerminal`, `ReplacePendingRoot`,
`FinishDirect`, `WorkerGc`) and one thread per checkpoint request
(`CheckpointArrives`, `AppendCheckpoint`) share the steps of a drain
(`AcquireLock`, `CollectReady`, `BeginEntry`, `FinishEntry`, `EndDrain`). An
action ends where the code releases a mutex or awaits. The collector
(`GcStaleFamilyState`) runs from the worker and from the update-check thread.

The execution lock is modelled as the code has it: a mutex *object* stored in a
map. Two threads exclude each other only if they hold the same object, and the
collector removes objects that are in use (see findings); `lock[f]` counts the
replacements, and properties that only hold while it is 1 say so.

`ReplayQueue` has no threads, locks, slots or ordinals: an item enters its
family's queue once, open or closed (`Enter`), an open one is closed (`Close`), a
replayer takes everything before the first open item in one step (`Take`) and
leaves with it one by one in the order of the starts (`Leave`); what is not
sequenced is applied at once (`Bypass`). `FamilySequencer` maps `entries` to `queue`,
the entries in a drain's hands to `batch` and `ran` to `applied`. That it implements
`ReplayQueue` (`ReplaysQueue`) holds also when the collector has let two drains run
beside each other.

### NotesQueue

The table `notes`, with one action per SQL statement or per transaction, because
command line processes have connections of their own. `dequeue_pending` is two
actions (`DequeueSelect`, `DequeueClaim`) between which the daemon's own mutex
is held but another process may write. Times are reduced to what the queries
distinguish: a retry is due, later or held; a lock is free, fresh or stale.
`UploadNotes` sends one request per organisation and lets the platform apply
any part of a request whose answer is lost or negative. The writers are
`UpsertNotes`, `CacheSyncedNotes`, `HoldPendingUploads`, `ReleaseHeldUploads`
and `DeletePending`; `Crash` restarts the daemon and keeps the table. `raced`
records commits whose row was changed behind an upload: the exceptions that
`SyncedMatchesServer` and `UploadedByOne` name, and nothing more.

### TraceIngress

One process writes one connection (`Script`); the events of a command's
children carry the sid of its root. The steps of a connection thread are split
where it gives up the ingress mutex: `Read`, `Augment` or `AugmentReadOnly`,
`CaptureReflogs`, `Stamp`, `Enqueue`, then `RecordClose`, `EnqueueFallback`. The
worker is `Receive`, `Ingest`, `ClearRoot`, `Drained`, `StopWorker`. `known`
stands for the nine per-root maps that `trace_root_is_tracked` looks into: it
holds which kinds of fact are recorded.
The sequencer behind the normalizer is the set `slots`.

Left out: the `queued_trace_payloads` counters, which only tests read; the
completed-roots window of 16 384, which a root cannot outlive; the contents of
snapshots and reflogs; empty sids and poisoned mutexes. A command that is not
recognised as read-only is taken to move references.

### StreamWorker

Agents append to session files; a worker reads them from a watermark. State and
code:

| Variable | Code |
|---|---|
| `lines` | the files; a line stands for an event |
| `rows` | `tracked_streams`: `mark` is `watermark_value`, `size` is `last_known_size` with `last_modified` |
| `queue`, `delayed`, `drain` | `priority_queue`, `delayed_tasks`, `immediate_tasks` |
| `notices`, `requests` | the checkpoint and the sweep channel |
| `gate` | `SweepTriggerGate`: its cooldown of 30 s is over |
| `pc`, `task`, `mark`, `upto` | where `process_session_blocking` is, and its locals |
| `stopping`, `draining` | the stored shutdown permit, and the branch that takes it |
| `sharing` | `should_upload_transcript_with_remotes` |
| `sent`, `withheld`, `again`, `unsaved`, `missed` | history variables |

The branches of the `select!` loop are `ProcessNextTask` (or `DelayNextTask`),
`PeriodicSweep`, `FastSweep`, `RequestedSweep`, `HandleCheckpoint` and
`DrainImmediateTasks`. Each is atomic but the first and the last: a task goes
through `ReadIncremental`, `Submit` and `SaveWatermark` per batch and ends with
`RecordMetadata`, and agents, users, notices, triggers and crashes come between
these steps. An error may come wherever the code has a `?`: `ReadFails`,
`SaveFails`, `RecordFails`, and within a sweep (`EnqueueStreams` skips files whose
row cannot be read).

Abstractions. The worker awaits each task, so `in_flight` is empty whenever it
enqueues. The queues are sets of tasks, because of two equal tasks the second
finds what a later notice finds. Which of two tasks of one priority comes first
(the code compares session ids) and when the delay of a retry ends are left
open. Files exist from the start, may be empty, and grow by whole lines; they do
not shrink and are not deleted. A file's mtime changes with its size. The feature
flags are on, and every file is within the lookback window. Every agent has one
stream of its own per session, and Copilot a shared one besides; so has the
model.

### The other queues

* **SummaryQueue**: `commit_summary_queue`. The thread of `post_commit` (`Enqueue`,
  `LiveUpload`, `LiveSynced`) and the flush (`Select`, the claim, the read-back, the
  answers) find rows by the sha of the commit only. A summary is its version:
  the n-th time the commit was processed. `raced` holds commits that were processed
  again while a summary of theirs was being sent.
* **FileChangeQueue**: one count per file, sent whole; `Record` counts, in local
  mode without touching the upload state; the flush sends one request per
  organisation. `owed` is the count at the last change in connected mode.
* **TranscriptQueue**: `cas_sync_queue`. A row is named by the hash of what it holds,
  selected and locked by one statement, and kept after `MaxAttempts` failures.
* **MetricsQueue**: the daemon's buffer, the envelopes of a live upload (`Envelope` is
  the next one that `split_metrics_envelopes` makes of what is left), the
  rows it stores when an envelope fails, their replay in batches (a retried event
  gets a new row at the end), and the same by `autter flush-metrics-db`, with the ids
  that each has read. `Bad`, `Invalid` and `Huge` say what the server does with an event:
  it refuses it, finds it invalid or too large; all others it accepts.

In each, the user holds, releases and purges from another process, an answer may
be lost after the server has stored what was sent, and the daemon may crash
between any two statements. `held` and `late` are history: what a hold covers, and
what was already being sent then.

### AttributionTracker and CheckpointFile

`AttributionTracker` has the pure algorithms: the diff of lines with its runs of
changed lines compared by tokens, the fast path by lines for large files,
the forced split of whitespace, moved blocks, the transfer of attributions through
the resulting byte diffs, the filling of spans without an owner, merging, and
attributions of lines from those of bytes. A file is a sequence of symbols of one
byte, so offsets are positions. The diff library is external: the operators yield the
set of results for *every* longest common subsequence, and properties hold for
each. The thresholds of the source (32 KiB, 5000 lines) are constants, scaled to
the contents in `MCFileEdits`.

`CheckpointFile` is the history of one file in a working log: `Edit` changes the
worktree, `Checkpoint` is a Human, KnownHuman or AI checkpoint with its guards (the
latest entry or HEAD with INITIAL as the starting point, skipped if nothing
changed, files never touched by an AI, a save right after an AI edit), `Reject` the
checkpoint that is not carried out. `last` keeps the inputs and the diffs of the
last update for the properties.

A point is a position in the old content and one in the new. The diffs of an update
are the stretches between neighbouring *cuts* (`Edges`, `Placed`): the ends of matched
lines and, in a hunk compared by tokens, of matched tokens and of what lies between
them. So the code's counting of offsets, diff after diff, becomes a set of points of
which any two are comparable, and what `DiffsRebuildBoth` says of the diffs can be
proved of that set.

Three properties have `CleanMoves` as a condition, which is about what a move took along
(a block with another indentation takes the ranges of its old bytes: see
`EveryByteOwnedAlways`). `KeptLinesKeepAuthor` has one more: a line is *settled* unless
(`Unsettled`)

* a deletion marker lies in it, which counts for the line until the next entry only;
* it has a gap that an unclean move left: the next update fills gaps for a human, with
  the newest time, and the line becomes the human's although nobody touched it;
* the newest attributions in it are of two authors, or are an AI's white space, which
  `find_dominant_author_for_line_candidates` counts in an AI's checkpoint and in no
  other: who takes the next checkpoint decides for whom the line is named.

The attempt to prove the property without the last two failed for these reasons, and TLC then
showed both with contents of lines of more than one token; one line in `MCFileEdits`
is of that kind, for the gap.

### CommitReplay

One file of one worktree, its index, the commits, the daemon's queue, the working
log of each commit (`initial`, `entry`) and the notes. A line is a number of its
own, so a diff is what two versions do not share. A person writes without a
checkpoint. An agent's edit is a hook before it, any number of writes, and a hook
after it; the hooks are processes of their own (`orchestrator.rs` 409-465), and each
takes three steps: `ReadHead` finds the commit its checkpoint is for, `ReadFile` reads
the content, and `Request` asks the daemon for the checkpoint, a Human one before and
the agent's after. Everything else may happen between any two of these: a person's
write, a stage, a commit, another agent's hooks. `Stage` and `Commit` are git's, with
`git add -p` leaving a line out.

The daemon sees a commit when it comes to it. It checks that the base's log has the
file and that the file was not written since the commit (`CaptureCheck`), reads it
afterwards (`CaptureRead`; the two are `daemon.rs` 861 and 871), or reads nothing and
takes the commit itself (`CaptureSkip`). It applies checkpoints to the log of the
commit their hook saw (`Checkpoint`), and replays the commit (`CommitEvent`): it brings
the log up to the snapshot, converts line numbers of the worktree to the commit's
by the unstaged lines before them (`Unstaged`, `InCommit`), fills gaps between lines of
one agent (`Gaps`), and writes what is left as INITIAL of the new head
(`Carried`).

The properties have three exceptions, each of which the code really has:

* `doubtful`: lines that others wrote into an agent's edit, for which the agent may be
  named. That is a line written while somebody else's edit is open, from its first
  `ReadHead` to its second `Request`; when a commit falls into an edit, lines of others
  that it left in the worktree, because the second hook's checkpoint goes to a log
  that does not know them; and when two edits overlap, all there is.
* `missed`: lines of agents that may not be named although the agent wrote them. The
  edit was open when a commit was made, so its checkpoint comes too late for the note;
  the line was staged and gone from the worktree when it was committed; it was written
  between the daemon's check and its read; or it was there and neither the commit nor
  what was read has it.
* not `Intact`: commits some line of which is not in the content the note is made
  with; the conversion of line numbers is wrong for these by design.

`AuthorsNamed` has only the first and the third: content that is too new costs lines,
but names nobody wrongly.

### BashTool, WrapperState, Credentials

* **BashTool**: `PreQuery`, `PreSnapshot`, `PreStart` and their failures are the hook before
  an agent's shell command, `PostQuery`, `PostSnapshot`, `PostEnd` the one after it. Between
  any two of them the command, a person and the agent's editing tool write, the
  daemon applies checkpoints and raises its watermarks (`Apply`), sessions go stale
  and are pruned by the start of another (`GoStale`, `StartElsewhere`), and the daemon
  restarts. A file is its modification time.
* **WrapperState**: `StoreWrapperState` and `Lose` for the two reports of each command;
  `Begin`, `Register`, `Check`, `Take`, `Wait` for the worker with its deadline of 750 ms;
  `Collect` for entries a minute old. The step between the check and the wait is what the
  registration before the check is for.
* **Credentials**: a refresh token works once. `load_auth_token` of each process (`Call` to
  `Fill`) takes the refresh lock or goes on without it after ten seconds, reads
  again, sends, compares, and truncates and writes the file; `SignIn`, `SignInFill`,
  `SignOut` never take the lock. The server's view is the history variable `live`.

## 4. The runs

| Run | Configuration | Shows |
|---|---|---|
| `sequencer_order` | two checkpoints of one family, clock 0..1, with two sequenced commands and a collection after five payloads, with one command and the update check's collection at any moment, or with a command that is not sequenced | slots and entries agree, drains exclude each other, start order is kept, the in-flight counter is right on all paths; the threads implement `ReplayQueue`; handlers are answered and the queue empties |
| `ingress_order` | a command, its child, a stash listing; a channel of two places; one kill, one error. Beside it a pre-edit, a post-edit and a save of two files with an unsequenced command, events in either order, clock 0..2, one collection | numbers are in one place, per-process order, a command's own exit wins; a save of a file under edit is not applied |
| `notes_sync` | one note, two contents, two flushes, a hold, a fault | a row marked synced matches the platform; a pending note settles |
| `notes_batch` | two notes of two organisations, one a legacy row in any state, two flushes, a hold, a fault | no double upload; the legacy backlog, and what is held before a flush has it in its hands, waits for consent |
| `stream_lines` | a transcript and a shared trace file of a line each, a sweep request, one change of the settings, one failure, crash or shutdown | watermarks cover only what was handed over; no replay; a file that is behind looks changed; every line is handled |
| `file_edits` | up to three checkpoints over eight contents of up to six lines, with three INITIALs. Beside it two files, one command, three moments, one fault | diffs rebuild both contents, every byte has an owner, kept text keeps it and inserted text is its author's; what a shell command changed is reported |
| `commit_replay` | a file of one line, two more written by a person or two agents, two commits; two edits with no deletion, or one edit with one | logs and notes name an agent only for its lines, but for what others wrote into its edit (`doubtful`); notes are complete and what is left is still known, but for that and what came too late (`missed`) |
| `upload_queues` | two rows in each queue; three metric events of which two are refused, and three of which one is invalid and one too large | nothing is lost; the server gets the latest; holds are kept; refused metrics do not block others |
| `services` | two processes and two logins; two wrapped commands; a command with a child, one kill, one error, a shutdown | a stored login works; overlays are whole; no wait is for ever; a started command ends; a shutdown ends every thread |
| `gc_drops_busy_locks` | one command, two checkpoints, a collection after every payload | *violation*: the collector removes locks in use |
| `notes_lost_update` | one note written twice | *violation*: the second content is marked synced unsent |
| `commit_guesses` | one agent with one edit, three lines written, one commit | *violation*: a person's line between two of an agent is credited to the agent |

### Bounds

* FamilySequencer: `MaxClock` bounds time; two instants are enough for two starts
  to differ, three for an edit to expire (`EditTimeout`). `GcInterval` (500 in the
  code) is small so that a collection falls between the steps of a thread (after
  the fifth payload of six, and after every one in `gc_drops_busy_locks`); where
  the update check collects (`MaxPeriodicGc`) the worker has too few payloads to
  do so too, and initial states of `sequencer_order` have its collections used up
  where both commands run (`Situations`). Families do not interact but through the collector and the
  worker, and the proofs cover any number of them. Two commands and two
  checkpoints give every pair of actors that can meet.
* NotesQueue: two flushes are what the code runs (the loop and a request), more
  only repeat the second. `BatchSize` 1 or 2 for 50, `MaxAttempts` 2 for 6,
  `MaxCacheRows` 0 or 1 for 10 000: what matters is a batch that leaves rows
  behind or not, the last attempt, and a cache that overflows. `MaxWrites`,
  `MaxHolds` and `MaxFaults` bound how often users write or hold and how often
  something fails.
* TraceIngress: a script is a few of the events that the code treats differently:
  `exit` of a child and `cmd_name` of a listing in `ingress_order`, `atexit` and
  `def_repo` in `services`. `Capacity` 1 or 2 for 16 384 makes both the full channel
  and the full reorder buffer happen. `MaxBreaks` bounds killed processes,
  `MaxErrors` failed reads and failed finalizations.
* StreamWorker: `Batch` 1 for 1000, so that every line is a batch and
  anything may fall between two lines; `MaxRetries` 2 for 4, which gives one retry
  and one task that is dropped; `MaxRequests` 1, because a second request cannot
  be sent before the cooldown is over. `MaxFaults` 1: a fault's traces (an unsaved
  batch, a dropped task, an empty queue) are repaired or not before the next. One
  line per file is enough for a file to be behind, read, missed, replayed or
  stale; the invariants are proved for any number.
* The other queues: two rows, of which one can fail or be held while the other
  does not; `MaxVersions` and `MaxTouches` 2, so that a row changes once while it is
  sent; `MaxFaults` 1 to 3, each a lost answer, a refusal, a crash or a slow upload;
  `MaxAttempts` 2 for 6. `BatchLimit` 2 for 1000 with three events: a batch may be full
  of refused ones.
* CheckpointFile: three checkpoints give an attribution that was itself carried
  over before it is carried over again. The contents differ from each other by a
  deletion, an insertion, an edit inside a line, a moved block, a block moved and
  indented, a block pasted twice, and line endings. `MoveThreshold` 2 for 3 lines; the
  size limits lie between the contents' sizes, so both diff paths are taken.
* CommitReplay: two lines beside the one of the first commit are the least for a
  line of a person and one of an agent to be staged separately; the second commit takes
  up what the first left. `MaxEdits` 2 gives a second edit after a commit, by the same
  agent or the other. A deletion and a second edit are explored in turn (`MCInit`), and
  the second agent begins when the first has written and is done (`InTurn`), as all that is
  there when edits overlap is in doubt. `MaxQueue` 2 puts a checkpoint behind a commit, a
  commit behind a checkpoint, or two of a kind; the proofs have none of these bounds.
* BashTool: three moments: the first snapshot, a write in the grace window, one after it.
  One fault: a failed request, walk or application, an interruption, or a restart.
* Credentials: `MaxLogins` 2, `MaxUses` 1 (expiries of each login), one fault. WrapperState
  has no bound but the two commands.

Deadlock is checked where the system never stops (`sequencer_order`, `notes_*`,
`stream_lines`). In the other runs every process ends or a bound is reached, and the
system rightly stops.

### Fairness

* FamilySequencer: `WF` of the worker and of each handler. The worker's step
  includes the arrival of a command's next event: git processes end, and
  TraceIngress shows that an end is always reported. A handler that waits for
  the mutex is treated fairly because tokio's mutex is first come, first served
  (here weak fairness suffices, each thread drains once).
* NotesQueue: `WF` of the flush loop's tick, of each flush's next step, and of
  time (a retry falls due, a lock grows old, the back-off ends). Nothing is
  assumed of users, of the platform's answers or of crashes.
* TraceIngress: `WF` of the worker and of each connection thread; `Thread` does
  not contain `ReadFails`, so errors never have to happen. `RequestShutdown` is
  not fair: a shutdown need not come.
* StreamWorker: `WF` of the steps of a task and of the drain, of the cooldown and
  of the exit of a daemon that was told to stop. `SF` of the full sweeps together and of
  the processing of each file, because `select!` picks at random among the
  branches that are ready: a full sweep is ready again and again, as a periodic tick
  finds the gate open or closed by a request that is in the channel, and ticks
  (10 per second) outnumber notices. No fairness of agents, users, notices, fast
  sweeps, errors or crashes: lines must arrive without any notice.
* MetricsQueue: `WF` of the flush loop (a tick every three seconds). The manual
  flush is a user's.
* Credentials: `WF` of the steps of one process, `Steady`; the others may stall for ever
  with the lock in their hands.
* WrapperState: `WF` of the worker, of the deadline (a timer), of an entry's growing old and
  of the collector, which the update-check thread calls. Reports are not fair.

### Findings

* `gc_drops_busy_locks`: `retain(|_, lock| Arc::strong_count(lock) <= 1)`
  (`daemon.rs` 4425) keeps idle mutexes and drops those in use. The next thread of
  the family runs a second drain beside the first.
* `notes_lost_update`: `mark_synced` does not ask whether the content it
  acknowledges is the content in the row.
* `commit_guesses`: `to_authorship_log_and_initial_working_log`
  (`virtual_attribution.rs` 1782) gives lines without attribution between two lines of one
  agent to that agent, wherever they are and whoever wrote them; `README.md` 276
  says that nothing is guessed.

What else was met while modelling is excluded from the properties by name, and no
run is spent on it:

* Two agents that edit one file share its pending entry: the first post-edit ends
  the second agent's protection (`daemon.rs` 4487; `tests/integration/pending_ai_edit_suppression.rs`
  33 speaks of one agent).
* A hold between SELECT and UPDATE of a dequeue, or during an upload that fails, does
  not keep the note (`notes/db.rs` 437 and 464, 556, 596), although `upload_hold.rs` 29
  says that a held item is never dequeued. `NoHeldDequeue` excludes the rows a flush has
  in its hands when the hold comes (`Underway`).
* A command that is not sequenced and whose side effects panic leaves the count of
  effects in flight raised (`daemon.rs` 7923-7930: nothing catches the panic between
  `begin_family_effect` and `end_family_effect`; `leaked`).
* `process_session_blocking` reads until a batch is empty and then records the
  size the file has *by then* (`stream_worker.rs` 1104): a line that falls between is
  unread, and no sweep looks at the file again until it grows or a checkpoint names
  it (`missed`).
* A block that is moved and indented takes the ranges of its old bytes
  (`attribution_tracker.rs` 961; `CleanMoves`, `EveryByteOwnedAlways`).
* A line that nobody touches may change its author: with a gap that such a move left, or
  with white space of an AI among its newest attributions (`attribution_tracker.rs`
  2076; `Unsettled`).
* A known human's lines are nobody's after a plain Human checkpoint of the file
  (`daemon/checkpoint.rs` 662).
* A line that a person writes between an agent's hooks is in the content of the second
  and not of the first, so the agent is credited with it (`orchestrator.rs` 409-465;
  `doubtful`).
* A line that an agent wrote and somebody committed before the hook after the edit has
  run is in no note: the checkpoint goes to the log of the new commit, where the line
  is not new (`missed`).
* What is written between the check of the file's time and its reading is taken for
  the commit's worktree (`daemon.rs` 861 and 871); an agent's line among it becomes
  a person's (`missed`).
* A refresh compares and writes in two steps, and may be stored over a login that came
  between (`credentials.rs` 166; `raced`, `LoginNotOverwritten`).
* Every Human checkpoint, also of one file, raises the watermark of its worktree
  (`daemon.rs` 6365), which `family_actor.rs` 139 calls full-repository
  (`WatermarkIsCapture`). Per-file watermarks have absolute paths and are looked up by
  relative ones (`daemon.rs` 1647; `bash_tool.rs` 644), so none is found.
* What a shell command writes within the grace window after the first snapshot is
  not reported (`bash_tool.rs` 30; `QuickEditsReported`), nor is what it writes while it
  creates the repository's first index.
* Bash sessions older than 300 s are pruned by any start (`bash_sessions.rs` 24), while
  `query_active_for_repo` (58) uses sessions of any age.
* A summary of a commit that is processed again while its earlier one is sent is
  deleted by the answer (`telemetry_worker.rs` 362; `raced`). The same happens to a
  file's count (`file_changes/db.rs` 371).
* A file's total includes what was touched in local mode, once the file is touched in
  connected mode.
* A command that runs longer than a minute loses its pre state to the collector;
  commands that a family sequencer applies never ask for theirs.
* After a read error with another connection open a root stays pending
  (`Leaked` in TraceIngress).

## 5. The proofs

All theorems hold for every value of the constants that satisfies the named
assumptions (`ConstantsAssumption`, `StartsAssumption`, `IdleAssumption`,
`NoneAssumption`, `NotesAssumption`, `RowAssumption`, `IngressAssumption`,
`StreamAssumption`, `AbsenceAssumption`, `BoundsAssumption`, `CommitAssumption`,
`UploadAssumption`, `ServicesAssumption`, `TrackerAssumption`, `CheckpointAssumption`,
`ShellAssumption`), which TLC also evaluates in the runs. They say that absent values
differ from present ones, that bounds are natural numbers, that a first version has no
line twice, and, of the environment, that a git process writes one start
(`StartsAssumption`, the last part of `IngressAssumption`). Two theorems have a
hypothesis of their own:

* `EffectsAreCounted` supposes finitely many requests, because `inflight_effects` is
  compared with a cardinality;
* `SavesAreSuppressed` supposes `OneAgentPerFile`: who ends an edit of a file is the agent
  that announced one. Without it the property is false (section 4,
  first item of what was met while modelling).

**FamilySequencerProofs** has three layers.

The first is `Inductive`: `Spec => []IInv`, from which `TypeCorrect`,
`SlotsAndEntriesAgree`, `NoEntryOverwritten` and `DrainsExclusive` follow. None of the
safety invariants is
inductive alone. `SlotFindsItsEntry` needs `PendingEntryHasOwner` (a drain must
not take the entry a slot names) and `OrdinalsFresh` (an insert must not
overwrite it), and these need it in turn. The collector is the reason
`OrdinalsFresh` needs an argument at all: it resets `next_ordinal`, but only of an
empty map. `JobInv` says what the worker carries at each of its program
locations; `LockInv` says that a thread between acquisition and release has
cloned the mutex the map held or an earlier one, and that two holders of one
mutex are the same thread.

The second is `QInductive`: `Spec => []QInv`, with `ImplementsReplayQueue`
(`Spec => ReplaysQueue`) and `AppliedOnce` (`AppliedAtMostOnce`). `QInv` adds to `IInv`:
`DrainInv`, what a drain has in its hands (nothing unless it drains, no PendingRoot,
and the entry it runs precedes the rest); `PlaceInv`, an item is in the map of its
family or in one thread's hands, once, and not applied then; `EntryInv`, an item that
still has to enter was neither queued nor applied. `EntryInv` is where the trace
events come in: a root starts once (`StartsAssumption`), and its slot, its normalizer
state and its remaining events together say whether it has entered. For the
refinement each step is shown to be a step of `ReplayQueue` under the mapping: an
append of either kind is `Enter`, `ReplacePendingRoot` is `Close`, `CollectReady` is `Take`,
`FinishEntry` (or `BeginEntry` over canceled entries) is `Leave`, `FinishDirect` is `Bypass`,
and all others stutter; the lemmas `StepEnter` to `StepStutter` prove each from a
description of how `entries`, the hands and `ran` change, so that the proof about the
actions does not mention the abstract state. The proof needs no exclusion of drains:
it holds when the collector has broken it.

The third has one invariant for each property that is about what drains do.
`StartsInOrder` (`StartOrderRespected`) rests on `DepartInv`: whatever precedes, in a
family's map, something a drain has taken from it arrived after that had left,
because `collect_ready` takes a prefix of the order. `EffectsAreCounted` (`InflightCounted`) rests
on `CountInv`, which names the counted threads of a family as a finite set that each
begin and each end changes by one; a panic of a command that is not sequenced takes its
thread out of the set and leaves the count, which `leaked` makes up for. `SavesAreSuppressed` (`SaveDuringEditSuppressed`, an
action property) rests on `OpenInv`, which ties the history of open edits to
`pending_ai_edits`: while an announced edit is younger than the limit, its file has an entry that is not
older, whoever else announces, ends or collects edits; by `FilesInv` and `RunningBegins`
a save begins with those of its files that have no young entry.

**NotesQueueProofs.** `TypeCorrect`; `OneUploader` and `SyncedIsUploaded` from
`UploadInv`, which follows a row through the flush: a row in a flush's hands is
locked fresh or stale and has the content that was read, unless the commit is in
`raced`; a request in flight with a positive answer has the platform's content.
`HeldNotesWait` (`NoHeldDequeue` as an action property) covers the legacy backlog and
what the user holds, but for the rows a flush has in its hands when they are held:
those are sent, and after a failed answer retried.
Its invariant `LegacyInv` says that a blocked note is
pending and in no flush's hands, and that it is held as soon as the marker is
saved or some flush has got past its hold.

**TraceIngressProofs.** `TypeCorrect`; `NumbersHaveNoGaps` (`StampedInOnePlace`)
by following each number from the counter to a thread, the channel, the buffer
and the worker; and `OrderOfEvents` (`ConnectionOrderKept`): a payload in transit
of one connection carries a larger number if it was read later (`OrderInv`), which
needs that a thread has at most one payload in its hands (`HandInv`) and that the
worker handles numbers in order. It holds whatever other threads, kills, read
errors, overflows and shutdowns do.

`ExitsEndCommands` (`EndedByItsExit`) builds on these. Its invariant `LifeInv` follows a
root from the first line of its process to its end: what has been read of each script
(`ReadInv`), why a thread has ended (`EndInv`), and, while the worker runs, where each
event of the root is (`EventInv`, `SentInv`), what the normalizer knows of it
(`NormInv`, `DeferredInv`), and two facts about `trace_root_open_connections`: the count is
at least the number of live connections until the root is over (`CountInv`), and so a
fallback that is not one of the `early` ones is sent when the root's process has
nothing left to be read, and is behind all it wrote, its exit included (`LastInv`): it
finds the command finalized.

**StreamWorkerProofs.** `TypeCorrect`, `NoLineSkipped` (`SavedIsHandled`), `NoReplay`
(`HandledOnce`) and `StaleWhenBehind` (`BehindLooksStale`), from `Inductive`. The
invariant `StreamInv` adds six parts: every queued task has a row (`QueueInv`); a
busy worker's own watermark is the saved one (`WorkInv`), because nobody else
moves it; a batch lies between that watermark and the end of the file
(`BatchInv`) and has been handed over when its watermark is saved (`SubmitInv`); no
watermark or size was recorded that the file does not have (`FileInv`); and what was
handed over lies below the saved watermark, or is in the worker's hands, or was
there when it failed or died (`HandledInv`). `HandledOnce` is `HandledInv` seen from
the next `Submit`: its batch starts at the saved watermark.

**CommitReplayProofs.** `AuthorsAreNamed` (`AuthorsNamed`), `NotesAreComplete`
(`NoteIsComplete`) and `UncommittedLinesAreKept` (`UncommittedKept`), from
`QueueAndLogAgree`: `Spec => [](Sound /\ Complete)`. The properties speak of a log and of
notes that the daemon has written; whether they come out right is decided earlier, by the
hooks that have read and not yet asked, and by what is still in the queue. So the
invariant is mostly about these. It has two halves, as the second needs the first and
not the other way round.

`Sound` is what names the right author. The queue leads from the commit whose log is
in use to HEAD, one commit at a time, and a checkpoint for a commit comes before the next
commit or is never read (`Queued`); versions share their order (`Ordered`), and a
line that is in a commit and later still is in all between (`Convex`); what is written
after a hook has read is in doubt, or the agent's own (`Hooks`). An agent's checkpoint names
it for what the log lacks; so whatever others wrote must, when its turn comes, be in
the log, in the commit or in doubt, which `Kept` says of checkpoints in the queue and
`Around` of those that an open edit will still ask for.

`Complete` is what loses no line. A line of an agent that a later commit or the worktree
still has (`Needed`) is known to the log or is still to be asked for (`KnownLines`,
`Pending`); what is asked for is new to the log it goes to (`AskedIsNew`); and each
content that will stand for the worktree has every line there was when the daemon looked, and
none that came later without being `missed` (`LaterIsPending`, `Snapped`).

The first part of the module is about sequences and about one commit: insertion, deletion and
filtering keep `SameOrder`, and the conversion of line numbers is right for any two
versions that share their order.

**FileEditsProofs.** `BytesAreAccounted` (`BytesAccounted`), `BytesAreTheirAuthors`
(`BytesNameTheirAuthor`), `KeptLinesKeepTheirAuthor` (`KeptLinesKeepAuthor`) and
`ShellEditsAreTheCommands` (`ShellEditsReported`), of files of
any length over any symbols, any authors and thresholds, any number of checkpoints, and
every longest common subsequence the diff library may return.

For checkpoints the invariant is `FilesOK`: types, attributions finite in number and none
later than now (`Credited`), and of the last update that it kept its promise (`Account`,
from `UpdateOK`). `UpdateOK` is what `UpdateAttributions`
promises for every input, and the long part of the module (the lemmas up to `UpdateResult`)
is about it:

1. *Sets in order.* `Ordered` lists a finite set by a strict order; the lines of a content
   cover it, one after the other; `Edges` of a finite set of comparable points
   partition both contents.
2. *Diffs.* Matched lines or tokens are comparable points, the corners of `Box` too, and
   a hunk's cuts stay between its ends (`TokenDiffs` is the hard case: deleted and inserted
   tokens are pulled together from between two matched ones). Then each stretch becomes one
   equal diff or a deletion and an insertion, and the script rebuilds both contents.
3. *Moves.* The extents that `DetectMoves` yields lie within one deletion and one
   insertion, and of clean moves no two bytes of a deletion go to one place.
4. *Owners.* What each diff adds is described byte by byte: a byte of an equal diff has the
   owners it had, a byte of an insertion the author or, if moved, the owners at the source.
   `Transform` is the union of the parts along the script, and no other part reaches
   the bytes of a diff. Merging changes no byte's owners.
5. *Lines and gaps.* `FillGaps` leaves no byte without an owner and changes none that has one.

`KeptLinesKeepTheirAuthor` (`KeptLinesKeepAuthor`, an action property) is about the step from one
checkpoint to the next, and owners of bytes are not enough for it: the line list of the old
entry was made by another checkpoint, of another kind, or mapped there by a change of
line endings. So `EntryNamed` is invariant as well: a line *hears* the owners of the
bytes that have a say in it (`Hears`: tokens, in a blank line every byte, in an AI's
checkpoint the AI's white space), and every line without a deletion marker is named for one of
the newest it hears, or for the human if it hears none (`Heard`). For an update's entry this is
`DominantHeard` and `LinesAreNamed`; for mapped lines (`MappedLines`) it needs that contents
that differ in line endings only have the same number of lines (`SameTextLines`). A kept line
hears the same before and after (`KeptLineHears`, from `KeepsOwners`), no marker gets
into it (`KeptLineUnmarked`, from where the update leaves markers, `MarksAre`), and if
it was settled there is one name only to choose from (`SettledName`).

Recursive functions (`walk`, `merged`, `visited`) need induction. The library's induction
theorems cannot be used here, so the module takes the least index at which a claim
fails (`LeastNat`, from the theorem that `<` is well founded) and derives a contradiction
from the index before it. `AttributionTracker` was put in its present form, with cuts
instead of a fold over diffs, for this proof.

For the shell the invariant is `ShellInv`, which is
`TypeOK`, `QueueInv`, nothing later than now (`PastInv`), and for each call: its watermark
and its writes are in the past (`Timely`); what its first snapshot says of a file still
holds, or the file was written since (`Compares`); hooks that met no fault have their
snapshot or their session (`Keeps`); a session lasts no longer than its command
(`Proceeds`); and the report has what the command wrote (`Reports`). `Fresh` in `Compares` is the heart: a file that the snapshot lacks
was covered by the watermark *in use for both snapshots*, so a daemon that raises its watermark
between the hooks cannot turn an old file into the command's.

**UploadQueuesProofs.** `QueuesKeepTheirRows` (`NothingLost`), `HoldsWait`
(`HeldUntilReleased`) and `MetricsAreKept` (`MetricsKept`). For commit summaries, file
changes and transcripts there is an invariant of each: a queued row is the last version of what it describes, and what a flush has
in its hands is the last version unless the row changed in the meantime (`FlightInv`,
`TotalInv`); what is about to be recorded as stored is on the server (`AnswerInv`, `StoredInv`);
a held row that is being sent was taken before it was held (`SentInv` and its kin);
attempts are failures and these are faults (`AttemptsInv`).

For metric events the invariant is `MetricsHold`: an event is in one of the buffer, the
upload's hands, the table and the held table, and there once (`OneRowInv`); the ids a
process has read name rows that are still there (`IdsInv`), so that rows moved to the end by
a retry were in the table then and not held; what is deleted as accepted is on the
server, and what is dropped is hopeless (`FateInv`). The rows are a sequence that is filtered, cut
and joined, and what that does to a list of any length is proved first
(`WithoutFacts`, `ConcatFacts`, `SplitFacts`, `EnvelopeFacts`). The induction that `WithoutFacts`
needs does without the library's induction theorems: `LeastNat`, from the
library's theorem that `<` is well founded, gives the least length for which a claim
fails, and the step from the length before it contradicts that.

**ServicesProofs.** `SignInsAreKept` (`SignInsWork`) and `OverlaysAreWhole`
(`OverlaysMeet`). For the sign-in the invariant follows the tokens: none is
used or stored that was not given out (`KnownInv`); the last token of a login is in the
file, in one process's hands or spilt, and no one has used it (`UnstoredInv`, `WorksInv`);
only what was refused is marked as refused (`RefusedInv`); a token is sent once, or again
by the retry (`OnceInv`); and one writer at a time fills the file it truncated (`RaceInv`). For
the overlay: what both requests brought is complete, and what is about to be taken is
complete or was collected (`OverlayInv`).

Only model-checked: liveness under fairness, which is out of TLAPS' reach: `HandlerAnswered`,
`QueueDrains`, `PendingNoteSettles`, `PendingRootEnds`, `ShutdownEndsThreads`,
`AppendedIsHandled`, `GoodEventsDelivered`, `CallReturns`, `OverlaysEnd`.

## 6. What the models do not show

* In FamilySequencer the side effect of a command or checkpoint is one step that
  succeeds or fails; what it does is in CheckpointFile and CommitReplay, which take
  the order of the queue for granted.
* `EndedByItsExit` excludes one case on purpose (`early`): a child's connection is
  read and closed before the daemon reads the first line of its root. The code
  then sends a fallback for a command that is still running.
* `HandlerAnswered` assumes that side effects end.
* Exit codes are abstracted: a fallback reports code 0 for a killed process.
* Wall-clock jumps (`started_at_ns` comes from git, registration times from the
  daemon) appear only as a start time that is any instant up to now.
* A `git stash list` is recognised as read-only by its arguments, so its `cmd_name`
  and `atexit` events enter the queue, which a comment (`daemon.rs` 4133) excludes.
  `ingress_order` explores it; no property is about it.
* A transcript line leaves StreamWorker when it is in the telemetry worker's
  buffer; MetricsQueue begins there. A trace
  span that names no session, which the code drops, counts as submitted.
* CheckpointFile: binary files, renames, ignore rules, statistics and the transcript of a
  checkpoint. A checkpoint that arrives without files is in FamilySequencer
  (`CheckpointArrives`), but no run sends one.
* CommitReplay: several files and worktrees; hooks that fail or whose request is lost,
  and agents that never reach their second hook but for staying at work; a commit is
  one step, so nothing comes between its writing of HEAD and the time it ends, which is
  the one a file's is compared with; checkpoints of known humans, whose names a later Human
  checkpoint drops; an error of `post_commit` after it has written
  the note (`post_commit.rs` 219–290), which leaves the log of the parent; what a
  checkpoint does while a commit is half replayed, which the sequencer excludes.
* The rewrites of notes (amend, rebase, cherry-pick, squash, reset, stash;
  `rebase_authorship.rs`, `git/rewrite_log.rs`) are not modelled. They are sequences of
  git subprocess calls over commit graphs whose result depends on the contents of
  many trees; a faithful model needs commits as objects with parents, trees and
  notes, and git's own rewriting as an environment, which none of the present modules
  has.
* BashTool: deletions, files whose modification time a command sets back, ignore
  rules, and the tables of tool names. The entries of per-file watermarks have no
  values, as none is ever found.
* Credentials: personal access tokens, the migration of legacy tokens, and the expiry
  of refresh tokens.
* The lock file, pid file and sockets of the daemon, and its self-update: system calls
  between whole processes, with no state in the program to relate.
