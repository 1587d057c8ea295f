---------------------------- MODULE StreamWorker ----------------------------
(***************************************************************************)
(* Transcripts: how the lines that agents append to their session files    *)
(* reach the platform.  The stream worker (src/src/daemon/stream_worker.rs *)
(* and sweep_coordinator.rs) reads files from a watermark kept in the      *)
(* table tracked_streams (src/src/streams/db.rs) and hands the lines to    *)
(* the in-memory buffer of the telemetry worker, which uploads them or     *)
(* keeps them in metrics-db (src/src/daemon/telemetry_worker.rs); here a   *)
(* line leaves the model when it is in that buffer.                        *)
(*                                                                         *)
(* The worker does one thing at a time: its loop awaits each task, so      *)
(* in_flight is empty whenever a task is queued and is left out.  A file   *)
(* stands for one stream of one session; it is there from the start, maybe *)
(* empty, and only grows, by whole lines, which a watermark counts.  The   *)
(* time the worker waits for a full buffer is left out.  A file's mtime     *)
(* says no more than its size.  A new file is young enough to be tracked.  *)
(* Queues hold sets of tasks: of two tasks that agree in every field the   *)
(* second reads what a later notice of the same file reads.  The delay of  *)
(* a retry may be over at any time.                                        *)
(* sent, withheld, again, unsaved and missed are history variables.        *)
(***************************************************************************)
EXTENDS Integers, FiniteSets

CONSTANTS
  Files,       \* stream files
  SharedFiles, \* those that serve all sessions (StreamDescriptor.shared)
  FastFiles,   \* those of agents with a fast sweep interval
  Otel,        \* the Copilot trace files a session's checkpoint enqueues
  Subagents,   \* the subagents' transcripts of a Claude session
  FirstChoice, \* what the user may have chosen before: to share, or not
  NoRow,       \* the file is not tracked
  NoTask,      \* the worker has no task
  Batch,       \* lines of one read_incremental
  MaxRetries,  \* max_retries (4)
  MaxLines,    \* bound: lines of each file
  MaxRequests, \* bound: sweep requests in the channel
  MaxSwitches, \* bound: changes of the privacy settings
  MaxFaults    \* bound: failures, crashes and shutdowns

ASSUME StreamAssumption ==
  /\ SharedFiles \subseteq Files /\ FastFiles \subseteq Files
  /\ Otel \in [Files -> SUBSET SharedFiles]
  /\ Subagents \in [Files -> SUBSET (Files \ SharedFiles)]
  /\ FirstChoice \subseteq BOOLEAN
  /\ Batch \in Nat \ {0}
  /\ MaxRetries \in Nat \ {0}
  /\ MaxLines \in [Files -> Nat] /\ MaxRequests \in Nat
  /\ MaxSwitches \in Nat /\ MaxFaults \in Nat

VARIABLES
  lines,     \* lines appended to each file
  sharing,   \* should_upload_transcript_with_remotes
  rows,      \* tracked_streams
  queue,     \* priority_queue
  delayed,   \* delayed_tasks
  drain,     \* immediate_tasks of drain_immediate_tasks
  notices,   \* the checkpoint channel: sessions notified
  requests,  \* the sweep channel
  gate,      \* the cooldown of SweepTriggerGate is over
  pc,        \* where the worker is
  task,      \* the task it processes
  mark,      \* current_watermark
  upto,      \* the watermark of the batch it has read
  stopping,  \* a shutdown has been requested
  draining,  \* the worker has taken the shutdown branch
  sent, withheld, \* lines submitted, lines passed over for privacy
  again,     \* lines submitted or passed over a second time
  unsaved,   \* lines handled in a batch whose watermark was not saved
  missed,    \* files that grew between the last read and the stat
  switches, faults

settings == <<sharing, switches>>
tasks == <<queue, delayed, drain>>
intake == <<notices, requests, gate>>
work == <<pc, task, mark, upto>>
stop == <<stopping, draining>>
handled == <<sent, withheld, again>>
vars == <<lines, settings, rows, tasks, intake, work, stop, handled,
          unsaved, missed, faults>>

----------------------------------------------------------------------------
Priorities == {"Immediate", "Low"}

Rows == [mark : Nat, size : Nat]

Tasks == [file : Files, priority : Priorities, retry : 0..MaxRetries]

ASSUME AbsenceAssumption == NoRow \notin Rows /\ NoTask \notin Tasks

\* The lines of a batch, and all there can be.
Span(f, i, j) == {<<f, k>> : k \in (i + 1)..j}
AllLines == Files \X (Nat \ {0})

Tracked(f) == rows[f] # NoRow

TypeOK ==
  /\ lines \in [Files -> Nat]
  /\ sharing \in BOOLEAN
  /\ rows \in [Files -> Rows \cup {NoRow}]
  /\ queue \subseteq Tasks /\ delayed \subseteq Tasks /\ drain \subseteq Tasks
  /\ notices \subseteq Files /\ requests \in Nat /\ gate \in BOOLEAN
  /\ pc \in {"start", "select", "read", "submit", "save", "record"}
  /\ task \in Tasks \cup {NoTask}
  /\ mark \in Nat /\ upto \in Nat
  /\ stopping \in BOOLEAN /\ draining \in BOOLEAN
  /\ sent \subseteq AllLines /\ withheld \subseteq AllLines
  /\ again \subseteq AllLines /\ unsaved \subseteq AllLines
  /\ missed \subseteq Files
  /\ switches \in Nat /\ faults \in Nat

Init ==
  /\ lines = [f \in Files |-> 0]
  /\ sharing \in FirstChoice
  /\ rows = [f \in Files |-> NoRow]
  /\ queue = {} /\ delayed = {} /\ drain = {}
  /\ notices = {} /\ requests = 0 /\ gate = TRUE
  /\ pc = "start" /\ task = NoTask /\ mark = 0 /\ upto = 0
  /\ stopping = FALSE /\ draining = FALSE
  /\ sent = {} /\ withheld = {} /\ again = {} /\ unsaved = {}
  /\ missed = {}
  /\ switches = 0 /\ faults = 0

Fault == faults < MaxFaults /\ faults' = faults + 1

----------------------------------------------------------------------------
(* Agents, users, and the two channels into the worker *)

\* An agent appends a line to a transcript.
Append(f) ==
  /\ lines[f] < MaxLines[f]
  /\ lines' = [lines EXCEPT ![f] = @ + 1]
  /\ UNCHANGED <<settings, rows, tasks, intake, work, stop, handled, unsaved,
                 missed, faults>>

\* The user shares the transcripts of the repositories, or keeps them private.
SwitchSharing ==
  /\ switches < MaxSwitches
  /\ sharing' = ~sharing
  /\ switches' = switches + 1
  /\ UNCHANGED <<lines, rows, tasks, intake, work, stop, handled, unsaved,
                 missed, faults>>

\* A checkpoint request names the session's transcript.
NotifyCheckpoint(f) ==
  /\ f \notin SharedFiles \cup notices
  /\ notices' = notices \cup {f}
  /\ UNCHANGED <<lines, settings, rows, tasks, requests, gate, work, stop,
                 handled, unsaved, missed, faults>>

\* A commit or a push asks for a sweep, unless one was asked for lately.
TriggerSweep ==
  /\ gate /\ requests < MaxRequests
  /\ requests' = requests + 1
  /\ gate' = FALSE
  /\ UNCHANGED <<lines, settings, rows, tasks, notices, work, stop, handled,
                 unsaved, missed, faults>>

\* Thirty seconds after the last sweep.
CooldownOver ==
  /\ ~gate
  /\ gate' = TRUE
  /\ UNCHANGED <<lines, settings, rows, tasks, notices, requests, work, stop,
                 handled, unsaved, missed, faults>>

----------------------------------------------------------------------------
(* Finding work *)

\* Mutants: the row is inserted anew, or with the size the file has by then.
EnsureStream_Anew(f) == [mark |-> 0, size |-> 0]
EnsureStream_Sized(f) ==
  IF Tracked(f) THEN rows[f] ELSE [mark |-> 0, size |-> lines[f]]

\* ensure_stream_session inserts a row and leaves an existing one alone.
EnsureStream(f) == IF Tracked(f) THEN rows[f] ELSE [mark |-> 0, size |-> 0]

NewTask(f, p) == [file |-> f, priority |-> p, retry |-> 0]

\* Enqueue files, but those whose row cannot be read or inserted.
EnqueueStreams(immediate, low) ==
  \E now \in SUBSET immediate, later \in SUBSET low :
    /\ IF now = immediate /\ later = low THEN UNCHANGED faults ELSE Fault
    /\ queue' = queue \cup {NewTask(f, "Immediate") : f \in now}
                      \cup {NewTask(f, "Low") : f \in later}
    /\ rows' = [f \in Files |->
                  IF f \in now \cup later THEN EnsureStream(f) ELSE rows[f]]

\* A file is stale when it is new, has another size than was recorded, or
\* lies in a shared database, whose size tells nothing.
Stale(f) ==
  f \in SharedFiles \/ ~Tracked(f) \/ rows[f].size # lines[f]

RunSweep(swept) == EnqueueStreams({}, {f \in swept : Stale(f)})

AtSelect == pc = "select" /\ ~draining

\* A full sweep closes the gate for the triggers and the periodic sweep.
GatedSweep == gate /\ gate' = FALSE /\ RunSweep(Files)

\* Before the loop: skipped if a trigger has closed the gate already.
InitialSweep ==
  /\ pc = "start"
  /\ \/ GatedSweep
     \/ ~gate /\ UNCHANGED <<gate, queue, rows, faults>>
  /\ pc' = "select"
  /\ UNCHANGED <<lines, settings, delayed, drain, notices, requests, task,
                 mark, upto, stop, handled, unsaved, missed>>

PeriodicSweep ==
  /\ AtSelect
  /\ GatedSweep
  /\ UNCHANGED <<lines, settings, delayed, drain, notices, requests, work,
                 stop, handled, unsaved, missed>>

FastSweep ==
  /\ AtSelect
  /\ RunSweep(FastFiles)
  /\ UNCHANGED <<lines, settings, delayed, drain, intake, work, stop, handled,
                 unsaved, missed>>

\* Mutant: the sweep does not need a request.
RequestedSweep_Unasked ==
  /\ AtSelect
  /\ requests' = requests - 1
  /\ RunSweep(Files)
  /\ UNCHANGED <<lines, settings, delayed, drain, notices, gate, work, stop,
                 handled, unsaved, missed>>

\* The trigger has closed the gate when it sent the request.
RequestedSweep ==
  /\ AtSelect
  /\ requests > 0
  /\ requests' = requests - 1
  /\ RunSweep(Files)
  /\ UNCHANGED <<lines, settings, delayed, drain, notices, gate, work, stop,
                 handled, unsaved, missed>>

\* The session's own transcript and the agent's trace file at once, its
\* subagents' transcripts like swept ones.
HandleCheckpoint(f) ==
  /\ AtSelect
  /\ f \in notices
  /\ notices' = notices \ {f}
  /\ EnqueueStreams({f} \cup Otel[f], Subagents[f])
  /\ UNCHANGED <<lines, settings, delayed, drain, requests, gate, work, stop,
                 handled, unsaved, missed>>

----------------------------------------------------------------------------
(* Tasks *)

\* process_session_blocking reads the watermark once, when it starts.
Start(t) ==
  /\ pc' = "read"
  /\ task' = t
  /\ mark' = rows[t.file].mark
  /\ UNCHANGED upto

\* The heap gives immediate tasks first; the order of session ids among tasks
\* of one priority is left open.
Foremost(ready) ==
  {t \in ready : t.priority = "Immediate"
                 \/ \A o \in ready : o.priority # "Immediate"}

\* A tick of the loop: delayed tasks whose time has come go back to the heap,
\* and its top is processed.
ProcessNextTask(f) ==
  /\ AtSelect
  /\ \E due \in SUBSET delayed : \E t \in Foremost(queue \cup due) :
       /\ t.file = f
       /\ queue' = (queue \cup due) \ {t}
       /\ delayed' = delayed \ due
       /\ Start(t)
  /\ UNCHANGED <<lines, settings, rows, drain, intake, stop, handled, unsaved,
                 missed, faults>>

\* The top is a retry whose time has not come: the tick does nothing else.
DelayNextTask ==
  /\ AtSelect
  /\ \E due \in SUBSET delayed : \E t \in Foremost(queue \cup due) \ due :
       /\ t.retry > 0
       /\ queue' = (queue \cup due) \ {t}
       /\ delayed' = (delayed \ due) \cup {t}
  /\ UNCHANGED <<lines, settings, rows, drain, intake, work, stop, handled,
                 unsaved, missed, faults>>

\* The task leaves the worker's hands.
Leave == pc' = "select" /\ task' = NoTask /\ mark' = 0 /\ upto' = 0

\* handle_processing_error: transient errors are retried a few times, others
\* never; the drain at shutdown retries nothing.
Retried ==
  IF ~draining /\ task.retry + 1 < MaxRetries
    THEN {[task EXCEPT !.retry = @ + 1]} ELSE {}

HandleError(transient) ==
  /\ Fault
  /\ queue' = queue \cup IF transient THEN Retried ELSE {}
  /\ Leave

\* Mutant: the watermark is saved as soon as the batch is read.
ReadIncremental_SavesFirst ==
  /\ pc = "read"
  /\ LET end == lines[task.file]
     IN upto' = IF mark + Batch < end THEN mark + Batch ELSE end
  /\ rows' = [rows EXCEPT ![task.file].mark = upto']
  /\ pc' = IF upto' = mark THEN "record" ELSE "submit"
  /\ UNCHANGED <<lines, settings, tasks, intake, task, mark, stop, handled,
                 unsaved, missed, faults>>

\* One batch: from the local watermark to the end of the file at most.
ReadIncremental ==
  /\ pc = "read"
  /\ LET end == lines[task.file]
     IN upto' = IF mark + Batch < end THEN mark + Batch ELSE end
  /\ pc' = IF upto' = mark THEN "record" ELSE "submit"
  /\ UNCHANGED <<lines, settings, rows, tasks, intake, task, mark, stop,
                 handled, unsaved, missed, faults>>

\* Mutant: the size is recorded for a file that could not be read, too.
ReadFails_RecordsSize ==
  /\ pc = "read"
  /\ \E transient \in BOOLEAN : HandleError(transient)
  /\ rows' = [rows EXCEPT ![task.file].size = lines[task.file]]
  /\ UNCHANGED <<lines, settings, delayed, drain, intake, stop, handled,
                 unsaved, missed>>

\* The file cannot be read now (transient), ever (fatal), or the watermark of
\* an empty batch cannot be saved (fatal).
ReadFails ==
  /\ pc = "read"
  /\ \E transient \in BOOLEAN : HandleError(transient)
  /\ UNCHANGED <<lines, settings, rows, delayed, drain, intake, stop, handled,
                 unsaved, missed>>

\* The batch goes to the telemetry buffer if the settings of the moment allow.
Submit ==
  LET these == Span(task.file, mark, upto)
  IN /\ pc = "submit"
     /\ again' = again \cup (these \cap (sent \cup withheld))
     /\ IF sharing
          THEN sent' = sent \cup these /\ UNCHANGED withheld
          ELSE withheld' = withheld \cup these /\ UNCHANGED sent
     /\ pc' = "save"
     /\ UNCHANGED <<lines, settings, rows, tasks, intake, task, mark, upto,
                    stop, unsaved, missed, faults>>

\* update_watermark, after the wait for a full buffer.
SaveWatermark ==
  /\ pc = "save"
  /\ rows' = [rows EXCEPT ![task.file].mark = upto]
  /\ mark' = upto
  /\ pc' = "read"
  /\ UNCHANGED <<lines, settings, tasks, intake, task, upto, stop, handled,
                 unsaved, missed, faults>>

InFlight == IF pc = "save" THEN Span(task.file, mark, upto) ELSE {}

SaveFails ==
  /\ pc = "save"
  /\ unsaved' = unsaved \cup InFlight
  /\ HandleError(FALSE)
  /\ UNCHANGED <<lines, settings, rows, delayed, drain, intake, stop, handled,
                 missed>>

\* The file is read to its end; its size now is what the sweep compares with.
RecordMetadata ==
  LET f == task.file
  IN /\ pc = "record"
     /\ rows' = [rows EXCEPT ![f].size = lines[f]]
     /\ missed' = IF lines[f] > rows[f].mark THEN missed \cup {f}
                                             ELSE missed \ {f}
     /\ Leave
     /\ UNCHANGED <<lines, settings, tasks, intake, stop, handled, unsaved,
                    faults>>

RecordFails ==
  /\ pc = "record"
  /\ HandleError(FALSE)
  /\ UNCHANGED <<lines, settings, rows, delayed, drain, intake, stop, handled,
                 unsaved, missed>>

----------------------------------------------------------------------------
(* Stops *)

RequestShutdown ==
  /\ ~stopping
  /\ Fault
  /\ stopping' = TRUE
  /\ UNCHANGED <<lines, settings, rows, tasks, intake, work, draining, handled,
                 unsaved, missed>>

\* The worker takes the shutdown branch: immediate tasks, due or not, and no
\* other will be processed.
DrainImmediateTasks ==
  /\ AtSelect
  /\ stopping
  /\ draining' = TRUE
  /\ drain' = {t \in queue \cup delayed : t.priority = "Immediate"}
  /\ queue' = {}
  /\ delayed' = {t \in delayed : t.priority # "Immediate"}
  /\ UNCHANGED <<lines, settings, rows, intake, work, stopping, handled,
                 unsaved, missed, faults>>

DrainNext(t) ==
  /\ draining /\ pc = "select"
  /\ t \in drain
  /\ drain' = drain \ {t}
  /\ Start(t)
  /\ UNCHANGED <<lines, settings, rows, queue, delayed, intake, stop, handled,
                 unsaved, missed, faults>>

\* A new daemon starts with what is in the two databases.
Restart ==
  /\ queue' = {} /\ delayed' = {} /\ drain' = {}
  /\ notices' = {} /\ requests' = 0 /\ gate' = TRUE
  /\ pc' = "start" /\ task' = NoTask /\ mark' = 0 /\ upto' = 0
  /\ stopping' = FALSE /\ draining' = FALSE
  /\ unsaved' = unsaved \cup InFlight
  /\ UNCHANGED <<lines, settings, rows, handled, missed>>

\* run_daemon returns without waiting for either worker.  The runtime waits for
\* the blocking calls that have begun, and drops everything else.
Exit ==
  /\ stopping
  /\ pc \in {"start", "select"}
  /\ Restart
  /\ UNCHANGED faults

Crash == Fault /\ Restart

----------------------------------------------------------------------------
Work ==
  \/ InitialSweep
  \/ ReadIncremental \/ Submit \/ SaveWatermark \/ RecordMetadata
  \/ \E t \in drain : DrainNext(t)

Failures == ReadFails \/ SaveFails \/ RecordFails

Next ==
  \/ \E f \in Files : Append(f) \/ NotifyCheckpoint(f) \/ HandleCheckpoint(f)
                      \/ ProcessNextTask(f)
  \/ SwitchSharing \/ TriggerSweep \/ CooldownOver
  \/ DelayNextTask \/ PeriodicSweep \/ FastSweep \/ RequestedSweep
  \/ Work \/ Failures
  \/ RequestShutdown \/ DrainImmediateTasks \/ Exit \/ Crash

Spec == Init /\ [][Next]_vars

\* The worker goes on with a task it has begun.  Its loop picks at random among
\* the branches that are ready, so none is passed over for ever: a periodic tick
\* sweeps, or finds that a trigger has closed the gate and sent a request.  The
\* processing ticks are closer than notices and sweeps, so that no file waits
\* for ever behind others.  Clocks advance, and a daemon that is left idle at
\* its end stops.
Fairness ==
  /\ WF_vars(Work)
  /\ WF_vars(CooldownOver)
  /\ WF_vars(Exit)
  /\ SF_vars(PeriodicSweep \/ RequestedSweep)
  /\ \A f \in Files : SF_vars(ProcessNextTask(f))

FairSpec == Spec /\ Fairness

----------------------------------------------------------------------------
(* Properties *)

\* A line below a saved watermark has been submitted, or withheld for privacy:
\* process_session_blocking submits a batch before it saves its watermark, and
\* nobody else moves a watermark.
SavedIsHandled ==
  \A f \in Files : Tracked(f) =>
    Span(f, 0, rows[f].mark) \subseteq sent \cup withheld

\* No line is submitted twice, and none that was withheld is submitted after
\* sharing is switched on ("does not silently replay previously private
\* conversations"), whatever tasks, retries and sweeps name its file, unless the
\* watermark of its batch was not saved.
HandledOnce == again \subseteq unsaved

\* A tracked file that is not read to its end looks changed to the sweep, unless
\* it grew between the last read and the stat that recorded its size.
BehindLooksStale ==
  \A f \in Files :
    Tracked(f) /\ rows[f].mark < lines[f] /\ f \notin missed
      => rows[f].size # lines[f]

\* Something will still read the file.
Pending(f) ==
  \/ f \in notices
  \/ \E t \in queue \cup delayed \cup drain \cup {task} :
       t # NoTask /\ t.file = f

\* "Sweeps catch what notices missed" (streams/agents/cursor.rs:189): a file that
\* is not read to its end looks changed, or something will still read it.  Without
\* the exception of BehindLooksStale this does not hold: lines appended between
\* the last read and the stat are in the recorded size (stream_worker.rs:1104).
SweepCatchesAll ==
  \A f \in Files \ SharedFiles :
    Tracked(f) /\ rows[f].mark < lines[f] /\ ~Pending(f)
      => rows[f].size # lines[f]

\* Again and again everything the agents have appended so far is submitted or
\* withheld, with no notice, and in spite of errors, crashes and shutdowns (the
\* sweeps' purpose); shared files have no exception.
AppendedIsHandled ==
  []<>(\A f \in Files : \/ Span(f, 0, lines[f]) \subseteq sent \cup withheld
                        \/ f \in missed \ SharedFiles)
=============================================================================
