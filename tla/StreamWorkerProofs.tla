------------------------- MODULE StreamWorkerProofs -------------------------
(***************************************************************************)
(* Proofs about StreamWorker, for every set of files, every batch size and *)
(* every number of failures, crashes and changes of the settings.          *)
(***************************************************************************)
EXTENDS StreamWorker, TLAPS

Busy == {"read", "submit", "save", "record"}

\* Whoever will be processed has a row.
QueueInv == \A t \in queue \cup delayed \cup drain : Tracked(t.file)

\* The worker's own watermark is the saved one, whatever it has read since.
WorkInv ==
  pc \in Busy =>
    /\ task \in Tasks
    /\ Tracked(task.file)
    /\ mark = rows[task.file].mark

BatchInv == pc \in {"submit", "save"} => mark <= upto /\ upto <= lines[task.file]

\* A batch is handed over before its watermark is saved.
SubmitInv == pc = "save" => InFlight \subseteq sent \cup withheld

\* No watermark and no size is recorded that the file does not have.
FileInv ==
  \A f \in Files : Tracked(f) => rows[f].mark <= lines[f] /\ rows[f].size <= lines[f]

\* What has been handled lies below the saved watermark, or is in the worker's
\* hands, or was in its hands when it failed or died.
HandledInv ==
  \A x \in sent \cup withheld :
    \/ Tracked(x[1]) /\ x[2] <= rows[x[1]].mark
    \/ x \in unsaved \cup InFlight

StreamInv ==
  QueueInv /\ WorkInv /\ BatchInv /\ SubmitInv /\ FileInv /\ HandledInv
  /\ SavedIsHandled /\ HandledOnce /\ BehindLooksStale
----------------------------------------------------------------------------
(* Types *)

USE StreamAssumption, AbsenceAssumption

\* The rows and tasks the operations make are rows and tasks.
LEMMA NewRow == [mark |-> 0, size |-> 0] \in Rows
  BY DEF Rows

LEMMA Updates ==
  ASSUME NEW r \in Rows, NEW n \in Nat
  PROVE  [r EXCEPT !.mark = n] \in Rows /\ [r EXCEPT !.size = n] \in Rows
  BY DEF Rows

LEMMA NewTasks ==
  ASSUME NEW f \in Files, NEW p \in Priorities
  PROVE  NewTask(f, p) \in Tasks /\ NewTask(f, p).file = f
  BY DEF NewTask, Tasks

LEMMA RetriedTasks ==
  ASSUME task \in Tasks
  PROVE  Retried \subseteq Tasks /\ \A t \in Retried : t.file = task.file
  <1>1. CASE task.retry + 1 < MaxRetries
    <2>1. task.retry + 1 \in 0..MaxRetries
      BY <1>1 DEF Tasks
    <2>2. [task EXCEPT !.retry = @ + 1] \in Tasks
      BY <2>1 DEF Tasks
    <2>3. [task EXCEPT !.retry = @ + 1].file = task.file
      BY DEF Tasks
    <2> QED
      BY <2>2, <2>3 DEF Retried
  <1>2. CASE ~(task.retry + 1 < MaxRetries)
    BY <1>2 DEF Retried
  <1> QED
    BY <1>1, <1>2

LEMMA Spans ==
  ASSUME NEW f \in Files, NEW i \in Nat, NEW j
  PROVE  Span(f, i, j) \subseteq AllLines
  BY DEF Span, AllLines

\* A tracked file's row is a row.
LEMMA TrackedRow ==
  ASSUME TypeOK, NEW f \in Files, Tracked(f)
  PROVE  rows[f] \in Rows /\ rows[f].mark \in Nat /\ rows[f].size \in Nat
  <1>1. rows[f] \in Rows
    BY DEF TypeOK, Tracked
  <1> QED
    BY <1>1 DEF Rows

\* What a sweep or a notice does to the rows and the heap.
LEMMA Enqueued ==
  ASSUME TypeOK, NEW S \in SUBSET Files, NEW L \in SUBSET Files,
         EnqueueStreams(S, L)
  PROVE  /\ rows' \in [Files -> Rows \cup {NoRow}]
         /\ queue' \subseteq Tasks
         /\ faults' \in Nat
         /\ \A f \in Files :
              \/ rows'[f] = rows[f]
              \/ ~Tracked(f) /\ rows'[f] = [mark |-> 0, size |-> 0]
         /\ \A t \in queue' : t \in queue \/ rows'[t.file] # NoRow
  <1>1. PICK now \in SUBSET S, later \in SUBSET L :
          /\ UNCHANGED faults \/ Fault
          /\ queue' = queue \cup {NewTask(f, "Immediate") : f \in now}
                            \cup {NewTask(f, "Low") : f \in later}
          /\ rows' = [f \in Files |->
                        IF f \in now \cup later THEN EnsureStream(f) ELSE rows[f]]
    BY DEF EnqueueStreams
  <1>2. \A f \in Files : EnsureStream(f) \in Rows
    BY NewRow, TrackedRow DEF EnsureStream
  <1>3. rows' \in [Files -> Rows \cup {NoRow}]
    BY <1>1, <1>2 DEF TypeOK
  <1>4. \A f \in Files :
          \/ rows'[f] = rows[f]
          \/ ~Tracked(f) /\ rows'[f] = [mark |-> 0, size |-> 0]
    BY <1>1 DEF EnsureStream
  <1>5. \A f \in now \cup later : rows'[f] # NoRow
    BY <1>1, <1>2
  <1>6. ASSUME NEW t \in queue', t \notin queue
        PROVE  t \in Tasks /\ t.file \in now \cup later
    <2>1. PICK f \in now \cup later, p \in Priorities : t = NewTask(f, p)
      BY <1>1, <1>6 DEF Priorities
    <2> QED
      BY <2>1, NewTasks
  <1>7. faults' \in Nat
    BY <1>1 DEF TypeOK, Fault
  <1>8. queue' \subseteq Tasks
    BY <1>6 DEF TypeOK
  <1> QED
    BY <1>3, <1>4, <1>5, <1>6, <1>7, <1>8
LEMMA TypeInit == Init => TypeOK
  <1> SUFFICES ASSUME Init PROVE TypeOK
    OBVIOUS
  <1>1. sharing \in BOOLEAN
    BY DEF Init
  <1>2. lines \in [Files -> Nat] /\ rows \in [Files -> Rows \cup {NoRow}]
    BY DEF Init
  <1> QED
    BY <1>1, <1>2 DEF Init, TypeOK

LEMMA TypeStart ==
  ASSUME TypeOK, NEW t \in Tasks, Tracked(t.file), Start(t)
  PROVE  pc' = "read" /\ task' = t /\ mark' \in Nat /\ upto' \in Nat
  <1>1. t.file \in Files
    BY DEF Tasks
  <1>2. rows[t.file].mark \in Nat
    BY <1>1, TrackedRow
  <1> QED
    BY <1>2 DEF Start, TypeOK

LEMMA TypeFailure ==
  ASSUME TypeOK, task \in Tasks, NEW transient \in BOOLEAN, HandleError(transient)
  PROVE  /\ queue' \subseteq Tasks
         /\ \A t \in queue' : t \in queue \/ t.file = task.file
         /\ pc' = "select" /\ task' = NoTask /\ mark' = 0 /\ upto' = 0
         /\ faults' \in Nat
  BY RetriedTasks DEF HandleError, Leave, Fault, TypeOK

LEMMA TypeNext == TypeOK /\ QueueInv /\ WorkInv /\ [Next]_vars => TypeOK'
  <1> SUFFICES ASSUME TypeOK, QueueInv, WorkInv, [Next]_vars PROVE TypeOK'
    OBVIOUS
  <1>b. pc \in Busy => task \in Tasks /\ task.file \in Files /\ rows[task.file] \in Rows
    BY TrackedRow DEF WorkInv, Tasks
  <1>s. \A f \in Files : \A i, j \in Nat : Span(f, i, j) \subseteq AllLines
    BY Spans
  <1>f. InFlight \subseteq AllLines
    BY <1>b, <1>s DEF InFlight, Busy, TypeOK
  <1>1. ASSUME NEW f \in Files, Append(f) PROVE TypeOK'
    <2>1. lines' \in [Files -> Nat]
      BY <1>1 DEF Append, TypeOK
    <2> QED
      BY <1>1, <2>1 DEF Append, TypeOK, settings, tasks, intake, work, stop, handled
  <1>2. CASE SwitchSharing
    <2>1. sharing' \in BOOLEAN
      BY <1>2 DEF SwitchSharing
    <2>2. switches' \in Nat
      BY <1>2 DEF SwitchSharing, TypeOK
    <2> QED
      BY <1>2, <2>1, <2>2 DEF SwitchSharing, TypeOK, tasks, intake, work, stop, handled
  <1>3. ASSUME NEW f \in Files, NotifyCheckpoint(f) PROVE TypeOK'
    BY <1>3 DEF NotifyCheckpoint, TypeOK, settings, tasks, work, stop, handled
  <1>4. CASE TriggerSweep
    <2>1. requests' \in Nat
      BY <1>4 DEF TriggerSweep, TypeOK
    <2>2. gate' \in BOOLEAN
      BY <1>4 DEF TriggerSweep
    <2> QED
      BY <1>4, <2>1, <2>2 DEF TriggerSweep, TypeOK, settings, tasks, work, stop, handled
  <1>5. CASE CooldownOver
    BY <1>5 DEF CooldownOver, TypeOK, settings, tasks, work, stop, handled
  <1>6. ASSUME NEW S \in SUBSET Files, NEW L \in SUBSET Files, EnqueueStreams(S, L),
               notices' \subseteq Files, requests' \in Nat, gate' \in BOOLEAN,
               pc' \in {pc, "select"},
               UNCHANGED <<lines, settings, delayed, drain, task, mark, upto,
                           stop, handled, unsaved, missed>>
        PROVE  TypeOK'
    BY <1>6, Enqueued DEF TypeOK, settings, stop, handled
  <1>7. ASSUME NEW X \in SUBSET Files, RunSweep(X)
        PROVE  \E L \in SUBSET Files : EnqueueStreams({}, L)
    <2>1. {f \in X : Stale(f)} \in SUBSET Files
      OBVIOUS
    <2> QED
      BY <1>7, <2>1 DEF RunSweep
  <1>8. CASE InitialSweep
    <2>1. CASE GatedSweep
      BY <1>6, <1>7, <1>8, <2>1 DEF GatedSweep, InitialSweep, TypeOK
    <2>2. CASE UNCHANGED <<gate, queue, rows, faults>>
      BY <1>8, <2>2 DEF InitialSweep, TypeOK, settings, stop, handled
    <2> QED
      BY <1>8, <2>1, <2>2 DEF InitialSweep
  <1>9. CASE PeriodicSweep
    BY <1>6, <1>7, <1>9 DEF PeriodicSweep, GatedSweep, TypeOK, work
  <1>10. CASE FastSweep
    BY <1>6, <1>7, <1>10 DEF FastSweep, TypeOK, work, intake
  <1>11. CASE RequestedSweep
    <2>1. requests - 1 \in Nat
      BY <1>11 DEF RequestedSweep, TypeOK
    <2> QED
      BY <1>6, <1>7, <1>11, <2>1 DEF RequestedSweep, TypeOK, work
  <1>12. ASSUME NEW f \in Files, HandleCheckpoint(f) PROVE TypeOK'
    <2>1. {f} \cup Otel[f] \in SUBSET Files /\ Subagents[f] \in SUBSET Files
      OBVIOUS
    <2> QED
      BY <1>6, <1>12, <2>1 DEF HandleCheckpoint, TypeOK, work
  <1>13. ASSUME NEW f \in Files, ProcessNextTask(f) PROVE TypeOK'
    <2>0. PICK due \in SUBSET delayed : \E t \in Foremost(queue \cup due) :
            /\ queue' = (queue \cup due) \ {t}
            /\ delayed' = delayed \ due
            /\ Start(t)
      BY <1>13 DEF ProcessNextTask
    <2>1. PICK t \in Foremost(queue \cup due) :
            /\ queue' = (queue \cup due) \ {t}
            /\ delayed' = delayed \ due
            /\ Start(t)
      BY <2>0
    <2>2. t \in Tasks /\ Tracked(t.file)
      BY DEF Foremost, TypeOK, QueueInv
    <2>3. pc' = "read" /\ task' = t /\ mark' \in Nat /\ upto' \in Nat
      BY <2>1, <2>2, TypeStart
    <2> QED
      BY <1>13, <2>1, <2>2, <2>3 DEF ProcessNextTask, TypeOK, settings, intake, stop, handled
  <1>14. CASE DelayNextTask
    <2>0. PICK due \in SUBSET delayed : \E t \in Foremost(queue \cup due) \ due :
            /\ queue' = (queue \cup due) \ {t}
            /\ delayed' = (delayed \ due) \cup {t}
      BY <1>14 DEF DelayNextTask
    <2>1. PICK t \in Foremost(queue \cup due) \ due :
            /\ queue' = (queue \cup due) \ {t}
            /\ delayed' = (delayed \ due) \cup {t}
      BY <2>0
    <2>2. t \in Tasks
      BY DEF Foremost, TypeOK
    <2> QED
      BY <1>14, <2>1, <2>2 DEF DelayNextTask, TypeOK, settings, intake, work, stop, handled
  <1>15. CASE ReadIncremental
    <2>1. lines[task.file] \in Nat
      BY <1>15, <1>b DEF ReadIncremental, Busy, TypeOK
    <2>2. upto' \in Nat
      BY <1>15, <2>1 DEF ReadIncremental, TypeOK
    <2> QED
      BY <1>15, <2>2 DEF ReadIncremental, TypeOK, settings, tasks, intake, stop, handled
  <1>16. CASE Submit
    <2>1. Span(task.file, mark, upto) \subseteq AllLines
      BY <1>16, <1>b, <1>s DEF Submit, Busy, TypeOK
    <2> QED
      BY <1>16, <2>1 DEF Submit, TypeOK, settings, tasks, intake, stop
  <1>17. CASE SaveWatermark
    <2>1. [rows[task.file] EXCEPT !.mark = upto] \in Rows
      BY <1>17, <1>b, Updates DEF SaveWatermark, Busy, TypeOK
    <2>2. rows' \in [Files -> Rows \cup {NoRow}]
      BY <1>17, <2>1 DEF SaveWatermark, TypeOK
    <2> QED
      BY <1>17, <2>2 DEF SaveWatermark, TypeOK, settings, tasks, intake, stop, handled
  <1>18. CASE RecordMetadata
    <2>1. task.file \in Files /\ rows[task.file] \in Rows /\ lines[task.file] \in Nat
      BY <1>18, <1>b DEF RecordMetadata, Busy, TypeOK
    <2>2. [rows[task.file] EXCEPT !.size = lines[task.file]] \in Rows
      BY <2>1, Updates
    <2>3. rows' \in [Files -> Rows \cup {NoRow}]
      BY <1>18, <2>2 DEF RecordMetadata, TypeOK
    <2>4. missed' \subseteq Files
      BY <1>18, <2>1 DEF RecordMetadata, TypeOK
    <2> QED
      BY <1>18, <2>3, <2>4 DEF RecordMetadata, Leave, TypeOK, settings, tasks, intake,
        stop, handled
  <1>19. CASE Failures
    <2>1. pc \in Busy /\ \E transient \in BOOLEAN : HandleError(transient)
      BY <1>19 DEF Failures, ReadFails, SaveFails, RecordFails, Busy
    <2>2. /\ queue' \subseteq Tasks /\ faults' \in Nat
          /\ pc' = "select" /\ task' = NoTask /\ mark' = 0 /\ upto' = 0
      BY <2>1, <1>b, TypeFailure
    <2>3. unsaved' \subseteq AllLines
      BY <1>19, <1>f DEF Failures, ReadFails, SaveFails, RecordFails, TypeOK
    <2>4. UNCHANGED <<lines, settings, rows, delayed, drain, intake, stop, handled,
                      missed>>
      BY <1>19 DEF Failures, ReadFails, SaveFails, RecordFails
    <2> QED
      BY <2>2, <2>3, <2>4 DEF TypeOK, settings, intake, stop, handled
  <1>20. CASE RequestShutdown
    BY <1>20 DEF RequestShutdown, Fault, TypeOK, settings, tasks, intake, work, handled
  <1>21. CASE DrainImmediateTasks
    BY <1>21 DEF DrainImmediateTasks, TypeOK, settings, intake, work, handled
  <1>22. ASSUME NEW t \in drain, DrainNext(t) PROVE TypeOK'
    <2>1. t \in Tasks /\ Tracked(t.file)
      BY DEF TypeOK, QueueInv
    <2>2. pc' = "read" /\ task' = t /\ mark' \in Nat /\ upto' \in Nat
      BY <1>22, <2>1, TypeStart DEF DrainNext
    <2> QED
      BY <1>22, <2>1, <2>2 DEF DrainNext, TypeOK, settings, intake, stop, handled
  <1>23. CASE Exit \/ Crash
    <2>1. Restart /\ faults' \in Nat
      BY <1>23 DEF Exit, Crash, Fault, TypeOK
    <2> QED
      BY <2>1, <1>f DEF Restart, TypeOK, settings, handled
  <1>24. CASE UNCHANGED vars
    BY <1>24 DEF vars, TypeOK, settings, tasks, intake, work, stop, handled
  <1> QED
    BY <1>1, <1>2, <1>3, <1>4, <1>5, <1>8, <1>9, <1>10, <1>11, <1>12, <1>13,
       <1>14, <1>15, <1>16, <1>17, <1>18, <1>19, <1>20, <1>21, <1>22, <1>23,
       <1>24 DEF Next, Work
----------------------------------------------------------------------------
(* The invariant *)

LEMMA StreamInit == Init => StreamInv
  BY DEF Init, StreamInv, QueueInv, WorkInv, BatchInv, SubmitInv, FileInv, HandledInv,
    SavedIsHandled, HandledOnce, BehindLooksStale, Tracked, InFlight, Busy

\* Steps that leave rows, batch and history alone and bring no new task.
LEMMA QuietStep ==
  ASSUME StreamInv, UNCHANGED <<lines, rows, work, handled, unsaved, missed>>,
         queue' \cup delayed' \cup drain' \subseteq queue \cup delayed \cup drain
  PROVE  StreamInv'
  <1>1. QueueInv'
    BY DEF StreamInv, QueueInv, Tracked
  <1>2. InFlight' = InFlight
    BY DEF InFlight, Span, work
  <1>3. WorkInv' /\ BatchInv' /\ SubmitInv'
    BY <1>2 DEF StreamInv, WorkInv, BatchInv, SubmitInv, Tracked, work, handled
  <1>4. FileInv' /\ HandledInv' /\ SavedIsHandled' /\ HandledOnce' /\ BehindLooksStale'
    BY <1>2 DEF StreamInv, FileInv, HandledInv, SavedIsHandled, HandledOnce,
      BehindLooksStale, Tracked, Span, handled
  <1> QED
    BY <1>1, <1>3, <1>4 DEF StreamInv

\* The worker is between tasks: sweeps, notices, failures, stops.  Rows may be
\* added, and the batch it had is accounted for.
LEMMA BetweenTasks ==
  ASSUME TypeOK, StreamInv, pc' \notin Busy,
         \A f \in Files : \/ rows'[f] = rows[f]
                          \/ /\ ~Tracked(f)
                             /\ rows'[f] = [mark |-> 0, size |-> 0],
         \A t \in queue' \cup delayed' \cup drain' : rows'[t.file] # NoRow,
         unsaved \cup InFlight \subseteq unsaved',
         UNCHANGED <<lines, handled, missed>>
  PROVE  StreamInv'
  <1>1. InFlight' = {}
    BY DEF InFlight, Busy
  <1>2. QueueInv' /\ WorkInv' /\ BatchInv' /\ SubmitInv'
    BY <1>1 DEF QueueInv, WorkInv, BatchInv, SubmitInv, Tracked, Busy
  <1>3. \A f \in Files : Tracked(f) => Tracked(f)' /\ rows'[f] = rows[f]
    BY DEF Tracked
  <1>4. ASSUME NEW f \in Files, Tracked(f)', ~(rows'[f] = rows[f])
        PROVE  rows'[f].mark = 0 /\ rows'[f].size = 0
    BY <1>4
  <1>5. FileInv'
    <2> SUFFICES ASSUME NEW f \in Files, Tracked(f)'
                 PROVE  rows'[f].mark <= lines[f] /\ rows'[f].size <= lines[f]
      BY DEF FileInv
    <2>1. CASE rows'[f] = rows[f]
      BY <2>1 DEF StreamInv, FileInv, Tracked
    <2>2. CASE ~(rows'[f] = rows[f])
      BY <2>2, <1>4 DEF TypeOK
    <2> QED
      BY <2>1, <2>2
  <1>6. HandledInv'
    <2> SUFFICES ASSUME NEW x \in sent \cup withheld
                 PROVE  \/ Tracked(x[1])' /\ x[2] <= rows'[x[1]].mark
                        \/ x \in unsaved'
      BY DEF HandledInv, handled
    <2>1. x[1] \in Files
      BY DEF TypeOK, AllLines
    <2>2. \/ Tracked(x[1]) /\ x[2] <= rows[x[1]].mark
          \/ x \in unsaved \cup InFlight
      BY DEF StreamInv, HandledInv
    <2> QED
      BY <2>1, <2>2, <1>3
  <1>7. SavedIsHandled'
    <2> SUFFICES ASSUME NEW f \in Files, Tracked(f)'
                 PROVE  Span(f, 0, rows'[f].mark) \subseteq sent \cup withheld
      BY DEF SavedIsHandled, handled, Span
    <2>1. CASE rows'[f] = rows[f]
      BY <2>1 DEF StreamInv, SavedIsHandled, Tracked
    <2>2. CASE ~(rows'[f] = rows[f])
      BY <2>2, <1>4 DEF Span
    <2> QED
      BY <2>1, <2>2
  <1>8. HandledOnce'
    BY DEF StreamInv, HandledOnce, handled
  <1>9. BehindLooksStale'
    <2> SUFFICES ASSUME NEW f \in Files, Tracked(f)', rows'[f].mark < lines[f],
                        f \notin missed
                 PROVE  rows'[f].size # lines[f]
      BY DEF BehindLooksStale
    <2>1. CASE rows'[f] = rows[f]
      BY <2>1 DEF StreamInv, BehindLooksStale, Tracked
    <2>2. CASE ~(rows'[f] = rows[f])
      BY <2>2, <1>4
    <2> QED
      BY <2>1, <2>2
  <1> QED
    BY <1>2, <1>5, <1>6, <1>7, <1>8, <1>9 DEF StreamInv

\* The worker begins a task.
LEMMA StartStep ==
  ASSUME TypeOK, StreamInv, NEW t \in queue \cup delayed \cup drain, Start(t),
         pc \notin Busy,
         queue' \cup delayed' \cup drain' \subseteq queue \cup delayed \cup drain,
         UNCHANGED <<lines, rows, handled, unsaved, missed>>
  PROVE  StreamInv'
  <1>1. t \in Tasks /\ Tracked(t.file)
    BY DEF TypeOK, StreamInv, QueueInv
  <1>2. pc' = "read" /\ task' = t /\ mark' = rows[t.file].mark
    BY DEF Start
  <1>3. InFlight = {} /\ InFlight' = {}
    BY <1>2 DEF InFlight, Busy
  <1>4. QueueInv'
    BY DEF StreamInv, QueueInv, Tracked
  <1>5. WorkInv' /\ BatchInv' /\ SubmitInv'
    BY <1>1, <1>2, <1>3 DEF WorkInv, BatchInv, SubmitInv, Tracked
  <1>6. FileInv' /\ HandledInv' /\ SavedIsHandled' /\ HandledOnce' /\ BehindLooksStale'
    BY <1>3 DEF StreamInv, FileInv, HandledInv, SavedIsHandled, HandledOnce,
      BehindLooksStale, Tracked, Span, handled
  <1> QED
    BY <1>4, <1>5, <1>6 DEF StreamInv
\* A file grows: it no longer has the size that was recorded.
LEMMA AppendStep ==
  ASSUME TypeOK, StreamInv, NEW f \in Files, Append(f)
  PROVE  StreamInv'
  <1>1. \A g \in Files : lines[g] \in Nat /\ lines'[g] \in {lines[g], lines[g] + 1}
    BY DEF Append, TypeOK
  <1>2. UNCHANGED <<rows, queue, delayed, drain, pc, task, mark, upto, sent, withheld,
                    again, unsaved, missed>>
    BY DEF Append, tasks, work, handled
  <1>3. InFlight' = InFlight
    BY <1>2 DEF InFlight, Span
  <1>4. QueueInv' /\ WorkInv' /\ SubmitInv'
    BY <1>2, <1>3 DEF StreamInv, QueueInv, WorkInv, SubmitInv, Tracked
  <1>8. BatchInv'
    <2> SUFFICES ASSUME pc \in {"submit", "save"}
                 PROVE  mark <= upto /\ upto <= lines'[task.file]
      BY <1>2 DEF BatchInv
    <2>1. task.file \in Files
      BY DEF StreamInv, WorkInv, Busy, Tasks
    <2> QED
      BY <2>1, <1>1 DEF StreamInv, BatchInv, TypeOK
  <1>5. HandledInv' /\ SavedIsHandled' /\ HandledOnce'
    BY <1>2, <1>3 DEF StreamInv, HandledInv, SavedIsHandled, HandledOnce, Tracked, Span
  <1>6. FileInv'
    <2> SUFFICES ASSUME NEW g \in Files, Tracked(g)
                 PROVE  rows[g].mark <= lines'[g] /\ rows[g].size <= lines'[g]
      BY <1>2 DEF FileInv, Tracked
    <2> QED
      BY <1>1, TrackedRow DEF StreamInv, FileInv
  <1>7. BehindLooksStale'
    <2> SUFFICES ASSUME NEW g \in Files, Tracked(g), rows[g].mark < lines'[g],
                        g \notin missed
                 PROVE  rows[g].size # lines'[g]
      BY <1>2 DEF BehindLooksStale, Tracked
    <2>1. rows[g].size <= lines[g] /\ rows[g].size \in Nat
      BY TrackedRow DEF StreamInv, FileInv
    <2>2. CASE lines'[g] = lines[g] + 1
      BY <2>1, <2>2, <1>1
    <2>3. CASE lines'[g] = lines[g]
      BY <2>3 DEF StreamInv, BehindLooksStale
    <2> QED
      BY <1>1, <2>2, <2>3
  <1> QED
    BY <1>4, <1>5, <1>6, <1>7, <1>8 DEF StreamInv

LEMMA ReadStep ==
  ASSUME TypeOK, StreamInv, ReadIncremental
  PROVE  StreamInv'
  <1>1. task \in Tasks /\ Tracked(task.file) /\ mark = rows[task.file].mark
    BY DEF ReadIncremental, StreamInv, WorkInv, Busy
  <1>2. task.file \in Files
    BY <1>1 DEF Tasks
  <1>3. /\ pc = "read" /\ pc' \in {"record", "submit"}
        /\ pc' = "submit" => upto' # mark
        /\ upto' = IF mark + Batch < lines[task.file] THEN mark + Batch
                                                      ELSE lines[task.file]
        /\ UNCHANGED <<lines, rows, queue, delayed, drain, task, mark, sent, withheld,
                       again, unsaved, missed>>
    BY DEF ReadIncremental, tasks, handled
  <1>4. InFlight = {} /\ InFlight' = {}
    BY <1>3 DEF InFlight
  <1>5. QueueInv' /\ WorkInv' /\ SubmitInv'
    BY <1>1, <1>3, <1>4 DEF StreamInv, QueueInv, WorkInv, SubmitInv, Tracked
  <1>6. FileInv' /\ HandledInv' /\ SavedIsHandled' /\ HandledOnce' /\ BehindLooksStale'
    BY <1>3, <1>4 DEF StreamInv, FileInv, HandledInv, SavedIsHandled, HandledOnce,
      BehindLooksStale, Tracked, Span
  <1>7. BatchInv'
    <2>1. mark <= lines[task.file]
      BY <1>1, <1>2 DEF StreamInv, FileInv
    <2> QED
      BY <2>1, <1>2, <1>3 DEF BatchInv, TypeOK
  <1> QED
    BY <1>5, <1>6, <1>7 DEF StreamInv

\* What is submitted lies above the saved watermark, so it has been handled
\* before only in a batch whose watermark was lost.
LEMMA SubmitStep ==
  ASSUME TypeOK, StreamInv, Submit
  PROVE  StreamInv'
  <1> DEFINE these == Span(task.file, mark, upto)
  <1>1. task \in Tasks /\ Tracked(task.file) /\ mark = rows[task.file].mark
    BY DEF Submit, StreamInv, WorkInv, Busy
  <1>2. /\ pc = "submit" /\ pc' = "save"
        /\ again' = again \cup (these \cap (sent \cup withheld))
        /\ sent' \cup withheld' = sent \cup withheld \cup these
        /\ UNCHANGED <<lines, rows, queue, delayed, drain, task, mark, upto, unsaved,
                       missed>>
    BY DEF Submit, tasks
  <1>3. InFlight = {} /\ InFlight' = these
    BY <1>2 DEF InFlight, Span
  <1>4. QueueInv' /\ WorkInv' /\ BatchInv' /\ FileInv' /\ BehindLooksStale'
    BY <1>1, <1>2 DEF StreamInv, QueueInv, WorkInv, BatchInv, FileInv, BehindLooksStale,
      Tracked
  <1>5. SubmitInv'
    BY <1>2, <1>3 DEF SubmitInv
  <1>6. HandledInv'
    BY <1>2, <1>3 DEF StreamInv, HandledInv, Tracked
  <1>7. SavedIsHandled'
    BY <1>2 DEF StreamInv, SavedIsHandled, Tracked, Span
  <1>8. HandledOnce'
    <2> SUFFICES ASSUME NEW x \in these, x \in sent \cup withheld PROVE x \in unsaved
      BY <1>2 DEF StreamInv, HandledOnce
    <2>1. PICK k \in (mark + 1)..upto : x = <<task.file, k>>
      BY DEF Span
    <2>2. ~(k <= mark) /\ x[1] = task.file /\ x[2] = k
      BY <2>1 DEF TypeOK
    <2> QED
      BY <2>2, <1>1, <1>3 DEF StreamInv, HandledInv
  <1> QED
    BY <1>4, <1>5, <1>6, <1>7, <1>8 DEF StreamInv

LEMMA SaveStep ==
  ASSUME TypeOK, StreamInv, SaveWatermark
  PROVE  StreamInv'
  <1> DEFINE f == task.file
  <1>1. /\ task \in Tasks /\ Tracked(f) /\ mark = rows[f].mark
        /\ mark <= upto /\ upto <= lines[f]
    BY DEF SaveWatermark, StreamInv, WorkInv, BatchInv, Busy
  <1>2. f \in Files /\ rows[f] \in Rows /\ mark \in Nat /\ upto \in Nat
    BY <1>1, TrackedRow DEF Tasks, TypeOK
  <1>3. /\ pc = "save" /\ pc' = "read" /\ mark' = upto
        /\ UNCHANGED <<lines, queue, delayed, drain, task, upto, sent, withheld, again,
                       unsaved, missed>>
    BY DEF SaveWatermark, tasks, handled
  <1>4. /\ rows'[f].mark = upto /\ rows'[f].size = rows[f].size
        /\ rows'[f] # NoRow
        /\ \A g \in Files : g # f => rows'[g] = rows[g]
    <2>1. rows'[f] = [rows[f] EXCEPT !.mark = upto]
      BY <1>2 DEF SaveWatermark, TypeOK
    <2>2. [rows[f] EXCEPT !.mark = upto] \in Rows
      BY <1>2, Updates
    <2>3. \A g \in Files : g # f => rows'[g] = rows[g]
      BY DEF SaveWatermark, TypeOK
    <2> QED
      BY <2>1, <2>2, <2>3, <1>2 DEF Rows
  <1>5. InFlight = Span(f, mark, upto) /\ InFlight' = {}
    BY <1>3 DEF InFlight
  <1>6. \A g \in Files : Tracked(g)' <=> Tracked(g)
    BY <1>1, <1>4 DEF Tracked
  <1>7. QueueInv'
    <2> SUFFICES ASSUME NEW t \in queue \cup delayed \cup drain PROVE Tracked(t.file)'
      BY <1>3 DEF QueueInv
    <2>1. t.file \in Files
      BY DEF TypeOK, Tasks
    <2> QED
      BY <2>1, <1>6 DEF StreamInv, QueueInv
  <1>8. WorkInv' /\ BatchInv' /\ SubmitInv'
    BY <1>1, <1>2, <1>3, <1>4, <1>6 DEF WorkInv, BatchInv, SubmitInv
  <1>9. FileInv'
    <2> SUFFICES ASSUME NEW g \in Files, Tracked(g)
                 PROVE  rows'[g].mark <= lines[g] /\ rows'[g].size <= lines[g]
      BY <1>3, <1>6 DEF FileInv
    <2>1. rows[g].mark <= lines[g] /\ rows[g].size <= lines[g]
      BY DEF StreamInv, FileInv
    <2>2. CASE g = f
      BY <2>1, <2>2, <1>1, <1>4
    <2>3. CASE g # f
      BY <2>1, <2>3, <1>4
    <2> QED
      BY <2>2, <2>3
  <1>10. HandledInv'
    <2> SUFFICES ASSUME NEW x \in sent \cup withheld
                 PROVE  \/ Tracked(x[1])' /\ x[2] <= rows'[x[1]].mark
                        \/ x \in unsaved
      BY <1>3 DEF HandledInv
    <2>1. x[1] \in Files /\ x[2] \in Nat
      BY DEF TypeOK, AllLines
    <2>2. CASE Tracked(x[1]) /\ x[2] <= rows[x[1]].mark
      BY <2>1, <2>2, <1>1, <1>2, <1>4, <1>6
    <2>3. CASE x \in InFlight
      <3>1. x[1] = f /\ x[2] <= upto
        BY <2>3, <1>2, <1>5 DEF Span
      <3> QED
        BY <3>1, <1>4 DEF Tracked
    <2> QED
      BY <2>2, <2>3 DEF StreamInv, HandledInv
  <1>11. SavedIsHandled'
    <2> SUFFICES ASSUME NEW g \in Files, Tracked(g)
                 PROVE  Span(g, 0, rows'[g].mark) \subseteq sent \cup withheld
      BY <1>3, <1>6 DEF SavedIsHandled, Span
    <2>1. CASE g # f
      BY <2>1, <1>4 DEF StreamInv, SavedIsHandled
    <2>2. CASE g = f
      <3>1. Span(f, 0, upto) \subseteq Span(f, 0, mark) \cup Span(f, mark, upto)
        BY <1>1, <1>2 DEF Span
      <3>2. Span(f, 0, mark) \subseteq sent \cup withheld
        BY <1>1, <1>2 DEF StreamInv, SavedIsHandled
      <3>3. Span(f, mark, upto) \subseteq sent \cup withheld
        BY <1>3, <1>5 DEF StreamInv, SubmitInv
      <3> QED
        BY <2>2, <3>1, <3>2, <3>3, <1>4
    <2> QED
      BY <2>1, <2>2
  <1>12. HandledOnce'
    BY <1>3 DEF StreamInv, HandledOnce
  <1>13. BehindLooksStale'
    <2> SUFFICES ASSUME NEW g \in Files, Tracked(g), rows'[g].mark < lines[g],
                        g \notin missed
                 PROVE  rows'[g].size # lines[g]
      BY <1>3, <1>6 DEF BehindLooksStale
    <2>1. rows[g].mark < lines[g] /\ rows'[g].size = rows[g].size
      BY <1>1, <1>2, <1>4 DEF TypeOK
    <2> QED
      BY <2>1 DEF StreamInv, BehindLooksStale
  <1> QED
    BY <1>7, <1>8, <1>9, <1>10, <1>11, <1>12, <1>13 DEF StreamInv
LEMMA RecordStep ==
  ASSUME TypeOK, StreamInv, RecordMetadata
  PROVE  StreamInv'
  <1> DEFINE f == task.file
  <1>1. task \in Tasks /\ Tracked(f)
    BY DEF RecordMetadata, StreamInv, WorkInv, Busy
  <1>2. f \in Files /\ rows[f] \in Rows /\ rows[f].mark \in Nat /\ lines[f] \in Nat
    BY <1>1, TrackedRow DEF Tasks, TypeOK
  <1>3. /\ pc = "record" /\ pc' = "select"
        /\ missed' = IF lines[f] > rows[f].mark THEN missed \cup {f} ELSE missed \ {f}
        /\ UNCHANGED <<lines, queue, delayed, drain, sent, withheld, again, unsaved>>
    BY DEF RecordMetadata, Leave, tasks, handled
  <1>4. /\ rows'[f].mark = rows[f].mark /\ rows'[f].size = lines[f]
        /\ rows'[f] # NoRow
        /\ \A g \in Files : g # f => rows'[g] = rows[g]
    <2>1. rows'[f] = [rows[f] EXCEPT !.size = lines[f]]
      BY <1>2 DEF RecordMetadata, TypeOK
    <2>2. [rows[f] EXCEPT !.size = lines[f]] \in Rows
      BY <1>2, Updates
    <2>3. \A g \in Files : g # f => rows'[g] = rows[g]
      BY DEF RecordMetadata, TypeOK
    <2> QED
      BY <2>1, <2>2, <2>3, <1>2 DEF Rows
  <1>5. InFlight = {} /\ InFlight' = {}
    BY <1>3 DEF InFlight
  <1>6. \A g \in Files : (Tracked(g)' <=> Tracked(g))
                         /\ (Tracked(g) => rows'[g].mark = rows[g].mark)
    BY <1>1, <1>4 DEF Tracked
  <1>7. QueueInv'
    <2> SUFFICES ASSUME NEW t \in queue \cup delayed \cup drain PROVE Tracked(t.file)'
      BY <1>3 DEF QueueInv
    <2>1. t.file \in Files
      BY DEF TypeOK, Tasks
    <2> QED
      BY <2>1, <1>6 DEF StreamInv, QueueInv
  <1>8. WorkInv' /\ BatchInv' /\ SubmitInv'
    BY <1>3 DEF WorkInv, BatchInv, SubmitInv, Busy
  <1>9. FileInv'
    <2> SUFFICES ASSUME NEW g \in Files, Tracked(g)
                 PROVE  rows'[g].mark <= lines[g] /\ rows'[g].size <= lines[g]
      BY <1>3, <1>6 DEF FileInv
    <2> QED
      BY <1>2, <1>4 DEF StreamInv, FileInv
  <1>10. HandledInv'
    <2> SUFFICES ASSUME NEW x \in sent \cup withheld
                 PROVE  \/ Tracked(x[1])' /\ x[2] <= rows'[x[1]].mark
                        \/ x \in unsaved
      BY <1>3 DEF HandledInv
    <2>1. x[1] \in Files
      BY DEF TypeOK, AllLines
    <2> QED
      BY <2>1, <1>5, <1>6 DEF StreamInv, HandledInv
  <1>11. SavedIsHandled'
    BY <1>3, <1>6 DEF StreamInv, SavedIsHandled, Span
  <1>12. HandledOnce'
    BY <1>3 DEF StreamInv, HandledOnce
  <1>13. BehindLooksStale'
    <2> SUFFICES ASSUME NEW g \in Files, Tracked(g), rows[g].mark < lines[g],
                        g \notin missed'
                 PROVE  rows'[g].size # lines[g]
      BY <1>3, <1>6 DEF BehindLooksStale
    <2>1. g # f
      BY <1>3
    <2> QED
      BY <2>1, <1>3, <1>4 DEF StreamInv, BehindLooksStale
  <1> QED
    BY <1>7, <1>8, <1>9, <1>10, <1>11, <1>12, <1>13 DEF StreamInv

LEMMA StreamNext == TypeOK /\ StreamInv /\ [Next]_vars => StreamInv'
  <1> SUFFICES ASSUME TypeOK, StreamInv, [Next]_vars PROVE StreamInv'
    OBVIOUS
  <1>t. ASSUME NEW t \in queue \cup delayed \cup drain PROVE rows[t.file] # NoRow
    BY DEF StreamInv, QueueInv, Tracked
  <1>1. ASSUME NEW f \in Files, Append(f) PROVE StreamInv'
    BY <1>1, AppendStep
  <1>2. ASSUME NEW f \in Files,
               SwitchSharing \/ NotifyCheckpoint(f) \/ TriggerSweep \/ CooldownOver
                 \/ RequestShutdown
        PROVE  StreamInv'
    BY <1>2, QuietStep DEF SwitchSharing, NotifyCheckpoint, TriggerSweep, CooldownOver,
      RequestShutdown, tasks, work, handled
  <1>3. CASE SwitchSharing \/ TriggerSweep \/ CooldownOver \/ RequestShutdown
    BY <1>3, QuietStep DEF SwitchSharing, TriggerSweep, CooldownOver, RequestShutdown,
      tasks, work, handled
  <1>4. CASE DelayNextTask \/ DrainImmediateTasks
    <2>1. queue' \cup delayed' \cup drain' \subseteq queue \cup delayed \cup drain
      BY <1>4 DEF DelayNextTask, DrainImmediateTasks, Foremost
    <2> QED
      BY <1>4, <2>1, QuietStep DEF DelayNextTask, DrainImmediateTasks, work, handled
  <1>5. ASSUME NEW S \in SUBSET Files, NEW L \in SUBSET Files, EnqueueStreams(S, L),
               pc \notin Busy, pc' \notin Busy,
               UNCHANGED <<lines, delayed, drain, handled, unsaved, missed>>
        PROVE  StreamInv'
    <2>1. InFlight = {}
      BY <1>5 DEF InFlight, Busy
    <2>2. \A f \in Files : rows[f] # NoRow => rows'[f] # NoRow
      BY <1>5, Enqueued DEF Tracked
    <2>3. \A t \in queue' \cup delayed' \cup drain' : rows'[t.file] # NoRow
      <3>1. \A t \in queue \cup delayed \cup drain : t.file \in Files
        BY DEF TypeOK, Tasks
      <3> QED
        BY <1>5, <1>t, <2>2, <3>1, Enqueued
    <2> QED
      BY <1>5, <2>1, <2>3, Enqueued, BetweenTasks
  <1>6. ASSUME NEW X \in SUBSET Files, RunSweep(X)
        PROVE  \E L \in SUBSET Files : EnqueueStreams({}, L)
    <2>1. {f \in X : Stale(f)} \in SUBSET Files
      OBVIOUS
    <2> QED
      BY <1>6, <2>1 DEF RunSweep
  <1>7. CASE InitialSweep
    <2>1. CASE GatedSweep
      BY <1>5, <1>6, <1>7, <2>1 DEF GatedSweep, InitialSweep, Busy
    <2>2. CASE UNCHANGED <<gate, queue, rows, faults>>
      <3>1. InFlight = {} /\ pc' \notin Busy
        BY <1>7 DEF InFlight, InitialSweep, Busy
      <3> QED
        BY <1>7, <1>t, <2>2, <3>1, BetweenTasks DEF InitialSweep
    <2> QED
      BY <1>7, <2>1, <2>2 DEF InitialSweep
  <1>8. CASE PeriodicSweep \/ FastSweep \/ RequestedSweep
    <2>1. \E X \in SUBSET Files : RunSweep(X)
      BY <1>8 DEF PeriodicSweep, GatedSweep, FastSweep, RequestedSweep
    <2>2. pc = "select" /\ pc' = "select"
          /\ UNCHANGED <<lines, delayed, drain, handled, unsaved, missed>>
      BY <1>8 DEF PeriodicSweep, FastSweep, RequestedSweep, AtSelect, work
    <2> QED
      BY <1>5, <1>6, <2>1, <2>2 DEF Busy
  <1>9. ASSUME NEW f \in Files, HandleCheckpoint(f) PROVE StreamInv'
    <2>1. {f} \cup Otel[f] \in SUBSET Files /\ Subagents[f] \in SUBSET Files
      OBVIOUS
    <2> QED
      BY <1>5, <1>9, <2>1 DEF HandleCheckpoint, AtSelect, work, Busy
  <1>10. ASSUME NEW f \in Files, ProcessNextTask(f) PROVE StreamInv'
    <2>0. PICK due \in SUBSET delayed : \E t \in Foremost(queue \cup due) :
            /\ queue' = (queue \cup due) \ {t}
            /\ delayed' = delayed \ due
            /\ Start(t)
      BY <1>10 DEF ProcessNextTask
    <2>1. PICK t \in Foremost(queue \cup due) :
            /\ queue' = (queue \cup due) \ {t}
            /\ delayed' = delayed \ due
            /\ Start(t)
      BY <2>0
    <2>2. t \in queue \cup delayed \cup drain
      BY DEF Foremost
    <2>3. pc \notin Busy /\ UNCHANGED <<lines, rows, drain, handled, unsaved, missed>>
      BY <1>10 DEF ProcessNextTask, AtSelect, Busy
    <2> QED
      BY <2>1, <2>2, <2>3, StartStep
  <1>11. ASSUME NEW t \in drain, DrainNext(t) PROVE StreamInv'
    BY <1>11, StartStep DEF DrainNext, Busy
  <1>12. CASE ReadIncremental \/ Submit \/ SaveWatermark \/ RecordMetadata
    BY <1>12, ReadStep, SubmitStep, SaveStep, RecordStep
  <1>13. CASE Failures
    <2>1. pc \in Busy /\ \E transient \in BOOLEAN : HandleError(transient)
      BY <1>13 DEF Failures, ReadFails, SaveFails, RecordFails, Busy
    <2>2. task \in Tasks /\ rows[task.file] # NoRow
      BY <2>1 DEF StreamInv, WorkInv, Tracked
    <2>3. pc' = "select" /\ \A t \in queue' : t \in queue \/ t.file = task.file
      BY <2>1, <2>2, TypeFailure
    <2>4. UNCHANGED <<lines, rows, delayed, drain, handled, missed>>
          /\ unsaved \cup InFlight \subseteq unsaved'
      BY <1>13 DEF Failures, ReadFails, SaveFails, RecordFails, InFlight
    <2>5. \A t \in queue' \cup delayed' \cup drain' : rows'[t.file] # NoRow
      BY <1>t, <2>2, <2>3, <2>4
    <2> QED
      BY <2>3, <2>4, <2>5, BetweenTasks DEF Busy
  <1>14. CASE Exit \/ Crash
    <2>1. Restart
      BY <1>14 DEF Exit, Crash
    <2> QED
      BY <2>1, BetweenTasks DEF Restart, Busy
  <1>15. CASE UNCHANGED vars
    BY <1>15, QuietStep DEF vars, tasks
  <1> QED
    BY <1>1, <1>2, <1>3, <1>4, <1>7, <1>8, <1>9, <1>10, <1>11, <1>12, <1>13, <1>14,
       <1>15 DEF Next, Work

----------------------------------------------------------------------------
(* Theorems *)

\* Every reachable state is well typed and satisfies the inductive invariant,
\* with any number of crashes, failures and changes of the settings.
THEOREM Inductive == Spec => [](TypeOK /\ StreamInv)
  <1>1. Init => TypeOK /\ StreamInv
    BY TypeInit, StreamInit
  <1>2. TypeOK /\ StreamInv /\ [Next]_vars => TypeOK' /\ StreamInv'
    BY TypeNext, StreamNext DEF StreamInv
  <1> QED
    BY <1>1, <1>2, PTL DEF Spec

\* The state of the stream worker is well typed.
THEOREM TypeCorrect == Spec => []TypeOK
  BY Inductive, PTL

\* No watermark is saved for lines that were not handed over: no interleaving
\* of appends, notices, sweeps, errors and restarts loses a line on this side of
\* the telemetry buffer (process_session_blocking).
THEOREM NoLineSkipped == Spec => []SavedIsHandled
  <1>1. StreamInv => SavedIsHandled
    BY DEF StreamInv
  <1> QED
    BY <1>1, Inductive, PTL

\* A line is handed over twice, or submitted after it was withheld, only if its
\* batch was handed over and its watermark not saved.
THEOREM NoReplay == Spec => []HandledOnce
  <1>1. StreamInv => HandledOnce
    BY DEF StreamInv
  <1> QED
    BY <1>1, Inductive, PTL

\* A tracked file that is behind looks changed to a sweep, but for files that
\* grew between their last read and the stat (is_file_stale).
THEOREM StaleWhenBehind == Spec => []BehindLooksStale
  <1>1. StreamInv => BehindLooksStale
    BY DEF StreamInv
  <1> QED
    BY <1>1, Inductive, PTL
=============================================================================
