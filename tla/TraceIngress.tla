---------------------------- MODULE TraceIngress ----------------------------
(***************************************************************************)
(* How the daemon learns that a git command has ended                      *)
(* (src/src/daemon.rs, src/src/daemon/trace_normalizer.rs).                *)
(*                                                                         *)
(* Every git process writes its trace2 events to a connection of its own;  *)
(* the events of a command's children carry the sid of its root.  One      *)
(* thread per connection augments the events from the shared               *)
(* TraceIngressState, stamps them with a sequence number and sends them    *)
(* through a bounded channel to one worker, which reorders them and gives  *)
(* them to the normalizer.  Read-only commands are handled in the thread.  *)
(* When the last connection of a root closes without its exit having been  *)
(* processed, the thread sends an exit in the root's place (a fallback).   *)
(*                                                                         *)
(* The family sequencer behind the normalizer is module FamilySequencer;   *)
(* here it is the set of roots that hold a slot.  ended, handled and early *)
(* are history variables.                                                  *)
(***************************************************************************)
EXTENDS Integers, Sequences, FiniteSets

CONSTANTS
  Roots,       \* sids of git commands
  Conns,       \* connections: one per git process
  RootOf,      \* the root a connection's events belong to
  RootConn,    \* the connection of the root's own process
  Script,      \* the events a process writes when nothing goes wrong
  ReadOnly,    \* connections of read-only invocations
  Listing,     \* those recognised by their arguments only (stash list)
  Sequenced,   \* roots whose start takes a slot of the family sequencer
  Capacity,    \* TRACE_INGEST_QUEUE_CAPACITY (16 384)
  Stoppable,   \* whether the daemon is asked to stop
  MaxBreaks,   \* bound: git processes killed before their exit
  MaxErrors    \* bound: failed reads and failed finalizations

Events == {"version", "start", "def_repo", "cmd_name", "exit", "atexit"}

ASSUME IngressAssumption ==
  /\ RootOf \in [Conns -> Roots]
  /\ RootConn \in [Roots -> Conns]
  /\ \A r \in Roots : RootOf[RootConn[r]] = r
  /\ Script \in [Conns -> Seq(Events)]
  \* A git process writes at most one start.
  /\ \A r \in Roots : \A i, j \in DOMAIN Script[RootConn[r]] :
       Script[RootConn[r]][i] = "start" /\ Script[RootConn[r]][j] = "start" => i = j
  /\ Capacity \in Nat \ {0}
  /\ MaxBreaks \in Nat /\ MaxErrors \in Nat

VARIABLES
  \* connection threads
  pc,        \* where each thread is
  read,      \* events it has read
  payload,   \* the event in its hands
  \* TraceIngressState
  known,     \* root -> what is recorded of it
  readOnly,  \* root_definitely_read_only
  open,      \* root_open_connections
  fallback,  \* root_close_fallback_enqueued
  \* the queue
  stamped,   \* next_trace_ingest_seq: the last number given out
  channel,
  stopping,  \* shutting_down
  \* the worker
  worker,    \* where it is
  buffer,    \* pending_by_seq
  next,      \* next_seq
  clearing,  \* the root it is about to forget
  \* the normalizer and the sequencer's slots
  pending, deferred, completed, slots,
  breaks, errors,
  ended,     \* history: the event that finalized a root
  handled,   \* history: the last event of a connection the worker processed
  early      \* history: fallbacks sent before the root's process was heard

threadVars == <<pc, read, payload>>
ingressVars == <<known, readOnly, open, fallback>>
workerVars == <<worker, buffer, next, clearing>>
normVars == <<pending, deferred, completed, slots>>
bounds == <<breaks, errors>>
history == <<ended, handled, early>>

vars == <<threadVars, ingressVars, stamped, channel, stopping, workerVars,
          normVars, bounds, history>>

----------------------------------------------------------------------------
(* Events *)

Payload(c, i, e, f) == [seq |-> 0, conn |-> c, idx |-> i, event |-> e, fallback |-> f]

NoPayload(c) == Payload(c, 0, "version", FALSE)

\* sid = root: the root's own process, and not one of its children.
Own(c) == RootConn[RootOf[c]] = c

Terminal(p) == (Own(p.conn) /\ p.event \in {"exit", "atexit"}) \/ p.fallback

Start(p) == Own(p.conn) /\ p.event = "start"

\* The event says which command runs, and whether it says it is read-only.
HasCommand(p) == p.event \in {"start", "cmd_name"}

SaysReadOnly(p) ==
  \/ p.event = "start" /\ p.conn \in ReadOnly
  \/ p.event = "cmd_name" /\ p.conn \in ReadOnly \ Listing

Init ==
  /\ pc = [c \in Conns |-> "read"]
  /\ read = [c \in Conns |-> 0]
  /\ payload = [c \in Conns |-> NoPayload(c)]
  /\ known = [r \in Roots |-> {}]
  /\ readOnly = {}
  /\ open = [r \in Roots |-> 0]
  /\ fallback = {}
  /\ stamped = 0
  /\ channel = <<>>
  /\ stopping = FALSE
  /\ worker = "select"
  /\ buffer = {}
  /\ next = 1
  /\ clearing = {}
  /\ pending = {}
  /\ deferred = [r \in Roots |-> "no"]
  /\ completed = {}
  /\ slots = {}
  /\ breaks = 0 /\ errors = 0
  /\ ended = [r \in Roots |-> "no"]
  /\ handled = [c \in Conns |-> 0]
  /\ early = {}

Fault == errors < MaxErrors /\ errors' = errors + 1

----------------------------------------------------------------------------
(* Connection threads: handle_trace_connection_actor_reader *)

Goto(c, l) == pc' = [pc EXCEPT ![c] = l]

\* The next line; the first one opens the connection.
Read(c) ==
  LET i == read[c] + 1 IN
  /\ pc[c] = "read"
  /\ i <= Len(Script[c])
  /\ read' = [read EXCEPT ![c] = i]
  /\ payload' = [payload EXCEPT ![c] = Payload(c, i, Script[c][i], FALSE)]
  /\ open' = IF i = 1 THEN [open EXCEPT ![RootOf[c]] = @ + 1] ELSE open
  /\ Goto(c, "augment")
  /\ UNCHANGED <<known, readOnly, fallback, stamped, channel, stopping,
                 workerVars, normVars, bounds, history>>

\* The process ended, or was killed.
EndOfFile(c) ==
  /\ pc[c] = "read"
  /\ \/ read[c] = Len(Script[c]) /\ UNCHANGED breaks
     \/ /\ read[c] < Len(Script[c])
        /\ breaks < MaxBreaks
        /\ breaks' = breaks + 1
  /\ Goto(c, IF read[c] = 0 THEN "done" ELSE "close")
  /\ UNCHANGED <<read, payload, ingressVars, stamped, channel, stopping,
                 workerVars, normVars, errors, history>>

\* A line that is not UTF-8, an error of the socket: the thread just ends.
ReadFails(c) ==
  /\ pc[c] = "read"
  /\ Fault
  /\ Goto(c, "done")
  /\ UNCHANGED <<read, payload, ingressVars, stamped, channel, stopping,
                 workerVars, normVars, breaks, history>>

\* The event says it is read-only, or says nothing and its root is known to be.
Fast(p) == SaysReadOnly(p) \/ (~HasCommand(p) /\ RootOf[p.conn] \in readOnly)

\* The arguments and the worktree of a root, as far as its events told them.
Learned(r, p) ==
  known[r] \cup {f \in {"argv", "worktree"} :
                   IF f = "argv" THEN Start(p) ELSE p.event = "def_repo"}

\* Mutant: every event is stamped, and then a read-only one is not sent.
AugmentReadOnly_Stamped(c) ==
  LET p == payload[c]
      r == RootOf[c]
  IN
  /\ pc[c] = "augment"
  /\ Fast(p)
  /\ stamped' = stamped + 1
  /\ fallback' = fallback \ {r}
  /\ known' = [known EXCEPT ![r] = IF Terminal(p) THEN {} ELSE Learned(r, p)]
  /\ readOnly' = IF Start(p) THEN readOnly \cup {r} ELSE readOnly
  /\ Goto(c, "read")
  /\ UNCHANGED <<read, payload, open, channel, stopping, workerVars,
                 normVars, bounds, history>>

\* A read-only invocation: bookkeeping only, nothing is enqueued.
AugmentReadOnly(c) ==
  LET p == payload[c]
      r == RootOf[c]
  IN
  /\ pc[c] = "augment"
  /\ Fast(p)
  /\ fallback' = fallback \ {r}
  /\ IF Terminal(p)
     THEN known' = [known EXCEPT ![r] = {}] /\ readOnly' = readOnly \ {r}
     ELSE /\ known' = [known EXCEPT ![r] = Learned(r, p) \cup {"command"}]
          /\ readOnly' = IF Start(p) THEN readOnly \cup {r} ELSE readOnly
  /\ Goto(c, "read")
  /\ UNCHANGED <<read, payload, open, stamped, channel, stopping, workerVars,
                 normVars, bounds, history>>

\* Any other event.  A mutating command in a known worktree has its reflogs
\* read after the lock is released.
Augment(c) ==
  LET p == payload[c]
      r == RootOf[c]
      said == HasCommand(p) \/ "argv" \in Learned(r, p)
      all == Learned(r, p) \cup (IF said THEN {"command", "mutates"} ELSE {})
  IN
  /\ pc[c] = "augment"
  /\ ~Fast(p)
  /\ fallback' = fallback \ {r}
  /\ known' = [known EXCEPT ![r] =
                 IF Terminal(p) /\ "worktree" \notin all THEN {} ELSE all]
  /\ Goto(c, IF {"worktree", "mutates"} \subseteq all THEN "capture" ELSE "stamp")
  /\ UNCHANGED <<read, payload, readOnly, open, stamped, channel, stopping,
                 workerVars, normVars, bounds, history>>

\* The lock is taken again to record where the reflogs start.
CaptureReflogs(c) ==
  /\ pc[c] = "capture"
  /\ known' = [known EXCEPT ![RootOf[c]] = @ \cup {"offsets"}]
  /\ Goto(c, "stamp")
  /\ UNCHANGED <<read, payload, readOnly, open, fallback, stamped, channel,
                 stopping, workerVars, normVars, bounds, history>>

\* next_trace_ingest_seq
Stamp(c) ==
  /\ pc[c] = "stamp"
  /\ stamped' = stamped + 1
  /\ payload' = [payload EXCEPT ![c].seq = stamped + 1]
  /\ Goto(c, "send")
  /\ UNCHANGED <<read, ingressVars, channel, stopping, workerVars, normVars,
                 bounds, history>>

\* Mutant: a thread that waits for room does not learn that the worker is gone.
Enqueue_Blocks(c) ==
  /\ pc[c] = "send"
  /\ worker # "stopped"
  /\ Len(channel) < Capacity
  /\ channel' = Append(channel, payload[c])
  /\ Goto(c, IF payload[c].fallback THEN "done" ELSE "read")
  /\ UNCHANGED <<read, payload, ingressVars, stamped, stopping, workerVars,
                 normVars, bounds, history>>

\* enqueue_trace_payload: waits while the channel is full.  It fails when the
\* worker is gone, which asks for a shutdown if nothing else has.
Enqueue(c) ==
  /\ pc[c] = "send"
  /\ \/ /\ worker # "stopped"
        /\ Len(channel) < Capacity
        /\ channel' = Append(channel, payload[c])
        /\ Goto(c, IF payload[c].fallback THEN "done" ELSE "read")
        /\ UNCHANGED stopping
     \/ /\ worker = "stopped"
        /\ stopping' = TRUE
        /\ Goto(c, IF payload[c].fallback THEN "done" ELSE "close")
        /\ UNCHANGED channel
  /\ UNCHANGED <<read, payload, ingressVars, stamped, workerVars, normVars,
                 bounds, history>>

\* Mutants: a count that clear_trace_root_tracking removed is counted down; any
\* connection counts as the last; the count is compared and not counted down.
RecordClose_Underflow(c) ==
  LET r == RootOf[c] IN
  /\ pc[c] = "close"
  /\ open' = [open EXCEPT ![r] = @ - 1]
  /\ Goto(c, IF open[r] > 1 THEN "done" ELSE "fallback")
  /\ UNCHANGED <<read, payload, known, readOnly, fallback, stamped, channel,
                 stopping, workerVars, normVars, bounds, history>>

RecordClose_AnyIsLast(c) ==
  LET r == RootOf[c] IN
  /\ pc[c] = "close"
  /\ open' = [open EXCEPT ![r] = 0]
  /\ Goto(c, "fallback")
  /\ UNCHANGED <<read, payload, known, readOnly, fallback, stamped, channel,
                 stopping, workerVars, normVars, bounds, history>>

RecordClose_KeepsCount(c) ==
  LET r == RootOf[c] IN
  /\ pc[c] = "close"
  /\ open' = [open EXCEPT ![r] = IF @ > 1 THEN @ ELSE 0]
  /\ Goto(c, IF open[r] > 1 THEN "done" ELSE "fallback")
  /\ UNCHANGED <<read, payload, known, readOnly, fallback, stamped, channel,
                 stopping, workerVars, normVars, bounds, history>>

\* record_trace_connection_close: the last of the root's connections goes on.
RecordClose(c) ==
  LET r == RootOf[c] IN
  /\ pc[c] = "close"
  /\ open' = [open EXCEPT ![r] = IF @ > 1 THEN @ - 1 ELSE 0]
  /\ Goto(c, IF open[r] > 1 THEN "done" ELSE "fallback")
  /\ UNCHANGED <<read, payload, known, readOnly, fallback, stamped, channel,
                 stopping, workerVars, normVars, bounds, history>>

\* trace_root_is_tracked
Tracked(r) == known[r] # {}

\* enqueue_stale_connection_close_fallbacks
EnqueueFallback(c) ==
  LET r == RootOf[c] IN
  /\ pc[c] = "fallback"
  /\ IF Tracked(r) /\ open[r] = 0 /\ r \notin fallback
     THEN /\ fallback' = fallback \cup {r}
          /\ payload' = [payload EXCEPT ![c] = Payload(c, read[c] + 1, "atexit", TRUE)]
          /\ early' = IF read[RootConn[r]] = 0 THEN early \cup {r} ELSE early
          /\ Goto(c, "stamp")
     ELSE Goto(c, "done") /\ UNCHANGED <<fallback, payload, early>>
  /\ UNCHANGED <<read, known, readOnly, open, stamped, channel, stopping,
                 workerVars, normVars, bounds, ended, handled>>

----------------------------------------------------------------------------
(* The worker: start_trace_ingest_worker *)

\* The receiver is dropped with everything in it.
Stopped == worker' = "stopped" /\ channel' = <<>>

\* A payload is received; a full reorder buffer stops the daemon.
Receive ==
  /\ worker = "select"
  /\ channel # <<>>
  /\ IF Cardinality(buffer) >= Capacity \/ (\E p \in buffer : p.seq = Head(channel).seq)
     THEN Stopped /\ stopping' = TRUE /\ UNCHANGED buffer
     ELSE /\ buffer' = buffer \cup {Head(channel)}
          /\ channel' = Tail(channel)
          /\ worker' = "drain"
          /\ UNCHANGED stopping
  /\ UNCHANGED <<threadVars, ingressVars, stamped, next, clearing, normVars,
                 bounds, history>>

\* The channel is preferred to the shutdown signal.
StopWorker ==
  /\ worker = "select"
  /\ channel = <<>>
  /\ stopping
  /\ Stopped
  /\ UNCHANGED <<threadVars, ingressVars, stamped, stopping, buffer, next,
                 clearing, normVars, bounds, history>>

\* finalize_root_exit: the command is emitted, or lost with an error.
Finalize(r, by) ==
  /\ pending' = pending \ {r}
  /\ \/ /\ completed' = completed \cup {r}
        /\ ended' = [ended EXCEPT ![r] = by]
        /\ clearing' = {r}
        /\ UNCHANGED errors
     \/ Fault /\ UNCHANGED <<completed, ended, clearing>>

EndedBy(p) == IF p.fallback THEN "fallback" ELSE "exit"

\* handle_start: a deferred exit ends the root at once.
HandleStart(r) ==
  IF r \in completed THEN UNCHANGED <<pending, deferred, completed, ended, clearing, errors>>
  ELSE /\ deferred' = [deferred EXCEPT ![r] = "no"]
       /\ IF deferred[r] = "no"
          THEN pending' = pending \cup {r} /\ UNCHANGED <<completed, ended, clearing, errors>>
          ELSE Finalize(r, deferred[r])

\* handle_exit: without a start the exit is deferred; a terminal event that
\* emits nothing cancels the root's slot.
HandleExit(r, p) ==
  IF r \in pending THEN Finalize(r, EndedBy(p)) /\ UNCHANGED deferred
  ELSE /\ deferred' = IF r \in completed THEN deferred
                      ELSE [deferred EXCEPT ![r] = EndedBy(p)]
       /\ clearing' = slots \cap {r}
       /\ UNCHANGED <<pending, completed, ended, errors>>

\* Mutant: payloads are processed as they arrive.
Ingest_AsItArrives(p) ==
  /\ worker = "drain"
  /\ buffer' = buffer \ {p}
  /\ next' = next + 1
  /\ handled' = [handled EXCEPT ![p.conn] = p.idx]
  /\ UNCHANGED <<threadVars, ingressVars, stamped, channel, stopping, worker,
                 clearing, normVars, bounds, ended, early>>

\* apply_trace_payload_to_state, on the next payload in the order of stamps.
Ingest(p) ==
  LET r == RootOf[p.conn] IN
  /\ worker = "drain"
  /\ p.seq = next
  /\ buffer' = buffer \ {p}
  /\ next' = next + 1
  /\ handled' = [handled EXCEPT ![p.conn] = p.idx]
  /\ \/ Start(p) /\ HandleStart(r)
     \/ Terminal(p) /\ HandleExit(r, p)
     \/ /\ ~Start(p) /\ ~Terminal(p)
        /\ UNCHANGED <<pending, deferred, completed, ended, clearing, errors>>
  /\ slots' = IF clearing' = {r} THEN slots \ {r}
              ELSE IF Start(p) THEN slots \cup (Sequenced \cap {r}) ELSE slots
  /\ worker' = IF clearing' = {} THEN "drain" ELSE "clear"
  /\ UNCHANGED <<threadVars, ingressVars, stamped, channel, stopping, breaks, early>>

\* clear_trace_root_tracking, once the command has been routed.
ClearRoot(r) ==
  /\ worker = "clear"
  /\ r \in clearing
  /\ known' = [known EXCEPT ![r] = {}]
  /\ readOnly' = readOnly \ {r}
  /\ open' = [open EXCEPT ![r] = 0]
  /\ fallback' = fallback \ {r}
  /\ clearing' = {}
  /\ worker' = "drain"
  /\ UNCHANGED <<threadVars, stamped, channel, stopping, buffer, next,
                 normVars, bounds, history>>

\* Nothing is next in the buffer.
Drained ==
  /\ worker = "drain"
  /\ \A p \in buffer : p.seq # next
  /\ worker' = "select"
  /\ UNCHANGED <<threadVars, ingressVars, stamped, channel, stopping, buffer,
                 next, clearing, normVars, bounds, history>>

RequestShutdown ==
  /\ Stoppable
  /\ ~stopping
  /\ stopping' = TRUE
  /\ UNCHANGED <<threadVars, ingressVars, stamped, channel, workerVars,
                 normVars, bounds, history>>

----------------------------------------------------------------------------

Thread(c) ==
  \/ Read(c) \/ EndOfFile(c)
  \/ AugmentReadOnly(c) \/ Augment(c) \/ CaptureReflogs(c)
  \/ Stamp(c) \/ Enqueue(c)
  \/ RecordClose(c) \/ EnqueueFallback(c)

Worker ==
  \/ Receive \/ StopWorker
  \/ \E p \in buffer : Ingest(p)
  \/ \E r \in Roots : ClearRoot(r)
  \/ Drained

Next ==
  \/ \E c \in Conns : Thread(c) \/ ReadFails(c)
  \/ Worker
  \/ RequestShutdown

Spec == Init /\ [][Next]_vars

\* Threads and worker run; every git process ends.
Fairness == WF_vars(Worker) /\ \A c \in Conns : WF_vars(Thread(c))

FairSpec == Spec /\ Fairness

----------------------------------------------------------------------------
(* Properties *)

Payloads == [seq : Nat, conn : Conns, idx : Nat, event : Events, fallback : BOOLEAN]

Labels == {"read", "augment", "capture", "stamp", "send", "close", "fallback", "done"}

\* The type of the state.
TypeOK ==
  /\ pc \in [Conns -> Labels]
  /\ read \in [Conns -> Nat]
  /\ payload \in [Conns -> Payloads]
  /\ known \in [Roots -> SUBSET {"argv", "worktree", "command", "mutates", "offsets"}]
  /\ readOnly \subseteq Roots
  /\ open \in [Roots -> Nat]
  /\ fallback \subseteq Roots
  /\ stamped \in Nat
  /\ channel \in Seq(Payloads)
  /\ stopping \in BOOLEAN
  /\ worker \in {"select", "drain", "clear", "stopped"}
  /\ buffer \subseteq Payloads
  /\ next \in Nat
  /\ clearing \subseteq Roots
  /\ pending \subseteq Roots
  /\ deferred \in [Roots -> {"no", "exit", "fallback"}]
  /\ completed \subseteq Roots
  /\ slots \subseteq Roots
  /\ breaks \in Nat /\ errors \in Nat
  /\ ended \in [Roots -> {"no", "exit", "fallback"}]
  /\ handled \in [Conns -> Nat]
  /\ early \subseteq Roots

Sending == {c \in Conns : pc[c] = "send"}

HeldSeqs == {payload[c].seq : c \in Sending}
QueuedSeqs == {channel[i].seq : i \in DOMAIN channel}
BufferedSeqs == {p.seq : p \in buffer}

\* Numbers are "allocated only for payloads that will be enqueued", so the
\* worker's count "advances without gaps" (prepare_trace_payload_for_ingest):
\* each number not yet processed is on its way, and in one place only.
StampedInOnePlace ==
  worker # "stopped" =>
    /\ HeldSeqs \cup QueuedSeqs \cup BufferedSeqs = next .. stamped
    /\ HeldSeqs \cap QueuedSeqs = {}
    /\ HeldSeqs \cap BufferedSeqs = {}
    /\ QueuedSeqs \cap BufferedSeqs = {}
    /\ \A c, d \in Sending : payload[c].seq = payload[d].seq => c = d
    /\ \A i, j \in DOMAIN channel : channel[i].seq = channel[j].seq => i = j
    /\ \A p, q \in buffer : p.seq = q.seq => p = q

\* The events of one process are processed in the order it wrote them,
\* whatever the threads of other connections do, and its fallback after them.
ConnectionOrderKept == [][\A c \in Conns : handled'[c] >= handled[c]]_vars

ExitRead(r) ==
  \E i \in 1 .. read[RootConn[r]] : Script[RootConn[r]][i] \in {"exit", "atexit"}

\* A command whose exit the daemon reads is finalized by that exit and not by
\* the fallback of another process's connection, unless a child came and went
\* before the daemon read the first line of the command itself.
EndedByItsExit ==
  \A r \in Roots : ended[r] = "fallback" /\ ExitRead(r) => r \in early

\* An error has come about and the open count of a root includes a connection
\* whose thread is gone.
Leaked(r) ==
  errors > 0 /\ open[r] > Cardinality({c \in Conns : RootOf[c] = r /\ read[c] > 0 /\ pc[c] # "done"})

\* A command the normalizer has seen start is finalized once its processes are
\* gone, also when they were killed before they wrote an exit.  Only a read
\* error, which ends a thread without close accounting, can keep it pending.
PendingRootEnds ==
  \A r \in Roots : r \in pending ~> (r \notin pending \/ worker = "stopped" \/ Leaked(r))

\* A shutdown ends the worker, and no thread is left waiting for room in a
\* channel that nobody reads.
ShutdownEndsThreads ==
  stopping ~> (worker = "stopped" /\ \A c \in Conns : pc[c] = "done")
=============================================================================
