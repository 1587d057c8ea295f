---------------------------- MODULE MetricsQueue ----------------------------
(***************************************************************************)
(* Metric events from the telemetry buffer of the daemon to the server     *)
(* (src/src/daemon/telemetry_worker.rs, src/src/metrics/db.rs).            *)
(*                                                                         *)
(* Every three seconds the flush takes the buffer, sends it in envelopes   *)
(* and stores what was not accepted in the table `metrics`; then it sends  *)
(* one batch of that table again.  `autter flush-metrics-db` sends the     *)
(* table from a process of its own, and hold, release and purge move or    *)
(* delete its rows.  Rows are named by an id that is never used again: a   *)
(* set of ids a process has read is kept here as the events whose row      *)
(* still has that id.                                                      *)
(*                                                                         *)
(* made, uploaded and excused are history variables.                       *)
(***************************************************************************)
EXTENDS Integers, Sequences, FiniteSetsExt, Functions

CONSTANTS
  Events,
  Bad, Invalid, Huge,  \* what the server refuses every time, what fails validation
                       \* and what is refused with HTTP 413; all else is accepted
  BatchLimit,  \* MAX_METRICS_PER_ENVELOPE: of a batch and of an envelope
  Mixes,       \* bound: the events of one behaviour are among one of these sets
  MaxFaults    \* bound: failed requests and statements, crashes, mode switches

VARIABLES
  buffer,     \* the in-memory buffer
  rows,       \* the table metrics, by id
  held,       \* the table metrics_held
  connected,  \* platform_sync_enabled
  flush,      \* the flush thread
  manual,     \* autter flush-metrics-db
  faults,
  made,       \* history: events that reached the buffer
  uploaded,   \* history: events the server accepted
  excused     \* history: events lost in a crash or a failed insert, dropped in
              \* local mode, or purged

history == <<made, uploaded, excused>>

vars == <<buffer, rows, held, connected, flush, manual, faults, history>>

IdleFlush == [at |-> "idle", todo |-> <<>>, failed |-> FALSE, ids |-> {},
              accepted |-> {}, retry |-> <<>>, dropped |-> {}]

IdleManual == [at |-> "idle", batch |-> <<>>, ids |-> {}]

Init ==
  /\ buffer = <<>> /\ rows = <<>> /\ held = <<>>
  /\ connected = TRUE
  /\ flush = IdleFlush
  /\ manual = IdleManual
  /\ faults = 0
  /\ made = {} /\ uploaded = {} /\ excused = {}

Fault == faults < MaxFaults /\ faults' = faults + 1

In(s) == {s[i] : i \in DOMAIN s}

Good(S) == S \ (Bad \cup Invalid \cup Huge)

\* SelectSeq(s, e \notin S), by a function of its own: Kept[n] is what is left of
\* the first n.
Without(s, S) ==
  LET Kept[n \in 0 .. Len(s)] ==
        IF n = 0 THEN <<>>
        ELSE IF s[n] \in S THEN Kept[n - 1] ELSE Append(Kept[n - 1], s[n])
  IN  Kept[Len(s)]

Batch(s) == SubSeq(s, 1, IF Len(s) < BatchLimit THEN Len(s) ELSE BatchLimit)

\* split_metrics_envelopes, one envelope at a time: as many events as fit, at most
\* BatchLimit, and a huge one alone.
Fits(s, n) == n = 1 \/ (n <= BatchLimit /\ \A i \in 1 .. n : s[i] \notin Huge)

EnvelopeSize(s) == Max({n \in 1 .. Len(s) : Fits(s, n)})

Envelope(s) == SubSeq(s, 1, EnvelopeSize(s))

\* Mutant: the event that does not fit any more is in no envelope.
AfterEnvelope_SkipsOne(s) == SubSeq(s, EnvelopeSize(s) + 2, Len(s))

AfterEnvelope(s) == SubSeq(s, EnvelopeSize(s) + 1, Len(s))

\* Rows are gone or have new ids: what others know of them is stale.
Forget(S) ==
  /\ flush' = [flush EXCEPT !.ids = @ \ S]
  /\ manual' = [manual EXCEPT !.ids = @ \ S]

----------------------------------------------------------------------------
(* telemetry_flush_loop *)

Ingest(e) ==
  /\ e \notin made
  /\ \E mix \in Mixes : made \cup {e} \subseteq mix
  /\ made' = made \cup {e}
  /\ buffer' = Append(buffer, e)
  /\ UNCHANGED <<rows, held, connected, flush, manual, faults, uploaded, excused>>

\* The buffer is taken.  Local mode drops it; without a login it is stored.
Tick ==
  /\ flush.at = "idle"
  /\ buffer # <<>> \/ rows # <<>>
  /\ buffer' = <<>>
  /\ IF connected
     THEN /\ \/ flush' = [IdleFlush EXCEPT !.at = "live", !.todo = buffer]
                /\ UNCHANGED faults
             \/ flush' = [IdleFlush EXCEPT !.at = "live", !.todo = buffer, !.failed = TRUE]
                /\ Fault
          /\ UNCHANGED excused
     ELSE /\ excused' = excused \cup In(buffer)
          /\ flush' = [IdleFlush EXCEPT !.at = "read"]
          /\ UNCHANGED faults
  /\ UNCHANGED <<rows, held, connected, manual, made, uploaded>>

\* flush_metrics, one envelope: all of it is accepted.
LiveAccepted ==
  LET chunk == In(Envelope(flush.todo)) IN
  /\ flush.at = "live" /\ flush.todo # <<>> /\ ~flush.failed
  /\ chunk = Good(chunk)
  /\ uploaded' = uploaded \cup chunk
  /\ flush' = [flush EXCEPT !.todo = AfterEnvelope(@)]
  /\ UNCHANGED <<buffer, rows, held, connected, manual, faults, made, excused>>

\* Mutant: after a failure the rest of the buffer is left.
LiveStored_FirstOnly ==
  LET chunk == In(Envelope(flush.todo)) IN
  /\ flush.at = "live" /\ flush.todo # <<>>
  /\ \/ flush.failed \/ chunk # Good(chunk)
  /\ uploaded' = uploaded
  /\ rows' = IF flush.failed THEN rows ELSE rows \o Envelope(flush.todo)
  /\ flush' = [flush EXCEPT !.todo = AfterEnvelope(@), !.failed = TRUE]
  /\ UNCHANGED <<buffer, held, connected, manual, faults, made, excused>>

\* It is not sent, fails, or is not accepted as a whole: all of it is stored,
\* with what the server has accepted.  After a failure nothing more is sent.
LiveStored ==
  LET chunk == In(Envelope(flush.todo))
      sent == ~flush.failed
      refused == sent /\ chunk # Good(chunk)
      Answered == uploaded \cup IF chunk \cap Huge = {} THEN Good(chunk) ELSE {}
  IN
  /\ flush.at = "live" /\ flush.todo # <<>>
  /\ \/ /\ flush.failed \/ refused
        /\ uploaded' = IF refused THEN Answered ELSE uploaded
        /\ rows' = rows \o Envelope(flush.todo)
        /\ UNCHANGED <<faults, excused>>
     \/ /\ sent /\ ~refused                 \* the request or its answer is lost
        /\ Fault
        /\ uploaded' \in {uploaded, Answered}
        /\ rows' = rows \o Envelope(flush.todo)
        /\ UNCHANGED excused
     \/ /\ flush.failed \/ refused          \* the insert fails
        /\ Fault
        /\ uploaded' = IF refused THEN Answered ELSE uploaded
        /\ excused' = excused \cup chunk
        /\ UNCHANGED rows
  /\ flush' = [flush EXCEPT !.todo = AfterEnvelope(@), !.failed = TRUE]
  /\ UNCHANGED <<buffer, held, connected, manual, made>>

\* The durable queues follow, unless the login has failed lately.
LiveDone ==
  /\ flush.at = "live" /\ flush.todo = <<>>
  /\ \/ flush' = [IdleFlush EXCEPT !.at = "read"] /\ UNCHANGED faults
     \/ flush' = IdleFlush /\ Fault
  /\ UNCHANGED <<buffer, rows, held, connected, manual, history>>

\* flush_stored_metrics: the oldest rows.
Read ==
  /\ flush.at = "read"
  /\ flush' = IF connected /\ rows # <<>>
              THEN [IdleFlush EXCEPT !.at = "send", !.todo = Batch(rows),
                                     !.ids = In(Batch(rows))]
              ELSE IdleFlush
  /\ UNCHANGED <<buffer, rows, held, connected, manual, faults, history>>

\* One envelope of the batch: accepted, to be tried again, or hopeless.  An
\* envelope that fails otherwise stays as it is.
SendEnvelope ==
  LET envelope == Envelope(flush.todo)
      S == In(envelope)
      large == S \cap Huge
  IN
  /\ flush.at = "send" /\ flush.todo # <<>>
  /\ \/ /\ flush' = [flush EXCEPT !.todo = AfterEnvelope(@),
                       !.accepted = @ \cup IF large = {} THEN Good(S) ELSE {},
                       !.retry = @ \o IF large = {} THEN Without(envelope, Events \ Bad) ELSE <<>>,
                       !.dropped = @ \cup large \cup (S \cap Invalid)]
        /\ uploaded' = IF large = {} THEN uploaded \cup Good(S) ELSE uploaded
        /\ UNCHANGED faults
     \/ /\ Fault
        /\ flush' = [flush EXCEPT !.todo = AfterEnvelope(@)]
        /\ uploaded' \in {uploaded, uploaded \cup Good(S)}
  /\ UNCHANGED <<buffer, rows, held, connected, manual, made, excused>>

\* Mutants: a retried event is inserted as it was read; it keeps its place.
FinishUpload_FromMemory ==
  LET done == flush.accepted \cup In(flush.retry) IN
  /\ flush.at = "send" /\ flush.todo = <<>>
  /\ rows' = Without(rows, done \cap flush.ids) \o flush.retry
  /\ flush' = [flush EXCEPT !.at = "drop", !.ids = @ \ done]
  /\ manual' = [manual EXCEPT !.ids = @ \ done]
  /\ UNCHANGED <<buffer, held, connected, faults, history>>

FinishUpload_InPlace ==
  LET done == flush.accepted IN
  /\ flush.at = "send" /\ flush.todo = <<>>
  /\ rows' = Without(rows, done \cap flush.ids)
  /\ flush' = [flush EXCEPT !.at = "drop", !.ids = @ \ done]
  /\ manual' = [manual EXCEPT !.ids = @ \ done]
  /\ UNCHANGED <<buffer, held, connected, faults, history>>

\* finish_upload: one transaction.  Accepted rows are deleted, those to be
\* tried again go to the end.  If it fails nothing is dropped either.
FinishUpload ==
  LET retry == Without(flush.retry, Events \ flush.ids)
      done == (flush.accepted \cup In(flush.retry)) \cap flush.ids
  IN
  /\ flush.at = "send" /\ flush.todo = <<>>
  /\ \/ /\ rows' = Without(rows, done) \o retry
        /\ flush' = [flush EXCEPT !.at = "drop", !.ids = @ \ done]
        /\ manual' = [manual EXCEPT !.ids = @ \ done]
        /\ UNCHANGED faults
     \/ Fault /\ flush' = IdleFlush /\ UNCHANGED <<rows, manual>>
  /\ UNCHANGED <<buffer, held, connected, history>>

\* delete_records, of what the server will never take.
DropHopeless ==
  /\ flush.at = "drop"
  /\ rows' = Without(rows, flush.dropped \cap flush.ids)
  /\ manual' = [manual EXCEPT !.ids = @ \ (flush.dropped \cap flush.ids)]
  /\ flush' = IdleFlush
  /\ UNCHANGED <<buffer, held, connected, faults, history>>

----------------------------------------------------------------------------
(* autter flush-metrics-db: everything or nothing of a batch *)

ManualRead ==
  /\ manual.at = "idle"
  /\ connected /\ rows # <<>>
  /\ manual' = [at |-> "send", batch |-> Batch(rows), ids |-> In(Batch(rows))]
  /\ UNCHANGED <<buffer, rows, held, connected, flush, faults, history>>

ManualSend ==
  LET S == In(manual.batch) IN
  /\ manual.at = "send"
  /\ \/ /\ S = Good(S)
        /\ manual' = [manual EXCEPT !.at = "delete"]
        /\ uploaded' = uploaded \cup S
        /\ UNCHANGED faults
     \/ /\ S # Good(S)
        /\ manual' = IdleManual
        /\ uploaded' = IF S \cap Huge = {} THEN uploaded \cup Good(S) ELSE uploaded
        /\ UNCHANGED faults
     \/ /\ Fault
        /\ manual' = IdleManual
        /\ UNCHANGED uploaded
  /\ UNCHANGED <<buffer, rows, held, connected, flush, made, excused>>

ManualDelete ==
  /\ manual.at = "delete"
  /\ rows' = Without(rows, manual.ids)
  /\ flush' = [flush EXCEPT !.ids = @ \ manual.ids]
  /\ manual' = IdleManual
  /\ UNCHANGED <<buffer, held, connected, faults, history>>

----------------------------------------------------------------------------
(* The rest of the world *)

\* hold_all and hold_transcript_events move rows to a table no flush reads.
Hold(S) ==
  /\ held' = held \o Without(rows, Events \ S)
  /\ rows' = Without(rows, S)
  /\ Forget(S)
  /\ UNCHANGED <<buffer, connected, faults, history>>

\* release_held
Release ==
  /\ held # <<>>
  /\ rows' = rows \o held
  /\ held' = <<>>
  /\ UNCHANGED <<buffer, connected, flush, manual, faults, history>>

\* delete_all
Purge ==
  /\ excused' = excused \cup In(rows) \cup In(held)
  /\ rows' = <<>> /\ held' = <<>>
  /\ Forget(In(rows))
  /\ UNCHANGED <<buffer, connected, faults, made, uploaded>>

SwitchMode ==
  /\ Fault
  /\ connected' = ~connected
  /\ UNCHANGED <<buffer, rows, held, flush, manual, history>>

\* The daemon dies, or stops: no flush follows the last tick.
Crash ==
  /\ Fault
  /\ excused' = excused \cup In(buffer)
                  \cup (IF flush.at = "live" THEN In(flush.todo) ELSE {})
  /\ buffer' = <<>>
  /\ flush' = IdleFlush
  /\ UNCHANGED <<rows, held, connected, manual, made, uploaded>>

----------------------------------------------------------------------------

Flush ==
  \/ Tick \/ LiveAccepted \/ LiveStored \/ LiveDone
  \/ Read \/ SendEnvelope \/ FinishUpload \/ DropHopeless

Manual == ManualRead \/ ManualSend \/ ManualDelete

Next ==
  \/ \E e \in Events : Ingest(e)
  \/ Flush
  \/ Manual
  \/ Hold(Events) \/ Release \/ Purge
  \/ SwitchMode \/ Crash

Spec == Init /\ [][Next]_vars

\* The flush loop ticks.
Fairness == WF_vars(Flush)

----------------------------------------------------------------------------
(* Properties *)

\* The type of the state.
TypeOK ==
  /\ {buffer, rows, held, flush.todo, flush.retry, manual.batch} \subseteq Seq(Events)
  /\ connected \in BOOLEAN
  /\ flush.at \in {"idle", "live", "read", "send", "drop"}
  /\ flush.failed \in BOOLEAN
  /\ flush.ids \cup flush.accepted \cup flush.dropped \cup manual.ids \subseteq Events
  /\ manual.at \in {"idle", "send", "delete"}
  /\ faults \in 0 .. MaxFaults
  /\ made \cup uploaded \cup excused \subseteq Events

InMemory == In(buffer) \cup IF flush.at = "live" THEN In(flush.todo) ELSE {}

\* An event the server could take is in memory, in a table or on the server,
\* unless it was in memory in a crash, was dropped in local mode or purged.
MetricNotLost ==
  \A e \in made \ (Invalid \cup Huge) :
    e \in InMemory \cup In(rows) \cup In(held) \cup uploaded \cup excused

\* A replay, a manual flush and a hold of the same rows never make two of one:
\* an event a hold has moved away is not in the queue as well.
OneRowPerEvent ==
  /\ IsInjective(rows \o held)
  /\ In(rows \o held) \cap InMemory = {}

Waiting(e) == connected /\ e \in In(rows)

\* Events the server refuses again and again do not keep the others from it.
GoodEventsDelivered == \A e \in Good(Events) : Waiting(e) ~> ~Waiting(e)
=============================================================================
