--------------------------- MODULE MCUploadQueues ---------------------------
(* Instances of the durable queues that the telemetry flush drains besides  *)
(* the notes.  They share no state, so TLC checks them side by side: which  *)
(* says whose steps a behaviour takes, and variables of the same name are   *)
(* used by the one it names.                                                *)
EXTENDS Integers, TLC

CONSTANTS
  Shas, Files, Hashes,
  Events, Bad, Invalid, Huge, Mixes, BatchLimit,      \* of MetricsQueue
  MaxVersions, MaxTouches, MaxSwitches, MaxAttempts,  \* as in the queues
  SummaryFaults, ChangeFaults, TranscriptFaults, MetricFaults  \* MaxFaults of each

ASSUME UploadAssumption ==
  /\ Shas # {}
  /\ {MaxVersions, MaxTouches, MaxSwitches, MaxAttempts} \subseteq Nat
  /\ {SummaryFaults, ChangeFaults, TranscriptFaults, MetricFaults} \subseteq Nat
  /\ BatchLimit \in Nat \ {0}

VARIABLES which,
  row, flush, faults, server, held, late,     \* used by several
  post, made, raced, purged,                  \* SummaryQueue
  connected, switches, owed,                  \* FileChangeQueue
  wanted, failures,                           \* TranscriptQueue
  buffer, rows, manual, uploaded, excused     \* MetricsQueue

Summaries == INSTANCE SummaryQueue WITH MaxFaults <- SummaryFaults

Changes == INSTANCE FileChangeQueue WITH MaxFaults <- ChangeFaults

Transcripts == INSTANCE TranscriptQueue WITH MaxFaults <- TranscriptFaults

Metrics == INSTANCE MetricsQueue WITH MaxFaults <- MetricFaults

notSummaries == <<connected, switches, owed, wanted, failures, buffer, rows, manual,
                  uploaded, excused>>
notChanges == <<post, made, purged, wanted, failures, buffer, rows, manual, uploaded, excused>>
notTranscripts == <<post, made, raced, purged, connected, switches, owed, buffer, rows,
                    manual, uploaded, excused>>
notMetrics == <<row, server, late, post, raced, purged, switches, owed, wanted, failures>>

all == <<which, row, flush, faults, server, held, late, post, made, raced, purged,
         connected, switches, owed, wanted, failures, buffer, rows, manual, uploaded, excused>>

\* Variables no one uses are 0.
Init ==
  \/ /\ which = "summaries" /\ Summaries!Init
     /\ connected = 0 /\ switches = 0 /\ owed = 0 /\ wanted = 0
     /\ failures = 0 /\ buffer = 0 /\ rows = 0 /\ manual = 0
     /\ uploaded = 0 /\ excused = 0
  \/ /\ which = "changes" /\ Changes!Init
     /\ post = 0 /\ made = 0 /\ purged = 0 /\ wanted = 0
     /\ failures = 0 /\ buffer = 0 /\ rows = 0 /\ manual = 0
     /\ uploaded = 0 /\ excused = 0
  \/ /\ which = "transcripts" /\ Transcripts!Init
     /\ post = 0 /\ made = 0 /\ raced = 0 /\ purged = 0
     /\ connected = 0 /\ switches = 0 /\ owed = 0 /\ buffer = 0
     /\ rows = 0 /\ manual = 0 /\ uploaded = 0 /\ excused = 0
  \/ /\ which = "metrics" /\ Metrics!Init
     /\ row = 0 /\ server = 0 /\ late = 0 /\ post = 0
     /\ raced = 0 /\ purged = 0 /\ switches = 0 /\ owed = 0
     /\ wanted = 0 /\ failures = 0

Next ==
  /\ UNCHANGED which
  /\ \/ which = "summaries" /\ Summaries!Next /\ UNCHANGED notSummaries
     \/ which = "changes" /\ Changes!Next /\ UNCHANGED notChanges
     \/ which = "transcripts" /\ Transcripts!Next /\ UNCHANGED notTranscripts
     \/ which = "metrics" /\ Metrics!Next /\ UNCHANGED notMetrics

\* MetricsQueue!Fairness
Spec ==
  /\ Init /\ [][Next]_all
  /\ WF_all(which = "metrics" /\ Metrics!Flush /\ UNCHANGED <<which, notMetrics>>)

----------------------------------------------------------------------------

\* What is put in a queue of rows leaves it for the server or by the user's
\* decision, and what is left behind is not older than the code says: no answer,
\* refusal or crash loses a summary or a transcript or counts two attempts for one
\* failure, the server ends with the last summary of a commit, and a synced row of
\* file changes has sent every change made in connected mode; the state of each
\* queue keeps its type.
NothingLost ==
  /\ which = "summaries" => /\ Summaries!TypeOK
                            /\ Summaries!SummaryNotLost /\ Summaries!SettledIsLatest
  /\ which = "changes" => Changes!TypeOK /\ Changes!SyncedCountIsComplete
  /\ which = "transcripts" => /\ Transcripts!TypeOK
                              /\ Transcripts!TranscriptNotLost /\ Transcripts!AttemptsAreFailures

\* MetricsQueue: an event leaves memory and the tables for the server or by the
\* user's decision, and a retry, which gives it a new row, does not make two rows
\* of it; the state keeps its type.
MetricsKept ==
  which = "metrics" => Metrics!TypeOK /\ Metrics!MetricNotLost /\ Metrics!OneRowPerEvent

\* All three tables of rows with a retry time: what a hold covers waits.
HeldUntilReleased ==
  /\ which = "summaries" => Summaries!HeldUntilReleased
  /\ which = "changes" => Changes!HeldUntilReleased
  /\ which = "transcripts" => Transcripts!HeldUntilReleased

\* MetricsQueue: refused events do not keep the others from the server.
GoodEventsDelivered ==
  \A e \in Metrics!Good(Events) :
    (which = "metrics" /\ Metrics!Waiting(e)) ~> ~(which = "metrics" /\ Metrics!Waiting(e))
=============================================================================
