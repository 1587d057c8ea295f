------------------------- MODULE UploadQueuesProofs -------------------------
(***************************************************************************)
(* Proofs about the durable queues of commit summaries, file changes,      *)
(* transcripts and metric events, for every set of commits, files,         *)
(* transcripts and events and every number of versions, touches, attempts  *)
(* and faults.                                                             *)
(***************************************************************************)
EXTENDS MCUploadQueues, TLAPS, Sequences, Functions, SequenceTheorems, WellFoundedInduction

(* Transcripts (TranscriptQueue) *)

TranscriptFlushes ==
  [at : {"idle", "send", "record", "failed"}, sent : SUBSET Hashes,
   ok : SUBSET Hashes, failed : SUBSET Hashes]

\* A row that is not queued holds nothing; attempts were failures, and each
\* failure, the ones not yet recorded included, was a fault.
AttemptsInv ==
  \A h \in Hashes : /\ ~Transcripts!Queued(h) => row[h] = Transcripts!Absent
                    /\ row[h].attempts <= failures[h]
                    /\ failures[h] <= faults
                    /\ h \in flush.failed => failures[h] + 1 <= faults

\* What the answer calls stored is on the server, and was sent.
StoredInv == flush.ok \subseteq server /\ flush.ok \cup flush.failed \subseteq flush.sent

\* What is sent although it is held was sent before.
SentInv == held \cap flush.sent \subseteq late

TranscriptsHold ==
  /\ Transcripts!TypeOK /\ flush \in TranscriptFlushes
  /\ AttemptsInv /\ StoredInv /\ SentInv
  /\ Transcripts!TranscriptNotLost /\ Transcripts!HeldUntilReleased

LEMMA TranscriptsInit == Transcripts!Init => TranscriptsHold
  BY UploadAssumption
  DEF Transcripts!Init, TranscriptsHold, Transcripts!TypeOK, TranscriptFlushes, AttemptsInv,
      StoredInv, SentInv, Transcripts!Queued, Transcripts!Absent, Transcripts!IdleFlush,
      Transcripts!TranscriptNotLost, Transcripts!HeldUntilReleased

LEMMA TranscriptsNext == TranscriptsHold /\ [Transcripts!Next]_(Transcripts!vars) => TranscriptsHold'
  <1> SUFFICES ASSUME TranscriptsHold, [Transcripts!Next]_(Transcripts!vars)
               PROVE  TranscriptsHold'
    OBVIOUS
  <1> USE UploadAssumption DEF TranscriptsHold, Transcripts!consent
  <1>1. ASSUME NEW h \in Hashes, Transcripts!Enqueue(h)
        PROVE  TranscriptsHold'
    <2>1. Transcripts!TypeOK'
      BY <1>1 DEF Transcripts!Enqueue, Transcripts!TypeOK, TranscriptFlushes, AttemptsInv,
          Transcripts!Queued, Transcripts!Absent, Transcripts!IdleFlush, Transcripts!Fault
    <2>2. flush' \in TranscriptFlushes
      BY <1>1 DEF Transcripts!Enqueue, Transcripts!TypeOK, TranscriptFlushes,
          Transcripts!IdleFlush
    <2>3. AttemptsInv'
      BY <1>1 DEF Transcripts!Enqueue, Transcripts!TypeOK, TranscriptFlushes, AttemptsInv,
          Transcripts!Queued, Transcripts!Absent, Transcripts!IdleFlush, Transcripts!Fault
    <2>4. StoredInv' /\ SentInv'
      BY <1>1 DEF Transcripts!Enqueue, Transcripts!TypeOK, TranscriptFlushes, StoredInv,
          SentInv, Transcripts!IdleFlush, Transcripts!Queued
    <2>5. Transcripts!TranscriptNotLost'
      BY <1>1 DEF Transcripts!Enqueue, Transcripts!TypeOK, StoredInv,
          Transcripts!TranscriptNotLost, Transcripts!Queued, Transcripts!Absent
    <2>6. Transcripts!HeldUntilReleased'
      BY <1>1 DEF Transcripts!Enqueue, Transcripts!TypeOK, AttemptsInv, StoredInv, SentInv,
          Transcripts!HeldUntilReleased, Transcripts!Queued, Transcripts!Absent,
          Transcripts!IdleFlush
    <2> QED
      BY <2>1, <2>2, <2>3, <2>4, <2>5, <2>6
  <1>2. CASE Transcripts!Dequeue
    <2>1. Transcripts!TypeOK'
      BY <1>2 DEF Transcripts!Dequeue, Transcripts!Recovered, Transcripts!TypeOK,
          TranscriptFlushes, AttemptsInv, Transcripts!Queued, Transcripts!Absent,
          Transcripts!IdleFlush, Transcripts!Fault
    <2>2. flush' \in TranscriptFlushes
      BY <1>2 DEF Transcripts!Dequeue, Transcripts!Recovered, Transcripts!TypeOK,
          TranscriptFlushes, Transcripts!IdleFlush
    <2>3. AttemptsInv'
      BY <1>2 DEF Transcripts!Dequeue, Transcripts!Recovered, Transcripts!TypeOK,
          TranscriptFlushes, AttemptsInv, Transcripts!Queued, Transcripts!Absent,
          Transcripts!IdleFlush, Transcripts!Fault
    <2>4. StoredInv' /\ SentInv'
      BY <1>2 DEF Transcripts!Dequeue, Transcripts!Recovered, Transcripts!TypeOK,
          TranscriptFlushes, StoredInv, SentInv, Transcripts!IdleFlush,
          Transcripts!HeldUntilReleased
    <2>5. Transcripts!TranscriptNotLost'
      <3>1. \A h \in Hashes : Transcripts!Queued(h) => Transcripts!Queued(h)'
        BY <1>2 DEF Transcripts!Dequeue, Transcripts!Recovered, Transcripts!TypeOK,
            Transcripts!Queued, Transcripts!Absent
      <3>2. wanted' = wanted /\ server' = server
        BY <1>2 DEF Transcripts!Dequeue
      <3> QED
        BY <3>1, <3>2 DEF Transcripts!TypeOK, Transcripts!TranscriptNotLost
    <2>6. Transcripts!HeldUntilReleased'
      <3>1. \A h \in Hashes : row'[h].retry = row[h].retry
        BY <1>2 DEF Transcripts!Dequeue, Transcripts!Recovered, Transcripts!TypeOK
      <3>2. held' = held /\ late' = late
        BY <1>2 DEF Transcripts!Dequeue, Transcripts!consent
      <3> QED
        BY <3>1, <3>2 DEF Transcripts!TypeOK, Transcripts!HeldUntilReleased
    <2> QED
      BY <2>1, <2>2, <2>3, <2>4, <2>5, <2>6
  <1>3. CASE Transcripts!Send
    <2>1. Transcripts!TypeOK'
      BY <1>3 DEF Transcripts!Send, Transcripts!TypeOK, TranscriptFlushes, AttemptsInv,
          Transcripts!Queued, Transcripts!Absent, Transcripts!IdleFlush, Transcripts!Fault
    <2>2. flush' \in TranscriptFlushes
      BY <1>3 DEF Transcripts!Send, Transcripts!TypeOK, TranscriptFlushes, Transcripts!IdleFlush
    <2>3. AttemptsInv'
      BY <1>3 DEF Transcripts!Send, Transcripts!TypeOK, TranscriptFlushes, AttemptsInv,
          Transcripts!Queued, Transcripts!Absent, Transcripts!IdleFlush, Transcripts!Fault
    <2>4. StoredInv' /\ SentInv'
      BY <1>3 DEF Transcripts!Send, Transcripts!TypeOK, TranscriptFlushes, StoredInv, SentInv,
          Transcripts!IdleFlush, Transcripts!Queued
    <2>5. Transcripts!TranscriptNotLost'
      BY <1>3 DEF Transcripts!Send, Transcripts!TypeOK, StoredInv,
          Transcripts!TranscriptNotLost, Transcripts!Queued, Transcripts!Absent
    <2>6. Transcripts!HeldUntilReleased'
      BY <1>3 DEF Transcripts!Send, Transcripts!TypeOK, AttemptsInv, StoredInv, SentInv,
          Transcripts!HeldUntilReleased, Transcripts!Queued, Transcripts!Absent,
          Transcripts!IdleFlush
    <2> QED
      BY <2>1, <2>2, <2>3, <2>4, <2>5, <2>6
  <1>4. CASE Transcripts!DeleteStored
    <2>1. Transcripts!TypeOK'
      BY <1>4 DEF Transcripts!DeleteStored, Transcripts!TypeOK, TranscriptFlushes, AttemptsInv,
          Transcripts!Queued, Transcripts!Absent, Transcripts!IdleFlush, Transcripts!Fault
    <2>2. flush' \in TranscriptFlushes
      BY <1>4 DEF Transcripts!DeleteStored, Transcripts!TypeOK, TranscriptFlushes,
          Transcripts!IdleFlush
    <2>3. AttemptsInv'
      BY <1>4 DEF Transcripts!DeleteStored, Transcripts!TypeOK, TranscriptFlushes, AttemptsInv,
          Transcripts!Queued, Transcripts!Absent, Transcripts!IdleFlush, Transcripts!Fault
    <2>4. StoredInv' /\ SentInv'
      BY <1>4 DEF Transcripts!DeleteStored, Transcripts!TypeOK, TranscriptFlushes, StoredInv,
          SentInv, Transcripts!IdleFlush, Transcripts!Queued
    <2>5. Transcripts!TranscriptNotLost'
      BY <1>4 DEF Transcripts!DeleteStored, Transcripts!TypeOK, StoredInv,
          Transcripts!TranscriptNotLost, Transcripts!Queued, Transcripts!Absent
    <2>6. Transcripts!HeldUntilReleased'
      BY <1>4 DEF Transcripts!DeleteStored, Transcripts!TypeOK, AttemptsInv, StoredInv, SentInv,
          Transcripts!HeldUntilReleased, Transcripts!Queued, Transcripts!Absent,
          Transcripts!IdleFlush
    <2> QED
      BY <2>1, <2>2, <2>3, <2>4, <2>5, <2>6
  <1>5. CASE Transcripts!MarkFailed
    <2>1. Transcripts!TypeOK'
      BY <1>5 DEF Transcripts!MarkFailed, Transcripts!TypeOK, TranscriptFlushes, AttemptsInv,
          Transcripts!Queued, Transcripts!Absent, Transcripts!IdleFlush, Transcripts!Fault
    <2>2. flush' \in TranscriptFlushes
      BY <1>5 DEF Transcripts!MarkFailed, Transcripts!TypeOK, TranscriptFlushes,
          Transcripts!IdleFlush
    <2>3. AttemptsInv'
      BY <1>5 DEF Transcripts!MarkFailed, Transcripts!TypeOK, TranscriptFlushes, AttemptsInv,
          Transcripts!Queued, Transcripts!Absent, Transcripts!IdleFlush, Transcripts!Fault
    <2>4. StoredInv' /\ SentInv'
      BY <1>5 DEF Transcripts!MarkFailed, Transcripts!TypeOK, TranscriptFlushes, StoredInv,
          SentInv, Transcripts!IdleFlush, Transcripts!Queued
    <2>5. Transcripts!TranscriptNotLost'
      BY <1>5 DEF Transcripts!MarkFailed, Transcripts!TypeOK, StoredInv,
          Transcripts!TranscriptNotLost, Transcripts!Queued, Transcripts!Absent
    <2>6. Transcripts!HeldUntilReleased'
      BY <1>5 DEF Transcripts!MarkFailed, Transcripts!TypeOK, AttemptsInv, StoredInv, SentInv,
          Transcripts!HeldUntilReleased, Transcripts!Queued, Transcripts!Absent,
          Transcripts!IdleFlush
    <2> QED
      BY <2>1, <2>2, <2>3, <2>4, <2>5, <2>6
  <1>6. ASSUME NEW h \in Hashes, Transcripts!RetryTime(h)
        PROVE  TranscriptsHold'
    <2>1. Transcripts!TypeOK'
      BY <1>6 DEF Transcripts!RetryTime, Transcripts!TypeOK, TranscriptFlushes, AttemptsInv,
          Transcripts!Queued, Transcripts!Absent, Transcripts!IdleFlush, Transcripts!Fault
    <2>2. flush' \in TranscriptFlushes
      BY <1>6 DEF Transcripts!RetryTime, Transcripts!TypeOK, TranscriptFlushes,
          Transcripts!IdleFlush
    <2>3. AttemptsInv'
      BY <1>6 DEF Transcripts!RetryTime, Transcripts!TypeOK, TranscriptFlushes, AttemptsInv,
          Transcripts!Queued, Transcripts!Absent, Transcripts!IdleFlush, Transcripts!Fault
    <2>4. StoredInv' /\ SentInv'
      BY <1>6 DEF Transcripts!RetryTime, Transcripts!TypeOK, TranscriptFlushes, StoredInv,
          SentInv, Transcripts!IdleFlush, Transcripts!Queued
    <2>5. Transcripts!TranscriptNotLost'
      BY <1>6 DEF Transcripts!RetryTime, Transcripts!TypeOK, StoredInv,
          Transcripts!TranscriptNotLost, Transcripts!Queued, Transcripts!Absent
    <2>6. Transcripts!HeldUntilReleased'
      BY <1>6 DEF Transcripts!RetryTime, Transcripts!TypeOK, AttemptsInv, StoredInv, SentInv,
          Transcripts!HeldUntilReleased, Transcripts!Queued, Transcripts!Absent,
          Transcripts!IdleFlush
    <2> QED
      BY <2>1, <2>2, <2>3, <2>4, <2>5, <2>6
  <1>7. ASSUME NEW h \in Hashes, Transcripts!LockAges(h)
        PROVE  TranscriptsHold'
    <2>1. Transcripts!TypeOK'
      BY <1>7 DEF Transcripts!LockAges, Transcripts!TypeOK, TranscriptFlushes, AttemptsInv,
          Transcripts!Queued, Transcripts!Absent, Transcripts!IdleFlush, Transcripts!Fault
    <2>2. flush' \in TranscriptFlushes
      BY <1>7 DEF Transcripts!LockAges, Transcripts!TypeOK, TranscriptFlushes,
          Transcripts!IdleFlush
    <2>3. AttemptsInv'
      BY <1>7 DEF Transcripts!LockAges, Transcripts!TypeOK, TranscriptFlushes, AttemptsInv,
          Transcripts!Queued, Transcripts!Absent, Transcripts!IdleFlush, Transcripts!Fault
    <2>4. StoredInv' /\ SentInv'
      BY <1>7 DEF Transcripts!LockAges, Transcripts!TypeOK, TranscriptFlushes, StoredInv,
          SentInv, Transcripts!IdleFlush, Transcripts!Queued
    <2>5. Transcripts!TranscriptNotLost'
      BY <1>7 DEF Transcripts!LockAges, Transcripts!TypeOK, StoredInv,
          Transcripts!TranscriptNotLost, Transcripts!Queued, Transcripts!Absent
    <2>6. Transcripts!HeldUntilReleased'
      BY <1>7 DEF Transcripts!LockAges, Transcripts!TypeOK, AttemptsInv, StoredInv, SentInv,
          Transcripts!HeldUntilReleased, Transcripts!Queued, Transcripts!Absent,
          Transcripts!IdleFlush
    <2> QED
      BY <2>1, <2>2, <2>3, <2>4, <2>5, <2>6
  <1>8. CASE Transcripts!Hold
    <2>1. /\ row' = [h \in Hashes |->
                       IF Transcripts!Queued(h)
                       THEN [status |-> "pending", attempts |-> row[h].attempts, retry |-> "held"]
                       ELSE row[h]]
          /\ held' = {h \in Hashes : Transcripts!Queued(h)} /\ late' = flush.sent
          /\ UNCHANGED <<flush, faults, wanted, server, failures>>
      BY <1>8 DEF Transcripts!Hold
    <2>2. Transcripts!TypeOK'
      BY <2>1 DEF Transcripts!TypeOK, TranscriptFlushes
    <2>3. flush' \in TranscriptFlushes
      BY <2>1
    <2>4. AttemptsInv'
      BY <2>1 DEF Transcripts!TypeOK, AttemptsInv, Transcripts!Queued, Transcripts!Absent
    <2>5. StoredInv' /\ SentInv'
      BY <2>1 DEF StoredInv, SentInv
    <2>6. Transcripts!TranscriptNotLost'
      BY <2>1 DEF Transcripts!TypeOK, Transcripts!TranscriptNotLost, Transcripts!Queued
    <2>7. Transcripts!HeldUntilReleased'
      BY <2>1 DEF Transcripts!HeldUntilReleased
    <2> QED
      BY <2>2, <2>3, <2>4, <2>5, <2>6, <2>7
  <1>9. CASE Transcripts!Release
    <2>1. Transcripts!TypeOK'
      BY <1>9 DEF Transcripts!Release, Transcripts!TypeOK, TranscriptFlushes, AttemptsInv,
          Transcripts!Queued, Transcripts!Absent, Transcripts!IdleFlush, Transcripts!Fault
    <2>2. flush' \in TranscriptFlushes
      BY <1>9 DEF Transcripts!Release, Transcripts!TypeOK, TranscriptFlushes,
          Transcripts!IdleFlush
    <2>3. AttemptsInv'
      BY <1>9 DEF Transcripts!Release, Transcripts!TypeOK, TranscriptFlushes, AttemptsInv,
          Transcripts!Queued, Transcripts!Absent, Transcripts!IdleFlush, Transcripts!Fault
    <2>4. StoredInv' /\ SentInv'
      BY <1>9 DEF Transcripts!Release, Transcripts!TypeOK, TranscriptFlushes, StoredInv,
          SentInv, Transcripts!IdleFlush, Transcripts!Queued
    <2>5. Transcripts!TranscriptNotLost'
      BY <1>9 DEF Transcripts!Release, Transcripts!TypeOK, StoredInv,
          Transcripts!TranscriptNotLost, Transcripts!Queued, Transcripts!Absent
    <2>6. Transcripts!HeldUntilReleased'
      BY <1>9 DEF Transcripts!Release, Transcripts!TypeOK, AttemptsInv, StoredInv, SentInv,
          Transcripts!HeldUntilReleased, Transcripts!Queued, Transcripts!Absent,
          Transcripts!IdleFlush
    <2> QED
      BY <2>1, <2>2, <2>3, <2>4, <2>5, <2>6
  <1>10. CASE Transcripts!Purge
    <2>1. Transcripts!TypeOK'
      BY <1>10 DEF Transcripts!Purge, Transcripts!TypeOK, TranscriptFlushes, AttemptsInv,
          Transcripts!Queued, Transcripts!Absent, Transcripts!IdleFlush, Transcripts!Fault
    <2>2. flush' \in TranscriptFlushes
      BY <1>10 DEF Transcripts!Purge, Transcripts!TypeOK, TranscriptFlushes,
          Transcripts!IdleFlush
    <2>3. AttemptsInv'
      BY <1>10 DEF Transcripts!Purge, Transcripts!TypeOK, TranscriptFlushes, AttemptsInv,
          Transcripts!Queued, Transcripts!Absent, Transcripts!IdleFlush, Transcripts!Fault
    <2>4. StoredInv' /\ SentInv'
      BY <1>10 DEF Transcripts!Purge, Transcripts!TypeOK, TranscriptFlushes, StoredInv, SentInv,
          Transcripts!IdleFlush, Transcripts!Queued
    <2>5. Transcripts!TranscriptNotLost'
      BY <1>10 DEF Transcripts!Purge, Transcripts!TypeOK, StoredInv,
          Transcripts!TranscriptNotLost, Transcripts!Queued, Transcripts!Absent
    <2>6. Transcripts!HeldUntilReleased'
      BY <1>10 DEF Transcripts!Purge, Transcripts!TypeOK, AttemptsInv, StoredInv, SentInv,
          Transcripts!HeldUntilReleased, Transcripts!Queued, Transcripts!Absent,
          Transcripts!IdleFlush
    <2> QED
      BY <2>1, <2>2, <2>3, <2>4, <2>5, <2>6
  <1>11. CASE Transcripts!Crash
    <2>1. Transcripts!TypeOK'
      BY <1>11 DEF Transcripts!Crash, Transcripts!TypeOK, TranscriptFlushes, AttemptsInv,
          Transcripts!Queued, Transcripts!Absent, Transcripts!IdleFlush, Transcripts!Fault
    <2>2. flush' \in TranscriptFlushes
      BY <1>11 DEF Transcripts!Crash, Transcripts!TypeOK, TranscriptFlushes,
          Transcripts!IdleFlush
    <2>3. AttemptsInv'
      BY <1>11 DEF Transcripts!Crash, Transcripts!TypeOK, TranscriptFlushes, AttemptsInv,
          Transcripts!Queued, Transcripts!Absent, Transcripts!IdleFlush, Transcripts!Fault
    <2>4. StoredInv' /\ SentInv'
      BY <1>11 DEF Transcripts!Crash, Transcripts!TypeOK, TranscriptFlushes, StoredInv, SentInv,
          Transcripts!IdleFlush, Transcripts!Queued
    <2>5. Transcripts!TranscriptNotLost'
      BY <1>11 DEF Transcripts!Crash, Transcripts!TypeOK, StoredInv,
          Transcripts!TranscriptNotLost, Transcripts!Queued, Transcripts!Absent
    <2>6. Transcripts!HeldUntilReleased'
      BY <1>11 DEF Transcripts!Crash, Transcripts!TypeOK, AttemptsInv, StoredInv, SentInv,
          Transcripts!HeldUntilReleased, Transcripts!Queued, Transcripts!Absent,
          Transcripts!IdleFlush
    <2> QED
      BY <2>1, <2>2, <2>3, <2>4, <2>5, <2>6
  <1>12. CASE UNCHANGED Transcripts!vars
    BY <1>12 DEF Transcripts!vars, TranscriptFlushes, AttemptsInv, StoredInv, SentInv,
      Transcripts!TypeOK, Transcripts!Queued, Transcripts!TranscriptNotLost, Transcripts!HeldUntilReleased
  <1> QED
    BY <1>1, <1>2, <1>3, <1>4, <1>5, <1>6, <1>7, <1>8, <1>9, <1>10, <1>11, <1>12
    DEF Transcripts!Next, Transcripts!Flush

(* File changes (FileChangeQueue) *)

ChangeFlushes ==
  [at : {"idle", "send", "record", "refused"}, todo : SUBSET [file : Files, count : 0 .. MaxTouches],
   done : SUBSET Files, failed : SUBSET Files]

\* What a row owes the server is in its count.
OwedInv == \A f \in Files : owed[f] <= row[f].count

\* A total that is to be sent is not behind, nor one that was sent, unless the
\* file changed in the meantime.
TotalInv ==
  /\ \A t \in flush.todo : t.file \notin raced => owed[t.file] <= t.count
  /\ \A f \in flush.done : f \notin raced => owed[f] <= server[f]

\* What is sent although it is held was sent before.
ChangeSentInv == held \cap Changes!BeingSent \subseteq late

ChangesHold ==
  /\ Changes!TypeOK /\ flush \in ChangeFlushes
  /\ OwedInv /\ TotalInv /\ ChangeSentInv
  /\ Changes!SyncedCountIsComplete /\ Changes!HeldUntilReleased

LEMMA ChangesInit == Changes!Init => ChangesHold
  BY UploadAssumption
  DEF Changes!Init, ChangesHold, Changes!TypeOK, ChangeFlushes, OwedInv, TotalInv,
      ChangeSentInv, Changes!BeingSent, Changes!Absent, Changes!IdleFlush, Changes!Counts,
      Changes!SyncedCountIsComplete, Changes!HeldUntilReleased

LEMMA ChangesNext == ChangesHold /\ [Changes!Next]_(Changes!vars) => ChangesHold'
  <1> SUFFICES ASSUME ChangesHold, [Changes!Next]_(Changes!vars)
               PROVE  ChangesHold'
    OBVIOUS
  <1> USE UploadAssumption DEF ChangesHold, Changes!consent, Changes!Counts
  <1>1. ASSUME NEW f \in Files, Changes!Record(f)
        PROVE  ChangesHold'
    <2>1. Changes!TypeOK'
      BY <1>1 DEF Changes!Record, Changes!TypeOK, ChangeFlushes, Changes!Absent,
          Changes!IdleFlush, Changes!Fault
    <2>2. flush' \in ChangeFlushes
      BY <1>1 DEF Changes!Record, Changes!TypeOK, ChangeFlushes, Changes!IdleFlush
    <2>3. OwedInv'
      BY <1>1 DEF Changes!Record, Changes!TypeOK, OwedInv, Changes!Absent
    <2>4. TotalInv'
      BY <1>1 DEF Changes!Record, Changes!TypeOK, ChangeFlushes, OwedInv, TotalInv,
          Changes!BeingSent, Changes!IdleFlush
    <2>5. ChangeSentInv'
      BY <1>1 DEF Changes!Record, Changes!TypeOK, ChangeFlushes, ChangeSentInv,
          Changes!HeldUntilReleased, Changes!BeingSent, Changes!IdleFlush
    <2>6. Changes!SyncedCountIsComplete'
      BY <1>1 DEF Changes!Record, Changes!TypeOK, ChangeFlushes, TotalInv,
          Changes!SyncedCountIsComplete, Changes!BeingSent, Changes!Absent
    <2>7. Changes!HeldUntilReleased'
      BY <1>1 DEF Changes!Record, Changes!TypeOK, ChangeFlushes, ChangeSentInv,
          Changes!HeldUntilReleased, Changes!BeingSent, Changes!Absent, Changes!IdleFlush
    <2> QED
      BY <2>1, <2>2, <2>3, <2>4, <2>5, <2>6, <2>7
  <1>2. ASSUME NEW f \in Files, Changes!RetryTime(f)
        PROVE  ChangesHold'
    <2>1. Changes!TypeOK'
      BY <1>2 DEF Changes!RetryTime, Changes!TypeOK, ChangeFlushes, Changes!Absent,
          Changes!IdleFlush, Changes!Fault
    <2>2. flush' \in ChangeFlushes
      BY <1>2 DEF Changes!RetryTime, Changes!TypeOK, ChangeFlushes, Changes!IdleFlush
    <2>3. OwedInv'
      BY <1>2 DEF Changes!RetryTime, Changes!TypeOK, OwedInv, Changes!Absent
    <2>4. TotalInv'
      BY <1>2 DEF Changes!RetryTime, Changes!TypeOK, ChangeFlushes, OwedInv, TotalInv,
          Changes!BeingSent, Changes!IdleFlush
    <2>5. ChangeSentInv'
      BY <1>2 DEF Changes!RetryTime, Changes!TypeOK, ChangeFlushes, ChangeSentInv,
          Changes!HeldUntilReleased, Changes!BeingSent, Changes!IdleFlush
    <2>6. Changes!SyncedCountIsComplete'
      BY <1>2 DEF Changes!RetryTime, Changes!TypeOK, ChangeFlushes, TotalInv,
          Changes!SyncedCountIsComplete, Changes!BeingSent, Changes!Absent
    <2>7. Changes!HeldUntilReleased'
      BY <1>2 DEF Changes!RetryTime, Changes!TypeOK, ChangeFlushes, ChangeSentInv,
          Changes!HeldUntilReleased, Changes!BeingSent, Changes!Absent, Changes!IdleFlush
    <2> QED
      BY <2>1, <2>2, <2>3, <2>4, <2>5, <2>6, <2>7
  <1>3. CASE Changes!SwitchMode
    <2>1. Changes!TypeOK'
      BY <1>3 DEF Changes!SwitchMode, Changes!TypeOK, ChangeFlushes, Changes!Absent,
          Changes!IdleFlush, Changes!Fault
    <2>2. flush' \in ChangeFlushes
      BY <1>3 DEF Changes!SwitchMode, Changes!TypeOK, ChangeFlushes, Changes!IdleFlush
    <2>3. OwedInv'
      BY <1>3 DEF Changes!SwitchMode, Changes!TypeOK, OwedInv, Changes!Absent
    <2>4. TotalInv'
      BY <1>3 DEF Changes!SwitchMode, Changes!TypeOK, ChangeFlushes, OwedInv, TotalInv,
          Changes!BeingSent, Changes!IdleFlush
    <2>5. ChangeSentInv'
      BY <1>3 DEF Changes!SwitchMode, Changes!TypeOK, ChangeFlushes, ChangeSentInv,
          Changes!HeldUntilReleased, Changes!BeingSent, Changes!IdleFlush
    <2>6. Changes!SyncedCountIsComplete'
      BY <1>3 DEF Changes!SwitchMode, Changes!TypeOK, ChangeFlushes, TotalInv,
          Changes!SyncedCountIsComplete, Changes!BeingSent, Changes!Absent
    <2>7. Changes!HeldUntilReleased'
      BY <1>3 DEF Changes!SwitchMode, Changes!TypeOK, ChangeFlushes, ChangeSentInv,
          Changes!HeldUntilReleased, Changes!BeingSent, Changes!Absent, Changes!IdleFlush
    <2> QED
      BY <2>1, <2>2, <2>3, <2>4, <2>5, <2>6, <2>7
  <1>4. CASE Changes!Dequeue
    <2>1. Changes!TypeOK'
      BY <1>4 DEF Changes!Dequeue, Changes!TypeOK, ChangeFlushes, Changes!Absent,
          Changes!IdleFlush, Changes!Fault
    <2>2. flush' \in ChangeFlushes
      <3> DEFINE due == {f \in Files : ~row[f].synced /\ row[f].retry = "due"}
                 totals == {[file |-> f, count |-> row[f].count] : f \in due}
      <3>1. totals \in SUBSET [file : Files, count : 0 .. MaxTouches]
        BY DEF Changes!TypeOK
      <3>2. flush' = [at |-> "send", todo |-> totals, done |-> {}, failed |-> {}]
        BY <1>4 DEF Changes!Dequeue, Changes!IdleFlush
      <3> QED
        BY <3>1, <3>2 DEF ChangeFlushes
    <2>3. OwedInv'
      BY <1>4 DEF Changes!Dequeue, Changes!TypeOK, OwedInv, Changes!Absent
    <2>4. TotalInv'
      BY <1>4 DEF Changes!Dequeue, Changes!TypeOK, ChangeFlushes, OwedInv, TotalInv,
          Changes!BeingSent, Changes!IdleFlush
    <2>5. ChangeSentInv'
      BY <1>4 DEF Changes!Dequeue, Changes!TypeOK, ChangeFlushes, ChangeSentInv,
          Changes!HeldUntilReleased, Changes!BeingSent, Changes!IdleFlush
    <2>6. Changes!SyncedCountIsComplete'
      BY <1>4 DEF Changes!Dequeue, Changes!TypeOK, ChangeFlushes, TotalInv,
          Changes!SyncedCountIsComplete, Changes!BeingSent, Changes!Absent
    <2>7. Changes!HeldUntilReleased'
      BY <1>4 DEF Changes!Dequeue, Changes!TypeOK, ChangeFlushes, ChangeSentInv,
          Changes!HeldUntilReleased, Changes!BeingSent, Changes!Absent, Changes!IdleFlush
    <2> QED
      BY <2>1, <2>2, <2>3, <2>4, <2>5, <2>6, <2>7
  <1>5. ASSUME NEW group \in (SUBSET flush.todo) \ {{}}, Changes!Send(group)
        PROVE  ChangesHold'
    <2>1. Changes!TypeOK'
      BY <1>5 DEF Changes!Send, Changes!TypeOK, ChangeFlushes, Changes!Absent,
          Changes!IdleFlush, Changes!Fault
    <2>2. flush' \in ChangeFlushes
      BY <1>5 DEF Changes!Send, Changes!TypeOK, ChangeFlushes, Changes!IdleFlush
    <2>3. OwedInv'
      BY <1>5 DEF Changes!Send, Changes!TypeOK, OwedInv, Changes!Absent
    <2>4. TotalInv'
      BY <1>5 DEF Changes!Send, Changes!TypeOK, ChangeFlushes, OwedInv, TotalInv,
          Changes!BeingSent, Changes!IdleFlush
    <2>5. ChangeSentInv'
      BY <1>5 DEF Changes!Send, Changes!TypeOK, ChangeFlushes, ChangeSentInv,
          Changes!HeldUntilReleased, Changes!BeingSent, Changes!IdleFlush
    <2>6. Changes!SyncedCountIsComplete'
      BY <1>5 DEF Changes!Send, Changes!TypeOK, ChangeFlushes, TotalInv,
          Changes!SyncedCountIsComplete, Changes!BeingSent, Changes!Absent
    <2>7. Changes!HeldUntilReleased'
      BY <1>5 DEF Changes!Send, Changes!TypeOK, ChangeFlushes, ChangeSentInv,
          Changes!HeldUntilReleased, Changes!BeingSent, Changes!Absent, Changes!IdleFlush
    <2> QED
      BY <2>1, <2>2, <2>3, <2>4, <2>5, <2>6, <2>7
  <1>6. CASE Changes!MarkSynced
    <2>1. Changes!TypeOK'
      BY <1>6 DEF Changes!MarkSynced, Changes!TypeOK, ChangeFlushes, Changes!Absent,
          Changes!IdleFlush, Changes!Fault
    <2>2. flush' \in ChangeFlushes
      BY <1>6 DEF Changes!MarkSynced, Changes!TypeOK, ChangeFlushes, Changes!IdleFlush
    <2>3. OwedInv'
      BY <1>6 DEF Changes!MarkSynced, Changes!TypeOK, OwedInv, Changes!Absent
    <2>4. TotalInv'
      BY <1>6 DEF Changes!MarkSynced, Changes!TypeOK, ChangeFlushes, OwedInv, TotalInv,
          Changes!BeingSent, Changes!IdleFlush
    <2>5. ChangeSentInv'
      BY <1>6 DEF Changes!MarkSynced, Changes!TypeOK, ChangeFlushes, ChangeSentInv,
          Changes!HeldUntilReleased, Changes!BeingSent, Changes!IdleFlush
    <2>6. Changes!SyncedCountIsComplete'
      BY <1>6 DEF Changes!MarkSynced, Changes!TypeOK, ChangeFlushes, TotalInv,
          Changes!SyncedCountIsComplete, Changes!BeingSent, Changes!Absent
    <2>7. Changes!HeldUntilReleased'
      BY <1>6 DEF Changes!MarkSynced, Changes!TypeOK, ChangeFlushes, ChangeSentInv,
          Changes!HeldUntilReleased, Changes!BeingSent, Changes!Absent, Changes!IdleFlush
    <2> QED
      BY <2>1, <2>2, <2>3, <2>4, <2>5, <2>6, <2>7
  <1>7. CASE Changes!MarkFailed
    <2>1. Changes!TypeOK'
      BY <1>7 DEF Changes!MarkFailed, Changes!TypeOK, ChangeFlushes, Changes!Absent,
          Changes!IdleFlush, Changes!Fault
    <2>2. flush' \in ChangeFlushes
      BY <1>7 DEF Changes!MarkFailed, Changes!TypeOK, ChangeFlushes, Changes!IdleFlush
    <2>3. OwedInv'
      BY <1>7 DEF Changes!MarkFailed, Changes!TypeOK, OwedInv, Changes!Absent
    <2>4. TotalInv'
      BY <1>7 DEF Changes!MarkFailed, Changes!TypeOK, ChangeFlushes, OwedInv, TotalInv,
          Changes!BeingSent, Changes!IdleFlush
    <2>5. ChangeSentInv'
      BY <1>7 DEF Changes!MarkFailed, Changes!TypeOK, ChangeFlushes, ChangeSentInv,
          Changes!HeldUntilReleased, Changes!BeingSent, Changes!IdleFlush
    <2>6. Changes!SyncedCountIsComplete'
      BY <1>7 DEF Changes!MarkFailed, Changes!TypeOK, ChangeFlushes, TotalInv,
          Changes!SyncedCountIsComplete, Changes!BeingSent, Changes!Absent
    <2>7. Changes!HeldUntilReleased'
      BY <1>7 DEF Changes!MarkFailed, Changes!TypeOK, ChangeFlushes, ChangeSentInv,
          Changes!HeldUntilReleased, Changes!BeingSent, Changes!Absent, Changes!IdleFlush
    <2> QED
      BY <2>1, <2>2, <2>3, <2>4, <2>5, <2>6, <2>7
  <1>8. CASE Changes!Hold
    <2>1. Changes!TypeOK'
      BY <1>8 DEF Changes!Hold, Changes!TypeOK, ChangeFlushes, Changes!BeingSent
    <2>2. flush' \in ChangeFlushes
      BY <1>8 DEF Changes!Hold, Changes!TypeOK, ChangeFlushes, Changes!IdleFlush
    <2>3. OwedInv'
      BY <1>8 DEF Changes!Hold, Changes!TypeOK, OwedInv, Changes!Absent
    <2>4. TotalInv'
      BY <1>8 DEF Changes!Hold, Changes!TypeOK, ChangeFlushes, OwedInv, TotalInv,
          Changes!BeingSent, Changes!IdleFlush
    <2>5. ChangeSentInv'
      BY <1>8 DEF Changes!Hold, Changes!TypeOK, ChangeFlushes, ChangeSentInv,
          Changes!HeldUntilReleased, Changes!BeingSent, Changes!IdleFlush
    <2>6. Changes!SyncedCountIsComplete'
      BY <1>8 DEF Changes!Hold, Changes!TypeOK, ChangeFlushes, TotalInv,
          Changes!SyncedCountIsComplete, Changes!BeingSent, Changes!Absent
    <2>7. Changes!HeldUntilReleased'
      BY <1>8 DEF Changes!Hold, Changes!TypeOK, ChangeFlushes, ChangeSentInv,
          Changes!HeldUntilReleased, Changes!BeingSent, Changes!Absent, Changes!IdleFlush
    <2> QED
      BY <2>1, <2>2, <2>3, <2>4, <2>5, <2>6, <2>7
  <1>9. CASE Changes!Release
    <2>1. Changes!TypeOK'
      BY <1>9 DEF Changes!Release, Changes!TypeOK, ChangeFlushes, Changes!Absent,
          Changes!IdleFlush, Changes!Fault
    <2>2. flush' \in ChangeFlushes
      BY <1>9 DEF Changes!Release, Changes!TypeOK, ChangeFlushes, Changes!IdleFlush
    <2>3. OwedInv'
      BY <1>9 DEF Changes!Release, Changes!TypeOK, OwedInv, Changes!Absent
    <2>4. TotalInv'
      BY <1>9 DEF Changes!Release, Changes!TypeOK, ChangeFlushes, OwedInv, TotalInv,
          Changes!BeingSent, Changes!IdleFlush
    <2>5. ChangeSentInv'
      BY <1>9 DEF Changes!Release, Changes!TypeOK, ChangeFlushes, ChangeSentInv,
          Changes!HeldUntilReleased, Changes!BeingSent, Changes!IdleFlush
    <2>6. Changes!SyncedCountIsComplete'
      BY <1>9 DEF Changes!Release, Changes!TypeOK, ChangeFlushes, TotalInv,
          Changes!SyncedCountIsComplete, Changes!BeingSent, Changes!Absent
    <2>7. Changes!HeldUntilReleased'
      BY <1>9 DEF Changes!Release, Changes!TypeOK, ChangeFlushes, ChangeSentInv,
          Changes!HeldUntilReleased, Changes!BeingSent, Changes!Absent, Changes!IdleFlush
    <2> QED
      BY <2>1, <2>2, <2>3, <2>4, <2>5, <2>6, <2>7
  <1>10. CASE Changes!Purge
    <2>1. Changes!TypeOK'
      BY <1>10 DEF Changes!Purge, Changes!TypeOK, ChangeFlushes, Changes!Absent,
          Changes!IdleFlush, Changes!Fault
    <2>2. flush' \in ChangeFlushes
      BY <1>10 DEF Changes!Purge, Changes!TypeOK, ChangeFlushes, Changes!IdleFlush
    <2>3. OwedInv'
      BY <1>10 DEF Changes!Purge, Changes!TypeOK, OwedInv, Changes!Absent
    <2>4. TotalInv'
      BY <1>10 DEF Changes!Purge, Changes!TypeOK, ChangeFlushes, OwedInv, TotalInv,
          Changes!BeingSent, Changes!IdleFlush
    <2>5. ChangeSentInv'
      BY <1>10 DEF Changes!Purge, Changes!TypeOK, ChangeFlushes, ChangeSentInv,
          Changes!HeldUntilReleased, Changes!BeingSent, Changes!IdleFlush
    <2>6. Changes!SyncedCountIsComplete'
      BY <1>10 DEF Changes!Purge, Changes!TypeOK, ChangeFlushes, TotalInv,
          Changes!SyncedCountIsComplete, Changes!BeingSent, Changes!Absent
    <2>7. Changes!HeldUntilReleased'
      BY <1>10 DEF Changes!Purge, Changes!TypeOK, ChangeFlushes, ChangeSentInv,
          Changes!HeldUntilReleased, Changes!BeingSent, Changes!Absent, Changes!IdleFlush
    <2> QED
      BY <2>1, <2>2, <2>3, <2>4, <2>5, <2>6, <2>7
  <1>11. CASE Changes!Crash
    <2>1. Changes!TypeOK'
      BY <1>11 DEF Changes!Crash, Changes!TypeOK, ChangeFlushes, Changes!Absent,
          Changes!IdleFlush, Changes!Fault
    <2>2. flush' \in ChangeFlushes
      BY <1>11 DEF Changes!Crash, Changes!TypeOK, ChangeFlushes, Changes!IdleFlush
    <2>3. OwedInv'
      BY <1>11 DEF Changes!Crash, Changes!TypeOK, OwedInv, Changes!Absent
    <2>4. TotalInv'
      BY <1>11 DEF Changes!Crash, Changes!TypeOK, ChangeFlushes, OwedInv, TotalInv,
          Changes!BeingSent, Changes!IdleFlush
    <2>5. ChangeSentInv'
      BY <1>11 DEF Changes!Crash, Changes!TypeOK, ChangeFlushes, ChangeSentInv,
          Changes!HeldUntilReleased, Changes!BeingSent, Changes!IdleFlush
    <2>6. Changes!SyncedCountIsComplete'
      BY <1>11 DEF Changes!Crash, Changes!TypeOK, ChangeFlushes, TotalInv,
          Changes!SyncedCountIsComplete, Changes!BeingSent, Changes!Absent
    <2>7. Changes!HeldUntilReleased'
      BY <1>11 DEF Changes!Crash, Changes!TypeOK, ChangeFlushes, ChangeSentInv,
          Changes!HeldUntilReleased, Changes!BeingSent, Changes!Absent, Changes!IdleFlush
    <2> QED
      BY <2>1, <2>2, <2>3, <2>4, <2>5, <2>6, <2>7
  <1>12. CASE UNCHANGED Changes!vars
    BY <1>12 DEF Changes!vars, ChangeFlushes, OwedInv, TotalInv, ChangeSentInv, Changes!BeingSent,
      Changes!TypeOK, Changes!SyncedCountIsComplete, Changes!HeldUntilReleased
  <1> QED
    BY <1>1, <1>2, <1>3, <1>4, <1>5, <1>6, <1>7, <1>8, <1>9, <1>10, <1>11, <1>12
    DEF Changes!Next, Changes!Flush

(* Commit summaries (SummaryQueue) *)

SummaryMessages == [sha : Shas, version : 0 .. MaxVersions]

SummaryFlushes ==
  [at : {"idle", "lock", "read", "send", "synced", "failed"}, picked : SUBSET Shas,
   todo : SUBSET SummaryMessages, sent : SUBSET SummaryMessages]

\* A queued row holds the last summary of its commit.
RowInv == \A s \in Shas : Summaries!Queued(s) => row[s].version = made[s] /\ made[s] > 0

\* What is sent is a summary, and the last one of its commit unless the commit
\* was processed again in the meantime.
FlightInv ==
  /\ \A m \in flush.todo \cup flush.sent :
       m.version > 0 /\ (m.sha \notin raced => m.version = made[m.sha])
  /\ post.at # "idle" =>
       post.version > 0 /\ (post.sha \notin raced => post.version = made[post.sha])

\* The server has a summary whose acceptance is about to be recorded.
AnswerInv ==
  /\ flush.at = "synced" => \A m \in flush.sent :
       server[m.sha] > 0 /\ (m.sha \notin raced => server[m.sha] = made[m.sha])
  /\ post.at = "synced" =>
       server[post.sha] > 0 /\ (post.sha \notin raced => server[post.sha] = made[post.sha])

\* What is sent although it is held was sent before.
SummarySentInv == held \cap Summaries!BeingSent \subseteq late

SummariesHold ==
  /\ Summaries!TypeOK /\ flush \in SummaryFlushes
  /\ RowInv /\ FlightInv /\ AnswerInv /\ SummarySentInv
  /\ Summaries!SummaryNotLost /\ Summaries!SettledIsLatest /\ Summaries!HeldUntilReleased

LEMMA FirstSha == Summaries!IdlePost.sha \in Shas
  BY UploadAssumption DEF Summaries!IdlePost

LEMMA SummariesInit == Summaries!Init => SummariesHold
  BY UploadAssumption, FirstSha
  DEF Summaries!Init, SummariesHold, Summaries!TypeOK, SummaryFlushes, SummaryMessages, RowInv,
      FlightInv, AnswerInv, SummarySentInv, Summaries!BeingSent, Summaries!InFlight,
      Summaries!Queued, Summaries!Absent, Summaries!IdleFlush, Summaries!IdlePost,
      Summaries!Versions, Summaries!Rows, Summaries!SummaryNotLost,
      Summaries!SettledIsLatest, Summaries!HeldUntilReleased

LEMMA SummariesNext == SummariesHold /\ [Summaries!Next]_(Summaries!vars) => SummariesHold'
  <1> SUFFICES ASSUME SummariesHold, [Summaries!Next]_(Summaries!vars)
               PROVE  SummariesHold'
    OBVIOUS
  <1> USE UploadAssumption, FirstSha
      DEF SummariesHold, Summaries!consent, Summaries!Versions, Summaries!Rows
  <1>1. ASSUME NEW s \in Shas, Summaries!Enqueue(s)
        PROVE  SummariesHold'
    <2>1. Summaries!TypeOK'
      BY <1>1 DEF Summaries!Enqueue, Summaries!TypeOK, SummaryFlushes, SummaryMessages,
          Summaries!Absent, Summaries!IdleFlush, Summaries!IdlePost, Summaries!Fault,
          Summaries!Queued, Summaries!BeingSent, Summaries!InFlight
    <2>2. flush' \in SummaryFlushes
      BY <1>1 DEF Summaries!Enqueue, Summaries!TypeOK, SummaryFlushes, SummaryMessages,
          Summaries!IdleFlush
    <2>3. RowInv'
      BY <1>1 DEF Summaries!Enqueue, Summaries!TypeOK, SummaryFlushes, RowInv, Summaries!Absent,
          Summaries!Queued
    <2>4. FlightInv'
      BY <1>1 DEF Summaries!Enqueue, Summaries!TypeOK, SummaryFlushes, SummaryMessages, RowInv,
          FlightInv, Summaries!InFlight, Summaries!Summary, Summaries!Queued,
          Summaries!IdleFlush, Summaries!IdlePost
    <2>5. AnswerInv'
      BY <1>1 DEF Summaries!Enqueue, Summaries!TypeOK, SummaryFlushes, SummaryMessages,
          FlightInv, AnswerInv, Summaries!InFlight, Summaries!Summary, Summaries!IdleFlush,
          Summaries!IdlePost
    <2>6. SummarySentInv'
      BY <1>1 DEF Summaries!Enqueue, Summaries!TypeOK, SummaryFlushes, SummarySentInv,
          Summaries!HeldUntilReleased, Summaries!BeingSent, Summaries!InFlight,
          Summaries!Summary, Summaries!IdleFlush, Summaries!IdlePost
    <2>7. Summaries!SummaryNotLost'
      BY <1>1 DEF Summaries!Enqueue, Summaries!TypeOK, SummaryFlushes, SummaryMessages, RowInv,
          FlightInv, AnswerInv, Summaries!SummaryNotLost, Summaries!Queued, Summaries!Absent
    <2>8. Summaries!SettledIsLatest'
      BY <1>1 DEF Summaries!Enqueue, Summaries!TypeOK, SummaryFlushes, SummaryMessages, RowInv,
          FlightInv, AnswerInv, Summaries!SettledIsLatest, Summaries!InFlight, Summaries!Queued,
          Summaries!Absent
    <2>9. Summaries!HeldUntilReleased'
      BY <1>1 DEF Summaries!Enqueue, Summaries!TypeOK, SummaryFlushes, SummarySentInv,
          Summaries!HeldUntilReleased, Summaries!BeingSent, Summaries!InFlight,
          Summaries!Summary, Summaries!Absent, Summaries!Queued
    <2> QED
      BY <2>1, <2>2, <2>3, <2>4, <2>5, <2>6, <2>7, <2>8, <2>9
  <1>2. CASE Summaries!LiveUpload
    <2>1. Summaries!TypeOK'
      BY <1>2 DEF Summaries!LiveUpload, Summaries!Upload, Summaries!Fault, Summaries!TypeOK,
          SummaryFlushes, SummaryMessages, Summaries!Absent, Summaries!IdleFlush,
          Summaries!IdlePost, Summaries!Queued, Summaries!BeingSent, Summaries!InFlight
    <2>2. flush' \in SummaryFlushes
      BY <1>2 DEF Summaries!LiveUpload, Summaries!Upload, Summaries!Fault, Summaries!TypeOK,
          SummaryFlushes, SummaryMessages, Summaries!IdleFlush
    <2>3. RowInv'
      BY <1>2 DEF Summaries!LiveUpload, Summaries!Upload, Summaries!Fault, Summaries!TypeOK,
          SummaryFlushes, RowInv, Summaries!Absent, Summaries!Queued
    <2>4. FlightInv'
      BY <1>2 DEF Summaries!LiveUpload, Summaries!Upload, Summaries!Fault, Summaries!TypeOK,
          SummaryFlushes, SummaryMessages, RowInv, FlightInv, Summaries!InFlight,
          Summaries!Summary, Summaries!Queued, Summaries!IdleFlush, Summaries!IdlePost
    <2>5. AnswerInv'
      BY <1>2 DEF Summaries!LiveUpload, Summaries!Upload, Summaries!Fault, Summaries!TypeOK,
          SummaryFlushes, SummaryMessages, FlightInv, AnswerInv, Summaries!InFlight,
          Summaries!Summary, Summaries!IdleFlush, Summaries!IdlePost
    <2>6. SummarySentInv'
      BY <1>2 DEF Summaries!LiveUpload, Summaries!Upload, Summaries!Fault, Summaries!TypeOK,
          SummaryFlushes, SummarySentInv, Summaries!HeldUntilReleased, Summaries!BeingSent,
          Summaries!InFlight, Summaries!Summary, Summaries!IdleFlush, Summaries!IdlePost
    <2>7. Summaries!SummaryNotLost'
      BY <1>2 DEF Summaries!LiveUpload, Summaries!Upload, Summaries!Fault, Summaries!TypeOK,
          SummaryFlushes, SummaryMessages, RowInv, FlightInv, AnswerInv,
          Summaries!SummaryNotLost, Summaries!Queued, Summaries!Absent
    <2>8. Summaries!SettledIsLatest'
      BY <1>2 DEF Summaries!LiveUpload, Summaries!Upload, Summaries!Fault, Summaries!TypeOK,
          SummaryFlushes, SummaryMessages, RowInv, FlightInv, AnswerInv,
          Summaries!SettledIsLatest, Summaries!InFlight, Summaries!Queued, Summaries!Absent
    <2>9. Summaries!HeldUntilReleased'
      BY <1>2 DEF Summaries!LiveUpload, Summaries!Upload, Summaries!Fault, Summaries!TypeOK,
          SummaryFlushes, SummarySentInv, Summaries!HeldUntilReleased, Summaries!BeingSent,
          Summaries!InFlight, Summaries!Summary, Summaries!Absent, Summaries!Queued
    <2> QED
      BY <2>1, <2>2, <2>3, <2>4, <2>5, <2>6, <2>7, <2>8, <2>9
  <1>3. CASE Summaries!LiveSynced
    <2>1. Summaries!TypeOK'
      BY <1>3 DEF Summaries!LiveSynced, Summaries!TypeOK, SummaryFlushes, SummaryMessages,
          Summaries!Absent, Summaries!IdleFlush, Summaries!IdlePost, Summaries!Fault,
          Summaries!Queued, Summaries!BeingSent, Summaries!InFlight
    <2>2. flush' \in SummaryFlushes
      BY <1>3 DEF Summaries!LiveSynced, Summaries!TypeOK, SummaryFlushes, SummaryMessages,
          Summaries!IdleFlush
    <2>3. RowInv'
      BY <1>3 DEF Summaries!LiveSynced, Summaries!TypeOK, SummaryFlushes, RowInv,
          Summaries!Absent, Summaries!Queued
    <2>4. FlightInv'
      BY <1>3 DEF Summaries!LiveSynced, Summaries!TypeOK, SummaryFlushes, SummaryMessages,
          RowInv, FlightInv, Summaries!InFlight, Summaries!Summary, Summaries!Queued,
          Summaries!IdleFlush, Summaries!IdlePost
    <2>5. AnswerInv'
      BY <1>3 DEF Summaries!LiveSynced, Summaries!TypeOK, SummaryFlushes, SummaryMessages,
          FlightInv, AnswerInv, Summaries!InFlight, Summaries!Summary, Summaries!IdleFlush,
          Summaries!IdlePost
    <2>6. SummarySentInv'
      BY <1>3 DEF Summaries!LiveSynced, Summaries!TypeOK, SummaryFlushes, SummarySentInv,
          Summaries!HeldUntilReleased, Summaries!BeingSent, Summaries!InFlight,
          Summaries!Summary, Summaries!IdleFlush, Summaries!IdlePost
    <2>7. Summaries!SummaryNotLost'
      BY <1>3 DEF Summaries!LiveSynced, Summaries!TypeOK, SummaryFlushes, SummaryMessages,
          RowInv, FlightInv, AnswerInv, Summaries!SummaryNotLost, Summaries!Queued,
          Summaries!Absent
    <2>8. Summaries!SettledIsLatest'
      BY <1>3 DEF Summaries!LiveSynced, Summaries!TypeOK, SummaryFlushes, SummaryMessages,
          RowInv, FlightInv, AnswerInv, Summaries!SettledIsLatest, Summaries!InFlight,
          Summaries!Queued, Summaries!Absent
    <2>9. Summaries!HeldUntilReleased'
      <3>1. post.sha \in Summaries!BeingSent
        <4> DEFINE m == [sha |-> post.sha, version |-> post.version]
        <4>1. m \in Summaries!InFlight /\ m.sha = post.sha
          BY <1>3 DEF Summaries!LiveSynced, Summaries!InFlight, Summaries!Summary
        <4> HIDE DEF m
        <4> QED
          BY <4>1 DEF Summaries!BeingSent
      <3> QED
        BY <1>3, <3>1 DEF Summaries!LiveSynced, Summaries!TypeOK, SummarySentInv,
          Summaries!HeldUntilReleased
    <2> QED
      BY <2>1, <2>2, <2>3, <2>4, <2>5, <2>6, <2>7, <2>8, <2>9
  <1>4. CASE Summaries!Select
    <2>1. Summaries!TypeOK'
      BY <1>4 DEF Summaries!Select, Summaries!Due, Summaries!TypeOK, SummaryFlushes,
          SummaryMessages, Summaries!Absent, Summaries!IdleFlush, Summaries!IdlePost,
          Summaries!Fault, Summaries!Queued, Summaries!BeingSent, Summaries!InFlight
    <2>2. flush' \in SummaryFlushes
      BY <1>4 DEF Summaries!Select, Summaries!Due, Summaries!TypeOK, SummaryFlushes,
          SummaryMessages, Summaries!IdleFlush
    <2>3. RowInv'
      BY <1>4 DEF Summaries!Select, Summaries!Due, Summaries!TypeOK, SummaryFlushes, RowInv,
          Summaries!Absent, Summaries!Queued
    <2>4. FlightInv'
      BY <1>4 DEF Summaries!Select, Summaries!Due, Summaries!TypeOK, SummaryFlushes,
          SummaryMessages, RowInv, FlightInv, Summaries!InFlight, Summaries!Summary,
          Summaries!Queued, Summaries!IdleFlush, Summaries!IdlePost
    <2>5. AnswerInv'
      BY <1>4 DEF Summaries!Select, Summaries!Due, Summaries!TypeOK, SummaryFlushes,
          SummaryMessages, FlightInv, AnswerInv, Summaries!InFlight, Summaries!Summary,
          Summaries!IdleFlush, Summaries!IdlePost
    <2>6. SummarySentInv'
      BY <1>4 DEF Summaries!Select, Summaries!Due, Summaries!TypeOK, SummaryFlushes,
          SummarySentInv, Summaries!HeldUntilReleased, Summaries!BeingSent, Summaries!InFlight,
          Summaries!Summary, Summaries!IdleFlush, Summaries!IdlePost
    <2>7. Summaries!SummaryNotLost'
      BY <1>4 DEF Summaries!Select, Summaries!Due, Summaries!TypeOK, SummaryFlushes,
          SummaryMessages, RowInv, FlightInv, AnswerInv, Summaries!SummaryNotLost,
          Summaries!Queued, Summaries!Absent
    <2>8. Summaries!SettledIsLatest'
      BY <1>4 DEF Summaries!Select, Summaries!Due, Summaries!TypeOK, SummaryFlushes,
          SummaryMessages, RowInv, FlightInv, AnswerInv, Summaries!SettledIsLatest,
          Summaries!InFlight, Summaries!Queued, Summaries!Absent
    <2>9. Summaries!HeldUntilReleased'
      BY <1>4 DEF Summaries!Select, Summaries!Due, Summaries!TypeOK, SummaryFlushes,
          SummarySentInv, Summaries!HeldUntilReleased, Summaries!BeingSent, Summaries!InFlight,
          Summaries!Summary, Summaries!Absent, Summaries!Queued
    <2> QED
      BY <2>1, <2>2, <2>3, <2>4, <2>5, <2>6, <2>7, <2>8, <2>9
  <1>5. CASE Summaries!Lock
    <2>1. Summaries!TypeOK'
      BY <1>5 DEF Summaries!Lock, Summaries!TypeOK, SummaryFlushes, SummaryMessages,
          Summaries!Absent, Summaries!IdleFlush, Summaries!IdlePost, Summaries!Fault,
          Summaries!Queued, Summaries!BeingSent, Summaries!InFlight
    <2>2. flush' \in SummaryFlushes
      BY <1>5 DEF Summaries!Lock, Summaries!TypeOK, SummaryFlushes, SummaryMessages,
          Summaries!IdleFlush
    <2>3. RowInv'
      BY <1>5 DEF Summaries!Lock, Summaries!TypeOK, SummaryFlushes, RowInv, Summaries!Absent,
          Summaries!Queued
    <2>4. FlightInv'
      BY <1>5 DEF Summaries!Lock, Summaries!TypeOK, SummaryFlushes, SummaryMessages, RowInv,
          FlightInv, Summaries!InFlight, Summaries!Summary, Summaries!Queued,
          Summaries!IdleFlush, Summaries!IdlePost
    <2>5. AnswerInv'
      BY <1>5 DEF Summaries!Lock, Summaries!TypeOK, SummaryFlushes, SummaryMessages, FlightInv,
          AnswerInv, Summaries!InFlight, Summaries!Summary, Summaries!IdleFlush,
          Summaries!IdlePost
    <2>6. SummarySentInv'
      BY <1>5 DEF Summaries!Lock, Summaries!TypeOK, SummaryFlushes, SummarySentInv,
          Summaries!HeldUntilReleased, Summaries!BeingSent, Summaries!InFlight,
          Summaries!Summary, Summaries!IdleFlush, Summaries!IdlePost
    <2>7. Summaries!SummaryNotLost'
      BY <1>5 DEF Summaries!Lock, Summaries!TypeOK, SummaryFlushes, SummaryMessages, RowInv,
          FlightInv, AnswerInv, Summaries!SummaryNotLost, Summaries!Queued, Summaries!Absent
    <2>8. Summaries!SettledIsLatest'
      BY <1>5 DEF Summaries!Lock, Summaries!TypeOK, SummaryFlushes, SummaryMessages, RowInv,
          FlightInv, AnswerInv, Summaries!SettledIsLatest, Summaries!InFlight, Summaries!Queued,
          Summaries!Absent
    <2>9. Summaries!HeldUntilReleased'
      BY <1>5 DEF Summaries!Lock, Summaries!TypeOK, SummaryFlushes, SummarySentInv,
          Summaries!HeldUntilReleased, Summaries!BeingSent, Summaries!InFlight,
          Summaries!Summary, Summaries!Absent, Summaries!Queued
    <2> QED
      BY <2>1, <2>2, <2>3, <2>4, <2>5, <2>6, <2>7, <2>8, <2>9
  <1>6. CASE Summaries!ReadBack
    <2>1. Summaries!TypeOK'
      BY <1>6 DEF Summaries!ReadBack, Summaries!Summary, Summaries!TypeOK, SummaryFlushes,
          SummaryMessages, Summaries!Absent, Summaries!IdleFlush, Summaries!IdlePost,
          Summaries!Fault, Summaries!Queued, Summaries!BeingSent, Summaries!InFlight
    <2>2. flush' \in SummaryFlushes
      <3> DEFINE read == {Summaries!Summary(s, row[s].version) : s \in flush.picked}
      <3>1. read \in SUBSET SummaryMessages
        BY DEF Summaries!Summary, Summaries!TypeOK, SummaryMessages
      <3>2. \/ flush' = [at |-> "idle", picked |-> {}, todo |-> {}, sent |-> {}]
            \/ flush' = [at |-> "send", picked |-> {}, todo |-> read, sent |-> {}]
        BY <1>6 DEF Summaries!ReadBack, Summaries!IdleFlush
      <3> QED
        BY <3>1, <3>2 DEF SummaryFlushes
    <2>3. RowInv'
      BY <1>6 DEF Summaries!ReadBack, Summaries!Summary, Summaries!TypeOK, SummaryFlushes,
          RowInv, Summaries!Absent, Summaries!Queued
    <2>4. FlightInv'
      BY <1>6 DEF Summaries!ReadBack, Summaries!Summary, Summaries!TypeOK, SummaryFlushes,
          SummaryMessages, RowInv, FlightInv, Summaries!InFlight, Summaries!Queued,
          Summaries!IdleFlush, Summaries!IdlePost
    <2>5. AnswerInv'
      BY <1>6 DEF Summaries!ReadBack, Summaries!Summary, Summaries!TypeOK, SummaryFlushes,
          SummaryMessages, FlightInv, AnswerInv, Summaries!InFlight, Summaries!IdleFlush,
          Summaries!IdlePost
    <2>6. SummarySentInv'
      BY <1>6 DEF Summaries!ReadBack, Summaries!Summary, Summaries!TypeOK, SummaryFlushes,
          SummarySentInv, Summaries!HeldUntilReleased, Summaries!BeingSent, Summaries!InFlight,
          Summaries!IdleFlush, Summaries!IdlePost
    <2>7. Summaries!SummaryNotLost'
      BY <1>6 DEF Summaries!ReadBack, Summaries!Summary, Summaries!TypeOK, SummaryFlushes,
          SummaryMessages, RowInv, FlightInv, AnswerInv, Summaries!SummaryNotLost,
          Summaries!Queued, Summaries!Absent
    <2>8. Summaries!SettledIsLatest'
      BY <1>6 DEF Summaries!ReadBack, Summaries!Summary, Summaries!TypeOK, SummaryFlushes,
          SummaryMessages, RowInv, FlightInv, AnswerInv, Summaries!SettledIsLatest,
          Summaries!InFlight, Summaries!Queued, Summaries!Absent
    <2>9. Summaries!HeldUntilReleased'
      BY <1>6 DEF Summaries!ReadBack, Summaries!Summary, Summaries!TypeOK, SummaryFlushes,
          SummarySentInv, Summaries!HeldUntilReleased, Summaries!BeingSent, Summaries!InFlight,
          Summaries!Absent, Summaries!Queued
    <2> QED
      BY <2>1, <2>2, <2>3, <2>4, <2>5, <2>6, <2>7, <2>8, <2>9
  <1>7. ASSUME NEW m \in flush.todo, Summaries!FlushUpload(m)
        PROVE  SummariesHold'
    <2>1. /\ m \in SummaryMessages /\ m.sha \in Shas /\ m.version \in 0 .. MaxVersions
          /\ m.version > 0 /\ (m.sha \notin raced => m.version = made[m.sha])
      BY DEF SummaryFlushes, SummaryMessages, FlightInv
    <2>2. PICK a \in {"synced", "failed"} :
            flush' = [Summaries!IdleFlush EXCEPT !.at = a, !.todo = flush.todo \ {m}, !.sent = {m}]
      BY <1>7 DEF Summaries!FlushUpload
    <2>3. /\ flush'.at = a /\ flush'.picked = {} /\ flush'.todo = flush.todo \ {m}
          /\ flush'.sent = {m} /\ flush' \in SummaryFlushes
      BY <2>1, <2>2 DEF Summaries!IdleFlush, SummaryFlushes
    <2>4. /\ \/ server' = [server EXCEPT ![m.sha] = m.version]
             \/ UNCHANGED server /\ a = "failed"
          /\ faults' \in 0 .. SummaryFaults
          /\ UNCHANGED <<row, post, made, raced, purged, held, late>>
      BY <1>7, <2>3 DEF Summaries!FlushUpload, Summaries!Upload, Summaries!Fault, Summaries!TypeOK
    <2>5. server' \in [Shas -> 0 .. MaxVersions]
      BY <2>1, <2>4 DEF Summaries!TypeOK
    <2>6. Summaries!TypeOK'
      BY <2>3, <2>4, <2>5 DEF Summaries!TypeOK, SummaryFlushes, SummaryMessages
    <2>7. RowInv'
      BY <2>4 DEF RowInv, Summaries!Queued
    <2>8. FlightInv'
      BY <2>1, <2>3, <2>4 DEF FlightInv
    <2>9. AnswerInv'
      <3>1. flush'.at = "synced" => server'[m.sha] = m.version
        BY <2>1, <2>3, <2>4 DEF Summaries!TypeOK
      <3>2. post.at = "synced" =>
              server'[post.sha] > 0 /\ (post.sha \notin raced => server'[post.sha] = made[post.sha])
        BY <2>1, <2>4 DEF AnswerInv, Summaries!TypeOK
      <3> QED
        BY <2>1, <2>3, <2>4, <3>1, <3>2 DEF AnswerInv
    <2>10. SummarySentInv'
      BY <2>3, <2>4 DEF SummarySentInv, Summaries!BeingSent, Summaries!InFlight
    <2>11. Summaries!SummaryNotLost'
      BY <2>1, <2>4, <2>5 DEF Summaries!SummaryNotLost, Summaries!Queued, Summaries!TypeOK
    <2>12. Summaries!SettledIsLatest'
      BY <2>1, <2>4 DEF Summaries!SettledIsLatest, Summaries!Queued, Summaries!TypeOK
    <2>13. Summaries!HeldUntilReleased'
      BY <2>4 DEF Summaries!HeldUntilReleased
    <2> QED
      BY <2>3, <2>6, <2>7, <2>8, <2>9, <2>10, <2>11, <2>12, <2>13
  <1>8. CASE Summaries!FlushSynced
    <2>1. Summaries!TypeOK'
      BY <1>8 DEF Summaries!FlushSynced, Summaries!AfterAnswer, Summaries!TypeOK,
          SummaryFlushes, SummaryMessages, Summaries!Absent, Summaries!IdleFlush,
          Summaries!IdlePost, Summaries!Fault, Summaries!Queued, Summaries!BeingSent,
          Summaries!InFlight
    <2>2. flush' \in SummaryFlushes
      BY <1>8 DEF Summaries!FlushSynced, Summaries!AfterAnswer, Summaries!TypeOK,
          SummaryFlushes, SummaryMessages, Summaries!IdleFlush
    <2>3. RowInv'
      BY <1>8 DEF Summaries!FlushSynced, Summaries!AfterAnswer, Summaries!TypeOK,
          SummaryFlushes, RowInv, Summaries!Absent, Summaries!Queued
    <2>4. FlightInv'
      BY <1>8 DEF Summaries!FlushSynced, Summaries!AfterAnswer, Summaries!TypeOK,
          SummaryFlushes, SummaryMessages, RowInv, FlightInv, Summaries!InFlight,
          Summaries!Summary, Summaries!Queued, Summaries!IdleFlush, Summaries!IdlePost
    <2>5. AnswerInv'
      BY <1>8 DEF Summaries!FlushSynced, Summaries!AfterAnswer, Summaries!TypeOK,
          SummaryFlushes, SummaryMessages, FlightInv, AnswerInv, Summaries!InFlight,
          Summaries!Summary, Summaries!IdleFlush, Summaries!IdlePost
    <2>6. SummarySentInv'
      BY <1>8 DEF Summaries!FlushSynced, Summaries!AfterAnswer, Summaries!TypeOK,
          SummaryFlushes, SummarySentInv, Summaries!HeldUntilReleased, Summaries!BeingSent,
          Summaries!InFlight, Summaries!Summary, Summaries!IdleFlush, Summaries!IdlePost
    <2>7. Summaries!SummaryNotLost'
      BY <1>8 DEF Summaries!FlushSynced, Summaries!AfterAnswer, Summaries!TypeOK,
          SummaryFlushes, SummaryMessages, RowInv, FlightInv, AnswerInv,
          Summaries!SummaryNotLost, Summaries!Queued, Summaries!Absent
    <2>8. Summaries!SettledIsLatest'
      BY <1>8 DEF Summaries!FlushSynced, Summaries!AfterAnswer, Summaries!TypeOK,
          SummaryFlushes, SummaryMessages, RowInv, FlightInv, AnswerInv,
          Summaries!SettledIsLatest, Summaries!InFlight, Summaries!Queued, Summaries!Absent
    <2>9. Summaries!HeldUntilReleased'
      BY <1>8 DEF Summaries!FlushSynced, Summaries!AfterAnswer, Summaries!TypeOK,
          SummaryFlushes, SummarySentInv, Summaries!HeldUntilReleased, Summaries!BeingSent,
          Summaries!InFlight, Summaries!Summary, Summaries!Absent, Summaries!Queued
    <2> QED
      BY <2>1, <2>2, <2>3, <2>4, <2>5, <2>6, <2>7, <2>8, <2>9
  <1>9. CASE Summaries!FlushFailed
    <2>1. Summaries!TypeOK'
      BY <1>9 DEF Summaries!FlushFailed, Summaries!AfterAnswer, Summaries!TypeOK,
          SummaryFlushes, SummaryMessages, Summaries!Absent, Summaries!IdleFlush,
          Summaries!IdlePost, Summaries!Fault, Summaries!Queued, Summaries!BeingSent,
          Summaries!InFlight
    <2>2. flush' \in SummaryFlushes
      BY <1>9 DEF Summaries!FlushFailed, Summaries!AfterAnswer, Summaries!TypeOK,
          SummaryFlushes, SummaryMessages, Summaries!IdleFlush
    <2>3. RowInv'
      BY <1>9 DEF Summaries!FlushFailed, Summaries!AfterAnswer, Summaries!TypeOK,
          SummaryFlushes, RowInv, Summaries!Absent, Summaries!Queued
    <2>4. FlightInv'
      BY <1>9 DEF Summaries!FlushFailed, Summaries!AfterAnswer, Summaries!TypeOK,
          SummaryFlushes, SummaryMessages, RowInv, FlightInv, Summaries!InFlight,
          Summaries!Summary, Summaries!Queued, Summaries!IdleFlush, Summaries!IdlePost
    <2>5. AnswerInv'
      BY <1>9 DEF Summaries!FlushFailed, Summaries!AfterAnswer, Summaries!TypeOK,
          SummaryFlushes, SummaryMessages, FlightInv, AnswerInv, Summaries!InFlight,
          Summaries!Summary, Summaries!IdleFlush, Summaries!IdlePost
    <2>6. SummarySentInv'
      BY <1>9 DEF Summaries!FlushFailed, Summaries!AfterAnswer, Summaries!TypeOK,
          SummaryFlushes, SummarySentInv, Summaries!HeldUntilReleased, Summaries!BeingSent,
          Summaries!InFlight, Summaries!Summary, Summaries!IdleFlush, Summaries!IdlePost
    <2>7. Summaries!SummaryNotLost'
      BY <1>9 DEF Summaries!FlushFailed, Summaries!AfterAnswer, Summaries!TypeOK,
          SummaryFlushes, SummaryMessages, RowInv, FlightInv, AnswerInv,
          Summaries!SummaryNotLost, Summaries!Queued, Summaries!Absent
    <2>8. Summaries!SettledIsLatest'
      BY <1>9 DEF Summaries!FlushFailed, Summaries!AfterAnswer, Summaries!TypeOK,
          SummaryFlushes, SummaryMessages, RowInv, FlightInv, AnswerInv,
          Summaries!SettledIsLatest, Summaries!InFlight, Summaries!Queued, Summaries!Absent
    <2>9. Summaries!HeldUntilReleased'
      BY <1>9 DEF Summaries!FlushFailed, Summaries!AfterAnswer, Summaries!TypeOK,
          SummaryFlushes, SummarySentInv, Summaries!HeldUntilReleased, Summaries!BeingSent,
          Summaries!InFlight, Summaries!Summary, Summaries!Absent, Summaries!Queued
    <2> QED
      BY <2>1, <2>2, <2>3, <2>4, <2>5, <2>6, <2>7, <2>8, <2>9
  <1>10. ASSUME NEW s \in Shas, Summaries!RetryTime(s)
        PROVE  SummariesHold'
    <2>1. Summaries!TypeOK'
      BY <1>10 DEF Summaries!RetryTime, Summaries!TypeOK, SummaryFlushes, SummaryMessages,
          Summaries!Absent, Summaries!IdleFlush, Summaries!IdlePost, Summaries!Fault,
          Summaries!Queued, Summaries!BeingSent, Summaries!InFlight
    <2>2. flush' \in SummaryFlushes
      BY <1>10 DEF Summaries!RetryTime, Summaries!TypeOK, SummaryFlushes, SummaryMessages,
          Summaries!IdleFlush
    <2>3. RowInv'
      BY <1>10 DEF Summaries!RetryTime, Summaries!TypeOK, SummaryFlushes, RowInv,
          Summaries!Absent, Summaries!Queued
    <2>4. FlightInv'
      BY <1>10 DEF Summaries!RetryTime, Summaries!TypeOK, SummaryFlushes, SummaryMessages,
          RowInv, FlightInv, Summaries!InFlight, Summaries!Summary, Summaries!Queued,
          Summaries!IdleFlush, Summaries!IdlePost
    <2>5. AnswerInv'
      BY <1>10 DEF Summaries!RetryTime, Summaries!TypeOK, SummaryFlushes, SummaryMessages,
          FlightInv, AnswerInv, Summaries!InFlight, Summaries!Summary, Summaries!IdleFlush,
          Summaries!IdlePost
    <2>6. SummarySentInv'
      BY <1>10 DEF Summaries!RetryTime, Summaries!TypeOK, SummaryFlushes, SummarySentInv,
          Summaries!HeldUntilReleased, Summaries!BeingSent, Summaries!InFlight,
          Summaries!Summary, Summaries!IdleFlush, Summaries!IdlePost
    <2>7. Summaries!SummaryNotLost'
      BY <1>10 DEF Summaries!RetryTime, Summaries!TypeOK, SummaryFlushes, SummaryMessages,
          RowInv, FlightInv, AnswerInv, Summaries!SummaryNotLost, Summaries!Queued,
          Summaries!Absent
    <2>8. Summaries!SettledIsLatest'
      BY <1>10 DEF Summaries!RetryTime, Summaries!TypeOK, SummaryFlushes, SummaryMessages,
          RowInv, FlightInv, AnswerInv, Summaries!SettledIsLatest, Summaries!InFlight,
          Summaries!Queued, Summaries!Absent
    <2>9. Summaries!HeldUntilReleased'
      BY <1>10 DEF Summaries!RetryTime, Summaries!TypeOK, SummaryFlushes, SummarySentInv,
          Summaries!HeldUntilReleased, Summaries!BeingSent, Summaries!InFlight,
          Summaries!Summary, Summaries!Absent, Summaries!Queued
    <2> QED
      BY <2>1, <2>2, <2>3, <2>4, <2>5, <2>6, <2>7, <2>8, <2>9
  <1>11. ASSUME NEW s \in Shas, Summaries!LockAges(s)
        PROVE  SummariesHold'
    <2>1. Summaries!TypeOK'
      BY <1>11 DEF Summaries!LockAges, Summaries!Fault, Summaries!TypeOK, SummaryFlushes,
          SummaryMessages, Summaries!Absent, Summaries!IdleFlush, Summaries!IdlePost,
          Summaries!Queued, Summaries!BeingSent, Summaries!InFlight
    <2>2. flush' \in SummaryFlushes
      BY <1>11 DEF Summaries!LockAges, Summaries!Fault, Summaries!TypeOK, SummaryFlushes,
          SummaryMessages, Summaries!IdleFlush
    <2>3. RowInv'
      BY <1>11 DEF Summaries!LockAges, Summaries!Fault, Summaries!TypeOK, SummaryFlushes,
          RowInv, Summaries!Absent, Summaries!Queued
    <2>4. FlightInv'
      BY <1>11 DEF Summaries!LockAges, Summaries!Fault, Summaries!TypeOK, SummaryFlushes,
          SummaryMessages, RowInv, FlightInv, Summaries!InFlight, Summaries!Summary,
          Summaries!Queued, Summaries!IdleFlush, Summaries!IdlePost
    <2>5. AnswerInv'
      BY <1>11 DEF Summaries!LockAges, Summaries!Fault, Summaries!TypeOK, SummaryFlushes,
          SummaryMessages, FlightInv, AnswerInv, Summaries!InFlight, Summaries!Summary,
          Summaries!IdleFlush, Summaries!IdlePost
    <2>6. SummarySentInv'
      BY <1>11 DEF Summaries!LockAges, Summaries!Fault, Summaries!TypeOK, SummaryFlushes,
          SummarySentInv, Summaries!HeldUntilReleased, Summaries!BeingSent, Summaries!InFlight,
          Summaries!Summary, Summaries!IdleFlush, Summaries!IdlePost
    <2>7. Summaries!SummaryNotLost'
      BY <1>11 DEF Summaries!LockAges, Summaries!Fault, Summaries!TypeOK, SummaryFlushes,
          SummaryMessages, RowInv, FlightInv, AnswerInv, Summaries!SummaryNotLost,
          Summaries!Queued, Summaries!Absent
    <2>8. Summaries!SettledIsLatest'
      BY <1>11 DEF Summaries!LockAges, Summaries!Fault, Summaries!TypeOK, SummaryFlushes,
          SummaryMessages, RowInv, FlightInv, AnswerInv, Summaries!SettledIsLatest,
          Summaries!InFlight, Summaries!Queued, Summaries!Absent
    <2>9. Summaries!HeldUntilReleased'
      BY <1>11 DEF Summaries!LockAges, Summaries!Fault, Summaries!TypeOK, SummaryFlushes,
          SummarySentInv, Summaries!HeldUntilReleased, Summaries!BeingSent, Summaries!InFlight,
          Summaries!Summary, Summaries!Absent, Summaries!Queued
    <2> QED
      BY <2>1, <2>2, <2>3, <2>4, <2>5, <2>6, <2>7, <2>8, <2>9
  <1>12. CASE Summaries!Hold
    <2>1. Summaries!TypeOK'
      <3>1. Summaries!InFlight \subseteq SummaryMessages
        BY DEF Summaries!TypeOK, SummaryFlushes, SummaryMessages, Summaries!InFlight,
          Summaries!Summary
      <3>2. Summaries!BeingSent \subseteq Shas
        BY <3>1 DEF Summaries!TypeOK, Summaries!BeingSent, SummaryMessages
      <3> QED
        BY <1>12, <3>2 DEF Summaries!Hold, Summaries!TypeOK, SummaryFlushes, SummaryMessages
    <2>2. flush' \in SummaryFlushes
      BY <1>12 DEF Summaries!Hold, Summaries!TypeOK, SummaryFlushes, SummaryMessages,
          Summaries!IdleFlush
    <2>3. RowInv'
      BY <1>12 DEF Summaries!Hold, Summaries!TypeOK, SummaryFlushes, RowInv, Summaries!Absent,
          Summaries!Queued
    <2>4. FlightInv'
      BY <1>12 DEF Summaries!Hold, Summaries!TypeOK, SummaryFlushes, SummaryMessages, RowInv,
          FlightInv, Summaries!InFlight, Summaries!Summary, Summaries!Queued,
          Summaries!IdleFlush, Summaries!IdlePost
    <2>5. AnswerInv'
      BY <1>12 DEF Summaries!Hold, Summaries!TypeOK, SummaryFlushes, SummaryMessages, FlightInv,
          AnswerInv, Summaries!InFlight, Summaries!Summary, Summaries!IdleFlush,
          Summaries!IdlePost
    <2>6. SummarySentInv'
      BY <1>12 DEF Summaries!Hold, Summaries!TypeOK, SummaryFlushes, SummarySentInv,
          Summaries!HeldUntilReleased, Summaries!BeingSent, Summaries!InFlight,
          Summaries!Summary, Summaries!IdleFlush, Summaries!IdlePost
    <2>7. Summaries!SummaryNotLost'
      BY <1>12 DEF Summaries!Hold, Summaries!TypeOK, SummaryFlushes, SummaryMessages, RowInv,
          FlightInv, AnswerInv, Summaries!SummaryNotLost, Summaries!Queued, Summaries!Absent
    <2>8. Summaries!SettledIsLatest'
      BY <1>12 DEF Summaries!Hold, Summaries!TypeOK, SummaryFlushes, SummaryMessages, RowInv,
          FlightInv, AnswerInv, Summaries!SettledIsLatest, Summaries!InFlight, Summaries!Queued,
          Summaries!Absent
    <2>9. Summaries!HeldUntilReleased'
      BY <1>12 DEF Summaries!Hold, Summaries!TypeOK, SummaryFlushes, SummarySentInv,
          Summaries!HeldUntilReleased, Summaries!BeingSent, Summaries!InFlight,
          Summaries!Summary, Summaries!Absent, Summaries!Queued
    <2> QED
      BY <2>1, <2>2, <2>3, <2>4, <2>5, <2>6, <2>7, <2>8, <2>9
  <1>13. CASE Summaries!Release
    <2>1. Summaries!TypeOK'
      BY <1>13 DEF Summaries!Release, Summaries!TypeOK, SummaryFlushes, SummaryMessages,
          Summaries!Absent, Summaries!IdleFlush, Summaries!IdlePost, Summaries!Fault,
          Summaries!Queued, Summaries!BeingSent, Summaries!InFlight
    <2>2. flush' \in SummaryFlushes
      BY <1>13 DEF Summaries!Release, Summaries!TypeOK, SummaryFlushes, SummaryMessages,
          Summaries!IdleFlush
    <2>3. RowInv'
      BY <1>13 DEF Summaries!Release, Summaries!TypeOK, SummaryFlushes, RowInv,
          Summaries!Absent, Summaries!Queued
    <2>4. FlightInv'
      BY <1>13 DEF Summaries!Release, Summaries!TypeOK, SummaryFlushes, SummaryMessages, RowInv,
          FlightInv, Summaries!InFlight, Summaries!Summary, Summaries!Queued,
          Summaries!IdleFlush, Summaries!IdlePost
    <2>5. AnswerInv'
      BY <1>13 DEF Summaries!Release, Summaries!TypeOK, SummaryFlushes, SummaryMessages,
          FlightInv, AnswerInv, Summaries!InFlight, Summaries!Summary, Summaries!IdleFlush,
          Summaries!IdlePost
    <2>6. SummarySentInv'
      BY <1>13 DEF Summaries!Release, Summaries!TypeOK, SummaryFlushes, SummarySentInv,
          Summaries!HeldUntilReleased, Summaries!BeingSent, Summaries!InFlight,
          Summaries!Summary, Summaries!IdleFlush, Summaries!IdlePost
    <2>7. Summaries!SummaryNotLost'
      BY <1>13 DEF Summaries!Release, Summaries!TypeOK, SummaryFlushes, SummaryMessages, RowInv,
          FlightInv, AnswerInv, Summaries!SummaryNotLost, Summaries!Queued, Summaries!Absent
    <2>8. Summaries!SettledIsLatest'
      BY <1>13 DEF Summaries!Release, Summaries!TypeOK, SummaryFlushes, SummaryMessages, RowInv,
          FlightInv, AnswerInv, Summaries!SettledIsLatest, Summaries!InFlight, Summaries!Queued,
          Summaries!Absent
    <2>9. Summaries!HeldUntilReleased'
      BY <1>13 DEF Summaries!Release, Summaries!TypeOK, SummaryFlushes, SummarySentInv,
          Summaries!HeldUntilReleased, Summaries!BeingSent, Summaries!InFlight,
          Summaries!Summary, Summaries!Absent, Summaries!Queued
    <2> QED
      BY <2>1, <2>2, <2>3, <2>4, <2>5, <2>6, <2>7, <2>8, <2>9
  <1>14. CASE Summaries!Purge
    <2>1. Summaries!TypeOK'
      BY <1>14 DEF Summaries!Purge, Summaries!TypeOK, SummaryFlushes, SummaryMessages,
          Summaries!Absent, Summaries!IdleFlush, Summaries!IdlePost, Summaries!Fault,
          Summaries!Queued, Summaries!BeingSent, Summaries!InFlight
    <2>2. flush' \in SummaryFlushes
      BY <1>14 DEF Summaries!Purge, Summaries!TypeOK, SummaryFlushes, SummaryMessages,
          Summaries!IdleFlush
    <2>3. RowInv'
      BY <1>14 DEF Summaries!Purge, Summaries!TypeOK, SummaryFlushes, RowInv, Summaries!Absent,
          Summaries!Queued
    <2>4. FlightInv'
      BY <1>14 DEF Summaries!Purge, Summaries!TypeOK, SummaryFlushes, SummaryMessages, RowInv,
          FlightInv, Summaries!InFlight, Summaries!Summary, Summaries!Queued,
          Summaries!IdleFlush, Summaries!IdlePost
    <2>5. AnswerInv'
      BY <1>14 DEF Summaries!Purge, Summaries!TypeOK, SummaryFlushes, SummaryMessages,
          FlightInv, AnswerInv, Summaries!InFlight, Summaries!Summary, Summaries!IdleFlush,
          Summaries!IdlePost
    <2>6. SummarySentInv'
      BY <1>14 DEF Summaries!Purge, Summaries!TypeOK, SummaryFlushes, SummarySentInv,
          Summaries!HeldUntilReleased, Summaries!BeingSent, Summaries!InFlight,
          Summaries!Summary, Summaries!IdleFlush, Summaries!IdlePost
    <2>7. Summaries!SummaryNotLost'
      BY <1>14 DEF Summaries!Purge, Summaries!TypeOK, SummaryFlushes, SummaryMessages, RowInv,
          FlightInv, AnswerInv, Summaries!SummaryNotLost, Summaries!Queued, Summaries!Absent
    <2>8. Summaries!SettledIsLatest'
      BY <1>14 DEF Summaries!Purge, Summaries!TypeOK, SummaryFlushes, SummaryMessages, RowInv,
          FlightInv, AnswerInv, Summaries!SettledIsLatest, Summaries!InFlight, Summaries!Queued,
          Summaries!Absent
    <2>9. Summaries!HeldUntilReleased'
      BY <1>14 DEF Summaries!Purge, Summaries!TypeOK, SummaryFlushes, SummarySentInv,
          Summaries!HeldUntilReleased, Summaries!BeingSent, Summaries!InFlight,
          Summaries!Summary, Summaries!Absent, Summaries!Queued
    <2> QED
      BY <2>1, <2>2, <2>3, <2>4, <2>5, <2>6, <2>7, <2>8, <2>9
  <1>15. CASE Summaries!Crash
    <2>1. Summaries!TypeOK'
      BY <1>15 DEF Summaries!Crash, Summaries!Fault, Summaries!TypeOK, SummaryFlushes,
          SummaryMessages, Summaries!Absent, Summaries!IdleFlush, Summaries!IdlePost,
          Summaries!Queued, Summaries!BeingSent, Summaries!InFlight
    <2>2. flush' \in SummaryFlushes
      BY <1>15 DEF Summaries!Crash, Summaries!Fault, Summaries!TypeOK, SummaryFlushes,
          SummaryMessages, Summaries!IdleFlush
    <2>3. RowInv'
      BY <1>15 DEF Summaries!Crash, Summaries!Fault, Summaries!TypeOK, SummaryFlushes, RowInv,
          Summaries!Absent, Summaries!Queued
    <2>4. FlightInv'
      BY <1>15 DEF Summaries!Crash, Summaries!Fault, Summaries!TypeOK, SummaryFlushes,
          SummaryMessages, RowInv, FlightInv, Summaries!InFlight, Summaries!Summary,
          Summaries!Queued, Summaries!IdleFlush, Summaries!IdlePost
    <2>5. AnswerInv'
      BY <1>15 DEF Summaries!Crash, Summaries!Fault, Summaries!TypeOK, SummaryFlushes,
          SummaryMessages, FlightInv, AnswerInv, Summaries!InFlight, Summaries!Summary,
          Summaries!IdleFlush, Summaries!IdlePost
    <2>6. SummarySentInv'
      BY <1>15 DEF Summaries!Crash, Summaries!Fault, Summaries!TypeOK, SummaryFlushes,
          SummarySentInv, Summaries!HeldUntilReleased, Summaries!BeingSent, Summaries!InFlight,
          Summaries!Summary, Summaries!IdleFlush, Summaries!IdlePost
    <2>7. Summaries!SummaryNotLost'
      BY <1>15 DEF Summaries!Crash, Summaries!Fault, Summaries!TypeOK, SummaryFlushes,
          SummaryMessages, RowInv, FlightInv, AnswerInv, Summaries!SummaryNotLost,
          Summaries!Queued, Summaries!Absent
    <2>8. Summaries!SettledIsLatest'
      BY <1>15 DEF Summaries!Crash, Summaries!Fault, Summaries!TypeOK, SummaryFlushes,
          SummaryMessages, RowInv, FlightInv, AnswerInv, Summaries!SettledIsLatest,
          Summaries!InFlight, Summaries!Queued, Summaries!Absent
    <2>9. Summaries!HeldUntilReleased'
      BY <1>15 DEF Summaries!Crash, Summaries!Fault, Summaries!TypeOK, SummaryFlushes,
          SummarySentInv, Summaries!HeldUntilReleased, Summaries!BeingSent, Summaries!InFlight,
          Summaries!Summary, Summaries!Absent, Summaries!Queued
    <2> QED
      BY <2>1, <2>2, <2>3, <2>4, <2>5, <2>6, <2>7, <2>8, <2>9
  <1>16. CASE UNCHANGED Summaries!vars
    BY <1>16 DEF Summaries!vars, SummaryFlushes, RowInv, FlightInv, AnswerInv, SummarySentInv,
      Summaries!BeingSent, Summaries!InFlight, Summaries!TypeOK, Summaries!Queued, Summaries!SummaryNotLost,
      Summaries!SettledIsLatest, Summaries!HeldUntilReleased
  <1> QED
    BY <1>1, <1>2, <1>3, <1>4, <1>5, <1>6, <1>7, <1>8, <1>9, <1>10, <1>11, <1>12, <1>13, <1>14, <1>15, <1>16
    DEF Summaries!Next, Summaries!Post, Summaries!Flush
----------------------------------------------------------------------------
(* Metrics (MetricsQueue).  First what its lists do. *)

(* Numbers: what induction over the length of a list rests on.  The library's
   induction theorems take a predicate as a parameter; here the set of the
   numbers a claim fails for has no least element, and so is empty. *)

LEMMA LeastNat ==
  ASSUME NEW T, T \subseteq Nat, T # {}
  PROVE  \E x \in T : \A y \in T : x <= y
  <1> DEFINE R == OpToRel(<, Nat)
  <1>1. IsWellFoundedOn(R, Nat)
    BY NatLessThanWellFounded
  <1>2. PICK x \in T : \A y \in T : ~ (<<y, x>> \in R)
    <2> HIDE DEF R
    <2> QED BY <1>1, WFMin
  <1>3. \A y \in T : y < x => <<y, x>> \in R
    BY DEF OpToRel
  <1> HIDE DEF R
  <1>4. \A y \in T : x <= y
    <2> TAKE y \in T
    <2>1. x \in Nat /\ y \in Nat /\ ~ (y < x)
      BY <1>2, <1>3
    <2> QED
      BY <2>1
  <1> QED
    BY <1>4

LEMMA GreatestNat ==
  ASSUME NEW n \in Nat, NEW T, T \subseteq 0 .. n, T # {}
  PROVE  \E x \in T : \A y \in T : x >= y
  <1> DEFINE D == {n - x : x \in T}
  <1>1. D \subseteq Nat /\ D # {}
    <2>1. \A x \in T : n - x \in Nat
      OBVIOUS
    <2>2. PICK x \in T : TRUE
      OBVIOUS
    <2>3. n - x \in D
      OBVIOUS
    <2> QED
      BY <2>1, <2>3
  <1>2. PICK d \in D : \A e \in D : d <= e
    <2> HIDE DEF D
    <2> QED BY <1>1, LeastNat
  <1>3. PICK x \in T : d = n - x
    BY <1>2
  <1>4. \A y \in T : n - y \in D
    OBVIOUS
  <1>5. \A y \in T : x >= y
    <2> TAKE y \in T
    <2>1. d <= n - y
      BY <1>2, <1>4
    <2> HIDE DEF D
    <2> QED BY <2>1, <1>3
  <1> QED
    BY <1>5


\* What is left of the first n elements of s, for every n up to k, is Kept[n].
IsKept(Kept, s, S, k) ==
  Kept = [n \in 0 .. k |->
           IF n = 0 THEN <<>>
           ELSE IF s[n] \in S THEN Kept[n - 1] ELSE Append(Kept[n - 1], s[n])]

\* What is known of the first k - 1 elements extends to k.
LEMMA KeptStep ==
  ASSUME NEW s, NEW S, NEW k \in Nat \ {0}, NEW f, IsKept(f, s, S, k - 1)
  PROVE  \E g : IsKept(g, s, S, k)
  <1> DEFINE v == IF s[k] \in S THEN f[k - 1] ELSE Append(f[k - 1], s[k])
             g == [n \in 0 .. k |-> IF n = k THEN v ELSE f[n]]
  <1>1. \A n \in 0 .. k - 1 : g[n] = f[n]
    OBVIOUS
  <1>2. \A n \in 0 .. k - 1 :
          f[n] = IF n = 0 THEN <<>>
                 ELSE IF s[n] \in S THEN f[n - 1] ELSE Append(f[n - 1], s[n])
    BY DEF IsKept
  <1>3. g[k] = v
    OBVIOUS
  <1>4. ASSUME NEW n \in 0 .. k
        PROVE  g[n] = IF n = 0 THEN <<>>
                      ELSE IF s[n] \in S THEN g[n - 1] ELSE Append(g[n - 1], s[n])
    <2> HIDE DEF g
    <2>1. CASE n = k
      <3>1. g[n - 1] = f[n - 1]
        BY <2>1, <1>1
      <3> QED BY <2>1, <3>1, <1>3
    <2>2. CASE n \in 1 .. k - 1
      <3>1. g[n] = f[n] /\ g[n - 1] = f[n - 1]
        BY <2>2, <1>1
      <3> QED BY <2>2, <3>1, <1>2
    <2>3. CASE n = 0
      BY <2>3, <1>1, <1>2
    <2> QED BY <2>1, <2>2, <2>3
  <1>5. g = [n \in 0 .. k |-> g[n]]
    OBVIOUS
  <1>6. IsKept(g, s, S, k)
    <2> HIDE DEF g
    <2> QED BY <1>4, <1>5 DEF IsKept
  <1> QED BY <1>6

\* So the recursive definition of Without has a value, for every length.
LEMMA KeptExists ==
  ASSUME NEW s, NEW S, NEW k \in Nat
  PROVE  \E f : IsKept(f, s, S, k)
  <1> DEFINE T == {j \in Nat : ~ \E f : IsKept(f, s, S, j)}
  <1>1. ASSUME T # {} PROVE FALSE
    <2>1. PICK j \in T : \A i \in T : j <= i
      <3>1. T \subseteq Nat
        OBVIOUS
      <3> HIDE DEF T
      <3> QED BY <1>1, <3>1, LeastNat
    <2>2. j # 0
      <3>1. IsKept([n \in 0 .. 0 |-> <<>>], s, S, 0)
        BY DEF IsKept
      <3> QED BY <2>1, <3>1
    <2>3. j - 1 \notin T /\ j \in Nat \ {0}
      <3>1. j \in Nat
        BY <2>1
      <3> HIDE DEF T
      <3> QED BY <2>1, <2>2, <3>1
    <2>4. \E f : IsKept(f, s, S, j - 1)
      BY <2>3
    <2>5. \E f : IsKept(f, s, S, j)
      BY <2>3, <2>4, KeptStep
    <2> QED BY <2>1, <2>5
  <1> QED BY <1>1

LEMMA WithoutIsKept ==
  ASSUME NEW s, NEW S, Len(s) \in Nat
  PROVE  \E f : IsKept(f, s, S, Len(s)) /\ Metrics!Without(s, S) = f[Len(s)]
  <1> DEFINE f == CHOOSE g : IsKept(g, s, S, Len(s))
  <1>1. IsKept(f, s, S, Len(s))
    BY KeptExists
  <1>2. Metrics!Without(s, S) = f[Len(s)]
    BY DEF Metrics!Without, IsKept
  <1> QED BY <1>1, <1>2


\* The first n elements.
First(s, n) == {s[i] : i \in 1 .. n}

\* Without keeps the elements outside S, each as often as it was there: by the
\* least n for which the first n elements would tell otherwise.
LEMMA WithoutFacts ==
  ASSUME NEW E, NEW s \in Seq(E), NEW S
  PROVE  /\ Metrics!Without(s, S) \in Seq(E)
         /\ Metrics!In(Metrics!Without(s, S)) = Metrics!In(s) \ S
         /\ IsInjective(s) => IsInjective(Metrics!Without(s, S))
  <1> DEFINE l == Len(s)
  <1>1. PICK f : IsKept(f, s, S, l) /\ Metrics!Without(s, S) = f[l]
    BY WithoutIsKept
  <1>2. f[0] = <<>> /\ \A n \in 1 .. l :
          f[n] = IF s[n] \in S THEN f[n - 1] ELSE Append(f[n - 1], s[n])
    <2>1. l \in Nat
      OBVIOUS
    <2>2. IsKept(f, s, S, l)
      BY <1>1
    <2> HIDE DEF l
    <2>3. f[0] = <<>>
      BY <2>1, <2>2 DEF IsKept
    <2>4. ASSUME NEW n \in 1 .. l
          PROVE  f[n] = IF s[n] \in S THEN f[n - 1] ELSE Append(f[n - 1], s[n])
      <3>1. n \in 0 .. l /\ n # 0
        BY <2>1
      <3> QED BY <2>2, <3>1 DEF IsKept
    <2> QED BY <2>3, <2>4
  <1> DEFINE P(n) == /\ f[n] \in Seq(E)
                     /\ Metrics!In(f[n]) = First(s, n) \ S
                     /\ IsInjective(s) => IsInjective(f[n])
             T == {n \in 0 .. l : ~ P(n)}
  <1>3. P(0)
    BY <1>2 DEF Metrics!In, First, IsInjective
  <1>4. ASSUME NEW n \in 1 .. l, P(n - 1) PROVE P(n)
    <2>1. CASE s[n] \in S
      <3>1. First(s, n) \ S = First(s, n - 1) \ S
        BY <2>1 DEF First
      <3> QED BY <2>1, <1>2, <1>4, <3>1
    <2>2. CASE s[n] \notin S
      <3>1. f[n] = Append(f[n - 1], s[n])
        BY <2>2, <1>2
      <3>2. s[n] \in E
        OBVIOUS
      <3>3. f[n] \in Seq(E)
        BY <3>1, <3>2, <1>4
      <3>4. Metrics!In(f[n]) = Metrics!In(f[n - 1]) \cup {s[n]}
        <4>1. f[n - 1] \in Seq(E)
          BY <1>4
        <4> HIDE DEF P
        <4>2. PICK t \in Seq(E) : t = f[n - 1]
          BY <4>1
        <4>3. DOMAIN Append(t, s[n]) = DOMAIN t \cup {Len(t) + 1}
          BY <3>2
        <4>4. \A i \in DOMAIN t : Append(t, s[n])[i] = t[i]
          BY <3>2
        <4>5. Append(t, s[n])[Len(t) + 1] = s[n]
          BY <3>2
        <4>6. Metrics!In(Append(t, s[n])) = Metrics!In(t) \cup {s[n]}
          BY <4>3, <4>4, <4>5 DEF Metrics!In
        <4> QED BY <3>1, <4>2, <4>6
      <3>5. First(s, n) = First(s, n - 1) \cup {s[n]}
        BY DEF First
      <3>6. ASSUME IsInjective(s) PROVE IsInjective(f[n])
        <4>1. s[n] \notin First(s, n - 1)
          BY <3>6 DEF First, IsInjective
        <4>2. s[n] \notin Metrics!In(f[n - 1])
          BY <4>1, <1>4
        <4>3. IsInjective(f[n - 1])
          BY <3>6, <1>4
        <4> QED
          BY <4>2, <4>3, <3>1, <3>2, <1>4 DEF IsInjective, Metrics!In
      <3> QED BY <2>2, <1>4, <3>3, <3>4, <3>5, <3>6
    <2> QED BY <2>1, <2>2
  <1>5. ASSUME T # {} PROVE FALSE
    <2>1. PICK n \in T : \A m \in T : n <= m
      <3>1. T \subseteq Nat
        OBVIOUS
      <3> HIDE DEF T
      <3> QED BY <1>5, <3>1, LeastNat
    <2>2. n \in 0 .. l /\ ~ P(n)
      BY <2>1
    <2>3. n # 0
      <3> HIDE DEF P
      <3> QED BY <2>2, <1>3
    <2>4. n - 1 \in 0 .. l /\ n - 1 \notin T
      <3> HIDE DEF T, P
      <3> QED BY <2>1, <2>2, <2>3
    <2>5. P(n - 1)
      <3> HIDE DEF P
      <3> QED BY <2>4
    <2> HIDE DEF P
    <2> QED BY <1>4, <2>2, <2>3, <2>5
  <1>6. P(l)
    <2> HIDE DEF P
    <2>1. l \in 0 .. l
      OBVIOUS
    <2> QED BY <1>5, <2>1
  <1>7. First(s, l) = Metrics!In(s)
    BY DEF First, Metrics!In
  <1> QED BY <1>1, <1>6, <1>7

\* Two lists one after the other.
LEMMA ConcatFacts ==
  ASSUME NEW E, NEW s \in Seq(E), NEW t \in Seq(E)
  PROVE  /\ s \o t \in Seq(E)
         /\ Metrics!In(s \o t) = Metrics!In(s) \cup Metrics!In(t)
         /\ IsInjective(s \o t) <=> /\ IsInjective(s) /\ IsInjective(t)
                                    /\ Metrics!In(s) \cap Metrics!In(t) = {}
  <1> DEFINE u == s \o t
  <1>1. u \in Seq(E) /\ Len(u) = Len(s) + Len(t)
    OBVIOUS
  <1>2. \A i \in DOMAIN s : i \in DOMAIN u /\ u[i] = s[i]
    OBVIOUS
  <1>3. \A i \in DOMAIN t : Len(s) + i \in DOMAIN u /\ u[Len(s) + i] = t[i]
    OBVIOUS
  <1>4. \A i \in DOMAIN u : \/ i \in DOMAIN s
                            \/ i - Len(s) \in DOMAIN t /\ i = Len(s) + (i - Len(s))
    OBVIOUS
  <1>5. /\ DOMAIN s \subseteq Int /\ DOMAIN t \subseteq Int /\ DOMAIN u \subseteq Int
        /\ Len(s) \in Int
        /\ \A i \in DOMAIN s : i <= Len(s)
        /\ \A i \in DOMAIN t : 0 < i
    OBVIOUS
  <1>6. Metrics!In(u) = Metrics!In(s) \cup Metrics!In(t)
    <2> HIDE DEF u
    <2>1. ASSUME NEW x \in Metrics!In(u) PROVE x \in Metrics!In(s) \cup Metrics!In(t)
      <3>1. PICK i \in DOMAIN u : x = u[i]
        BY DEF Metrics!In
      <3> QED BY <1>2, <1>3, <1>4, <3>1 DEF Metrics!In
    <2>2. ASSUME NEW x \in Metrics!In(s) PROVE x \in Metrics!In(u)
      BY <1>2 DEF Metrics!In
    <2>3. ASSUME NEW x \in Metrics!In(t) PROVE x \in Metrics!In(u)
      BY <1>3 DEF Metrics!In
    <2> QED BY <2>1, <2>2, <2>3
  <1>7. ASSUME IsInjective(u)
        PROVE  IsInjective(s) /\ IsInjective(t) /\ Metrics!In(s) \cap Metrics!In(t) = {}
    <2> HIDE DEF u
    <2>1. IsInjective(s)
      BY <1>7, <1>2 DEF IsInjective
    <2>2. IsInjective(t)
      BY <1>7, <1>3, <1>5 DEF IsInjective
    <2>3. ASSUME NEW i \in DOMAIN s, NEW j \in DOMAIN t, s[i] = t[j] PROVE FALSE
      BY <1>7, <1>2, <1>3, <1>5, <2>3 DEF IsInjective
    <2> QED BY <2>1, <2>2, <2>3 DEF Metrics!In
  <1>8. ASSUME IsInjective(s), IsInjective(t), Metrics!In(s) \cap Metrics!In(t) = {}
        PROVE  IsInjective(u)
    <2> HIDE DEF u
    <2> SUFFICES ASSUME NEW i \in DOMAIN u, NEW j \in DOMAIN u, u[i] = u[j] PROVE i = j
      BY DEF IsInjective
    <2>1. CASE i \in DOMAIN s /\ j \in DOMAIN s
      BY <2>1, <1>2, <1>8 DEF IsInjective
    <2>2. CASE i \in DOMAIN s /\ j \notin DOMAIN s
      <3>1. s[i] \in Metrics!In(s) /\ t[j - Len(s)] \in Metrics!In(t)
        BY <2>2, <1>4 DEF Metrics!In
      <3>2. s[i] = t[j - Len(s)]
        BY <2>2, <1>2, <1>3, <1>4
      <3> QED BY <3>1, <3>2, <1>8
    <2>3. CASE i \notin DOMAIN s /\ j \in DOMAIN s
      <3>1. s[j] \in Metrics!In(s) /\ t[i - Len(s)] \in Metrics!In(t)
        BY <2>3, <1>4 DEF Metrics!In
      <3>2. s[j] = t[i - Len(s)]
        BY <2>3, <1>2, <1>3, <1>4
      <3> QED BY <3>1, <3>2, <1>8
    <2>4. CASE i \notin DOMAIN s /\ j \notin DOMAIN s
      <3>1. t[i - Len(s)] = t[j - Len(s)] /\ i - Len(s) \in DOMAIN t /\ j - Len(s) \in DOMAIN t
        BY <2>4, <1>3, <1>4
      <3>2. i - Len(s) = j - Len(s)
        BY <3>1, <1>8 DEF IsInjective
      <3> QED BY <3>2, <1>5
    <2> QED BY <2>1, <2>2, <2>3, <2>4
  <1> QED BY <1>1, <1>6, <1>7, <1>8

LEMMA AppendFacts ==
  ASSUME NEW E, NEW s \in Seq(E), NEW e \in E
  PROVE  /\ Append(s, e) \in Seq(E)
         /\ Metrics!In(Append(s, e)) = Metrics!In(s) \cup {e}
         /\ IsInjective(s) /\ e \notin Metrics!In(s) => IsInjective(Append(s, e))
  <1> DEFINE q == <<e>>
  <1>1. Append(s, e) = s \o q /\ q \in Seq(E)
    OBVIOUS
  <1>2. DOMAIN q = {1} /\ q[1] = e
    OBVIOUS
  <1> HIDE DEF q
  <1>3. Metrics!In(q) = {e} /\ IsInjective(q)
    BY <1>2 DEF Metrics!In, IsInjective
  <1>4. Metrics!In(s \o q) = Metrics!In(s) \cup {e}
    BY <1>1, <1>3, ConcatFacts
  <1>5. ASSUME IsInjective(s), e \notin Metrics!In(s) PROVE IsInjective(s \o q)
    BY <1>1, <1>3, <1>5, ConcatFacts
  <1> QED BY <1>1, <1>4, <1>5, ConcatFacts

\* A list cut in two.
LEMMA SplitFacts ==
  ASSUME NEW E, NEW s \in Seq(E), NEW n \in 0 .. Len(s)
  PROVE  LET a == SubSeq(s, 1, n)
             b == SubSeq(s, n + 1, Len(s))
         IN  /\ a \in Seq(E) /\ b \in Seq(E)
             /\ Metrics!In(s) = Metrics!In(a) \cup Metrics!In(b)
             /\ IsInjective(s) => /\ IsInjective(a) /\ IsInjective(b)
                                  /\ Metrics!In(a) \cap Metrics!In(b) = {}
  <1> DEFINE a == SubSeq(s, 1, n)
             b == SubSeq(s, n + 1, Len(s))
  <1>1. a \in Seq(E) /\ b \in Seq(E)
    OBVIOUS
  <1>2. s = a \o b
    <2>1. Len(s) \in Nat /\ n \in 0 .. Len(s)
      OBVIOUS
    <2>2. a \o b = SubSeq(s, 1, Len(s))
      <3>1. 1 \in 1 .. Len(s) + 1 /\ n \in 1 - 1 .. Len(s) /\ Len(s) \in n .. Len(s)
        BY <2>1
      <3> QED BY <3>1, ConcatAdjacentSubSeq
    <2> QED BY <2>2, SubSeqFull
  <1> HIDE DEF a, b
  <1>3. Metrics!In(s) = Metrics!In(a) \cup Metrics!In(b)
    BY <1>1, <1>2, ConcatFacts
  <1>4. IsInjective(s) => /\ IsInjective(a) /\ IsInjective(b)
                          /\ Metrics!In(a) \cap Metrics!In(b) = {}
    BY <1>1, <1>2, ConcatFacts
  <1> QED BY <1>1, <1>3, <1>4 DEF a, b

\* The oldest rows (get_batch).
LEMMA BatchFacts ==
  ASSUME NEW E, NEW s \in Seq(E)
  PROVE  /\ Metrics!Batch(s) \in Seq(E)
         /\ Metrics!In(Metrics!Batch(s)) \subseteq Metrics!In(s)
         /\ IsInjective(s) => IsInjective(Metrics!Batch(s))
  <1> DEFINE n == IF Len(s) < BatchLimit THEN Len(s) ELSE BatchLimit
  <1>1. n \in 0 .. Len(s)
    BY UploadAssumption
  <1>2. Metrics!Batch(s) = SubSeq(s, 1, n)
    BY DEF Metrics!Batch
  <1> HIDE DEF n
  <1> QED BY <1>1, <1>2, SplitFacts

\* split_metrics_envelopes loses nothing and puts nothing in two envelopes.
LEMMA EnvelopeFacts ==
  ASSUME NEW E, NEW s \in Seq(E), s # <<>>
  PROVE  LET a == Metrics!Envelope(s)
             b == Metrics!AfterEnvelope(s)
         IN  /\ a \in Seq(E) /\ b \in Seq(E)
             /\ Metrics!In(s) = Metrics!In(a) \cup Metrics!In(b)
             /\ IsInjective(s) => /\ IsInjective(a) /\ IsInjective(b)
                                  /\ Metrics!In(a) \cap Metrics!In(b) = {}
  <1> DEFINE T == {n \in 1 .. Len(s) : Metrics!Fits(s, n)}
  <1>1. 1 \in T /\ T \subseteq 0 .. Len(s) /\ Len(s) \in Nat
    BY DEF Metrics!Fits
  <1>2. \E x \in T : \A y \in T : x >= y
    <2> HIDE DEF T
    <2> QED BY <1>1, GreatestNat
  <1>3. Metrics!Max(T) \in T
    <2> HIDE DEF T
    <2> QED BY <1>2 DEF Metrics!Max
  <1>4. Metrics!EnvelopeSize(s) \in 0 .. Len(s)
    BY <1>1, <1>3 DEF Metrics!EnvelopeSize
  <1> HIDE DEF T
  <1> QED BY <1>4, SplitFacts DEF Metrics!Envelope, Metrics!AfterEnvelope

LEMMA EmptyFacts ==
  ASSUME NEW E
  PROVE  <<>> \in Seq(E) /\ Metrics!In(<<>>) = {} /\ IsInjective(<<>>)
  BY DEF Metrics!In, IsInjective

(* The invariant of the queue. *)

MetricFlushes ==
  [at : {"idle", "live", "read", "send", "drop"}, todo : Seq(Events), failed : BOOLEAN,
   ids : SUBSET Events, accepted : SUBSET Events, retry : Seq(Events),
   dropped : SUBSET Events]
ManualUploads == [at : {"idle", "send", "delete"}, batch : Seq(Events), ids : SUBSET Events]
\* An event is in one place, and once, whatever is retried, replayed or held.
OneRowInv ==
  /\ IsInjective(buffer) /\ IsInjective(rows) /\ IsInjective(held)
  /\ IsInjective(flush.todo) /\ IsInjective(flush.retry)
  /\ Metrics!In(flush.retry) \cap Metrics!In(flush.todo) = {}
  /\ Metrics!In(rows) \cap Metrics!In(held) = {}
  /\ (Metrics!In(rows) \cup Metrics!In(held)) \cap Metrics!InMemory = {}
  /\ flush.at = "live" => Metrics!In(buffer) \cap Metrics!In(flush.todo) = {}
  /\ Metrics!InMemory \cup Metrics!In(rows) \cup Metrics!In(held) \subseteq made
\* The ids a process has read name rows that are still there.
IdsInv ==
  /\ flush.ids \cup manual.ids \subseteq Metrics!In(rows)
  /\ manual.ids \subseteq Metrics!In(manual.batch)
\* What is deleted as accepted is on the server, and what is dropped is hopeless.
FateInv ==
  /\ flush.accepted \subseteq uploaded
  /\ flush.dropped \subseteq Invalid \cup Huge
  /\ manual.at = "delete" => Metrics!In(manual.batch) \subseteq uploaded
MetricsHold ==
  /\ Metrics!TypeOK /\ flush \in MetricFlushes /\ manual \in ManualUploads
  /\ OneRowInv /\ IdsInv /\ FateInv /\ Metrics!MetricNotLost

LEMMA MetricsInit == Metrics!Init => MetricsHold
  <1> SUFFICES ASSUME Metrics!Init PROVE MetricsHold
    OBVIOUS
  <1>1. /\ flush.at = "idle" /\ flush.todo = <<>> /\ flush.ids = {} /\ flush.accepted = {}
        /\ flush.retry = <<>> /\ flush.dropped = {} /\ flush.failed = FALSE
        /\ manual.at = "idle" /\ manual.batch = <<>> /\ manual.ids = {}
    BY DEF Metrics!Init, Metrics!IdleFlush, Metrics!IdleManual
  <1>2. flush \in MetricFlushes /\ manual \in ManualUploads
    BY DEF Metrics!Init, Metrics!IdleFlush, Metrics!IdleManual, MetricFlushes, ManualUploads
  <1>3. Metrics!TypeOK
    <2>1. <<>> \in Seq(Events) /\ 0 \in 0 .. MetricFaults
      BY UploadAssumption
    <2> QED
      BY <1>1, <2>1 DEF Metrics!Init, Metrics!TypeOK
  <1> QED
    BY <1>1, <1>2, <1>3, EmptyFacts
    DEF Metrics!Init, MetricsHold, OneRowInv, IdsInv, FateInv, Metrics!MetricNotLost, Metrics!InMemory

LEMMA IngestHolds == ASSUME MetricsHold, NEW e \in Events, Metrics!Ingest(e) PROVE MetricsHold'
  <1>1. /\ buffer' = Append(buffer, e) /\ made' = made \cup {e} /\ e \notin made
        /\ UNCHANGED <<rows, held, connected, flush, manual, faults, uploaded, excused>>
    BY DEF Metrics!Ingest
  <1>2. /\ buffer' \in Seq(Events) /\ Metrics!In(buffer') = Metrics!In(buffer) \cup {e}
        /\ IsInjective(buffer')
    <2>1. buffer \in Seq(Events) /\ IsInjective(buffer) /\ e \notin Metrics!In(buffer)
      BY <1>1 DEF MetricsHold, Metrics!TypeOK, OneRowInv, Metrics!InMemory
    <2> QED BY <1>1, <2>1, AppendFacts
  <1>3. Metrics!TypeOK' /\ flush' \in MetricFlushes /\ manual' \in ManualUploads
    BY <1>1, <1>2 DEF MetricsHold, Metrics!TypeOK
  <1>4. OneRowInv'
    BY <1>1, <1>2 DEF MetricsHold, OneRowInv, Metrics!InMemory
  <1>5. IdsInv' /\ FateInv'
    BY <1>1, <1>2 DEF MetricsHold, IdsInv, FateInv
  <1>6. Metrics!MetricNotLost'
    BY <1>1, <1>2 DEF MetricsHold, Metrics!MetricNotLost, Metrics!InMemory
  <1> QED
    BY <1>3, <1>4, <1>5, <1>6 DEF MetricsHold

LEMMA IdleFacts ==
  /\ Metrics!IdleFlush \in MetricFlushes
  /\ Metrics!IdleFlush.at = "idle" /\ Metrics!IdleFlush.todo = <<>>
  /\ Metrics!IdleFlush.ids = {} /\ Metrics!IdleFlush.accepted = {}
  /\ Metrics!IdleFlush.retry = <<>> /\ Metrics!IdleFlush.dropped = {}
  /\ Metrics!IdleManual \in ManualUploads
  /\ Metrics!IdleManual.at = "idle" /\ Metrics!IdleManual.batch = <<>>
  /\ Metrics!IdleManual.ids = {}
  BY DEF Metrics!IdleFlush, Metrics!IdleManual, MetricFlushes, ManualUploads

LEMMA MetricFault == MetricsHold /\ (Metrics!Fault \/ UNCHANGED faults) => faults' \in 0 .. MetricFaults
  BY UploadAssumption DEF MetricsHold, Metrics!TypeOK, Metrics!Fault

LEMMA SeqOfEvents ==
  ASSUME NEW s \in Seq(Events) PROVE Metrics!In(s) \subseteq Events
  BY DEF Metrics!In

LEMMA TickHolds == ASSUME MetricsHold, Metrics!Tick PROVE MetricsHold'
  <1>1. /\ buffer' = <<>> /\ flush.at = "idle"
        /\ UNCHANGED <<rows, held, connected, manual, made, uploaded>>
        /\ faults' \in 0 .. MetricFaults
    BY MetricFault DEF Metrics!Tick
  <1>2. /\ flush' \in MetricFlushes
        /\ flush'.ids = {} /\ flush'.accepted = {} /\ flush'.retry = <<>> /\ flush'.dropped = {}
        /\ \/ /\ flush'.at = "live" /\ flush'.todo = buffer /\ excused' = excused
           \/ /\ flush'.at = "read" /\ flush'.todo = <<>>
              /\ excused' = excused \cup Metrics!In(buffer)
    <2>1. PICK s \in Seq(Events) : s = buffer
      BY DEF MetricsHold, Metrics!TypeOK
    <2>2. CASE flush' = [Metrics!IdleFlush EXCEPT !.at = "live", !.todo = s] /\ excused' = excused
      BY <2>1, <2>2, IdleFacts DEF MetricFlushes
    <2>3. CASE /\ flush' = [Metrics!IdleFlush EXCEPT !.at = "live", !.todo = s, !.failed = TRUE]
               /\ excused' = excused
      BY <2>1, <2>3, IdleFacts DEF MetricFlushes
    <2>4. CASE /\ flush' = [Metrics!IdleFlush EXCEPT !.at = "read"]
               /\ excused' = excused \cup Metrics!In(s)
      BY <2>1, <2>4, IdleFacts DEF MetricFlushes
    <2> QED
      BY <2>1, <2>2, <2>3, <2>4 DEF Metrics!Tick
  <1>3. <<>> \in Seq(Events) /\ Metrics!In(<<>>) = {} /\ IsInjective(<<>>)
    BY EmptyFacts
  <1>4. Metrics!In(buffer) \subseteq Events
    BY SeqOfEvents DEF MetricsHold, Metrics!TypeOK
  <1>5. Metrics!TypeOK' /\ manual' \in ManualUploads
    BY <1>1, <1>2, <1>3, <1>4 DEF MetricsHold, Metrics!TypeOK, MetricFlushes, ManualUploads
  <1>6. OneRowInv'
    BY <1>1, <1>2, <1>3, <1>4 DEF MetricsHold, OneRowInv, Metrics!InMemory
  <1>7. IdsInv' /\ FateInv'
    BY <1>1, <1>2, <1>3, <1>4 DEF MetricsHold, IdsInv, FateInv
  <1>8. Metrics!MetricNotLost'
    BY <1>1, <1>2, <1>3, <1>4 DEF MetricsHold, Metrics!MetricNotLost, Metrics!InMemory
  <1> QED
    BY <1>2, <1>5, <1>6, <1>7, <1>8 DEF MetricsHold

\* Every event taken is in the envelope or after it.
LEMMA TodoSplits ==
  ASSUME MetricsHold, flush.todo # <<>>
  PROVE  /\ Metrics!Envelope(flush.todo) \in Seq(Events)
         /\ Metrics!AfterEnvelope(flush.todo) \in Seq(Events)
         /\ IsInjective(Metrics!Envelope(flush.todo))
         /\ IsInjective(Metrics!AfterEnvelope(flush.todo))
         /\ Metrics!In(flush.todo) = Metrics!In(Metrics!Envelope(flush.todo))
                                       \cup Metrics!In(Metrics!AfterEnvelope(flush.todo))
         /\ Metrics!In(Metrics!Envelope(flush.todo))
              \cap Metrics!In(Metrics!AfterEnvelope(flush.todo)) = {}
  BY EnvelopeFacts DEF MetricsHold, OneRowInv, MetricFlushes

LEMMA LiveAcceptedHolds == ASSUME MetricsHold, Metrics!LiveAccepted PROVE MetricsHold'
  <1>1. /\ flush.at = "live" /\ flush.todo # <<>>
        /\ uploaded' = uploaded \cup Metrics!In(Metrics!Envelope(flush.todo))
        /\ UNCHANGED <<buffer, rows, held, connected, manual, faults, made, excused>>
    BY DEF Metrics!LiveAccepted
  <1>2. /\ flush' \in MetricFlushes /\ flush'.todo = Metrics!AfterEnvelope(flush.todo)
        /\ flush'.at = "live" /\ flush'.ids = flush.ids /\ flush'.accepted = flush.accepted
        /\ flush'.retry = flush.retry /\ flush'.dropped = flush.dropped
    BY <1>1, TodoSplits DEF Metrics!LiveAccepted, MetricFlushes, MetricsHold
  <1>3. Metrics!In(Metrics!Envelope(flush.todo)) \subseteq Events
    BY <1>1, TodoSplits, SeqOfEvents
  <1>4. Metrics!TypeOK' /\ manual' \in ManualUploads
    BY <1>1, <1>2, <1>3, TodoSplits DEF MetricsHold, Metrics!TypeOK, MetricFlushes, ManualUploads
  <1>5. OneRowInv'
    BY <1>1, <1>2, <1>3, TodoSplits DEF MetricsHold, OneRowInv, Metrics!InMemory
  <1>6. IdsInv' /\ FateInv'
    BY <1>1, <1>2, <1>3, TodoSplits DEF MetricsHold, IdsInv, FateInv
  <1>7. Metrics!MetricNotLost'
    BY <1>1, <1>2, <1>3, TodoSplits DEF MetricsHold, Metrics!MetricNotLost, Metrics!InMemory
  <1> QED
    BY <1>2, <1>4, <1>5, <1>6, <1>7 DEF MetricsHold

LEMMA LiveStoredHolds == ASSUME MetricsHold, Metrics!LiveStored PROVE MetricsHold'
  <1> DEFINE envelope == Metrics!Envelope(flush.todo)
             chunk == Metrics!In(envelope)
  <1>1. /\ flush.at = "live" /\ flush.todo # <<>>
        /\ UNCHANGED <<buffer, held, connected, manual, made>>
        /\ faults' \in 0 .. MetricFaults
    BY MetricFault DEF Metrics!LiveStored
  <1>2. /\ flush' \in MetricFlushes /\ flush'.todo = Metrics!AfterEnvelope(flush.todo)
        /\ flush'.at = "live" /\ flush'.ids = flush.ids /\ flush'.accepted = flush.accepted
        /\ flush'.retry = flush.retry /\ flush'.dropped = flush.dropped
    BY <1>1, TodoSplits DEF Metrics!LiveStored, MetricFlushes, MetricsHold
  <1>3. /\ \/ rows' = rows \o envelope /\ excused' = excused
           \/ rows' = rows /\ excused' = excused \cup chunk
        /\ uploaded \subseteq uploaded' /\ uploaded' \subseteq uploaded \cup chunk
    BY DEF Metrics!LiveStored, Metrics!Good
  <1>4. chunk \subseteq Events
    BY <1>1, TodoSplits, SeqOfEvents
  <1>5. rows \in Seq(Events) /\ envelope \in Seq(Events) /\ IsInjective(rows)
        /\ IsInjective(envelope) /\ Metrics!In(rows) \cap chunk = {}
    BY <1>1, TodoSplits DEF MetricsHold, OneRowInv, Metrics!InMemory, Metrics!TypeOK
  <1> HIDE DEF envelope
  <1>6. /\ rows \o envelope \in Seq(Events) /\ IsInjective(rows \o envelope)
        /\ Metrics!In(rows \o envelope) = Metrics!In(rows) \cup chunk
    BY <1>5, ConcatFacts
  <1>7. /\ rows' \in Seq(Events) /\ IsInjective(rows')
        /\ \/ Metrics!In(rows') = Metrics!In(rows) \cup chunk /\ excused' = excused
           \/ Metrics!In(rows') = Metrics!In(rows) /\ excused' = excused \cup chunk
    BY <1>3, <1>5, <1>6
  <1>8. /\ Metrics!AfterEnvelope(flush.todo) \in Seq(Events)
        /\ IsInjective(Metrics!AfterEnvelope(flush.todo))
        /\ Metrics!In(flush.todo) = chunk \cup Metrics!In(Metrics!AfterEnvelope(flush.todo))
        /\ chunk \cap Metrics!In(Metrics!AfterEnvelope(flush.todo)) = {}
    BY <1>1, TodoSplits DEF envelope
  <1> HIDE DEF chunk
  <1>9. Metrics!TypeOK' /\ manual' \in ManualUploads
    BY <1>1, <1>2, <1>3, <1>4, <1>7, <1>8 DEF MetricsHold, Metrics!TypeOK, MetricFlushes, ManualUploads
  <1>10. OneRowInv'
    BY <1>1, <1>2, <1>3, <1>4, <1>7, <1>8 DEF MetricsHold, OneRowInv, Metrics!InMemory
  <1>11. IdsInv' /\ FateInv'
    BY <1>1, <1>2, <1>3, <1>4, <1>7, <1>8 DEF MetricsHold, IdsInv, FateInv
  <1>12. Metrics!MetricNotLost'
    BY <1>1, <1>2, <1>3, <1>4, <1>7, <1>8 DEF MetricsHold, Metrics!MetricNotLost, Metrics!InMemory
  <1> QED
    BY <1>2, <1>9, <1>10, <1>11, <1>12 DEF MetricsHold

LEMMA LiveDoneHolds == ASSUME MetricsHold, Metrics!LiveDone PROVE MetricsHold'
  <1>1. /\ flush.at = "live" /\ flush.todo = <<>>
        /\ UNCHANGED <<buffer, rows, held, connected, manual, made, uploaded, excused>>
        /\ faults' \in 0 .. MetricFaults
    BY MetricFault DEF Metrics!LiveDone, Metrics!history
  <1>2. /\ flush' \in MetricFlushes /\ flush'.todo = <<>>
        /\ flush'.at \in {"idle", "read"} /\ flush'.ids = {} /\ flush'.accepted = {}
        /\ flush'.retry = <<>> /\ flush'.dropped = {}
    BY IdleFacts DEF Metrics!LiveDone, MetricFlushes
  <1>3. <<>> \in Seq(Events) /\ Metrics!In(<<>>) = {} /\ IsInjective(<<>>)
    BY EmptyFacts
  <1>4. Metrics!TypeOK' /\ manual' \in ManualUploads
    BY <1>1, <1>2, <1>3 DEF MetricsHold, Metrics!TypeOK, MetricFlushes, ManualUploads
  <1>5. OneRowInv'
    BY <1>1, <1>2, <1>3 DEF MetricsHold, OneRowInv, Metrics!InMemory
  <1>6. IdsInv' /\ FateInv'
    BY <1>1, <1>2, <1>3 DEF MetricsHold, IdsInv, FateInv
  <1>7. Metrics!MetricNotLost'
    BY <1>1, <1>2, <1>3 DEF MetricsHold, Metrics!MetricNotLost, Metrics!InMemory
  <1> QED
    BY <1>2, <1>4, <1>5, <1>6, <1>7 DEF MetricsHold

LEMMA ReadHolds == ASSUME MetricsHold, Metrics!Read PROVE MetricsHold'
  <1> DEFINE batch == Metrics!Batch(rows)
  <1>1. /\ flush.at = "read"
        /\ UNCHANGED <<buffer, rows, held, connected, manual, faults, made, uploaded, excused>>
    BY DEF Metrics!Read, Metrics!history
  <1>2. /\ batch \in Seq(Events) /\ Metrics!In(batch) \subseteq Metrics!In(rows)
        /\ IsInjective(batch)
    BY BatchFacts DEF MetricsHold, OneRowInv, Metrics!TypeOK
  <1>3. Metrics!In(batch) \subseteq Events
    BY <1>2, SeqOfEvents
  <1>4. PICK s \in Seq(Events), S \in SUBSET Events : s = batch /\ S = Metrics!In(batch)
    BY <1>2, <1>3
  <1>5. /\ flush' \in MetricFlushes
        /\ flush'.accepted = {} /\ flush'.retry = <<>> /\ flush'.dropped = {}
        /\ \/ flush'.at = "send" /\ flush'.todo = s /\ flush'.ids = S
           \/ flush'.at = "idle" /\ flush'.todo = <<>> /\ flush'.ids = {}
    <2>1. CASE flush' = Metrics!IdleFlush
      BY <2>1, IdleFacts
    <2>2. CASE flush' = [Metrics!IdleFlush EXCEPT !.at = "send", !.todo = s, !.ids = S]
      BY <2>2, IdleFacts DEF MetricFlushes
    <2> QED
      BY <2>1, <2>2, <1>4 DEF Metrics!Read
  <1>6. <<>> \in Seq(Events) /\ Metrics!In(<<>>) = {} /\ IsInjective(<<>>)
    BY EmptyFacts
  <1> HIDE DEF batch
  <1>7. Metrics!TypeOK' /\ manual' \in ManualUploads
    BY <1>1, <1>2, <1>4, <1>5, <1>6 DEF MetricsHold, Metrics!TypeOK, MetricFlushes, ManualUploads
  <1>8. OneRowInv'
    BY <1>1, <1>2, <1>4, <1>5, <1>6 DEF MetricsHold, OneRowInv, Metrics!InMemory
  <1>9. IdsInv' /\ FateInv'
    BY <1>1, <1>2, <1>4, <1>5, <1>6 DEF MetricsHold, IdsInv, FateInv
  <1>10. Metrics!MetricNotLost'
    BY <1>1, <1>2, <1>4, <1>5, <1>6 DEF MetricsHold, Metrics!MetricNotLost, Metrics!InMemory
  <1> QED
    BY <1>5, <1>7, <1>8, <1>9, <1>10 DEF MetricsHold

\* What is left of a list of events.
LEMMA EventsWithout ==
  ASSUME NEW s \in Seq(Events), NEW S
  PROVE  /\ Metrics!Without(s, S) \in Seq(Events)
         /\ Metrics!In(Metrics!Without(s, S)) = Metrics!In(s) \ S
         /\ IsInjective(s) => IsInjective(Metrics!Without(s, S))
  BY WithoutFacts

\* What is to be tried again was in the envelope, so it is not listed twice.
LEMMA SendEnvelopeHolds == ASSUME MetricsHold, Metrics!SendEnvelope PROVE MetricsHold'
  <1> DEFINE envelope == Metrics!Envelope(flush.todo)
             S == Metrics!In(envelope)
             large == S \cap Huge
             kept == Metrics!Without(envelope, Events \ Bad)
             again == IF large = {} THEN kept ELSE <<>>
  <1>1. /\ flush.at = "send" /\ flush.todo # <<>>
        /\ UNCHANGED <<buffer, rows, held, connected, manual, made, excused>>
        /\ faults' \in 0 .. MetricFaults
    BY MetricFault DEF Metrics!SendEnvelope
  <1>2. /\ envelope \in Seq(Events) /\ S \subseteq Events /\ IsInjective(envelope)
        /\ Metrics!AfterEnvelope(flush.todo) \in Seq(Events)
        /\ IsInjective(Metrics!AfterEnvelope(flush.todo))
        /\ Metrics!In(flush.todo) = S \cup Metrics!In(Metrics!AfterEnvelope(flush.todo))
        /\ S \cap Metrics!In(Metrics!AfterEnvelope(flush.todo)) = {}
    BY <1>1, TodoSplits, SeqOfEvents
  <1>3. again \in Seq(Events) /\ Metrics!In(again) \subseteq S /\ IsInjective(again)
    <2> HIDE DEF envelope
    <2>1. kept \in Seq(Events) /\ Metrics!In(kept) \subseteq S /\ IsInjective(kept)
      BY <1>2, EventsWithout
    <2>2. <<>> \in Seq(Events) /\ Metrics!In(<<>>) = {} /\ IsInjective(<<>>)
      BY EmptyFacts
    <2> HIDE DEF kept
    <2> QED BY <2>1, <2>2
  <1>4. /\ flush.retry \in Seq(Events) /\ IsInjective(flush.retry)
        /\ Metrics!In(flush.retry) \cap Metrics!In(flush.todo) = {}
    BY DEF MetricsHold, OneRowInv, MetricFlushes
  <1>5. /\ flush.retry \o again \in Seq(Events) /\ IsInjective(flush.retry \o again)
        /\ Metrics!In(flush.retry \o again) \subseteq Metrics!In(flush.retry) \cup S
    <2> HIDE DEF again, S
    <2> QED BY <1>2, <1>3, <1>4, ConcatFacts
  <1> DEFINE taken == IF large = {} THEN Metrics!Good(S) ELSE {}
             hopeless == large \cup (S \cap Invalid)
  <1>6. taken \in SUBSET Events /\ hopeless \in SUBSET Events /\ hopeless \subseteq Invalid \cup Huge
    BY <1>2 DEF Metrics!Good
  <1>7. /\ flush' \in MetricFlushes /\ flush'.todo = Metrics!AfterEnvelope(flush.todo)
        /\ flush'.at = "send" /\ flush'.ids = flush.ids
        /\ uploaded \subseteq uploaded' /\ uploaded' \subseteq uploaded \cup S
        /\ \/ /\ flush'.accepted = flush.accepted /\ flush'.retry = flush.retry
              /\ flush'.dropped = flush.dropped
           \/ /\ flush'.accepted = flush.accepted \cup taken /\ flush'.retry = flush.retry \o again
              /\ flush'.dropped = flush.dropped \cup hopeless
              /\ taken \subseteq uploaded'
    <2>1. PICK r \in Seq(Events), d \in Seq(Events), a \in SUBSET Events, h \in SUBSET Events :
            /\ r = flush.retry \o again /\ d = Metrics!AfterEnvelope(flush.todo)
            /\ a = flush.accepted \cup taken /\ h = flush.dropped \cup hopeless
      <3>1. flush.accepted \cup taken \in SUBSET Events /\ flush.dropped \cup hopeless \in SUBSET Events
        BY <1>6 DEF MetricsHold, MetricFlushes
      <3> HIDE DEF again, taken, hopeless
      <3> QED BY <3>1, <1>2, <1>5
    <2>2. \/ /\ flush' = [flush EXCEPT !.todo = d, !.accepted = a, !.retry = r, !.dropped = h]
             /\ uploaded' = uploaded \cup taken
          \/ /\ flush' = [flush EXCEPT !.todo = d]
             /\ uploaded' \in {uploaded, uploaded \cup Metrics!Good(S)}
      BY <2>1 DEF Metrics!SendEnvelope
    <2>3. taken \subseteq S /\ Metrics!Good(S) \subseteq S
      BY DEF Metrics!Good
    <2> HIDE DEF again, taken, hopeless, S
    <2>4. flush \in MetricFlushes
      BY DEF MetricsHold
    <2>5. CASE /\ flush' = [flush EXCEPT !.todo = d, !.accepted = a, !.retry = r, !.dropped = h]
               /\ uploaded' = uploaded \cup taken
      BY <1>1, <2>1, <2>3, <2>4, <2>5 DEF MetricFlushes
    <2>6. CASE /\ flush' = [flush EXCEPT !.todo = d]
               /\ uploaded' \in {uploaded, uploaded \cup Metrics!Good(S)}
      BY <1>1, <2>1, <2>3, <2>4, <2>6 DEF MetricFlushes
    <2> QED BY <2>2, <2>5, <2>6
  <1> HIDE DEF again, taken, hopeless, S
  <1>8. Metrics!TypeOK' /\ manual' \in ManualUploads
    BY <1>1, <1>2, <1>3, <1>4, <1>5, <1>6, <1>7 DEF MetricsHold, Metrics!TypeOK, MetricFlushes, ManualUploads
  <1>9. OneRowInv'
    BY <1>1, <1>2, <1>3, <1>4, <1>5, <1>6, <1>7 DEF MetricsHold, OneRowInv, Metrics!InMemory
  <1>10. IdsInv' /\ FateInv'
    BY <1>1, <1>2, <1>3, <1>4, <1>5, <1>6, <1>7 DEF MetricsHold, IdsInv, FateInv
  <1>11. Metrics!MetricNotLost'
    BY <1>1, <1>2, <1>3, <1>4, <1>5, <1>6, <1>7 DEF MetricsHold, Metrics!MetricNotLost, Metrics!InMemory
  <1> QED
    BY <1>7, <1>8, <1>9, <1>10, <1>11 DEF MetricsHold

\* Rows moved to the end were in the table: what is held by now stays held.
LEMMA FinishUploadHolds == ASSUME MetricsHold, Metrics!FinishUpload PROVE MetricsHold'
  <1> DEFINE retry == Metrics!Without(flush.retry, Events \ flush.ids)
             done == (flush.accepted \cup Metrics!In(flush.retry)) \cap flush.ids
             left == Metrics!Without(rows, done)
  <1>1. /\ flush.at = "send" /\ flush.todo = <<>>
        /\ UNCHANGED <<buffer, held, connected, made, uploaded, excused>>
        /\ faults' \in 0 .. MetricFaults
    BY MetricFault DEF Metrics!FinishUpload, Metrics!history
  <1>2. /\ flush.retry \in Seq(Events) /\ Metrics!In(flush.retry) \subseteq Events
        /\ IsInjective(flush.retry) /\ rows \in Seq(Events) /\ IsInjective(rows)
        /\ flush.ids \subseteq Metrics!In(rows)
    BY SeqOfEvents DEF MetricsHold, OneRowInv, IdsInv, MetricFlushes, Metrics!TypeOK
  <1>3. /\ retry \in Seq(Events) /\ IsInjective(retry)
        /\ Metrics!In(retry) = Metrics!In(flush.retry) \cap flush.ids
    BY <1>2, EventsWithout
  <1>4. left \in Seq(Events) /\ IsInjective(left) /\ Metrics!In(left) = Metrics!In(rows) \ done
    BY <1>2, EventsWithout
  <1>5. Metrics!In(left) \cap Metrics!In(retry) = {}
    BY <1>3, <1>4
  <1>6. /\ left \o retry \in Seq(Events) /\ IsInjective(left \o retry)
        /\ Metrics!In(left \o retry) = Metrics!In(left) \cup Metrics!In(retry)
    <2> HIDE DEF left, retry
    <2> QED BY <1>3, <1>4, <1>5, ConcatFacts
  <1>7. \/ /\ rows' = left \o retry
           /\ flush' = [flush EXCEPT !.at = "drop", !.ids = @ \ done]
           /\ manual' = [manual EXCEPT !.ids = @ \ done]
        \/ flush' = Metrics!IdleFlush /\ UNCHANGED <<rows, manual>>
    BY DEF Metrics!FinishUpload
  <1> HIDE DEF left, retry
  <1>8. /\ flush' \in MetricFlushes /\ manual' \in ManualUploads
        /\ manual'.at = manual.at /\ manual'.batch = manual.batch
        /\ rows' \in Seq(Events) /\ IsInjective(rows')
        /\ \/ /\ Metrics!In(rows') = (Metrics!In(rows) \ done) \cup (Metrics!In(flush.retry) \cap flush.ids)
              /\ manual'.ids = manual.ids \ done
              /\ flush'.at = "drop" /\ flush'.todo = <<>>
              /\ flush'.ids = flush.ids \ done /\ flush'.accepted = flush.accepted
              /\ flush'.retry = flush.retry /\ flush'.dropped = flush.dropped
           \/ /\ rows' = rows /\ manual' = manual
              /\ flush'.at = "idle" /\ flush'.todo = <<>> /\ flush'.ids = {}
              /\ flush'.accepted = {} /\ flush'.retry = <<>> /\ flush'.dropped = {}
    <2>1. flush \in MetricFlushes /\ manual \in ManualUploads
      BY DEF MetricsHold
    <2>2. CASE flush' = Metrics!IdleFlush /\ UNCHANGED <<rows, manual>>
      BY <2>1, <2>2, <1>2, IdleFacts
    <2>3. CASE /\ rows' = left \o retry
               /\ flush' = [flush EXCEPT !.at = "drop", !.ids = @ \ done]
               /\ manual' = [manual EXCEPT !.ids = @ \ done]
      <3>1. Metrics!In(rows') = (Metrics!In(rows) \ done) \cup (Metrics!In(flush.retry) \cap flush.ids)
        BY <2>3, <1>3, <1>4, <1>6
      <3> HIDE DEF done
      <3>2. manual' \in ManualUploads /\ manual'.at = manual.at /\ manual'.batch = manual.batch
            /\ manual'.ids = manual.ids \ done
        BY <2>1, <2>3 DEF ManualUploads
      <3>3. /\ flush' \in MetricFlushes /\ flush'.at = "drop" /\ flush'.todo = <<>>
            /\ flush'.ids = flush.ids \ done /\ flush'.accepted = flush.accepted
            /\ flush'.retry = flush.retry /\ flush'.dropped = flush.dropped
        BY <1>1, <2>1, <2>3 DEF MetricFlushes
      <3> QED BY <2>3, <3>1, <3>2, <3>3, <1>6
    <2> QED BY <1>7, <2>2, <2>3
  <1>9. <<>> \in Seq(Events) /\ Metrics!In(<<>>) = {} /\ IsInjective(<<>>)
    BY EmptyFacts
  <1>10. Metrics!TypeOK' /\ manual' \in ManualUploads
    BY <1>1, <1>2, <1>8, <1>9 DEF MetricsHold, Metrics!TypeOK, MetricFlushes, ManualUploads
  <1>11. OneRowInv'
    BY <1>1, <1>2, <1>8, <1>9 DEF MetricsHold, OneRowInv, Metrics!InMemory
  <1>12. IdsInv' /\ FateInv'
    BY <1>1, <1>2, <1>8, <1>9 DEF MetricsHold, IdsInv, FateInv
  <1>13. Metrics!MetricNotLost'
    BY <1>1, <1>2, <1>8, <1>9 DEF MetricsHold, Metrics!MetricNotLost, Metrics!InMemory, FateInv
  <1> QED
    BY <1>8, <1>10, <1>11, <1>12, <1>13 DEF MetricsHold

LEMMA DropHopelessHolds == ASSUME MetricsHold, Metrics!DropHopeless PROVE MetricsHold'
  <1> DEFINE gone == flush.dropped \cap flush.ids
  <1>1. /\ flush.at = "drop"
        /\ rows' = Metrics!Without(rows, gone) /\ flush' = Metrics!IdleFlush
        /\ UNCHANGED <<buffer, held, connected, faults, made, uploaded, excused>>
    BY DEF Metrics!DropHopeless, Metrics!history
  <1>2. /\ rows' \in Seq(Events) /\ IsInjective(rows')
        /\ Metrics!In(rows') = Metrics!In(rows) \ gone
    BY <1>1, EventsWithout DEF MetricsHold, OneRowInv, Metrics!TypeOK
  <1>3. gone \subseteq Invalid \cup Huge
    BY DEF MetricsHold, FateInv
  <1>4. manual' \in ManualUploads /\ manual'.at = manual.at /\ manual'.batch = manual.batch
        /\ manual'.ids = manual.ids \ gone
    BY DEF Metrics!DropHopeless, ManualUploads, MetricsHold
  <1>5. <<>> \in Seq(Events) /\ Metrics!In(<<>>) = {} /\ IsInjective(<<>>)
    BY EmptyFacts
  <1> HIDE DEF gone
  <1>6. Metrics!TypeOK' /\ manual' \in ManualUploads
    BY <1>1, <1>2, <1>3, <1>4, <1>5, IdleFacts DEF MetricsHold, Metrics!TypeOK, MetricFlushes, ManualUploads
  <1>7. OneRowInv'
    BY <1>1, <1>2, <1>3, <1>4, <1>5, IdleFacts DEF MetricsHold, OneRowInv, Metrics!InMemory
  <1>8. IdsInv' /\ FateInv'
    BY <1>1, <1>2, <1>3, <1>4, <1>5, IdleFacts DEF MetricsHold, IdsInv, FateInv
  <1>9. Metrics!MetricNotLost'
    BY <1>1, <1>2, <1>3, <1>4, <1>5, IdleFacts DEF MetricsHold, Metrics!MetricNotLost, Metrics!InMemory
  <1> QED
    BY <1>1, IdleFacts, <1>6, <1>7, <1>8, <1>9 DEF MetricsHold

LEMMA ManualReadHolds == ASSUME MetricsHold, Metrics!ManualRead PROVE MetricsHold'
  <1> DEFINE batch == Metrics!Batch(rows)
  <1>1. UNCHANGED <<buffer, rows, held, connected, flush, faults, made, uploaded, excused>>
    BY DEF Metrics!ManualRead, Metrics!history
  <1>2. batch \in Seq(Events) /\ Metrics!In(batch) \subseteq Metrics!In(rows)
    BY BatchFacts DEF MetricsHold, Metrics!TypeOK
  <1>3. Metrics!In(batch) \subseteq Events
    BY <1>2, SeqOfEvents
  <1>4. /\ manual' \in ManualUploads /\ manual'.at = "send" /\ manual'.batch = batch
        /\ manual'.ids = Metrics!In(batch)
    <2> HIDE DEF batch
    <2>1. manual' = [at |-> "send", batch |-> batch, ids |-> Metrics!In(batch)]
      BY DEF Metrics!ManualRead, batch
    <2> QED BY <2>1, <1>2, <1>3 DEF ManualUploads
  <1> HIDE DEF batch
  <1>5. Metrics!TypeOK' /\ manual' \in ManualUploads
    BY <1>1, <1>2, <1>4 DEF MetricsHold, Metrics!TypeOK, MetricFlushes, ManualUploads
  <1>6. OneRowInv'
    BY <1>1, <1>2, <1>4 DEF MetricsHold, OneRowInv, Metrics!InMemory
  <1>7. IdsInv' /\ FateInv'
    BY <1>1, <1>2, <1>4 DEF MetricsHold, IdsInv, FateInv
  <1>8. Metrics!MetricNotLost'
    BY <1>1, <1>2, <1>4 DEF MetricsHold, Metrics!MetricNotLost, Metrics!InMemory
  <1> QED
    BY <1>1, <1>5, <1>6, <1>7, <1>8 DEF MetricsHold

LEMMA ManualSendHolds == ASSUME MetricsHold, Metrics!ManualSend PROVE MetricsHold'
  <1> DEFINE S == Metrics!In(manual.batch)
  <1>1. /\ UNCHANGED <<buffer, rows, held, connected, flush, made, excused>>
        /\ manual.at = "send" /\ faults' \in 0 .. MetricFaults
    BY MetricFault DEF Metrics!ManualSend
  <1>2. S \subseteq Events
    BY SeqOfEvents DEF MetricsHold, ManualUploads
  <1>3. /\ manual' \in ManualUploads
        /\ uploaded \subseteq uploaded' /\ uploaded' \subseteq uploaded \cup S
        /\ \/ /\ manual'.at = "delete" /\ manual'.batch = manual.batch
              /\ manual'.ids = manual.ids /\ S \subseteq uploaded'
           \/ manual'.at = "idle" /\ manual'.batch = <<>> /\ manual'.ids = {}
    <2>1. Metrics!Good(S) \subseteq S
      BY DEF Metrics!Good
    <2>2. CASE manual' = [manual EXCEPT !.at = "delete"] /\ uploaded' = uploaded \cup S
      BY <2>2 DEF MetricsHold, ManualUploads
    <2>3. CASE /\ manual' = Metrics!IdleManual
               /\ uploaded \subseteq uploaded' /\ uploaded' \subseteq uploaded \cup Metrics!Good(S)
      BY <2>1, <2>3, IdleFacts
    <2> QED
      BY <2>1, <2>2, <2>3 DEF Metrics!ManualSend
  <1>4. <<>> \in Seq(Events) /\ Metrics!In(<<>>) = {}
    BY EmptyFacts
  <1>5. Metrics!TypeOK' /\ manual' \in ManualUploads
    BY <1>1, <1>2, <1>3, <1>4 DEF MetricsHold, Metrics!TypeOK, MetricFlushes, ManualUploads
  <1>6. OneRowInv'
    BY <1>1, <1>2, <1>3, <1>4 DEF MetricsHold, OneRowInv, Metrics!InMemory
  <1>7. IdsInv' /\ FateInv'
    BY <1>1, <1>2, <1>3, <1>4 DEF MetricsHold, IdsInv, FateInv
  <1>8. Metrics!MetricNotLost'
    BY <1>1, <1>2, <1>3, <1>4 DEF MetricsHold, Metrics!MetricNotLost, Metrics!InMemory
  <1> QED
    BY <1>1, <1>5, <1>6, <1>7, <1>8 DEF MetricsHold

LEMMA ManualDeleteHolds == ASSUME MetricsHold, Metrics!ManualDelete PROVE MetricsHold'
  <1>1. /\ manual.at = "delete"
        /\ rows' = Metrics!Without(rows, manual.ids) /\ manual' = Metrics!IdleManual
        /\ UNCHANGED <<buffer, held, connected, faults, made, uploaded, excused>>
    BY DEF Metrics!ManualDelete, Metrics!history
  <1>2. /\ rows' \in Seq(Events) /\ IsInjective(rows')
        /\ Metrics!In(rows') = Metrics!In(rows) \ manual.ids
    BY <1>1, EventsWithout DEF MetricsHold, OneRowInv, Metrics!TypeOK
  <1>3. manual.ids \subseteq uploaded
    BY <1>1 DEF MetricsHold, IdsInv, FateInv
  <1>4. /\ flush' \in MetricFlushes /\ flush'.at = flush.at /\ flush'.todo = flush.todo
        /\ flush'.ids = flush.ids \ manual.ids /\ flush'.accepted = flush.accepted
        /\ flush'.retry = flush.retry /\ flush'.dropped = flush.dropped
    BY DEF Metrics!ManualDelete, MetricFlushes, MetricsHold
  <1>5. <<>> \in Seq(Events) /\ Metrics!In(<<>>) = {}
    BY EmptyFacts
  <1>6. Metrics!TypeOK' /\ manual' \in ManualUploads
    BY <1>1, <1>2, <1>3, <1>4, <1>5, IdleFacts DEF MetricsHold, Metrics!TypeOK, MetricFlushes, ManualUploads
  <1>7. OneRowInv'
    BY <1>1, <1>2, <1>3, <1>4, <1>5, IdleFacts DEF MetricsHold, OneRowInv, Metrics!InMemory
  <1>8. IdsInv' /\ FateInv'
    BY <1>1, <1>2, <1>3, <1>4, <1>5, IdleFacts DEF MetricsHold, IdsInv, FateInv
  <1>9. Metrics!MetricNotLost'
    BY <1>1, <1>2, <1>3, <1>4, <1>5, IdleFacts DEF MetricsHold, Metrics!MetricNotLost, Metrics!InMemory
  <1> QED
    BY <1>4, <1>6, <1>7, <1>8, <1>9 DEF MetricsHold

\* Rows that are gone are forgotten by both processes.
LEMMA Forgotten ==
  ASSUME MetricsHold, NEW S, Metrics!Forget(S)
  PROVE  /\ flush' \in MetricFlushes /\ flush'.at = flush.at /\ flush'.todo = flush.todo
         /\ flush'.ids = flush.ids \ S /\ flush'.accepted = flush.accepted
         /\ flush'.retry = flush.retry /\ flush'.dropped = flush.dropped
         /\ manual' \in ManualUploads /\ manual'.at = manual.at
         /\ manual'.batch = manual.batch /\ manual'.ids = manual.ids \ S
  <1>1. /\ flush' \in MetricFlushes /\ flush'.at = flush.at /\ flush'.todo = flush.todo
        /\ flush'.ids = flush.ids \ S /\ flush'.accepted = flush.accepted
        /\ flush'.retry = flush.retry /\ flush'.dropped = flush.dropped
    BY DEF MetricsHold, MetricFlushes, Metrics!Forget
  <1>2. /\ manual' \in ManualUploads /\ manual'.at = manual.at
        /\ manual'.batch = manual.batch /\ manual'.ids = manual.ids \ S
    BY DEF MetricsHold, ManualUploads, Metrics!Forget
  <1> QED BY <1>1, <1>2

LEMMA HeldHolds == ASSUME MetricsHold, NEW S, Metrics!Hold(S) PROVE MetricsHold'
  <1> DEFINE moved == Metrics!Without(rows, Events \ S)
  <1>1. /\ rows' = Metrics!Without(rows, S) /\ held' = held \o moved /\ Metrics!Forget(S)
        /\ UNCHANGED <<buffer, connected, faults, made, uploaded, excused>>
    BY DEF Metrics!Hold, Metrics!history
  <1>2. /\ rows \in Seq(Events) /\ held \in Seq(Events) /\ Metrics!In(rows) \subseteq Events
        /\ IsInjective(rows) /\ IsInjective(held) /\ Metrics!In(rows) \cap Metrics!In(held) = {}
    BY SeqOfEvents DEF MetricsHold, OneRowInv, Metrics!TypeOK
  <1>3. /\ rows' \in Seq(Events) /\ IsInjective(rows')
        /\ Metrics!In(rows') = Metrics!In(rows) \ S
    BY <1>1, <1>2, EventsWithout
  <1>4. moved \in Seq(Events) /\ IsInjective(moved) /\ Metrics!In(moved) = Metrics!In(rows) \cap S
    BY <1>2, EventsWithout
  <1> HIDE DEF moved
  <1>5. /\ held' \in Seq(Events) /\ IsInjective(held')
        /\ Metrics!In(held') = Metrics!In(held) \cup (Metrics!In(rows) \cap S)
    BY <1>1, <1>2, <1>4, ConcatFacts
  <1>6. Metrics!TypeOK' /\ manual' \in ManualUploads
    BY <1>1, <1>2, <1>3, <1>5, Forgotten DEF MetricsHold, Metrics!TypeOK, MetricFlushes, ManualUploads
  <1>7. OneRowInv'
    BY <1>1, <1>2, <1>3, <1>5, Forgotten DEF MetricsHold, OneRowInv, Metrics!InMemory
  <1>8. IdsInv' /\ FateInv'
    BY <1>1, <1>2, <1>3, <1>5, Forgotten DEF MetricsHold, IdsInv, FateInv
  <1>9. Metrics!MetricNotLost'
    BY <1>1, <1>2, <1>3, <1>5, Forgotten DEF MetricsHold, Metrics!MetricNotLost, Metrics!InMemory
  <1> QED
    BY <1>1, Forgotten, <1>6, <1>7, <1>8, <1>9 DEF MetricsHold

LEMMA ReleaseHolds == ASSUME MetricsHold, Metrics!Release PROVE MetricsHold'
  <1>1. /\ rows' = rows \o held /\ held' = <<>>
        /\ UNCHANGED <<buffer, connected, flush, manual, faults, made, uploaded, excused>>
    BY DEF Metrics!Release, Metrics!history
  <1>2. /\ rows' \in Seq(Events) /\ IsInjective(rows')
        /\ Metrics!In(rows') = Metrics!In(rows) \cup Metrics!In(held)
    BY <1>1, ConcatFacts DEF MetricsHold, OneRowInv, Metrics!TypeOK
  <1>3. <<>> \in Seq(Events) /\ Metrics!In(<<>>) = {} /\ IsInjective(<<>>)
    BY EmptyFacts
  <1>4. Metrics!TypeOK' /\ manual' \in ManualUploads
    BY <1>1, <1>2, <1>3 DEF MetricsHold, Metrics!TypeOK, MetricFlushes, ManualUploads
  <1>5. OneRowInv'
    BY <1>1, <1>2, <1>3 DEF MetricsHold, OneRowInv, Metrics!InMemory
  <1>6. IdsInv' /\ FateInv'
    BY <1>1, <1>2, <1>3 DEF MetricsHold, IdsInv, FateInv
  <1>7. Metrics!MetricNotLost'
    BY <1>1, <1>2, <1>3 DEF MetricsHold, Metrics!MetricNotLost, Metrics!InMemory
  <1> QED
    BY <1>1, <1>4, <1>5, <1>6, <1>7 DEF MetricsHold

LEMMA PurgeHolds == ASSUME MetricsHold, Metrics!Purge PROVE MetricsHold'
  <1>1. /\ rows' = <<>> /\ held' = <<>> /\ Metrics!Forget(Metrics!In(rows))
        /\ excused' = excused \cup Metrics!In(rows) \cup Metrics!In(held)
        /\ UNCHANGED <<buffer, connected, faults, made, uploaded>>
    BY DEF Metrics!Purge
  <1>2. Metrics!In(rows) \subseteq Events /\ Metrics!In(held) \subseteq Events
    BY SeqOfEvents DEF MetricsHold, Metrics!TypeOK
  <1>3. <<>> \in Seq(Events) /\ Metrics!In(<<>>) = {} /\ IsInjective(<<>>)
    BY EmptyFacts
  <1>4. Metrics!TypeOK' /\ manual' \in ManualUploads
    BY <1>1, <1>2, <1>3, Forgotten DEF MetricsHold, Metrics!TypeOK, MetricFlushes, ManualUploads
  <1>5. OneRowInv'
    BY <1>1, <1>2, <1>3, Forgotten DEF MetricsHold, OneRowInv, Metrics!InMemory
  <1>6. IdsInv' /\ FateInv'
    BY <1>1, <1>2, <1>3, Forgotten DEF MetricsHold, IdsInv, FateInv
  <1>7. Metrics!MetricNotLost'
    BY <1>1, <1>2, <1>3, Forgotten DEF MetricsHold, Metrics!MetricNotLost, Metrics!InMemory
  <1> QED
    BY <1>1, Forgotten, <1>4, <1>5, <1>6, <1>7 DEF MetricsHold

LEMMA SwitchModeHolds == ASSUME MetricsHold, Metrics!SwitchMode PROVE MetricsHold'
  <1>1. /\ connected' = ~connected /\ faults' \in 0 .. MetricFaults
        /\ UNCHANGED <<buffer, rows, held, flush, manual, made, uploaded, excused>>
    BY MetricFault DEF Metrics!SwitchMode, Metrics!history
  <1>2. connected' \in BOOLEAN
    BY <1>1 DEF MetricsHold, Metrics!TypeOK
  <1>3. Metrics!TypeOK' /\ manual' \in ManualUploads
    BY <1>1, <1>2 DEF MetricsHold, Metrics!TypeOK, MetricFlushes, ManualUploads
  <1>4. OneRowInv'
    BY <1>1, <1>2 DEF MetricsHold, OneRowInv, Metrics!InMemory
  <1>5. IdsInv' /\ FateInv'
    BY <1>1, <1>2 DEF MetricsHold, IdsInv, FateInv
  <1>6. Metrics!MetricNotLost'
    BY <1>1, <1>2 DEF MetricsHold, Metrics!MetricNotLost, Metrics!InMemory
  <1> QED
    BY <1>1, <1>3, <1>4, <1>5, <1>6 DEF MetricsHold

LEMMA CrashHolds == ASSUME MetricsHold, Metrics!Crash PROVE MetricsHold'
  <1>1. /\ buffer' = <<>> /\ flush' = Metrics!IdleFlush /\ faults' \in 0 .. MetricFaults
        /\ excused' = excused \cup Metrics!InMemory
        /\ UNCHANGED <<rows, held, connected, manual, made, uploaded>>
    BY MetricFault DEF Metrics!Crash, Metrics!InMemory
  <1>2. Metrics!InMemory \subseteq Events
    BY SeqOfEvents DEF MetricsHold, Metrics!InMemory, Metrics!TypeOK
  <1>3. <<>> \in Seq(Events) /\ Metrics!In(<<>>) = {} /\ IsInjective(<<>>)
    BY EmptyFacts
  <1>4. Metrics!TypeOK' /\ manual' \in ManualUploads
    BY <1>1, <1>2, <1>3, IdleFacts DEF MetricsHold, Metrics!TypeOK, MetricFlushes, ManualUploads
  <1>5. OneRowInv'
    BY <1>1, <1>2, <1>3, IdleFacts DEF MetricsHold, OneRowInv, Metrics!InMemory
  <1>6. IdsInv' /\ FateInv'
    BY <1>1, <1>2, <1>3, IdleFacts DEF MetricsHold, IdsInv, FateInv
  <1>7. Metrics!MetricNotLost'
    BY <1>1, <1>2, <1>3, IdleFacts DEF MetricsHold, Metrics!MetricNotLost, Metrics!InMemory
  <1> QED
    BY <1>1, IdleFacts, <1>4, <1>5, <1>6, <1>7 DEF MetricsHold

LEMMA MetricsNext == MetricsHold /\ [Metrics!Next]_(Metrics!vars) => MetricsHold'
  <1> SUFFICES ASSUME MetricsHold, [Metrics!Next]_(Metrics!vars) PROVE MetricsHold'
    OBVIOUS
  <1>1. CASE UNCHANGED Metrics!vars
    <2>1. UNCHANGED <<buffer, rows, held, connected, flush, manual, faults, made, uploaded, excused>>
      BY <1>1 DEF Metrics!vars, Metrics!history
    <2> QED
      BY <2>1 DEF MetricsHold, Metrics!TypeOK, OneRowInv, IdsInv, FateInv, Metrics!MetricNotLost,
        Metrics!InMemory
  <1>2. CASE Metrics!Next
    BY <1>2, IngestHolds, TickHolds, LiveAcceptedHolds, LiveStoredHolds, LiveDoneHolds, ReadHolds,
      SendEnvelopeHolds, FinishUploadHolds, DropHopelessHolds, ManualReadHolds, ManualSendHolds,
      ManualDeleteHolds, HeldHolds, ReleaseHolds, PurgeHolds, SwitchModeHolds, CrashHolds
    DEF Metrics!Next, Metrics!Flush, Metrics!Manual
  <1> QED BY <1>1, <1>2

LEMMA MetricsHoldIsKept == MetricsHold => Metrics!TypeOK /\ Metrics!MetricNotLost /\ Metrics!OneRowPerEvent
  <1> SUFFICES ASSUME MetricsHold PROVE Metrics!OneRowPerEvent
    BY DEF MetricsHold
  <1>1. rows \in Seq(Events) /\ held \in Seq(Events)
    BY DEF MetricsHold, Metrics!TypeOK
  <1>2. IsInjective(rows \o held) /\ Metrics!In(rows \o held) = Metrics!In(rows) \cup Metrics!In(held)
    BY <1>1, ConcatFacts DEF MetricsHold, OneRowInv
  <1>3. Metrics!IsInjective(rows \o held)
    BY <1>2 DEF IsInjective, Metrics!IsInjective
  <1> QED
    BY <1>2, <1>3 DEF MetricsHold, OneRowInv, Metrics!OneRowPerEvent
----------------------------------------------------------------------------

Hold ==
  /\ which = "summaries" => SummariesHold
  /\ which = "changes" => ChangesHold
  /\ which = "transcripts" => TranscriptsHold
  /\ which = "metrics" => MetricsHold

\* Every reachable state of the four queues satisfies its inductive invariant.
THEOREM Inductive == Spec => []Hold
  <1>1. Init => Hold
    BY SummariesInit, ChangesInit, TranscriptsInit, MetricsInit DEF Init, Hold
  <1>2. Hold /\ [Next]_all => Hold'
    <2> SUFFICES ASSUME Hold, [Next]_all PROVE Hold'
      OBVIOUS
    <2>1. CASE which = "summaries"
      <3>1. which' = which /\ [Summaries!Next]_(Summaries!vars)
        BY <2>1 DEF Next, all, Summaries!vars, Summaries!consent
      <3> QED
        BY <2>1, <3>1, SummariesNext DEF Hold
    <2>2. CASE which = "changes"
      <3>1. which' = which /\ [Changes!Next]_(Changes!vars)
        BY <2>2 DEF Next, all, Changes!vars, Changes!consent
      <3> QED
        BY <2>2, <3>1, ChangesNext DEF Hold
    <2>3. CASE which = "transcripts"
      <3>1. which' = which /\ [Transcripts!Next]_(Transcripts!vars)
        BY <2>3 DEF Next, all, Transcripts!vars, Transcripts!consent
      <3> QED
        BY <2>3, <3>1, TranscriptsNext DEF Hold
    <2>4. CASE which = "metrics"
      <3>1. which' = which /\ [Metrics!Next]_(Metrics!vars)
        BY <2>4 DEF Next, all, Metrics!vars, Metrics!history
      <3> QED
        BY <2>4, <3>1, MetricsNext DEF Hold
    <2>5. CASE which \notin {"summaries", "changes", "transcripts", "metrics"}
      BY <2>5 DEF Next, all, Hold
    <2> QED
      BY <2>1, <2>2, <2>3, <2>4, <2>5
  <1> QED
    BY <1>1, <1>2, PTL DEF Spec

\* Whatever requests fail, answers are lost or processes crash, a summary or a
\* transcript leaves its queue for the server or by the user's decision, an
\* attempt is counted for a failure only, the server ends with the last summary
\* of a commit and a synced row of file changes is not behind, but for the races
\* the invariants name.
THEOREM QueuesKeepTheirRows == Spec => []NothingLost
  <1>1. Hold => NothingLost
    <2> SUFFICES ASSUME Hold PROVE NothingLost
      OBVIOUS
    <2>1. which = "summaries" =>
            Summaries!TypeOK /\ Summaries!SummaryNotLost /\ Summaries!SettledIsLatest
      BY DEF Hold, SummariesHold
    <2>2. which = "changes" => Changes!TypeOK /\ Changes!SyncedCountIsComplete
      BY DEF Hold, ChangesHold
    <2>3. which = "transcripts" =>
            Transcripts!TypeOK /\ Transcripts!TranscriptNotLost /\ Transcripts!AttemptsAreFailures
      BY DEF Hold, TranscriptsHold, AttemptsInv, Transcripts!AttemptsAreFailures
    <2> QED
      BY <2>1, <2>2, <2>3 DEF NothingLost
  <1> QED
    BY <1>1, Inductive, PTL

\* What a hold covers is not sent before the user releases it, unless it was
\* being sent when the hold was placed (upload_hold.rs).
THEOREM HoldsWait == Spec => []HeldUntilReleased
  <1>1. Hold => HeldUntilReleased
    BY DEF Hold, SummariesHold, ChangesHold, TranscriptsHold, HeldUntilReleased
  <1> QED
    BY <1>1, Inductive, PTL

\* A metric event leaves memory and the tables for the server or by the user's
\* decision, and a replay, a manual flush and a hold of the same rows never make
\* two rows of one event: for every set of events, whatever the server refuses,
\* and every size of an envelope (telemetry_worker.rs, metrics/db.rs).
THEOREM MetricsAreKept == Spec => []MetricsKept
  <1>1. Hold => MetricsKept
    BY MetricsHoldIsKept DEF Hold, MetricsKept
  <1> QED
    BY <1>1, Inductive, PTL
======================================================================
