-------------------------- MODULE NotesQueueProofs --------------------------
(***************************************************************************)
(* Proofs about NotesQueue, for every number of commits, contents and      *)
(* flushes, every batch size and every number of crashes and faults.       *)
(***************************************************************************)
EXTENDS NotesQueue, TLAPS

InHands(f) == batch[f] \cup sent[f]

\* What a flush holds at each of its steps.
StageInv ==
  \A f \in Flushers :
    /\ picked[f] # {} => pc[f] = "claim"
    /\ batch[f] # {} => pc[f] \in {"send", "answer"}
    /\ sent[f] # {} => pc[f] = "answer"
    /\ batch[f] \cap sent[f] = {}
    /\ \A d, e \in InHands(f) : d.sha = e.sha => d = e

\* The connection's mutex: one flush at a time is inside dequeue_pending.
MutexInv ==
  \A f, g \in Flushers : pc[f] = "claim" /\ pc[g] = "claim" => f = g

\* The rows a flush is about to lock are in no other flush's hands.
ClaimInv ==
  \A f \in Flushers : \A c \in picked[f] : c \notin raced => ~InUpload(c)

\* A row under upload is locked and has the content the flush has read.
CarryInv ==
  \A f \in Flushers : \A e \in InHands(f) :
    e.sha \notin raced /\ Exists(e.sha) =>
      notes[e.sha].content = e.content /\ notes[e.sha].lock # "free"

\* After an answer without failures the platform holds what was sent.
AnswerInv ==
  \A f \in Flushers : \A e \in sent[f] :
    ok[f] /\ e.sha \notin raced => server[e.sha] = e.content

UploadInv ==
  StageInv /\ MutexInv /\ ClaimInv /\ CarryInv /\ AnswerInv
  /\ UploadedByOne /\ SyncedMatchesServer

\* A blocked note stays pending, is held once the migration has got past its
\* hold, and is in nobody's hands.
Migrating == \E f \in Flushers : pc[f] \notin {"idle", "requested", "hold"}

LegacyInv ==
  \A c \in blocked :
    /\ Unsynced(c)
    /\ migrated \/ Migrating => notes[c].retry = "held"
    /\ \A f \in Flushers : c \notin picked[f] /\ c \notin Carried(f)

----------------------------------------------------------------------------
(* Types *)

USE NotesAssumption, RowAssumption

LEMMA TypeInit == Init => TypeOK
  <1> SUFFICES ASSUME Init PROVE TypeOK
    OBVIOUS
  <1>1. LegacyRows \subseteq Rows
    BY DEF LegacyRows, Rows, Locks, Retries
  <1>2. notes \in [Commits -> Rows \cup {NoRow}]
    BY <1>1 DEF Init
  <1>3. blocked \subseteq Commits
    BY DEF Init, Waiting
  <1> QED
    BY <1>2, <1>3 DEF Init, TypeOK, Labels

\* Rows stay rows under every update the operations make.
LEMMA RowUpdates ==
  ASSUME NEW r \in Rows
  PROVE  /\ \A v \in Contents :
              [r EXCEPT !.content = v, !.synced = FALSE, !.retry = "due",
                        !.attempts = 0] \in Rows
         /\ \A v \in Contents : [r EXCEPT !.content = v, !.synced = TRUE] \in Rows
         /\ [r EXCEPT !.retry = "held", !.lock = "free"] \in Rows
         /\ [r EXCEPT !.retry = "due"] \in Rows
         /\ \A l \in Locks : [r EXCEPT !.lock = l] \in Rows
         /\ [r EXCEPT !.synced = TRUE, !.lock = "free"] \in Rows
         /\ [r EXCEPT !.lock = "free", !.retry = "later",
                      !.attempts = @ + 1] \in Rows
  <1>1. \A v \in Contents : [r EXCEPT !.content = v, !.synced = FALSE,
                                      !.retry = "due", !.attempts = 0] \in Rows
    BY DEF Rows, Retries
  <1>2. \A v \in Contents : [r EXCEPT !.content = v, !.synced = TRUE] \in Rows
    BY DEF Rows
  <1>3. [r EXCEPT !.retry = "held", !.lock = "free"] \in Rows
    BY DEF Rows, Locks, Retries
  <1>4. [r EXCEPT !.retry = "due"] \in Rows
    BY DEF Rows, Retries
  <1>5. \A l \in Locks : [r EXCEPT !.lock = l] \in Rows
    BY DEF Rows
  <1>6. [r EXCEPT !.synced = TRUE, !.lock = "free"] \in Rows
    BY DEF Rows, Locks
  <1>7. [r EXCEPT !.lock = "free", !.retry = "later", !.attempts = @ + 1] \in Rows
    <2>1. r.attempts + 1 \in Nat
      BY DEF Rows
    <2> QED
      BY <2>1 DEF Rows, Locks, Retries
  <1> QED
    BY <1>1, <1>2, <1>3, <1>4, <1>5, <1>6, <1>7

LEMMA InsertedRow ==
  ASSUME NEW v \in Contents
  PROVE  Inserted(v) \in Rows /\ [Inserted(v) EXCEPT !.synced = TRUE] \in Rows
  BY DEF Inserted, Rows, Locks, Retries

LEMMA TypeNext == TypeOK /\ [Next]_vars => TypeOK'
  <1> SUFFICES ASSUME TypeOK, [Next]_vars PROVE TypeOK'
    OBVIOUS
  <1>r. \A c \in Commits : Exists(c) => notes[c] \in Rows
    BY DEF TypeOK, Exists
  <1>1. ASSUME NEW S \in SUBSET Commits, NEW new \in [S -> Contents], UpsertNotes(new)
        PROVE  TypeOK'
    <2>1. DOMAIN new = S
      OBVIOUS
    <2>2. \A c \in S : Upserted(c, new[c]) \in Rows
      BY <1>r, RowUpdates, InsertedRow DEF Upserted
    <2>3. notes' \in [Commits -> Rows \cup {NoRow}]
      BY <1>1, <2>1, <2>2 DEF UpsertNotes, TypeOK
    <2> QED
      BY <1>1, <2>1, <2>3 DEF UpsertNotes, TypeOK, Labels
  <1>2. ASSUME NEW c \in Commits, FetchNote(c) PROVE TypeOK'
    BY <1>2 DEF FetchNote, TypeOK, flushVars, bounds, history
  <1>3. CASE CacheSyncedNotes
    <2>1. \A c \in Commits : fetched[c] # NoRow => Cached(c, fetched[c]) \in Rows
      BY <1>r, RowUpdates, InsertedRow DEF Cached, TypeOK
    <2>2. notes' \in [Commits -> Rows \cup {NoRow}]
      BY <1>3, <2>1 DEF CacheSyncedNotes, TypeOK
    <2> QED
      BY <1>3, <2>2 DEF CacheSyncedNotes, TypeOK, flushVars, bounds
  <1>h. AllHeld \in [Commits -> Rows \cup {NoRow}]
    <2>1. \A c \in Commits : Exists(c) => Held(c) \in Rows
      BY <1>r, RowUpdates DEF Held
    <2> QED
      BY <2>1 DEF AllHeld, Unsynced, TypeOK
  <1>w. HoldRaces \subseteq Commits /\ Waiting \subseteq Commits
    BY DEF HoldRaces, Waiting
  <1>4. CASE HoldPendingUploads
    BY <1>4, <1>h, <1>w DEF HoldPendingUploads, TypeOK, flushVars
  <1>5. CASE ReleaseHeldUploads
    <2>1. notes' \in [Commits -> Rows \cup {NoRow}]
      BY <1>5, <1>r, RowUpdates DEF ReleaseHeldUploads, Unsynced, TypeOK
    <2> QED
      BY <1>5, <2>1 DEF ReleaseHeldUploads, TypeOK, flushVars, bounds
  <1>6. CASE DeletePending
    BY <1>6, <1>w DEF DeletePending, TypeOK, flushVars, bounds
  <1>7. CASE Tick
    BY <1>7 DEF Tick, Goto, TypeOK, Labels, bounds, history
  <1>8. ASSUME NEW f \in Flushers, Begin(f) PROVE TypeOK'
    <2>1. backoff' \in BOOLEAN
      <3>1. backoff' = backoff \/ backoff' = TRUE
        BY <1>8 DEF Begin, Gate
      <3> QED
        BY <3>1 DEF TypeOK
    <2> QED
      BY <1>8, <2>1 DEF Begin, Gate, Fault, Goto, TypeOK, Labels, history
  <1>9. ASSUME NEW f \in Flushers, HoldLegacy(f) PROVE TypeOK'
    BY <1>9, <1>h, <1>w DEF HoldLegacy, Fault, Goto, TypeOK, Labels
  <1>10. ASSUME NEW f \in Flushers, SaveMigrated(f) PROVE TypeOK'
    <2>1. backoff' \in BOOLEAN /\ migrated' \in BOOLEAN
      <3>1. /\ backoff' = backoff \/ backoff' = TRUE
            /\ migrated' = migrated \/ migrated' = TRUE
        BY <1>10 DEF SaveMigrated, Gate
      <3> QED
        BY <3>1 DEF TypeOK
    <2>2. /\ faults' \in Nat
          /\ pc' \in [Flushers -> Labels]
      BY <1>10 DEF SaveMigrated, Gate, Fault, Goto, TypeOK, Labels
    <2> QED
      BY <1>10, <2>1, <2>2 DEF SaveMigrated, TypeOK, history
  <1>11. ASSUME NEW f \in Flushers, DequeueSelect(f) PROVE TypeOK'
    <2>1. Unlocked \in [Commits -> Rows \cup {NoRow}]
      BY <1>r, RowUpdates DEF Unlocked, Unsynced, TypeOK, Locks
    <2>2. \A S \in Batches : S \subseteq Commits
      BY DEF Batches, Eligible
    <2> QED
      BY <1>11, <2>1, <2>2 DEF DequeueSelect, Goto, TypeOK, Labels, bounds
  <1>12. ASSUME NEW f \in Flushers, DequeueClaim(f) PROVE TypeOK'
    <2> DEFINE S == {c \in picked[f] : Exists(c)}
               B == {[sha |-> c, content |-> notes[c].content] : c \in S}
    <2>1. S \subseteq Commits
      BY DEF TypeOK
    <2>2. notes' \in [Commits -> Rows \cup {NoRow}]
      BY <1>12, <1>r, RowUpdates DEF DequeueClaim, TypeOK, Locks
    <2>3. \A c \in S : notes[c].content \in Contents
      BY <1>r, <2>1 DEF Rows
    <2>4. B \subseteq Entries
      BY <2>1, <2>3 DEF Entries
    <2>5. batch' = [batch EXCEPT ![f] = B]
      BY <1>12 DEF DequeueClaim
    <2> QED
      BY <1>12, <2>2, <2>4, <2>5 DEF DequeueClaim, Goto, TypeOK, Labels, bounds, history
  <1>13. ASSUME NEW f \in Flushers, NEW o, UploadNotes(f, o) PROVE TypeOK'
    <2> DEFINE G == {e \in batch[f] : Org[e.sha] = o}
    <2>1. G \subseteq Entries
      BY DEF TypeOK
    <2>2. PICK A \in SUBSET G, b \in BOOLEAN :
            /\ server' = [c \in Commits |->
                       IF \E e \in A : e.sha = c
                       THEN (CHOOSE e \in A : e.sha = c).content ELSE server[c]]
            /\ ok' = [ok EXCEPT ![f] = b]
            /\ backoff' \in {backoff, FALSE}
      BY <1>13 DEF UploadNotes
    <2>3. \A c \in Commits : (\E e \in A : e.sha = c) =>
              (CHOOSE e \in A : e.sha = c).content \in Contents
      BY <2>1 DEF Entries
    <2>4. server' \in [Commits -> Contents \cup {NoRow}]
      BY <2>2, <2>3 DEF TypeOK
    <2>5. backoff' \in BOOLEAN
      BY <2>2 DEF TypeOK
    <2> QED
      BY <1>13, <2>1, <2>2, <2>4, <2>5 DEF UploadNotes, Goto, TypeOK, Labels, bounds, history
  <1>14. ASSUME NEW f \in Flushers, RecordAnswer(f) PROVE TypeOK'
    <2>1. \A S : MarkSynced(S) \in [Commits -> Rows \cup {NoRow}]
      BY <1>r, RowUpdates DEF MarkSynced, TypeOK
    <2>2. \A S : MarkFailed(S) \in [Commits -> Rows \cup {NoRow}]
      BY <1>r, RowUpdates DEF MarkFailed, Unsynced, TypeOK
    <2>3. notes' \in [Commits -> Rows \cup {NoRow}]
      BY <1>14, <2>1, <2>2 DEF RecordAnswer, TypeOK
    <2> QED
      BY <1>14, <2>3 DEF RecordAnswer, Fault, Goto, TypeOK, Labels, history
  <1>15. ASSUME NEW f \in Flushers, EvictStaleCache(f) PROVE TypeOK'
    <2>1. notes' \in [Commits -> Rows \cup {NoRow}]
      BY <1>15 DEF EvictStaleCache, TypeOK
    <2> QED
      BY <1>15, <2>1 DEF EvictStaleCache, Goto, TypeOK, Labels, bounds, history
  <1>16. CASE Crash
    <2>1. backoff' \in BOOLEAN /\ ok' \in [Flushers -> BOOLEAN]
      BY <1>16 DEF Crash
    <2>2. /\ faults' \in Nat
          /\ pc' \in [Flushers -> Labels]
      BY <1>16 DEF Crash, Fault, TypeOK, Labels
    <2> QED
      BY <1>16, <2>1, <2>2 DEF Crash, TypeOK, history
  <1>17. ASSUME NEW c \in Commits, RetryDue(c) PROVE TypeOK'
    <2>1. notes' \in [Commits -> Rows \cup {NoRow}]
      BY <1>17, <1>r, RowUpdates DEF RetryDue, TypeOK
    <2> QED
      BY <1>17, <2>1 DEF RetryDue, TypeOK, flushVars, bounds, history
  <1>18. ASSUME NEW c \in Commits, LockStale(c) PROVE TypeOK'
    <2>1. notes' \in [Commits -> Rows \cup {NoRow}]
      BY <1>18, <1>r, RowUpdates DEF LockStale, TypeOK, Locks
    <2> QED
      BY <1>18, <2>1 DEF LockStale, TypeOK, flushVars, bounds, history
  <1>19. CASE BackoffOver
    BY <1>19 DEF BackoffOver, TypeOK, flushVars, bounds, history
  <1>20. CASE UNCHANGED vars
    BY <1>20 DEF vars, TypeOK
  <1> QED
    BY <1>1, <1>2, <1>3, <1>4, <1>5, <1>6, <1>7, <1>8, <1>9, <1>10, <1>11, <1>12,
       <1>13, <1>14, <1>15, <1>16, <1>17, <1>18, <1>19, <1>20 DEF Next, Flush

\* The state always has its type.
THEOREM TypeCorrect == Spec => []TypeOK
  BY TypeInit, TypeNext, PTL DEF Spec

----------------------------------------------------------------------------
(* Uploads *)

LEMMA UploadInit == Init => UploadInv
  BY DEF Init, UploadInv, StageInv, MutexInv, ClaimInv, CarryInv, AnswerInv,
         UploadedByOne, SyncedMatchesServer, InHands, InUpload, Carried,
         LegacyRows, Exists

LEMMA CarriedIsInHands ==
  \A f \in Flushers : \A c : c \in Carried(f) <=> \E e \in InHands(f) : e.sha = c
  BY DEF Carried, InHands

LEMMA HandsTyped == TypeOK => \A f \in Flushers : \A e \in InHands(f) :
                      e \in Entries /\ e.sha \in Commits
  BY DEF TypeOK, InHands, Entries

\* The stages at which a flush holds rows or the mutex.
Busy == {"claim", "send", "answer"}

\* A step that leaves every flush's rows alone and changes rows of the table:
\* those under upload keep content and lock, those it leaves synced have the
\* content of the platform, and the others are recorded as raced.
LEMMA TableStep ==
  ASSUME TypeOK, UploadInv,
         UNCHANGED <<picked, batch, sent, ok, server>>,
         \A f \in Flushers : pc'[f] = pc[f] \/ {pc[f], pc'[f]} \cap Busy = {},
         raced \subseteq raced',
         \A c \in Commits \ raced' : InUpload(c) /\ notes'[c] # NoRow =>
            /\ Exists(c)
            /\ notes'[c].content = notes[c].content
            /\ notes[c].lock # "free" => notes'[c].lock # "free",
         \A c \in Commits \ raced' : notes'[c] # NoRow /\ notes'[c].synced =>
            notes'[c].content = server[c]
  PROVE  UploadInv'
  <1>1. StageInv'
    BY ZenonT(30) DEF UploadInv, StageInv, InHands, Busy
  <1>2. MutexInv'
    BY DEF UploadInv, MutexInv, Busy
  <1>3. ClaimInv'
    BY DEF UploadInv, ClaimInv, InUpload, Carried
  <1>4. CarryInv'
    <2> SUFFICES ASSUME NEW f \in Flushers, NEW e \in InHands(f),
                        e.sha \notin raced', notes'[e.sha] # NoRow
                 PROVE  notes'[e.sha].content = e.content /\ notes'[e.sha].lock # "free"
      BY DEF CarryInv, InHands, Exists
    <2>1. e.sha \in Commits /\ InUpload(e.sha)
      BY HandsTyped, CarriedIsInHands DEF InUpload
    <2> QED
      BY <2>1 DEF UploadInv, CarryInv
  <1>5. AnswerInv'
    BY DEF UploadInv, AnswerInv
  <1>6. UploadedByOne'
    BY DEF UploadInv, UploadedByOne, Carried
  <1>7. SyncedMatchesServer'
    BY DEF SyncedMatchesServer, Exists
  <1> QED
    BY <1>1, <1>2, <1>3, <1>4, <1>5, <1>6, <1>7 DEF UploadInv

\* A commit that is not under upload, or is raced, is in no lock's way.
LEMMA FreeRowIsIdle ==
  ASSUME UploadInv, NEW c \in Commits, c \notin raced, Exists(c),
         notes[c].lock = "free"
  PROVE  ~InUpload(c)
  BY CarriedIsInHands DEF UploadInv, CarryInv, InUpload

LEMMA SelectStep ==
  ASSUME TypeOK, UploadInv, NEW f \in Flushers, DequeueSelect(f)
  PROVE  UploadInv'
  <1>1. PICK S \in Batches :
          /\ picked' = [picked EXCEPT ![f] = S]
          /\ pc' = [pc EXCEPT ![f] = IF S = {} THEN "idle" ELSE "claim"]
    BY DEF DequeueSelect, Goto
  <1>2. /\ pc[f] = "select" /\ MutexFree(f)
        /\ notes' = Unlocked
        /\ raced' = raced \cup {c \in Commits : InUpload(c) /\ Unlocked[c] # notes[c]}
        /\ UNCHANGED <<batch, sent, ok, server>>
    BY DEF DequeueSelect
  <1>3. /\ pc \in [Flushers -> Labels] /\ picked \in [Flushers -> SUBSET Commits]
        /\ raced \subseteq raced'
    BY <1>2 DEF TypeOK
  <1>4. picked[f] = {} /\ batch[f] = {} /\ sent[f] = {}
    BY <1>2 DEF UploadInv, StageInv
  <1>5. \A g \in Flushers : InHands(g)' = InHands(g) /\ Carried(g)' = Carried(g)
    BY <1>2 DEF InHands, Carried
  <1>6. \A c : InUpload(c)' <=> InUpload(c)
    BY <1>5 DEF InUpload
  <1>7. StageInv'
    BY <1>1, <1>2, <1>3, <1>4 DEF UploadInv, StageInv, InHands
  <1>8. MutexInv'
    BY <1>1, <1>2, <1>3 DEF MutexFree, MutexInv
  <1>9. \A c \in S : c \in Commits /\ Exists(c) /\ Unlocked[c].lock = "free"
    BY <1>1 DEF Batches, Eligible, Unsynced
  <1>10. \A c \in S : c \notin raced' => ~InUpload(c)
    <2> SUFFICES ASSUME NEW c \in S, c \notin raced', InUpload(c) PROVE FALSE
      OBVIOUS
    <2>1. Unlocked[c] = notes[c] /\ c \notin raced /\ notes[c].lock = "free"
      BY <1>2, <1>9
    <2> QED
      BY <2>1, <1>9, FreeRowIsIdle
  <1>11. ClaimInv'
    BY <1>1, <1>3, <1>6, <1>10 DEF UploadInv, ClaimInv
  <1>12. \A c \in Commits : c \notin raced' /\ InUpload(c) => notes'[c] = notes[c]
    BY <1>2
  <1>13. CarryInv'
    <2> SUFFICES ASSUME NEW g \in Flushers, NEW e \in InHands(g),
                        e.sha \notin raced', notes'[e.sha] # NoRow
                 PROVE  notes'[e.sha].content = e.content /\ notes'[e.sha].lock # "free"
      BY <1>5 DEF CarryInv, Exists
    <2>1. e.sha \in Commits /\ InUpload(e.sha)
      BY HandsTyped, CarriedIsInHands DEF InUpload
    <2> QED
      BY <2>1, <1>3, <1>12 DEF UploadInv, CarryInv, Exists
  <1>14. AnswerInv'
    BY <1>2, <1>3 DEF UploadInv, AnswerInv
  <1>15. UploadedByOne'
    BY <1>3, <1>5 DEF UploadInv, UploadedByOne
  <1>16. SyncedMatchesServer'
    <2>1. \A c \in Commits : Unsynced(c) \/ notes'[c] = notes[c]
      BY <1>2 DEF Unlocked
    <2>2. \A c \in Commits : Unsynced(c) => notes'[c].synced = notes[c].synced
      BY <1>2 DEF Unlocked, TypeOK, Unsynced, Exists, Rows
    <2> QED
      BY <1>2, <1>3, <2>1, <2>2 DEF UploadInv, SyncedMatchesServer, Exists, Unsynced
  <1> QED
    BY <1>7, <1>8, <1>11, <1>13, <1>14, <1>15, <1>16 DEF UploadInv

LEMMA ClaimStep ==
  ASSUME TypeOK, UploadInv, NEW f \in Flushers, DequeueClaim(f)
  PROVE  UploadInv'
  <1> DEFINE S == {c \in picked[f] : Exists(c)}
             B == {[sha |-> c, content |-> notes[c].content] : c \in S}
  <1>1. /\ pc[f] = "claim"
        /\ notes' = [c \in Commits |-> IF c \in S THEN [notes[c] EXCEPT !.lock = "fresh"]
                                       ELSE notes[c]]
        /\ batch' = [batch EXCEPT ![f] = B]
        /\ picked' = [picked EXCEPT ![f] = {}]
        /\ pc' = [pc EXCEPT ![f] = IF S = {} THEN "idle" ELSE "send"]
        /\ UNCHANGED <<sent, ok, server, raced>>
    BY DEF DequeueClaim, Goto, history
  <1>2. /\ pc \in [Flushers -> Labels] /\ picked \in [Flushers -> SUBSET Commits]
        /\ batch \in [Flushers -> SUBSET Entries] /\ S \subseteq Commits
        /\ \A c \in S : notes[c] \in Rows
    BY DEF TypeOK, Exists
  <1>3. batch[f] = {} /\ sent[f] = {}
    BY <1>1 DEF UploadInv, StageInv
  <1>4. \A g \in Flushers : g # f => /\ picked[g] = {} /\ InHands(g)' = InHands(g)
                                      /\ Carried(g)' = Carried(g)
    BY <1>1, <1>2 DEF UploadInv, MutexInv, StageInv, InHands, Carried
  <1>5. InHands(f)' = B
    BY <1>1, <1>2, <1>3 DEF InHands
  <1>6. Carried(f)' = S
    <2>1. Carried(f)' = {e.sha : e \in B}
      BY <1>5 DEF Carried, InHands
    <2>2. \A c \in S : [sha |-> c, content |-> notes[c].content] \in B
      OBVIOUS
    <2>3. \A e \in B : e.sha \in S
      OBVIOUS
    <2>4. \A c \in S : \E e \in B : e.sha = c
      <3> SUFFICES ASSUME NEW c \in S PROVE \E e \in B : e.sha = c
        OBVIOUS
      <3>1. [sha |-> c, content |-> notes[c].content].sha = c
        OBVIOUS
      <3> HIDE DEF B
      <3> QED
        BY <2>2, <3>1
    <2> HIDE DEF B, S
    <2> QED
      BY <2>1, <2>3, <2>4
  <1> HIDE DEF B
  <1>7. \A c \in Commits : /\ notes'[c] = NoRow <=> notes[c] = NoRow
                           /\ notes[c] # NoRow =>
                                /\ notes'[c].content = notes[c].content
                                /\ notes'[c].synced = notes[c].synced
                                /\ notes'[c].lock = IF c \in S THEN "fresh" ELSE notes[c].lock
    <2> SUFFICES ASSUME NEW c \in Commits, c \in S
                 PROVE  /\ notes'[c] # NoRow
                        /\ notes'[c].content = notes[c].content
                        /\ notes'[c].synced = notes[c].synced
                        /\ notes'[c].lock = "fresh"
      BY <1>1 DEF Exists
    <2>1. notes'[c] = [notes[c] EXCEPT !.lock = "fresh"] /\ notes[c] \in Rows
      BY <1>1, <1>2
    <2>2. notes'[c] \in Rows
      BY <2>1, RowUpdates DEF Locks
    <2> QED
      BY <2>1, <2>2 DEF Rows
  <1>8. \A c \in S : c \notin raced => ~InUpload(c)
    BY DEF UploadInv, ClaimInv
  <1>9. StageInv'
    <2>1. \A d, e \in B : d.sha = e.sha => d = e
      BY DEF B
    <2>2. B # {} => S # {}
      BY DEF B
    <2> QED
      BY <1>1, <1>2, <1>3, <1>4, <1>5, <2>1, <2>2 DEF UploadInv, StageInv
  <1>10. MutexInv'
    BY <1>1, <1>2 DEF UploadInv, MutexInv
  <1>11. ClaimInv'
    BY <1>1, <1>2, <1>4 DEF ClaimInv
  <1>12. CarryInv'
    <2> SUFFICES ASSUME NEW g \in Flushers, NEW e \in InHands(g)',
                        e.sha \notin raced, notes'[e.sha] # NoRow
                 PROVE  notes'[e.sha].content = e.content /\ notes'[e.sha].lock # "free"
      BY <1>1 DEF CarryInv, Exists
    <2>1. CASE g = f
      <3>1. e.sha \in S /\ e.content = notes[e.sha].content
        BY <2>1, <1>5 DEF B
      <3> QED
        BY <3>1, <1>2, <1>7 DEF Exists
    <2>2. CASE g # f
      <3>1. e \in InHands(g) /\ e.sha \in Commits
        BY <2>2, <1>4, HandsTyped
      <3> QED
        BY <3>1, <1>7 DEF UploadInv, CarryInv, Exists
    <2> QED
      BY <2>1, <2>2
  <1>13. AnswerInv'
    BY <1>1, <1>2 DEF UploadInv, AnswerInv
  <1>14. UploadedByOne'
    <2>1. \A g \in Flushers : \A c \in Commits :
            g # f /\ c \in S /\ c \in Carried(g) => c \in raced
      BY <1>8 DEF InUpload
    <2> QED
      BY <1>1, <1>4, <1>6, <2>1 DEF UploadInv, UploadedByOne
  <1>15. SyncedMatchesServer'
    BY <1>1, <1>7 DEF UploadInv, SyncedMatchesServer, Exists
  <1> QED
    BY <1>9, <1>10, <1>11, <1>12, <1>13, <1>14, <1>15 DEF UploadInv

LEMMA SendStep ==
  ASSUME TypeOK, UploadInv, NEW f \in Flushers, NEW o, UploadNotes(f, o)
  PROVE  UploadInv'
  <1> DEFINE G == {e \in batch[f] : Org[e.sha] = o}
  <1>1. /\ pc[f] = "send"
        /\ sent' = [sent EXCEPT ![f] = G]
        /\ batch' = [batch EXCEPT ![f] = @ \ G]
        /\ pc' = [pc EXCEPT ![f] = "answer"]
        /\ UNCHANGED <<notes, picked, raced>>
    BY DEF UploadNotes, Goto, history
  <1>2. PICK A \in SUBSET G, b \in BOOLEAN :
          /\ b => A = G
          /\ server' = [c \in Commits |->
                     IF \E e \in A : e.sha = c
                     THEN (CHOOSE e \in A : e.sha = c).content ELSE server[c]]
          /\ ok' = [ok EXCEPT ![f] = b]
    BY DEF UploadNotes
  <1>3. /\ pc \in [Flushers -> Labels] /\ sent \in [Flushers -> SUBSET Entries]
        /\ batch \in [Flushers -> SUBSET Entries] /\ ok \in [Flushers -> BOOLEAN]
    BY DEF TypeOK
  <1>4. sent[f] = {} /\ A \subseteq InHands(f) /\ G \subseteq batch[f]
    BY <1>1 DEF UploadInv, StageInv, InHands
  <1>5. InHands(f)' = InHands(f) /\ batch'[f] \cap sent'[f] = {}
        /\ batch'[f] = batch[f] \ G /\ sent'[f] = G
    BY <1>1, <1>3, <1>4 DEF InHands
  <1>6. \A g \in Flushers : g # f => /\ batch'[g] = batch[g] /\ sent'[g] = sent[g]
                                     /\ ok'[g] = ok[g] /\ pc'[g] = pc[g]
    BY <1>1, <1>2, <1>3
  <1>7. \A g \in Flushers : InHands(g)' = InHands(g)
    BY <1>5, <1>6 DEF InHands
  <1>8. \A g \in Flushers : \A c : c \in Carried(g)' <=> c \in Carried(g)
    <2>1. \A g \in Flushers : \A c : c \in Carried(g)' <=> \E e \in InHands(g)' : e.sha = c
      BY DEF Carried, InHands
    <2> QED
      BY <1>7, <2>1, CarriedIsInHands
  <1>9. \A e \in A : server'[e.sha] = e.content /\ e.sha \in Commits
    <2> SUFFICES ASSUME NEW e \in A
                 PROVE  server'[e.sha] = e.content /\ e.sha \in Commits
      OBVIOUS
    <2>1. e.sha \in Commits
      BY <1>4, HandsTyped
    <2>2. server'[e.sha] = (CHOOSE d \in A : d.sha = e.sha).content
      BY <1>2, <2>1
    <2>3. \A d \in A : d.sha = e.sha => d = e
      BY <1>4 DEF UploadInv, StageInv
    <2>4. (CHOOSE d \in A : d.sha = e.sha) = e
      BY <2>3
    <2> QED
      BY <2>1, <2>2, <2>4
  <1>10. \A c \in Commits : (\A e \in A : e.sha # c) => server'[c] = server[c]
    BY <1>2
  <1> HIDE DEF G
  <1>11. StageInv'
    BY <1>1, <1>3, <1>5, <1>6, <1>7 DEF UploadInv, StageInv
  <1>12. MutexInv'
    BY <1>1, <1>3 DEF UploadInv, MutexInv
  <1>13. ClaimInv'
    BY <1>1, <1>8 DEF UploadInv, ClaimInv, InUpload
  <1>14. CarryInv'
    BY <1>1, <1>7 DEF UploadInv, CarryInv, Exists
  <1>15. UploadedByOne'
    BY <1>1, <1>8 DEF UploadInv, UploadedByOne
  <1>16. AnswerInv'
    <2> SUFFICES ASSUME NEW g \in Flushers, NEW e \in sent'[g], ok'[g],
                        e.sha \notin raced
                 PROVE  server'[e.sha] = e.content
      BY <1>1 DEF AnswerInv
    <2>1. CASE g = f
      <3>1. b
        BY <1>2, <1>3, <2>1
      <3> QED
        BY <1>2, <1>5, <1>9, <2>1, <3>1
    <2>2. CASE g # f
      <3>1. e \in InHands(g) /\ ok[g] /\ e.sha \in Commits /\ e \in sent[g]
        BY <1>6, <2>2, HandsTyped DEF InHands
      <3>2. \A d \in A : d.sha # e.sha
        BY <1>4, <2>2, <3>1, CarriedIsInHands DEF UploadInv, UploadedByOne
      <3> QED
        BY <1>10, <3>1, <3>2 DEF UploadInv, AnswerInv
    <2> QED
      BY <2>1, <2>2
  <1>17. SyncedMatchesServer'
    <2> SUFFICES ASSUME NEW c \in Commits, Exists(c), notes[c].synced, c \notin raced
                 PROVE  notes[c].content = server'[c]
      BY <1>1 DEF SyncedMatchesServer, Exists
    <2>1. CASE \E e \in A : e.sha = c
      BY <1>4, <1>9, <2>1 DEF UploadInv, CarryInv
    <2>2. CASE \A e \in A : e.sha # c
      BY <1>10, <2>2 DEF UploadInv, SyncedMatchesServer
    <2> QED
      BY <2>1, <2>2
  <1> QED
    BY <1>11, <1>12, <1>13, <1>14, <1>15, <1>16, <1>17 DEF UploadInv

LEMMA RecordStep ==
  ASSUME TypeOK, UploadInv, NEW f \in Flushers, RecordAnswer(f)
  PROVE  UploadInv'
  <1> DEFINE S == {e.sha : e \in sent[f]}
  <1>1. /\ pc[f] = "answer"
        /\ \/ notes' = MarkSynced(S) /\ ok[f]
           \/ notes' = MarkFailed(S)
           \/ notes' = notes
        /\ sent' = [sent EXCEPT ![f] = {}]
        /\ pc' = [pc EXCEPT ![f] = IF batch[f] = {} THEN "evict" ELSE "send"]
        /\ UNCHANGED <<picked, batch, ok, server, raced>>
    BY DEF RecordAnswer, Goto, history
  <1>2. /\ pc \in [Flushers -> Labels] /\ sent \in [Flushers -> SUBSET Entries]
        /\ \A c \in Commits : Exists(c) => notes[c] \in Rows
    BY DEF TypeOK, Exists
  <1>3. \A g \in Flushers : InHands(g)' \subseteq InHands(g)
    BY <1>1, <1>2 DEF InHands
  <1>4. \A g \in Flushers : \A c : c \in Carried(g)' => c \in Carried(g)
    <2>1. \A g \in Flushers : \A c : c \in Carried(g)' => \E e \in InHands(g)' : e.sha = c
      BY DEF Carried, InHands
    <2> QED
      BY <1>3, <2>1, CarriedIsInHands
  <1>5. \A e \in sent[f] : \A g \in Flushers : \A d \in InHands(g)' :
           d.sha = e.sha => e.sha \in raced
    <2> SUFFICES ASSUME NEW e \in sent[f], NEW g \in Flushers, NEW d \in InHands(g)',
                        d.sha = e.sha
                 PROVE  e.sha \in raced
      OBVIOUS
    <2>1. e \in InHands(f) /\ d \in InHands(g) /\ e.sha \in Commits
      BY <1>3, HandsTyped DEF InHands
    <2>2. CASE g = f
      <3>1. d \in batch[f] /\ d = e
        BY <1>1, <1>2, <2>1, <2>2 DEF UploadInv, StageInv, InHands
      <3> QED
        BY <3>1 DEF UploadInv, StageInv
    <2>3. CASE g # f
      BY <2>1, <2>3, CarriedIsInHands DEF UploadInv, UploadedByOne
    <2> QED
      BY <2>2, <2>3
  <1>6. \A c \in Commits : c \notin S => notes'[c] = notes[c]
    BY <1>1 DEF MarkSynced, MarkFailed
  <1>7. \A c \in Commits : /\ notes'[c] = NoRow <=> notes[c] = NoRow
                           /\ notes[c] # NoRow => notes'[c].content = notes[c].content
    <2> SUFFICES ASSUME NEW c \in Commits, Exists(c)
                 PROVE  notes'[c] # NoRow /\ notes'[c].content = notes[c].content
      BY <1>1 DEF MarkSynced, MarkFailed, Exists, Unsynced
    <2> DEFINE y == [notes[c] EXCEPT !.synced = TRUE, !.lock = "free"]
               n == [notes[c] EXCEPT !.lock = "free", !.retry = "later",
                                     !.attempts = @ + 1]
    <2>0. notes[c] \in Rows /\ y \in Rows /\ n \in Rows
      BY <1>2, RowUpdates
    <2>c. y.content = notes[c].content /\ n.content = notes[c].content
      BY <2>0 DEF Rows
    <2>1. notes' = MarkSynced(S) => notes'[c] \in Rows /\ notes'[c].content = notes[c].content
      <3>1. notes' = MarkSynced(S) => notes'[c] = y \/ notes'[c] = notes[c]
        BY DEF MarkSynced
      <3> HIDE DEF y
      <3> QED
        BY <2>0, <2>c, <3>1
    <2>2. notes' = MarkFailed(S) => notes'[c] \in Rows /\ notes'[c].content = notes[c].content
      <3>1. notes' = MarkFailed(S) => notes'[c] = n \/ notes'[c] = notes[c]
        BY DEF MarkFailed
      <3> HIDE DEF n
      <3> QED
        BY <2>0, <2>c, <3>1
    <2> QED
      BY <1>1, <2>1, <2>2 DEF Exists
  <1>8. StageInv'
    BY <1>1, <1>2, <1>3 DEF UploadInv, StageInv, InHands
  <1>9. MutexInv'
    BY <1>1, <1>2 DEF UploadInv, MutexInv
  <1>10. ClaimInv'
    BY <1>1, <1>4 DEF UploadInv, ClaimInv, InUpload
  <1>11. CarryInv'
    <2> SUFFICES ASSUME NEW g \in Flushers, NEW e \in InHands(g)',
                        e.sha \notin raced, notes'[e.sha] # NoRow
                 PROVE  notes'[e.sha].content = e.content /\ notes'[e.sha].lock # "free"
      BY <1>1 DEF CarryInv, Exists
    <2>1. e \in InHands(g) /\ e.sha \in Commits
      BY <1>3, HandsTyped
    <2>2. e.sha \notin S
      BY <1>5
    <2> QED
      BY <1>6, <2>1, <2>2 DEF UploadInv, CarryInv, Exists
  <1>12. AnswerInv'
    BY <1>1, <1>2 DEF UploadInv, AnswerInv
  <1>13. UploadedByOne'
    BY <1>1, <1>4 DEF UploadInv, UploadedByOne
  <1>14. SyncedMatchesServer'
    <2> SUFFICES ASSUME NEW c \in Commits, notes'[c] # NoRow, notes'[c].synced,
                        c \notin raced
                 PROVE  notes'[c].content = server[c]
      BY <1>1 DEF SyncedMatchesServer, Exists
    <2>1. CASE Exists(c) /\ notes[c].synced
      BY <1>7, <2>1 DEF UploadInv, SyncedMatchesServer, Exists
    <2>2. CASE ~(Exists(c) /\ notes[c].synced)
      <3>1. Unsynced(c) /\ notes[c] \in Rows
        BY <1>2, <1>7, <2>2 DEF Unsynced, Exists
      <3>2. c \in S
        BY <1>6, <2>2, <1>7 DEF Exists
      <3>3. notes' = MarkSynced(S) /\ ok[f]
        <4>1. notes' = MarkFailed(S) => notes'[c].synced = notes[c].synced
          BY <3>1 DEF MarkFailed, Rows
        <4> QED
          BY <1>1, <3>1, <4>1 DEF Unsynced
      <3>4. PICK e \in sent[f] : e.sha = c
        BY <3>2
      <3>5. e \in InHands(f)
        BY DEF InHands
      <3>6. notes[c].content = e.content
        BY <3>1, <3>4, <3>5 DEF UploadInv, CarryInv, Unsynced
      <3>7. server[c] = e.content
        BY <3>3, <3>4 DEF UploadInv, AnswerInv
      <3> QED
        BY <1>7, <3>1, <3>6, <3>7 DEF Unsynced, Exists
    <2> QED
      BY <2>1, <2>2
  <1> QED
    BY <1>8, <1>9, <1>10, <1>11, <1>12, <1>13, <1>14 DEF UploadInv

\* No process of the command line, and no step before or after a flush's
\* upload, breaks the invariant.
LEMMA UploadNext == TypeOK /\ UploadInv /\ [Next]_vars => UploadInv'
  <1> SUFFICES ASSUME TypeOK, UploadInv, [Next]_vars PROVE UploadInv'
    OBVIOUS
  <1>r. \A c \in Commits : Exists(c) => notes[c] \in Rows
    BY DEF TypeOK, Exists
  <1>p. pc \in [Flushers -> Labels]
    BY DEF TypeOK
  <1>c. \A c \in Commits : InUpload(c) /\ c \notin raced /\ Exists(c) => notes[c].lock # "free"
    BY CarriedIsInHands DEF UploadInv, CarryInv, InUpload
  <1>s. \A c \in Commits : Exists(c) /\ notes[c].synced /\ c \notin raced
                             => notes[c].content = server[c]
    BY DEF UploadInv, SyncedMatchesServer
  <1>1. ASSUME NEW S \in SUBSET Commits, NEW new \in [S -> Contents], UpsertNotes(new)
        PROVE  UploadInv'
    <2>1. /\ notes' = [c \in Commits |-> IF c \in S THEN Upserted(c, new[c]) ELSE notes[c]]
          /\ raced' = raced \cup {c \in S : InUpload(c) /\ Changes(c, new[c])}
          /\ UNCHANGED <<picked, batch, sent, ok, server>>
          /\ \A f \in Flushers : pc'[f] = pc[f] \/ {pc[f], pc'[f]} \cap Busy = {}
      BY <1>1, <1>p DEF UpsertNotes, Busy
    <2>2. \A c \in Commits \ raced' : InUpload(c) => notes'[c] = notes[c]
      BY <2>1 DEF Upserted, Changes, Exists
    <2>3. \A c \in Commits : notes'[c] = notes[c] \/ ~notes'[c].synced
      <3>1. \A c \in S : Upserted(c, new[c]) = notes[c] \/ ~Upserted(c, new[c]).synced
        <4> SUFFICES ASSUME NEW c \in S, Exists(c), notes[c].content # new[c]
                     PROVE  ~Upserted(c, new[c]).synced
          BY DEF Upserted, Inserted
        <4>1. notes[c] \in Rows
          BY <1>r
        <4> QED
          BY <4>1 DEF Upserted, Rows
      <3> QED
        BY <2>1, <3>1
    <2> QED
      BY <1>s, <2>1, <2>2, <2>3, TableStep DEF Exists
  <1>2. ASSUME NEW c \in Commits, FetchNote(c) PROVE UploadInv'
    BY <1>2, <1>s, TableStep DEF FetchNote, flushVars, history, Exists
  <1>3. CASE CacheSyncedNotes
    <2> DEFINE S == {c \in Commits : fetched[c] # NoRow}
    <2>1. /\ notes' = [c \in Commits |-> IF c \in S THEN Cached(c, fetched[c]) ELSE notes[c]]
          /\ raced' = raced \cup {c \in S : InUpload(c) \/ Exists(c) \/ fetched[c] # server[c]}
          /\ UNCHANGED <<pc, picked, batch, sent, ok, server>>
      BY <1>3 DEF CacheSyncedNotes, flushVars
    <2>2. \A c \in Commits \ raced' : InUpload(c) => notes'[c] = notes[c]
      BY <2>1
    <2>3. \A c \in S \ raced' : notes'[c].content = server[c]
      <3>1. \A v : [Inserted(v) EXCEPT !.synced = TRUE].content = v
        BY DEF Inserted
      <3> QED
        BY <2>1, <3>1 DEF Cached
    <2>4. \A c \in Commits \ S : notes'[c] = notes[c]
      BY <2>1
    <2> HIDE DEF S
    <2> QED
      BY <1>s, <2>1, <2>2, <2>3, <2>4, TableStep DEF Exists
  <1>h. ASSUME notes' = AllHeld, raced' = raced \cup HoldRaces
        PROVE  /\ \A c \in Commits \ raced' : InUpload(c) => notes'[c] = notes[c]
               /\ \A c \in Commits : notes'[c] = notes[c] \/ (notes'[c] # NoRow => ~notes'[c].synced)
    <2>1. \A c \in Commits : Unsynced(c) => Held(c).synced = FALSE
      BY <1>r DEF Held, Unsynced, Rows
    <2> QED
      BY <1>h, <2>1 DEF AllHeld, HoldRaces
  <1>4. CASE HoldPendingUploads
    BY <1>4, <1>h, <1>s, TableStep DEF HoldPendingUploads, flushVars, Exists
  <1>5. CASE ReleaseHeldUploads
    <2>1. /\ notes' = [c \in Commits |->
                 IF Unsynced(c) /\ notes[c].retry = "held"
                 THEN [notes[c] EXCEPT !.retry = "due"] ELSE notes[c]]
          /\ UNCHANGED <<pc, picked, batch, sent, ok, server, raced>>
      BY <1>5 DEF ReleaseHeldUploads, flushVars
    <2>2. \A c \in Commits : notes[c] \in Rows =>
             LET r == [notes[c] EXCEPT !.retry = "due"] IN
             r.content = notes[c].content /\ r.lock = notes[c].lock /\ r.synced = notes[c].synced
      BY DEF Rows
    <2>3. \A c \in Commits : Exists(c) =>
             /\ notes'[c].content = notes[c].content
             /\ notes'[c].lock = notes[c].lock
             /\ notes'[c].synced = notes[c].synced
      BY <1>r, <2>1, <2>2
    <2>4. \A c \in Commits : notes[c] = NoRow => notes'[c] = NoRow
      BY <2>1 DEF Unsynced, Exists
    <2> QED
      BY <1>s, <2>1, <2>3, <2>4, TableStep DEF Exists
  <1>6. CASE DeletePending
    <2>1. /\ notes' = [c \in Commits |-> IF Unsynced(c) THEN NoRow ELSE notes[c]]
          /\ raced' = raced \cup HoldRaces
          /\ UNCHANGED <<pc, picked, batch, sent, ok, server>>
      BY <1>6 DEF DeletePending, flushVars
    <2> QED
      BY <1>s, <2>1, TableStep DEF Exists
  <1>7. CASE Tick
    BY <1>7, <1>p, <1>s, TableStep DEF Tick, Goto, Busy, Exists, history
  <1>8. ASSUME NEW f \in Flushers, Begin(f) PROVE UploadInv'
    <2>1. /\ UNCHANGED <<notes, picked, batch, sent, ok, server, raced>>
          /\ \A g \in Flushers : pc'[g] = pc[g] \/ {pc[g], pc'[g]} \cap Busy = {}
      BY <1>8, <1>p DEF Begin, Gate, Goto, Busy, history
    <2> QED
      BY <1>s, <2>1, TableStep DEF Exists
  <1>9. ASSUME NEW f \in Flushers, HoldLegacy(f) PROVE UploadInv'
    <2>1. /\ UNCHANGED <<picked, batch, sent, ok, server>>
          /\ \A g \in Flushers : pc'[g] = pc[g] \/ {pc[g], pc'[g]} \cap Busy = {}
      BY <1>9, <1>p DEF HoldLegacy, Goto, Busy
    <2>2. CASE notes' = AllHeld /\ raced' = raced \cup HoldRaces
      BY <1>h, <1>s, <2>1, <2>2, TableStep DEF Exists
    <2>3. CASE UNCHANGED <<notes, raced>>
      BY <1>s, <2>1, <2>3, TableStep DEF Exists
    <2> QED
      BY <1>9, <2>2, <2>3 DEF HoldLegacy
  <1>10. ASSUME NEW f \in Flushers, SaveMigrated(f) PROVE UploadInv'
    <2>1. /\ UNCHANGED <<notes, picked, batch, sent, ok, server, raced>>
          /\ \A g \in Flushers : pc'[g] = pc[g] \/ {pc[g], pc'[g]} \cap Busy = {}
      BY <1>10, <1>p DEF SaveMigrated, Gate, Goto, Busy, history
    <2> QED
      BY <1>s, <2>1, TableStep DEF Exists
  <1>11. ASSUME NEW f \in Flushers, EvictStaleCache(f) PROVE UploadInv'
    <2>1. /\ UNCHANGED <<picked, batch, sent, ok, server, raced>>
          /\ \A g \in Flushers : pc'[g] = pc[g] \/ {pc[g], pc'[g]} \cap Busy = {}
          /\ \A c \in Commits : notes'[c] = notes[c] \/ notes'[c] = NoRow
      BY <1>11, <1>p DEF EvictStaleCache, Goto, Busy, history
    <2> QED
      BY <1>s, <2>1, TableStep DEF Exists
  <1>12. CASE Crash
    BY <1>12 DEF Crash, UploadInv, StageInv, MutexInv, ClaimInv, CarryInv, AnswerInv,
                 UploadedByOne, SyncedMatchesServer, InHands, InUpload, Carried,
                 Exists, history
  <1>13. ASSUME NEW c \in Commits, RetryDue(c) PROVE UploadInv'
    <2>1. /\ notes' = [notes EXCEPT ![c].retry = "due"] /\ Exists(c)
          /\ UNCHANGED <<pc, picked, batch, sent, ok, server, raced>>
      BY <1>13 DEF RetryDue, flushVars, history
    <2>2. notes'[c].content = notes[c].content /\ notes'[c].lock = notes[c].lock
          /\ notes'[c].synced = notes[c].synced
      BY <1>r, <2>1 DEF TypeOK, Rows
    <2>3. \A d \in Commits : d # c => notes'[d] = notes[d]
      BY <2>1 DEF TypeOK
    <2> QED
      BY <1>s, <2>1, <2>2, <2>3, TableStep DEF Exists
  <1>14. ASSUME NEW c \in Commits, LockStale(c) PROVE UploadInv'
    <2>1. /\ notes' = [notes EXCEPT ![c].lock = "stale"] /\ Exists(c)
          /\ UNCHANGED <<pc, picked, batch, sent, ok, server, raced>>
      BY <1>14 DEF LockStale, flushVars, history
    <2>2. notes'[c].content = notes[c].content /\ notes'[c].lock = "stale"
          /\ notes'[c].synced = notes[c].synced
      BY <1>r, <2>1 DEF TypeOK, Rows
    <2>3. \A d \in Commits : d # c => notes'[d] = notes[d]
      BY <2>1 DEF TypeOK
    <2> QED
      BY <1>s, <2>1, <2>2, <2>3, TableStep DEF Exists
  <1>15. CASE BackoffOver
    BY <1>15, <1>s, TableStep DEF BackoffOver, flushVars, history, Exists
  <1>16. CASE UNCHANGED vars
    BY <1>16, <1>s, TableStep DEF vars, Exists
  <1> QED
    BY <1>1, <1>2, <1>3, <1>4, <1>5, <1>6, <1>7, <1>8, <1>9, <1>10, <1>11, <1>12,
       <1>13, <1>14, <1>15, <1>16, SelectStep, ClaimStep, SendStep, RecordStep
       DEF Next, Flush

LEMMA UploadInductive == Spec => [](TypeOK /\ UploadInv)
  <1>1. Init => TypeOK /\ UploadInv
    BY TypeInit, UploadInit
  <1>2. TypeOK /\ UploadInv /\ [Next]_vars => (TypeOK /\ UploadInv)'
    BY TypeNext, UploadNext
  <1> QED
    BY <1>1, <1>2, PTL DEF Spec

\* Concurrent flushes never upload the same note, unless its row was changed
\* behind the upload.
THEOREM OneUploader == Spec => []UploadedByOne
  <1>1. UploadInv => UploadedByOne
    BY DEF UploadInv
  <1> QED
    BY <1>1, UploadInductive, PTL

\* A row is marked synced only when the platform holds its content, whatever
\* fails or crashes, unless the row was changed behind an upload or a read.
THEOREM SyncedIsUploaded == Spec => []SyncedMatchesServer
  <1>1. UploadInv => SyncedMatchesServer
    BY DEF UploadInv
  <1> QED
    BY <1>1, UploadInductive, PTL

----------------------------------------------------------------------------
(* The backlog of an earlier version *)

LEMMA LegacyInit == Init => LegacyInv
  BY DEF Init, LegacyInv, Waiting, Migrating, Carried, Unsynced, Exists

\* A step that takes no blocked note in hand and leaves blocked rows as they are.
LEMMA BlockedKept ==
  ASSUME TypeOK, LegacyInv,
         blocked' \subseteq blocked,
         \A c \in blocked' : notes'[c] = notes[c],
         migrated' \/ Migrating' => migrated \/ Migrating,
         \A f \in Flushers : \A c \in blocked' :
           c \notin picked[f] /\ c \notin Carried(f)
             => c \notin picked'[f] /\ c \notin Carried(f)'
  PROVE  LegacyInv'
  <1>1. \A c \in blocked' : c \in blocked /\ notes'[c] = notes[c]
    OBVIOUS
  <1>2. \A c \in blocked' : Unsynced(c)'
    BY <1>1 DEF LegacyInv, Unsynced, Exists
  <1>3. \A c \in blocked' : migrated' \/ Migrating' => notes'[c].retry = "held"
    BY <1>1 DEF LegacyInv
  <1>4. \A c \in blocked' : \A f \in Flushers : c \notin picked'[f] /\ c \notin Carried(f)'
    BY <1>1 DEF LegacyInv
  <1> QED
    BY <1>2, <1>3, <1>4 DEF LegacyInv

LEMMA LegacyNext ==
  ASSUME TypeOK, LegacyInv, [Next]_vars
  PROVE  LegacyInv'
  <1>r. /\ \A c \in Commits : Exists(c) => notes[c] \in Rows
        /\ pc \in [Flushers -> Labels] /\ blocked \subseteq Commits
        /\ picked \in [Flushers -> SUBSET Commits]
        /\ sent \in [Flushers -> SUBSET Entries]
        /\ batch \in [Flushers -> SUBSET Entries]
    BY DEF TypeOK, Exists
  <1>b. \A c \in blocked : c \in Commits /\ Unsynced(c)
    BY <1>r DEF LegacyInv
  <1>1. ASSUME NEW S \in SUBSET Commits, NEW new \in [S -> Contents], UpsertNotes(new)
        PROVE  LegacyInv'
    <2>1. \A c \in blocked' : c \in blocked /\ notes'[c] = notes[c]
      BY <1>1, <1>b DEF UpsertNotes, Changes, Upserted, Exists
    <2>2. Migrating' => Migrating
      BY <1>1, <1>r DEF UpsertNotes, Migrating
    <2> QED
      BY <1>1, <2>1, <2>2, BlockedKept DEF UpsertNotes, Carried
  <1>2. ASSUME NEW c \in Commits, FetchNote(c) PROVE LegacyInv'
    BY <1>2, BlockedKept DEF FetchNote, flushVars, bounds, history, Carried, Migrating
  <1>3. CASE CacheSyncedNotes
    BY <1>3, <1>b, BlockedKept DEF CacheSyncedNotes, flushVars, bounds, Carried, Migrating
  <1>4. CASE HoldPendingUploads
    <2>1. notes' = AllHeld /\ picked' = picked /\ batch' = batch /\ sent' = sent
      BY <1>4 DEF HoldPendingUploads, flushVars
    <2>2. ASSUME NEW c \in blocked'
          PROVE  /\ c \in Commits /\ Unsynced(c)
                 /\ \A f \in Flushers : c \notin picked[f] /\ c \notin Carried(f)
      <3>1. CASE c \in blocked
        BY <1>b, <3>1 DEF LegacyInv
      <3>2. CASE c \notin blocked
        <4>1. c \in {d \in Waiting : ~Underway(d)}
          BY <1>4, <3>2 DEF HoldPendingUploads
        <4>2. c \in Waiting /\ ~Underway(c)
          BY <4>1
        <4> QED
          BY <4>2 DEF Waiting, Underway
      <3> QED
        BY <3>1, <3>2
    <2>3. ASSUME NEW c \in blocked' PROVE Unsynced(c)' /\ notes'[c].retry = "held"
      <3>1. c \in Commits /\ Unsynced(c) /\ notes[c] \in Rows
        BY <1>r, <2>2 DEF Unsynced
      <3>2. Held(c) \in Rows
        BY <3>1, RowUpdates DEF Held
      <3>3. Held(c).retry = "held" /\ Held(c).synced = notes[c].synced
        BY <3>1 DEF Held, Rows
      <3>4. notes'[c] = Held(c) \/ (notes'[c] = notes[c] /\ notes[c].retry = "held")
        BY <2>1, <3>1 DEF AllHeld
      <3> QED
        BY <3>1, <3>2, <3>3, <3>4, RowAssumption DEF Unsynced, Exists
    <2> QED
      BY <2>1, <2>2, <2>3 DEF LegacyInv, Carried
  <1>5. CASE ReleaseHeldUploads
    BY <1>5 DEF ReleaseHeldUploads, LegacyInv, bounds
  <1>6. CASE DeletePending
    BY <1>6 DEF DeletePending, LegacyInv, bounds
  <1>7. CASE Tick
    BY <1>7, <1>r, BlockedKept DEF Tick, Goto, bounds, history, Carried, Migrating
  <1>8. ASSUME NEW f \in Flushers, Begin(f) PROVE LegacyInv'
    <2>1. migrated' \/ Migrating' => migrated \/ Migrating
      BY <1>8, <1>r DEF Begin, Gate, Goto, Migrating
    <2> QED
      BY <1>8, <2>1, BlockedKept DEF Begin, history, Carried
  <1>9. ASSUME NEW f \in Flushers, HoldLegacy(f) PROVE LegacyInv'
    <2>1. UNCHANGED <<holds, blocked, picked, batch, sent, migrated>>
      BY <1>9 DEF HoldLegacy
    <2>2. CASE notes' = AllHeld
      <3>1. \A c \in blocked : notes'[c] \in Rows /\ notes'[c].retry = "held"
                               /\ ~notes'[c].synced
        <4> SUFFICES ASSUME NEW c \in blocked
                     PROVE  notes'[c] \in Rows /\ notes'[c].retry = "held"
                            /\ ~notes'[c].synced
          OBVIOUS
        <4>1. c \in Commits /\ Unsynced(c) /\ notes[c] \in Rows
          BY <1>b, <1>r DEF Unsynced
        <4>2. Held(c) \in Rows
          BY <4>1, RowUpdates DEF Held
        <4>3. Held(c).retry = "held" /\ Held(c).synced = notes[c].synced
          BY <4>1 DEF Held, Rows
        <4>4. notes'[c] = Held(c) \/ (notes'[c] = notes[c] /\ notes[c].retry = "held")
          BY <2>2, <4>1 DEF AllHeld
        <4> QED
          BY <4>1, <4>2, <4>3, <4>4 DEF Unsynced
      <3> QED
        BY <2>1, <3>1, RowAssumption DEF LegacyInv, Unsynced, Exists, Carried
    <2>3. CASE Goto(f, "idle") /\ UNCHANGED notes
      BY <1>r, <2>1, <2>3, BlockedKept DEF Goto, Carried, Migrating
    <2> QED
      BY <1>9, <2>2, <2>3 DEF HoldLegacy
  <1>10. ASSUME NEW f \in Flushers, SaveMigrated(f) PROVE LegacyInv'
    <2>1. Migrating
      BY <1>10 DEF SaveMigrated, Migrating
    <2> QED
      BY <1>10, <2>1, BlockedKept DEF SaveMigrated, history, Carried
  <1>11. ASSUME NEW f \in Flushers, DequeueSelect(f) PROVE LegacyInv'
    <2>1. /\ notes' = Unlocked
          /\ UNCHANGED <<holds, blocked, batch, sent, migrated>>
          /\ pc[f] = "select"
      BY <1>11 DEF DequeueSelect, bounds
    <2>2. PICK S \in Batches : picked' = [picked EXCEPT ![f] = S]
      BY <1>11 DEF DequeueSelect
    <2>3. Migrating
      BY <2>1 DEF Migrating
    <2>4. \A c \in blocked : notes[c].retry = "held"
      BY <2>3 DEF LegacyInv
    <2>5. \A c \in S : c \notin blocked
      BY <2>4 DEF Batches, Eligible
    <2>6. \A c \in blocked : notes'[c] \in Rows /\ notes'[c].retry = "held"
                             /\ ~notes'[c].synced
      <3> SUFFICES ASSUME NEW c \in blocked
                   PROVE  notes'[c] \in Rows /\ notes'[c].retry = "held"
                          /\ ~notes'[c].synced
        OBVIOUS
      <3>1. c \in Commits /\ Unsynced(c) /\ notes[c] \in Rows
        BY <1>b, <1>r DEF Unsynced
      <3> DEFINE u == [notes[c] EXCEPT !.lock = "free"]
      <3>2. u \in Rows
        BY <3>1, RowUpdates DEF Locks
      <3>3. u.retry = notes[c].retry /\ u.synced = notes[c].synced
        BY <3>1 DEF Rows
      <3>4. notes'[c] = u \/ notes'[c] = notes[c]
        BY <2>1, <3>1 DEF Unlocked
      <3> HIDE DEF u
      <3> QED
        BY <2>4, <3>1, <3>2, <3>3, <3>4 DEF Unsynced
    <2> QED
      BY <1>r, <2>1, <2>2, <2>5, <2>6, RowAssumption
         DEF LegacyInv, Unsynced, Exists, Carried
  <1>12. ASSUME NEW f \in Flushers, DequeueClaim(f) PROVE LegacyInv'
    <2> DEFINE S == {c \in picked[f] : Exists(c)}
               B == {[sha |-> c, content |-> notes[c].content] : c \in S}
    <2>1. /\ notes' = [c \in Commits |-> IF c \in S THEN [notes[c] EXCEPT !.lock = "fresh"]
                                         ELSE notes[c]]
          /\ batch' = [batch EXCEPT ![f] = B]
          /\ picked' = [picked EXCEPT ![f] = {}]
          /\ UNCHANGED <<holds, blocked, sent, migrated>>
          /\ pc[f] = "claim"
      BY <1>12 DEF DequeueClaim, bounds, history
    <2>2. \A c \in blocked : c \notin S
      BY DEF LegacyInv
    <2>3. \A e \in B : e.sha \in S
      OBVIOUS
    <2>4. Migrating
      BY <2>1 DEF Migrating
    <2>5. \A c \in blocked : notes'[c] = notes[c]
      BY <1>b, <2>1, <2>2
    <2>6. \A g \in Flushers : \A c \in blocked : c \notin Carried(g) => c \notin Carried(g)'
      <3> HIDE DEF B, S
      <3> QED
        BY <1>r, <2>1, <2>2, <2>3 DEF Carried
    <2>7. \A g \in Flushers : picked'[g] \subseteq picked[g]
      BY <1>r, <2>1
    <2> QED
      BY <2>1, <2>4, <2>5, <2>6, <2>7, BlockedKept
  <1>13. ASSUME NEW f \in Flushers, NEW o, UploadNotes(f, o) PROVE LegacyInv'
    <2>1. /\ UNCHANGED <<notes, holds, blocked, migrated, picked>>
          /\ pc[f] = "send"
          /\ \A g \in Flushers : batch'[g] \cup sent'[g] \subseteq batch[g] \cup sent[g]
      BY <1>13, <1>r DEF UploadNotes, bounds, history
    <2>2. Migrating
      BY <2>1 DEF Migrating
    <2> QED
      BY <2>1, <2>2, BlockedKept DEF Carried
  <1>14. ASSUME NEW f \in Flushers, RecordAnswer(f) PROVE LegacyInv'
    <2> DEFINE S == {e.sha : e \in sent[f]}
    <2>1. /\ UNCHANGED <<holds, blocked, migrated, picked>>
          /\ pc[f] = "answer"
          /\ notes' = MarkSynced(S) \/ notes' = MarkFailed(S) \/ notes' = notes
          /\ \A g \in Flushers : batch'[g] \cup sent'[g] \subseteq batch[g] \cup sent[g]
      BY <1>14, <1>r DEF RecordAnswer, history
    <2>2. \A c \in S : c \in Carried(f)
      BY DEF Carried
    <2>3. \A c \in blocked : c \notin S
      BY <2>2 DEF LegacyInv
    <2>4. \A c \in blocked : notes'[c] = notes[c]
      BY <1>b, <2>1, <2>3 DEF MarkSynced, MarkFailed
    <2>5. Migrating
      BY <2>1 DEF Migrating
    <2> QED
      BY <2>1, <2>4, <2>5, BlockedKept DEF Carried
  <1>15. ASSUME NEW f \in Flushers, EvictStaleCache(f) PROVE LegacyInv'
    <2>1. /\ UNCHANGED <<holds, blocked, migrated, picked, batch, sent>>
          /\ pc[f] = "evict"
          /\ \A c \in Commits : Unsynced(c) => notes'[c] = notes[c]
      BY <1>15 DEF EvictStaleCache, SyncedRows, Unsynced, bounds, history
    <2>2. Migrating
      BY <2>1 DEF Migrating
    <2> QED
      BY <1>b, <2>1, <2>2, BlockedKept DEF Carried
  <1>16. CASE Crash
    <2>1. ~Migrating' /\ UNCHANGED <<holds, blocked, migrated, notes>>
      BY <1>16 DEF Crash, Migrating, history
    <2> QED
      BY <1>16, <2>1, BlockedKept DEF Crash, Carried
  <1>17. ASSUME NEW c \in Commits, RetryDue(c) PROVE LegacyInv'
    <2>1. /\ notes' = [notes EXCEPT ![c].retry = "due"]
          /\ notes[c].retry = "later" /\ notes[c] \in Rows
          /\ UNCHANGED <<holds, blocked, migrated, picked, batch, sent, pc>>
      BY <1>17, <1>r DEF RetryDue, flushVars, bounds, history
    <2>2. notes'[c] \in Rows /\ notes'[c].synced = notes[c].synced
      <3> DEFINE u == [notes[c] EXCEPT !.retry = "due"]
      <3>1. notes'[c] = u
        BY <2>1 DEF TypeOK
      <3>2. u \in Rows
        BY <2>1, RowUpdates DEF Locks
      <3>3. u.synced = notes[c].synced
        BY <2>1 DEF Rows
      <3> HIDE DEF u
      <3> QED
        BY <3>1, <3>2, <3>3
    <2>3. \A d \in Commits : d # c => notes'[d] = notes[d]
      BY <2>1 DEF TypeOK
    <2>4. \A d \in blocked : Unsynced(d)'
      BY <1>b, <2>2, <2>3, RowAssumption DEF Unsynced, Exists
    <2>5. \A d \in blocked : migrated' \/ Migrating' => d # c /\ notes'[d].retry = "held"
      BY <1>b, <2>1, <2>3 DEF LegacyInv, Migrating
    <2> QED
      BY <2>1, <2>4, <2>5 DEF LegacyInv, Carried
  <1>18. ASSUME NEW c \in Commits, LockStale(c) PROVE LegacyInv'
    <2>1. /\ notes' = [notes EXCEPT ![c].lock = "stale"] /\ notes[c] \in Rows
          /\ UNCHANGED <<holds, blocked, migrated, picked, batch, sent, pc>>
      BY <1>18, <1>r DEF LockStale, flushVars, bounds, history
    <2>2. notes'[c] \in Rows /\ notes'[c].synced = notes[c].synced
          /\ notes'[c].retry = notes[c].retry
      <3> DEFINE u == [notes[c] EXCEPT !.lock = "stale"]
      <3>1. notes'[c] = u
        BY <2>1 DEF TypeOK
      <3>2. u \in Rows
        BY <2>1, RowUpdates DEF Locks
      <3>3. u.synced = notes[c].synced /\ u.retry = notes[c].retry
        BY <2>1 DEF Rows
      <3> HIDE DEF u
      <3> QED
        BY <3>1, <3>2, <3>3
    <2>3. \A d \in Commits : d # c => notes'[d] = notes[d]
      BY <2>1 DEF TypeOK
    <2>4. \A d \in blocked : Unsynced(d)'
      BY <1>b, <2>2, <2>3, RowAssumption DEF Unsynced, Exists
    <2>5. \A d \in blocked : migrated' \/ Migrating' => notes'[d].retry = "held"
      BY <1>b, <2>1, <2>2, <2>3 DEF LegacyInv, Migrating
    <2> QED
      BY <2>1, <2>4, <2>5 DEF LegacyInv, Carried
  <1>19. CASE BackoffOver
    BY <1>19, BlockedKept DEF BackoffOver, flushVars, bounds, history, Carried, Migrating
  <1>20. CASE UNCHANGED vars
    BY <1>20, BlockedKept DEF vars, Carried, Migrating
  <1> QED
    BY <1>1, <1>2, <1>3, <1>4, <1>5, <1>6, <1>7, <1>8, <1>9, <1>10, <1>11, <1>12,
       <1>13, <1>14, <1>15, <1>16, <1>17, <1>18, <1>19, <1>20 DEF Next, Flush

\* A step that reads rows for upload reads none that is blocked.
LEMMA ReadsUnblocked ==
  ASSUME TypeOK, LegacyInv, [Next]_vars
  PROVE  \A f \in Flushers : \A e \in batch'[f] \ batch[f] : e.sha \notin blocked
  <1> SUFFICES ASSUME NEW g \in Flushers, NEW e \in batch'[g], e \notin batch[g]
               PROVE  e.sha \notin blocked
    OBVIOUS
  <1>t. batch \in [Flushers -> SUBSET Entries]
    BY DEF TypeOK
  <1>1. \E f \in Flushers : DequeueClaim(f)
    <2>1. CASE \E f \in Flushers : DequeueClaim(f)
      BY <2>1
    <2>2. CASE UNCHANGED batch
      BY <2>2
    <2>3. CASE \E f \in Flushers : \E o : UploadNotes(f, o)
      BY <2>3, <1>t DEF UploadNotes
    <2>4. CASE Crash
      BY <2>4 DEF Crash
    <2> QED
      BY <2>1, <2>2, <2>3, <2>4
         DEF Next, Flush, vars, UpsertNotes, FetchNote, CacheSyncedNotes,
             HoldPendingUploads, ReleaseHeldUploads, DeletePending, Tick, Begin,
             HoldLegacy, SaveMigrated, DequeueSelect, RecordAnswer,
             EvictStaleCache, RetryDue, LockStale, BackoffOver, flushVars
  <1>2. PICK f \in Flushers : DequeueClaim(f)
    BY <1>1
  <1>3. g = f /\ e.sha \in picked[f]
    BY <1>2, <1>t DEF DequeueClaim
  <1> QED
    BY <1>3 DEF LegacyInv

\* No flush ever reads for upload a note an earlier version queued, nor one the
\* user held while no flush had it in its hands, until the user releases it: two
\* migrations may race, the marker may fail to be written and the daemon may
\* die at any step.
THEOREM HeldNotesWait == Spec => NoHeldDequeue
  <1>1. Init => TypeOK /\ LegacyInv
    BY TypeInit, LegacyInit
  <1>2. TypeOK /\ LegacyInv /\ [Next]_vars => (TypeOK /\ LegacyInv)'
    BY TypeNext, LegacyNext
  <1>3. TypeOK /\ LegacyInv /\ [Next]_vars =>
          [\A f \in Flushers : \A e \in batch'[f] \ batch[f] :
             e.sha \notin blocked]_vars
    BY ReadsUnblocked
  <1> QED
    BY <1>1, <1>2, <1>3, PTL DEF Spec, NoHeldDequeue

=============================================================================
