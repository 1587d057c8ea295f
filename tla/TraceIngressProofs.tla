------------------------- MODULE TraceIngressProofs -------------------------
(***************************************************************************)
(* Proofs about TraceIngress, for every set of git processes, every script *)
(* they write, every capacity of the queue and every number of killed      *)
(* processes and failures.                                                 *)
(***************************************************************************)
EXTENDS TraceIngress, FiniteSetTheorems, TLAPS

\* Payloads that have a number and are not yet processed.
Transit ==
  {payload[c] : c \in Sending} \cup {channel[i] : i \in DOMAIN channel} \cup buffer

\* What a thread has in its hands: its last line, or its root's fallback.
HandInv ==
  \A c \in Conns :
    /\ payload[c].conn = c
    /\ payload[c].idx = IF payload[c].fallback THEN read[c] + 1 ELSE read[c]
    /\ payload[c].fallback => pc[c] \in {"stamp", "send", "done"}

\* Each number is in one place; the worker is at most one behind.
NumberInv == next <= stamped + 1 /\ StampedInOnePlace

\* A connection's payloads are numbered in the order of its lines, and come
\* after those already processed.
OrderInv ==
  worker # "stopped" =>
    /\ \A c \in Conns :
         /\ handled[c] <= payload[c].idx
         /\ pc[c] \in {"augment", "capture", "stamp"} => handled[c] < payload[c].idx
    /\ \A p \in Transit :
         /\ handled[p.conn] < p.idx
         /\ p.idx <= payload[p.conn].idx
         /\ pc[p.conn] \in {"augment", "capture", "stamp"} =>
              p.idx < payload[p.conn].idx
    /\ \A p, q \in Transit : p.conn = q.conn /\ p.seq < q.seq => p.idx < q.idx

\* What the assumption on the constants says of their types.
LEMMA ConstantsType ==
  /\ RootOf \in [Conns -> Roots]
  /\ RootConn \in [Roots -> Conns]
  /\ \A c \in Conns : RootOf[c] \in Roots
  /\ \A c \in Conns : \A i \in 1 .. Len(Script[c]) : Script[c][i] \in Events
  <1>1. \A c \in Conns : Script[c] \in Seq(Events)
    BY IngressAssumption DEF IngressAssumption
  <1> QED
    BY <1>1, IngressAssumption DEF IngressAssumption

----------------------------------------------------------------------------
(* Types *)

LEMMA PayloadType ==
  ASSUME NEW c \in Conns, NEW i \in Nat, NEW e \in Events, NEW f \in BOOLEAN
  PROVE  Payload(c, i, e, f) \in Payloads
  BY DEF Payload, Payloads

LEMMA StampedType ==
  ASSUME NEW p \in Payloads, NEW n \in Nat
  PROVE  [p EXCEPT !.seq = n] \in Payloads
  BY DEF Payloads

LEMMA LearnedType ==
  ASSUME TypeOK, NEW r \in Roots, NEW p
  PROVE  Learned(r, p) \subseteq {"argv", "worktree", "command", "mutates", "offsets"}
  <1>1. known[r] \subseteq {"argv", "worktree", "command", "mutates", "offsets"}
    BY DEF TypeOK
  <1> QED
    BY <1>1 DEF Learned

\* Every step of the worker that may end a root keeps the normalizer's types.
LEMMA NormalizerType ==
  ASSUME TypeOK, NEW p \in buffer, Ingest(p)
  PROVE  /\ pending' \subseteq Roots
         /\ deferred' \in [Roots -> {"no", "exit", "fallback"}]
         /\ completed' \subseteq Roots
         /\ slots' \subseteq Roots
         /\ clearing' \subseteq Roots
         /\ ended' \in [Roots -> {"no", "exit", "fallback"}]
         /\ errors' \in Nat
  <1> DEFINE r == RootOf[p.conn]
             by == {"no", "exit", "fallback"}
  <1>1. r \in Roots
    BY ConstantsType DEF TypeOK, Payloads
  <1>2. EndedBy(p) \in by
    BY DEF EndedBy
  <1>3. /\ pending \subseteq Roots /\ completed \subseteq Roots /\ slots \subseteq Roots
        /\ clearing \subseteq Roots /\ errors \in Nat
        /\ deferred \in [Roots -> by] /\ ended \in [Roots -> by]
    BY DEF TypeOK
  <1>4. ASSUME NEW b \in by, Finalize(r, b)
        PROVE  /\ pending' \subseteq Roots /\ completed' \subseteq Roots
               /\ clearing' \subseteq Roots /\ errors' \in Nat
               /\ ended' \in [Roots -> by]
    BY <1>1, <1>3, <1>4 DEF Finalize, Fault
  <1>5. /\ pending' \subseteq Roots /\ completed' \subseteq Roots
        /\ clearing' \subseteq Roots /\ errors' \in Nat
        /\ ended' \in [Roots -> by] /\ deferred' \in [Roots -> by]
    <2>1. CASE HandleStart(r)
      <3>1. deferred[r] \in by
        BY <1>1, <1>3
      <3> QED
        BY <1>1, <1>3, <1>4, <2>1, <3>1 DEF HandleStart
    <2>2. CASE HandleExit(r, p)
      BY <1>1, <1>2, <1>3, <1>4, <2>2 DEF HandleExit
    <2>3. CASE UNCHANGED <<pending, deferred, completed, ended, clearing, errors>>
      BY <1>3, <2>3
    <2> QED
      BY <2>1, <2>2, <2>3 DEF Ingest
  <1>6. slots' \subseteq Roots
    BY <1>1, <1>3 DEF Ingest
  <1> QED
    BY <1>5, <1>6

LEMMA TypeNext == TypeOK /\ [Next]_vars => TypeOK'
  <1> SUFFICES ASSUME TypeOK, [Next]_vars PROVE TypeOK'
    OBVIOUS
  <1>a. ASSUME NEW c \in Conns, Thread(c) PROVE TypeOK'
    <2>1. CASE Read(c)
      <3>1. read[c] + 1 \in Nat /\ read[c] + 1 \in 1 .. Len(Script[c])
        <4>1. Len(Script[c]) \in Nat
          BY IngressAssumption DEF IngressAssumption
        <4> QED
          BY <2>1, <4>1 DEF Read, TypeOK
      <3>2. Payload(c, read[c] + 1, Script[c][read[c] + 1], FALSE) \in Payloads
        BY <3>1, ConstantsType, PayloadType
      <3>3. payload' \in [Conns -> Payloads]
        BY <2>1, <3>2 DEF Read, TypeOK
      <3>4. open' \in [Roots -> Nat] /\ read' \in [Conns -> Nat]
        <4>1. RootOf[c] \in Roots /\ open[RootOf[c]] + 1 \in Nat
          BY ConstantsType DEF TypeOK
        <4>2. read' = [read EXCEPT ![c] = read[c] + 1]
          BY <2>1 DEF Read
        <4>3. \/ open' = open
              \/ open' = [open EXCEPT ![RootOf[c]] = open[RootOf[c]] + 1]
          BY <2>1 DEF Read
        <4> QED
          <5>1. open \in [Roots -> Nat] /\ read \in [Conns -> Nat]
            BY DEF TypeOK
          <5>2. open' \in [Roots -> Nat]
            BY <4>1, <4>3, <5>1
          <5> QED
            BY <3>1, <4>2, <5>1, <5>2
      <3> QED
        BY <2>1, <3>3, <3>4 DEF Read, Goto, TypeOK, Labels, workerVars, normVars, bounds, history
    <2>2. CASE EndOfFile(c)
      BY <2>2 DEF EndOfFile, Goto, TypeOK, Labels, ingressVars, workerVars, normVars, history
    <2>3. CASE AugmentReadOnly(c)
      <3>1. known' \in [Roots -> SUBSET {"argv", "worktree", "command", "mutates", "offsets"}]
        <4>1. RootOf[c] \in Roots
          BY ConstantsType
        <4>2. Learned(RootOf[c], payload[c]) \cup {"command"} \subseteq {"argv", "worktree", "command", "mutates", "offsets"}
          BY <4>1, LearnedType
        <4>3. CASE Terminal(payload[c])
          BY <2>3, <4>1, <4>3 DEF AugmentReadOnly, TypeOK
        <4>4. CASE ~Terminal(payload[c])
          <5>1. known' = [known EXCEPT ![RootOf[c]] =
                            Learned(RootOf[c], payload[c]) \cup {"command"}]
            BY <2>3, <4>4 DEF AugmentReadOnly
          <5> QED
            BY <4>1, <4>2, <5>1 DEF TypeOK
        <4> QED
          BY <4>3, <4>4
      <3>2. readOnly' \subseteq Roots
        BY SMTT(30), <2>3, ConstantsType DEF AugmentReadOnly, TypeOK
      <3> QED
        BY <2>3, <3>1, <3>2 DEF AugmentReadOnly, Goto, TypeOK, Labels, workerVars, normVars, bounds, history
    <2>4. CASE Augment(c)
      <3>1. known' \in [Roots -> SUBSET {"argv", "worktree", "command", "mutates", "offsets"}]
        BY SMTT(30), <2>4, ConstantsType, LearnedType DEF Augment, TypeOK
      <3> QED
        BY <2>4, <3>1 DEF Augment, Goto, TypeOK, Labels, workerVars, normVars, bounds, history
    <2>5. CASE CaptureReflogs(c)
      BY <2>5 DEF CaptureReflogs, Goto, TypeOK, Labels, workerVars, normVars, bounds, history
    <2>6. CASE Stamp(c)
      <3>1. payload[c] \in Payloads /\ stamped + 1 \in Nat
        BY DEF TypeOK
      <3>2. [payload[c] EXCEPT !.seq = stamped + 1] \in Payloads
        BY <3>1, StampedType
      <3>3. payload' \in [Conns -> Payloads]
        BY <2>6, <3>2 DEF Stamp, TypeOK
      <3> QED
        BY <2>6, <3>1, <3>3 DEF Stamp, Goto, TypeOK, Labels, ingressVars, workerVars, normVars, bounds, history
    <2>7. CASE Enqueue(c)
      <3>1. payload[c] \in Payloads /\ channel \in Seq(Payloads)
        BY DEF TypeOK
      <3>2. channel' \in Seq(Payloads)
        BY <2>7, <3>1 DEF Enqueue
      <3> QED
        BY <2>7, <3>2 DEF Enqueue, Goto, TypeOK, Labels, ingressVars, workerVars, normVars, bounds, history
    <2>8. CASE RecordClose(c)
      <3>1. open' \in [Roots -> Nat]
        <4>1. RootOf[c] \in Roots /\ open[RootOf[c]] \in Nat
          BY ConstantsType DEF TypeOK
        <4> QED
          BY <2>8, <4>1 DEF RecordClose, TypeOK
      <3> QED
        BY <2>8, <3>1 DEF RecordClose, Goto, TypeOK, Labels, workerVars, normVars, bounds, history
    <2>9. CASE EnqueueFallback(c)
      <3>1. Payload(c, read[c] + 1, "atexit", TRUE) \in Payloads
        <4>1. read[c] + 1 \in Nat /\ "atexit" \in Events
          BY DEF TypeOK, Events
        <4> QED
          BY <4>1, PayloadType
      <3>2. payload' \in [Conns -> Payloads]
        BY <2>9, <3>1 DEF EnqueueFallback, TypeOK
      <3>3. early' \subseteq Roots /\ fallback' \subseteq Roots
        <4>1. RootOf[c] \in Roots
          BY ConstantsType
        <4> QED
          <5>1. early \subseteq Roots /\ fallback \subseteq Roots
            BY DEF TypeOK
          <5>2. /\ early' \subseteq early \cup {RootOf[c]}
                /\ fallback' \subseteq fallback \cup {RootOf[c]}
            BY <2>9 DEF EnqueueFallback
          <5> QED
            BY <4>1, <5>1, <5>2
      <3>4. pc' \in [Conns -> Labels]
        BY <2>9 DEF EnqueueFallback, Goto, TypeOK, Labels
      <3> QED
        BY <2>9, <3>2, <3>3, <3>4 DEF EnqueueFallback, TypeOK, workerVars, normVars, bounds
    <2> QED
      BY <1>a, <2>1, <2>2, <2>3, <2>4, <2>5, <2>6, <2>7, <2>8, <2>9 DEF Thread
  <1>b. ASSUME NEW c \in Conns, ReadFails(c) PROVE TypeOK'
    BY <1>b DEF ReadFails, Fault, Goto, TypeOK, Labels, ingressVars, workerVars, normVars, history
  <1>c. CASE Receive
    <2>1. channel \in Seq(Payloads) /\ channel # <<>> /\ buffer \subseteq Payloads
      BY <1>c DEF Receive, TypeOK
    <2>2. Head(channel) \in Payloads /\ Tail(channel) \in Seq(Payloads)
      BY <2>1
    <2>3. channel' \in Seq(Payloads) /\ buffer' \subseteq Payloads
      <3>1. CASE Stopped /\ UNCHANGED buffer
        BY <2>1, <3>1 DEF Stopped
      <3>2. CASE buffer' = buffer \cup {Head(channel)} /\ channel' = Tail(channel)
        BY <2>1, <2>2, <3>2
      <3> QED
        BY <1>c, <3>1, <3>2 DEF Receive
    <2> QED
      BY <1>c, <2>3 DEF Receive, Stopped, TypeOK, threadVars, ingressVars, normVars, bounds, history
  <1>d. CASE StopWorker
    BY <1>d DEF StopWorker, Stopped, TypeOK, threadVars, ingressVars, normVars, bounds, history
  <1>e. ASSUME NEW p \in buffer, Ingest(p) PROVE TypeOK'
    <2>1. handled' \in [Conns -> Nat]
      BY <1>e DEF Ingest, TypeOK, Payloads
    <2>2. buffer' \subseteq Payloads /\ next' \in Nat /\ worker' \in {"drain", "clear"}
      BY <1>e DEF Ingest, TypeOK
    <2>3. /\ pending' \subseteq Roots /\ completed' \subseteq Roots
          /\ slots' \subseteq Roots /\ clearing' \subseteq Roots
          /\ deferred' \in [Roots -> {"no", "exit", "fallback"}]
          /\ ended' \in [Roots -> {"no", "exit", "fallback"}]
          /\ errors' \in Nat
      BY <1>e, NormalizerType
    <2> QED
      BY <1>e, <2>1, <2>2, <2>3 DEF Ingest, TypeOK, threadVars, ingressVars
  <1>f. ASSUME NEW r \in Roots, ClearRoot(r) PROVE TypeOK'
    BY <1>f DEF ClearRoot, TypeOK, threadVars, normVars, bounds, history
  <1>g. CASE Drained
    BY <1>g DEF Drained, TypeOK, threadVars, ingressVars, normVars, bounds, history
  <1>h. CASE RequestShutdown
    BY <1>h DEF RequestShutdown, TypeOK, threadVars, ingressVars, workerVars, normVars, bounds, history
  <1>i. CASE UNCHANGED vars
    BY <1>i DEF vars, TypeOK, threadVars, ingressVars, workerVars, normVars, bounds, history
  <1> QED
    BY <1>a, <1>b, <1>c, <1>d, <1>e, <1>f, <1>g, <1>h, <1>i DEF Next, Worker

LEMMA TypeInit == Init => TypeOK
  <1> SUFFICES ASSUME Init PROVE TypeOK
    OBVIOUS
  <1>1. \A c \in Conns : NoPayload(c) \in Payloads
    BY PayloadType DEF NoPayload, Events
  <1>2. payload \in [Conns -> Payloads]
    BY <1>1 DEF Init
  <1>3. channel \in Seq(Payloads)
    BY DEF Init
  <1> QED
    BY <1>2, <1>3 DEF Init, TypeOK, Labels

\* The type invariant.
THEOREM TypeCorrect == Spec => []TypeOK
  <1> QED
    BY TypeInit, TypeNext, PTL DEF Spec

----------------------------------------------------------------------------
(* Numbers *)

\* A step that neither numbers nor moves a payload.
Quiet ==
  /\ UNCHANGED <<stamped, channel, buffer, next>>
  /\ worker' = "stopped" <=> worker = "stopped"
  /\ \A c \in Conns : /\ pc'[c] = "send" <=> pc[c] = "send"
                      /\ pc[c] = "send" => payload'[c] = payload[c]

LEMMA QuietThread ==
  ASSUME TypeOK, NEW c \in Conns,
         \/ Read(c) \/ EndOfFile(c) \/ ReadFails(c) \/ AugmentReadOnly(c)
         \/ Augment(c) \/ CaptureReflogs(c) \/ RecordClose(c) \/ EnqueueFallback(c)
  PROVE  Quiet
  <1>t. pc \in [Conns -> Labels] /\ payload \in [Conns -> Payloads]
    BY DEF TypeOK
  <1>1. CASE Read(c)
    BY <1>t, <1>1 DEF Read, Goto, Quiet, workerVars
  <1>2. CASE EndOfFile(c)
    BY <1>t, <1>2 DEF EndOfFile, Goto, Quiet, workerVars
  <1>3. CASE ReadFails(c)
    BY <1>t, <1>3 DEF ReadFails, Goto, Quiet, workerVars
  <1>4. CASE AugmentReadOnly(c)
    BY <1>t, <1>4 DEF AugmentReadOnly, Goto, Quiet, workerVars
  <1>5. CASE Augment(c)
    BY <1>t, <1>5 DEF Augment, Goto, Quiet, workerVars
  <1>6. CASE CaptureReflogs(c)
    BY <1>t, <1>6 DEF CaptureReflogs, Goto, Quiet, workerVars
  <1>7. CASE RecordClose(c)
    BY <1>t, <1>7 DEF RecordClose, Goto, Quiet, workerVars
  <1>8. CASE EnqueueFallback(c)
    BY <1>t, <1>8 DEF EnqueueFallback, Goto, Quiet, workerVars
  <1> QED
    BY <1>1, <1>2, <1>3, <1>4, <1>5, <1>6, <1>7, <1>8

LEMMA QuietOther ==
  ASSUME TypeOK,
         (\E r \in Roots : ClearRoot(r)) \/ Drained \/ RequestShutdown \/ UNCHANGED vars
  PROVE  Quiet
  <1>1. CASE \E r \in Roots : ClearRoot(r)
    BY <1>1 DEF ClearRoot, Quiet, threadVars
  <1>2. CASE Drained
    BY <1>2 DEF Drained, Quiet, threadVars
  <1>3. CASE RequestShutdown
    BY <1>3 DEF RequestShutdown, Quiet, threadVars, workerVars
  <1>4. CASE UNCHANGED vars
    BY <1>4 DEF vars, Quiet, threadVars, workerVars
  <1> QED
    BY <1>1, <1>2, <1>3, <1>4

LEMMA QuietNumbers ==
  ASSUME Quiet, NumberInv
  PROVE  NumberInv' /\ Transit' = Transit
  <1>1. Sending' = Sending /\ HeldSeqs' = HeldSeqs
    BY DEF Quiet, Sending, HeldSeqs
  <1>2. QueuedSeqs' = QueuedSeqs /\ BufferedSeqs' = BufferedSeqs
    BY DEF Quiet, QueuedSeqs, BufferedSeqs
  <1>3. \A c \in Sending : payload'[c] = payload[c]
    BY DEF Quiet, Sending
  <1>4. Transit' = Transit
    BY <1>1, <1>3 DEF Quiet, Transit
  <1>5. NumberInv'
    BY <1>1, <1>2, <1>3 DEF Quiet, NumberInv, StampedInOnePlace
  <1> QED
    BY <1>4, <1>5

LEMMA StampNumbers ==
  ASSUME TypeOK, NumberInv, NEW c \in Conns, Stamp(c)
  PROVE  /\ NumberInv'
         /\ payload'[c].seq = stamped + 1
         /\ Transit' = Transit \cup {payload'[c]}
  <1>t. /\ pc \in [Conns -> Labels] /\ payload \in [Conns -> Payloads]
        /\ stamped \in Nat /\ next \in Nat
    BY DEF TypeOK
  <1>1. c \notin Sending /\ Sending' = Sending \cup {c}
    BY <1>t DEF Stamp, Goto, Sending
  <1>2. /\ payload'[c].seq = stamped + 1
        /\ \A d \in Sending : payload'[d] = payload[d]
    <2>1. payload[c] \in Payloads
      BY <1>t
    <2>2. payload'[c] = [payload[c] EXCEPT !.seq = stamped + 1]
      BY <1>t DEF Stamp
    <2> QED
      BY <1>1, <1>t, <2>1, <2>2 DEF Stamp, Payloads
  <1>3. HeldSeqs' = HeldSeqs \cup {stamped + 1}
    BY <1>1, <1>2 DEF HeldSeqs
  <1>4. /\ QueuedSeqs' = QueuedSeqs /\ BufferedSeqs' = BufferedSeqs
        /\ UNCHANGED <<channel, buffer, next, worker>> /\ stamped' = stamped + 1
    BY DEF Stamp, workerVars, QueuedSeqs, BufferedSeqs
  <1>5. Transit' = Transit \cup {payload'[c]}
    BY <1>1, <1>2, <1>4 DEF Transit
  <1>6. NumberInv'
    <2> SUFFICES ASSUME worker # "stopped"
                 PROVE  (next <= stamped + 1)' /\ StampedInOnePlace'
      BY <1>4, <1>t DEF NumberInv, StampedInOnePlace
    <2>1. HeldSeqs \cup QueuedSeqs \cup BufferedSeqs = next .. stamped
      BY DEF NumberInv, StampedInOnePlace
    <2>2. stamped + 1 \notin HeldSeqs \cup QueuedSeqs \cup BufferedSeqs
      BY <1>t, <2>1
    <2>3. next .. (stamped + 1) = (next .. stamped) \cup {stamped + 1}
      BY <1>t DEF NumberInv
    <2>4. \A d \in Sending : payload[d].seq # stamped + 1
      BY <2>2 DEF HeldSeqs
    <2>5. \A d, e \in Sending' : payload'[d].seq = payload'[e].seq => d = e
      BY <1>1, <1>2, <2>4 DEF NumberInv, StampedInOnePlace
    <2> QED
      BY <1>3, <1>4, <1>t, <2>1, <2>2, <2>3, <2>5 DEF NumberInv, StampedInOnePlace
  <1> QED
    BY <1>2, <1>5, <1>6

LEMMA EnqueueNumbers ==
  ASSUME TypeOK, NumberInv, NEW c \in Conns, Enqueue(c)
  PROVE  NumberInv' /\ (worker # "stopped" => Transit' \subseteq Transit)
  <1>t. /\ pc \in [Conns -> Labels] /\ payload \in [Conns -> Payloads]
        /\ stamped \in Nat /\ next \in Nat /\ channel \in Seq(Payloads)
    BY DEF TypeOK
  <1>u. UNCHANGED <<payload, stamped, buffer, next, worker>>
    BY DEF Enqueue, workerVars
  <1>1. CASE worker = "stopped"
    BY <1>1, <1>u DEF NumberInv, StampedInOnePlace
  <1>2. CASE worker # "stopped"
    <2>1. c \in Sending /\ Sending' = Sending \ {c}
      BY <1>2, <1>t DEF Enqueue, Goto, Sending
    <2>2. channel' = Append(channel, payload[c])
      BY <1>2 DEF Enqueue
    <2>3. /\ Len(channel) \in Nat
          /\ DOMAIN channel = 1 .. Len(channel)
          /\ DOMAIN channel' = 1 .. Len(channel) + 1
          /\ \A i \in DOMAIN channel : channel'[i] = channel[i]
          /\ channel'[Len(channel) + 1] = payload[c]
      BY <1>t, <2>2
    <2>4. DOMAIN channel' = (DOMAIN channel) \cup {Len(channel) + 1}
      BY <2>3
    <2>5. QueuedSeqs' = QueuedSeqs \cup {payload[c].seq}
      BY <2>3, <2>4 DEF QueuedSeqs
    <2>6. HeldSeqs' = HeldSeqs \ {payload[c].seq} /\ payload[c].seq \in HeldSeqs
      BY <1>2, <1>u, <2>1 DEF HeldSeqs, NumberInv, StampedInOnePlace
    <2>7. BufferedSeqs' = BufferedSeqs
      BY <1>u DEF BufferedSeqs
    <2>8. \A i, j \in DOMAIN channel' : channel'[i].seq = channel'[j].seq => i = j
      <3>1. \A i \in DOMAIN channel : channel[i].seq # payload[c].seq
        BY <1>2, <2>6 DEF NumberInv, StampedInOnePlace, QueuedSeqs
      <3> QED
        BY <1>2, <2>3, <2>4, <3>1 DEF NumberInv, StampedInOnePlace
    <2>9. NumberInv'
      BY <1>2, <1>u, <2>1, <2>5, <2>6, <2>7, <2>8 DEF NumberInv, StampedInOnePlace
    <2>10. Transit' \subseteq Transit
      BY <1>u, <2>1, <2>3, <2>4 DEF Transit
    <2> QED
      BY <2>9, <2>10
  <1> QED
    BY <1>1, <1>2

LEMMA ReceiveNumbers ==
  ASSUME TypeOK, NumberInv, Receive
  PROVE  NumberInv' /\ (worker' # "stopped" => Transit' \subseteq Transit)
  <1>u. UNCHANGED <<pc, payload, stamped, next>> /\ next \in Nat /\ stamped \in Nat
    BY DEF Receive, threadVars, TypeOK
  <1>1. CASE worker' = "stopped"
    BY <1>1, <1>u DEF NumberInv, StampedInOnePlace
  <1>2. CASE worker' # "stopped"
    <2> DEFINE h == Head(channel)
    <2>1. /\ buffer' = buffer \cup {h} /\ channel' = Tail(channel)
          /\ channel # <<>> /\ worker # "stopped"
      BY <1>2 DEF Receive, Stopped
    <2>2. /\ Len(channel) \in Nat /\ Len(channel) > 0
          /\ DOMAIN channel = 1 .. Len(channel)
          /\ DOMAIN channel' = 1 .. Len(channel) - 1
          /\ \A i \in DOMAIN channel' : channel'[i] = channel[i + 1]
          /\ h = channel[1]
      <3>1. channel \in Seq(Payloads)
        BY DEF TypeOK
      <3> QED
        BY <2>1, <3>1
    <2>3. \A i, j \in DOMAIN channel : channel[i].seq = channel[j].seq => i = j
      BY <2>1 DEF NumberInv, StampedInOnePlace
    <2>4. QueuedSeqs' = QueuedSeqs \ {h.seq} /\ h.seq \in QueuedSeqs
      <3>1. \A i \in DOMAIN channel' : i + 1 \in DOMAIN channel /\ i + 1 # 1
        BY <2>2
      <3>2. \A i \in DOMAIN channel : i # 1 => i - 1 \in DOMAIN channel' /\ (i - 1) + 1 = i
        BY <2>2
      <3>3. 1 \in DOMAIN channel
        BY <2>2
      <3>4. \A i \in DOMAIN channel' : channel'[i].seq \in QueuedSeqs \ {h.seq}
        BY <2>2, <2>3, <3>1, <3>3 DEF QueuedSeqs
      <3>5. \A i \in DOMAIN channel : i # 1 => channel[i].seq \in QueuedSeqs'
        BY <2>2, <3>2 DEF QueuedSeqs
      <3> QED
        BY SMTT(30), <2>2, <3>3, <3>4, <3>5 DEF QueuedSeqs
    <2>5. BufferedSeqs' = BufferedSeqs \cup {h.seq}
      BY <2>1 DEF BufferedSeqs
    <2>6. HeldSeqs' = HeldSeqs /\ Sending' = Sending
      BY <1>u DEF HeldSeqs, Sending
    <2>7. \A p \in buffer : p.seq # h.seq
      BY <2>1, <2>4 DEF NumberInv, StampedInOnePlace, BufferedSeqs
    <2>8. \A p, q \in buffer' : p.seq = q.seq => p = q
      BY <2>1, <2>7 DEF NumberInv, StampedInOnePlace
    <2>9. \A i, j \in DOMAIN channel' : channel'[i].seq = channel'[j].seq => i = j
      BY <2>2, <2>3
    <2>10. NumberInv'
      BY <1>u, <2>1, <2>4, <2>5, <2>6, <2>8, <2>9 DEF NumberInv, StampedInOnePlace
    <2>11. Transit' \subseteq Transit
      <3>1. \A i \in DOMAIN channel' : i + 1 \in DOMAIN channel
        BY <2>2
      <3> QED
        BY <1>u, <2>1, <2>2, <2>6, <3>1 DEF Transit
    <2> QED
      BY <2>10, <2>11
  <1> QED
    BY <1>1, <1>2

LEMMA StopNumbers ==
  ASSUME NumberInv, StopWorker
  PROVE  NumberInv'
  BY DEF StopWorker, Stopped, NumberInv, StampedInOnePlace

\* Numbers in transit lie between the worker's next and the last given out.
LEMMA TransitNumbers ==
  ASSUME NumberInv, worker # "stopped"
  PROVE  /\ \A p \in Transit : p.seq \in next .. stamped
         /\ \A p, q \in Transit : p.seq = q.seq => p = q
  BY DEF NumberInv, StampedInOnePlace, Transit, HeldSeqs, QueuedSeqs, BufferedSeqs

LEMMA IngestNumbers ==
  ASSUME TypeOK, NumberInv, NEW p \in buffer, Ingest(p)
  PROVE  NumberInv' /\ Transit' = Transit \ {p}
  <1>u. /\ UNCHANGED <<pc, payload, stamped, channel>>
        /\ next' = next + 1 /\ buffer' = buffer \ {p} /\ p.seq = next
        /\ worker # "stopped" /\ worker' # "stopped"
        /\ next \in Nat /\ stamped \in Nat
    BY DEF Ingest, threadVars, TypeOK
  <1>1. HeldSeqs' = HeldSeqs /\ Sending' = Sending /\ QueuedSeqs' = QueuedSeqs
    BY <1>u DEF HeldSeqs, Sending, QueuedSeqs
  <1>2. BufferedSeqs' = BufferedSeqs \ {next} /\ next \in BufferedSeqs
    BY <1>u DEF BufferedSeqs, NumberInv, StampedInOnePlace
  <1>3. next \in next .. stamped /\ (next + 1) .. stamped = (next .. stamped) \ {next}
    BY <1>u, <1>2 DEF NumberInv, StampedInOnePlace
  <1>4. NumberInv'
    BY <1>u, <1>1, <1>2, <1>3 DEF NumberInv, StampedInOnePlace
  <1>5. Transit' = Transit \ {p}
    <2>1. \A c \in Sending : payload[c] # p
      BY <1>u, <1>2 DEF HeldSeqs, NumberInv, StampedInOnePlace
    <2>2. \A i \in DOMAIN channel : channel[i] # p
      BY <1>u, <1>2 DEF QueuedSeqs, NumberInv, StampedInOnePlace
    <2> QED
      BY <1>u, <1>1, <2>1, <2>2 DEF Transit
  <1> QED
    BY <1>4, <1>5

LEMMA NumberNext == TypeOK /\ NumberInv /\ [Next]_vars => NumberInv'
  <1> SUFFICES ASSUME TypeOK, NumberInv, [Next]_vars PROVE NumberInv'
    OBVIOUS
  <1>1. CASE \E c \in Conns : Thread(c) \/ ReadFails(c)
    BY <1>1, QuietThread, QuietNumbers, StampNumbers, EnqueueNumbers DEF Thread
  <1>2. CASE Receive
    BY <1>2, ReceiveNumbers
  <1>3. CASE StopWorker
    BY <1>3, StopNumbers
  <1>4. CASE \E p \in buffer : Ingest(p)
    BY <1>4, IngestNumbers
  <1>5. CASE (\E r \in Roots : ClearRoot(r)) \/ Drained \/ RequestShutdown \/ UNCHANGED vars
    BY <1>5, QuietOther, QuietNumbers
  <1> QED
    BY <1>1, <1>2, <1>3, <1>4, <1>5 DEF Next, Worker

LEMMA NumberInit == Init => NumberInv
  <1> SUFFICES ASSUME Init PROVE NumberInv
    OBVIOUS
  <1>1. HeldSeqs = {} /\ QueuedSeqs = {} /\ BufferedSeqs = {} /\ Sending = {}
    BY DEF Init, HeldSeqs, QueuedSeqs, BufferedSeqs, Sending
  <1>2. next .. stamped = {}
    BY DEF Init
  <1> QED
    BY <1>1, <1>2 DEF Init, NumberInv, StampedInOnePlace

\* Every number given out stays in exactly one place until it is processed:
\* the worker never waits for a number that nobody will send.
THEOREM NumbersHaveNoGaps == Spec => []StampedInOnePlace
  <1>1. Init => TypeOK /\ NumberInv
    BY TypeInit, NumberInit
  <1>2. TypeOK /\ NumberInv /\ [Next]_vars => (TypeOK /\ NumberInv)'
    BY TypeNext, NumberNext
  <1>3. NumberInv => StampedInOnePlace
    BY DEF NumberInv
  <1> QED
    BY <1>1, <1>2, <1>3, PTL DEF Spec

----------------------------------------------------------------------------
(* The order of a connection's events *)

LEMMA TransitType ==
  ASSUME TypeOK
  PROVE  \A p \in Transit : p \in Payloads /\ p.conn \in Conns /\ p.idx \in Nat /\ p.seq \in Nat
  <1>1. /\ payload \in [Conns -> Payloads]
        /\ channel \in Seq(Payloads)
        /\ buffer \subseteq Payloads
    BY DEF TypeOK
  <1>2. \A p \in Transit : p \in Payloads
    BY <1>1 DEF Transit, Sending
  <1> QED
    BY <1>2 DEF Payloads

LEMMA HandNext ==
  ASSUME TypeOK, HandInv, [Next]_vars
  PROVE  HandInv'
  <1>t. /\ pc \in [Conns -> Labels] /\ payload \in [Conns -> Payloads]
        /\ read \in [Conns -> Nat]
    BY DEF TypeOK
  <1>1. ASSUME UNCHANGED <<payload, read>>,
               \A c \in Conns : payload[c].fallback =>
                 pc'[c] = pc[c] \/ pc'[c] \in {"stamp", "send", "done"}
        PROVE  HandInv'
    BY <1>1 DEF HandInv
  <1>2. ASSUME NEW c \in Conns, Thread(c) \/ ReadFails(c)
        PROVE  HandInv'
    <2>1. CASE Read(c)
      <3>1. payload' = [payload EXCEPT ![c] =
                          Payload(c, read[c] + 1, Script[c][read[c] + 1], FALSE)]
        BY <2>1 DEF Read
      <3>2. read' = [read EXCEPT ![c] = read[c] + 1]
        BY <2>1 DEF Read
      <3>3. pc' = [pc EXCEPT ![c] = "augment"]
        BY <2>1 DEF Read, Goto
      <3> QED
        BY <1>t, <3>1, <3>2, <3>3 DEF HandInv, Payload
    <2>2. CASE EndOfFile(c)
      BY <1>1, <1>t, <2>2 DEF EndOfFile, Goto, HandInv
    <2>3. CASE AugmentReadOnly(c)
      BY <1>1, <1>t, <2>3 DEF AugmentReadOnly, Goto, HandInv
    <2>4. CASE Augment(c)
      BY <1>1, <1>t, <2>4 DEF Augment, Goto, HandInv
    <2>5. CASE CaptureReflogs(c)
      BY <1>1, <1>t, <2>5 DEF CaptureReflogs, Goto, HandInv
    <2>6. CASE Stamp(c)
      <3>1. payload[c] \in Payloads
        BY <1>t
      <3>2. payload' = [payload EXCEPT ![c] = [payload[c] EXCEPT !.seq = stamped + 1]]
        BY <2>6 DEF Stamp
      <3>3. /\ payload'[c].conn = payload[c].conn
            /\ payload'[c].idx = payload[c].idx
            /\ payload'[c].fallback = payload[c].fallback
        BY <1>t, <3>1, <3>2 DEF Payloads
      <3>4. pc' = [pc EXCEPT ![c] = "send"] /\ read' = read
        BY <2>6 DEF Stamp, Goto
      <3> QED
        BY <1>t, <3>2, <3>3, <3>4 DEF HandInv
    <2>7. CASE Enqueue(c)
      BY <1>1, <1>t, <2>7 DEF Enqueue, Goto, HandInv
    <2>8. CASE RecordClose(c)
      BY <1>1, <1>t, <2>8 DEF RecordClose, Goto, HandInv
    <2>9. CASE EnqueueFallback(c)
      <3>1. CASE payload' = [payload EXCEPT ![c] = Payload(c, read[c] + 1, "atexit", TRUE)]
                 /\ pc' = [pc EXCEPT ![c] = "stamp"]
        BY <1>t, <2>9, <3>1 DEF EnqueueFallback, HandInv, Payload
      <3>2. CASE UNCHANGED payload /\ pc' = [pc EXCEPT ![c] = "done"]
        BY <1>1, <1>t, <2>9, <3>2 DEF EnqueueFallback
      <3> QED
        BY <2>9, <3>1, <3>2 DEF EnqueueFallback, Goto
    <2>10. CASE ReadFails(c)
      BY <1>1, <1>t, <2>10 DEF ReadFails, Goto, HandInv
    <2> QED
      BY <1>2, <2>1, <2>2, <2>3, <2>4, <2>5, <2>6, <2>7, <2>8, <2>9, <2>10 DEF Thread
  <1>3. CASE Worker \/ RequestShutdown \/ UNCHANGED vars
    <2>1. UNCHANGED threadVars
      BY <1>3 DEF Worker, Receive, StopWorker, Ingest, ClearRoot, Drained,
                  RequestShutdown, vars
    <2> QED
      BY <1>1, <2>1 DEF threadVars
  <1> QED
    BY <1>2, <1>3 DEF Next

\* The labels at which a thread holds an event it has not numbered.
Unnumbered == {"augment", "capture", "stamp"}

\* A step that numbers and processes nothing keeps the order, if what a thread
\* takes up comes after what it had.
LEMMA OrderOther ==
  ASSUME TypeOK, OrderInv, Transit' \subseteq Transit, handled' = handled,
         worker = "stopped" => worker' = "stopped",
         payload' \in [Conns -> Payloads],
         \A c \in Conns :
           \/ payload'[c].idx > payload[c].idx
           \/ /\ payload'[c].idx = payload[c].idx
              /\ pc'[c] \in Unnumbered => pc[c] \in Unnumbered
  PROVE  OrderInv'
  <1> SUFFICES ASSUME worker' # "stopped" PROVE OrderInv'
    BY DEF OrderInv
  <1>t. /\ payload \in [Conns -> Payloads] /\ handled \in [Conns -> Nat]
        /\ \A c \in Conns : payload[c].idx \in Nat /\ payload'[c].idx \in Nat
    BY DEF TypeOK, Payloads
  <1>1. \A c \in Conns : /\ handled'[c] <= payload'[c].idx
                         /\ pc'[c] \in Unnumbered => handled'[c] < payload'[c].idx
    BY <1>t DEF OrderInv, Unnumbered
  <1>2. \A p \in Transit' :
          /\ handled'[p.conn] < p.idx
          /\ p.idx <= payload'[p.conn].idx
          /\ pc'[p.conn] \in Unnumbered => p.idx < payload'[p.conn].idx
    <2> TAKE p \in Transit'
    <2>1. p \in Transit /\ p.conn \in Conns /\ p.idx \in Nat
      BY TransitType
    <2> QED
      BY <1>t, <2>1 DEF OrderInv, Unnumbered
  <1> QED
    BY <1>1, <1>2 DEF OrderInv, Unnumbered

LEMMA OrderStamp ==
  ASSUME TypeOK, NumberInv, OrderInv, HandInv, NEW c \in Conns, Stamp(c)
  PROVE  OrderInv'
  <1>u. /\ UNCHANGED <<worker, handled>>
        /\ pc[c] = "stamp" /\ pc' = [pc EXCEPT ![c] = "send"]
        /\ pc \in [Conns -> Labels] /\ payload \in [Conns -> Payloads]
        /\ handled \in [Conns -> Nat] /\ stamped \in Nat /\ next \in Nat
        /\ payload' = [payload EXCEPT ![c] = [payload[c] EXCEPT !.seq = stamped + 1]]
    BY DEF Stamp, Goto, workerVars, history, TypeOK
  <1> SUFFICES ASSUME worker # "stopped" PROVE OrderInv'
    BY <1>u DEF OrderInv
  <1>1. /\ payload'[c].seq = stamped + 1
        /\ Transit' = Transit \cup {payload'[c]}
    BY StampNumbers
  <1>2. /\ payload[c] \in Payloads /\ payload[c].idx \in Nat
        /\ payload'[c].idx = payload[c].idx
        /\ payload'[c].conn = c
        /\ \A d \in Conns : payload'[d].idx = payload[d].idx
    <2>1. payload[c] \in Payloads
      BY <1>u
    <2>2. payload'[c].idx = payload[c].idx /\ payload'[c].conn = payload[c].conn
      BY <1>u, <2>1 DEF Payloads
    <2>3. payload[c].conn = c
      BY DEF HandInv
    <2> QED
      BY <1>u, <2>1, <2>2, <2>3 DEF Payloads
  <1>3. \A d \in Conns : pc'[d] \in Unnumbered => pc[d] \in Unnumbered /\ d # c
    BY <1>u DEF Unnumbered
  <1>4. \A p \in Transit : p.seq < stamped + 1 /\ p.conn \in Conns /\ p.idx \in Nat
    BY <1>u, TransitNumbers, TransitType
  <1>5. \A d \in Conns : /\ handled'[d] <= payload'[d].idx
                         /\ pc'[d] \in Unnumbered => handled'[d] < payload'[d].idx
    BY <1>u, <1>2, <1>3 DEF OrderInv, Unnumbered
  <1>6. handled[c] < payload[c].idx
    BY <1>u DEF OrderInv
  <1>7. \A p \in Transit : p.conn = c => p.idx < payload[c].idx
    BY <1>u DEF OrderInv
  <1>8. \A p \in Transit' :
          /\ handled'[p.conn] < p.idx
          /\ p.idx <= payload'[p.conn].idx
          /\ pc'[p.conn] \in Unnumbered => p.idx < payload'[p.conn].idx
    <2>1. \A p \in Transit :
            /\ handled'[p.conn] < p.idx
            /\ p.idx <= payload'[p.conn].idx
            /\ pc'[p.conn] \in Unnumbered => p.idx < payload'[p.conn].idx
      BY <1>u, <1>2, <1>3, <1>4 DEF OrderInv, Unnumbered
    <2>2. /\ handled'[c] < payload'[c].idx
          /\ pc'[c] \notin Unnumbered
      BY <1>u, <1>2, <1>6 DEF Unnumbered
    <2> QED
      BY <1>1, <1>2, <2>1, <2>2
  <1>9. \A p, q \in Transit' : p.conn = q.conn /\ p.seq < q.seq => p.idx < q.idx
    <2>1. \A p, q \in Transit : p.conn = q.conn /\ p.seq < q.seq => p.idx < q.idx
      BY DEF OrderInv
    <2>2. \A p \in Transit : ~(stamped + 1 < p.seq)
      <3>1. \A p \in Transit : p.seq \in Nat
        BY TransitType
      <3> QED
        BY <1>4, <1>u, <3>1
    <2>3. ~(stamped + 1 < stamped + 1)
      BY <1>u
    <2>4. \A p \in Transit : p.conn = c => p.idx < payload'[c].idx
      BY <1>2, <1>7
    <2> QED
      BY <1>1, <1>2, <2>1, <2>2, <2>3, <2>4
  <1> QED
    BY <1>5, <1>8, <1>9 DEF OrderInv, Unnumbered

\* The worker takes the least number in transit, so the first event of its
\* connection that is on its way.
LEMMA OrderIngest ==
  ASSUME TypeOK, NumberInv, OrderInv, NEW p \in buffer, Ingest(p)
  PROVE  OrderInv' /\ handled'[p.conn] > handled[p.conn]
  <1>u. /\ UNCHANGED <<pc, payload>>
        /\ p.seq = next /\ next \in Nat /\ worker # "stopped"
        /\ handled \in [Conns -> Nat]
        /\ handled' = [handled EXCEPT ![p.conn] = p.idx]
    BY DEF Ingest, threadVars, TypeOK
  <1>1. Transit' = Transit \ {p} /\ p \in Transit
    BY IngestNumbers DEF Transit
  <1>2. \A q \in Transit : q.conn \in Conns /\ q.idx \in Nat /\ q.seq \in Nat
    BY TransitType
  <1>3. \A q \in Transit' : q.conn = p.conn => p.idx < q.idx
    <2> TAKE q \in Transit'
    <2>1. q \in Transit /\ q # p
      BY <1>1
    <2>2. q.seq > p.seq
      <3>1. q.seq \in next .. stamped /\ q.seq # p.seq
        BY <1>1, <1>u, <2>1, TransitNumbers
      <3> QED
        BY <1>2, <1>u, <2>1, <3>1
    <2> QED
      BY <1>1, <1>2, <1>u, <2>1, <2>2 DEF OrderInv
  <1>4. \A c \in Conns : /\ handled'[c] <= payload[c].idx
                         /\ pc[c] \in Unnumbered => handled'[c] < payload[c].idx
    BY <1>1, <1>2, <1>u DEF OrderInv, Unnumbered
  <1>5. \A q \in Transit' : handled'[q.conn] < q.idx
    BY <1>1, <1>2, <1>3, <1>u DEF OrderInv
  <1>6. OrderInv'
    BY <1>1, <1>u, <1>4, <1>5 DEF OrderInv, Unnumbered
  <1>7. handled'[p.conn] > handled[p.conn]
    BY <1>1, <1>2, <1>u DEF OrderInv
  <1> QED
    BY <1>6, <1>7

LEMMA OrderNext ==
  ASSUME TypeOK, HandInv, NumberInv, OrderInv, [Next]_vars
  PROVE  OrderInv' /\ \A c \in Conns : handled'[c] >= handled[c]
  <1>t. /\ pc \in [Conns -> Labels] /\ payload \in [Conns -> Payloads]
        /\ read \in [Conns -> Nat] /\ handled \in [Conns -> Nat]
        /\ payload' \in [Conns -> Payloads]
        /\ \A c \in Conns : payload[c].idx \in Nat /\ handled[c] \in Nat
    <2>1. TypeOK'
      BY TypeNext
    <2> QED
      BY <2>1 DEF TypeOK, Payloads
  <1>1. ASSUME handled' = handled
        PROVE  \A c \in Conns : handled'[c] >= handled[c]
    BY <1>t, <1>1
  <1>2. ASSUME NEW c \in Conns, Thread(c) \/ ReadFails(c)
        PROVE  OrderInv' /\ handled' = handled
    <2>1. CASE Read(c) \/ EnqueueFallback(c)
      <3>1. Transit' = Transit /\ handled' = handled /\ worker' = worker
        BY <2>1, QuietThread, QuietNumbers DEF Read, EnqueueFallback, workerVars, history
      <3>2. payload[c].idx = read[c]
        BY <2>1 DEF HandInv, Read, EnqueueFallback
      <3>3. \A d \in Conns :
              \/ payload'[d].idx > payload[d].idx
              \/ /\ payload'[d].idx = payload[d].idx
                 /\ pc'[d] \in Unnumbered => pc[d] \in Unnumbered
        <4>1. CASE Read(c)
          <5>1. payload' = [payload EXCEPT ![c] =
                              Payload(c, read[c] + 1, Script[c][read[c] + 1], FALSE)]
                /\ pc' = [pc EXCEPT ![c] = "augment"]
            BY <4>1 DEF Read, Goto
          <5> QED
            BY <1>t, <3>2, <5>1 DEF Payload
        <4>2. CASE EnqueueFallback(c)
          <5>1. CASE payload' = [payload EXCEPT ![c] =
                                   Payload(c, read[c] + 1, "atexit", TRUE)]
                     /\ pc' = [pc EXCEPT ![c] = "stamp"]
            BY <1>t, <3>2, <5>1 DEF Payload
          <5>2. CASE UNCHANGED payload /\ pc' = [pc EXCEPT ![c] = "done"]
            BY <1>t, <5>2 DEF Unnumbered
          <5> QED
            BY <4>2, <5>1, <5>2 DEF EnqueueFallback, Goto
        <4> QED
          BY <2>1, <4>1, <4>2
      <3> QED
        BY <1>t, <3>1, <3>3, OrderOther
    <2>2. CASE \/ EndOfFile(c) \/ ReadFails(c) \/ AugmentReadOnly(c)
               \/ Augment(c) \/ CaptureReflogs(c) \/ RecordClose(c)
      <3>1. Transit' = Transit
        BY <2>2, QuietThread, QuietNumbers
      <3>2. UNCHANGED <<payload, handled, worker>>
        BY <2>2 DEF EndOfFile, ReadFails, AugmentReadOnly, Augment, CaptureReflogs,
                    RecordClose, workerVars, history
      <3>3. \A d \in Conns : pc'[d] \in Unnumbered => pc[d] \in Unnumbered
        BY <1>t, <2>2 DEF EndOfFile, ReadFails, AugmentReadOnly, Augment,
                          CaptureReflogs, RecordClose, Goto, Unnumbered
      <3> QED
        BY <1>t, <3>1, <3>2, <3>3, OrderOther
    <2>3. CASE Stamp(c)
      BY <2>3, OrderStamp DEF Stamp, history
    <2>4. CASE Enqueue(c)
      <3>1. UNCHANGED <<payload, handled, worker>>
        BY <2>4 DEF Enqueue, workerVars, history
      <3>2. \A d \in Conns : pc'[d] \in Unnumbered => pc[d] \in Unnumbered
        BY <1>t, <2>4 DEF Enqueue, Goto, Unnumbered
      <3>3. CASE worker = "stopped"
        BY <3>1, <3>3 DEF OrderInv
      <3>4. CASE worker # "stopped"
        BY <1>t, <2>4, <3>1, <3>2, <3>4, EnqueueNumbers, OrderOther
      <3> QED
        BY <3>1, <3>3, <3>4
    <2> QED
      BY <1>2, <2>1, <2>2, <2>3, <2>4 DEF Thread
  <1>3. CASE Receive \/ StopWorker
    <2>1. UNCHANGED <<pc, payload, handled>> /\ worker # "stopped"
      BY <1>3 DEF Receive, StopWorker, threadVars, history
    <2>2. CASE worker' = "stopped"
      BY <2>1, <2>2, <1>1 DEF OrderInv
    <2>3. CASE worker' # "stopped"
      <3>1. Transit' \subseteq Transit
        BY <1>3, <2>3, ReceiveNumbers DEF StopWorker, Stopped
      <3> QED
        BY <1>t, <1>1, <2>1, <3>1, OrderOther
    <2> QED
      BY <2>2, <2>3
  <1>4. CASE \E p \in buffer : Ingest(p)
    <2> PICK p \in buffer : Ingest(p)
      BY <1>4
    <2>1. OrderInv' /\ handled'[p.conn] > handled[p.conn]
      BY OrderIngest
    <2>2. p.conn \in Conns /\ handled' = [handled EXCEPT ![p.conn] = p.idx]
      BY DEF Ingest, TypeOK, Payloads
    <2>3. \A c \in Conns : c # p.conn => handled'[c] = handled[c]
      BY <1>t, <2>2
    <2>4. p.idx \in Nat
      BY DEF TypeOK, Payloads
    <2> QED
      BY <1>t, <2>1, <2>2, <2>3, <2>4
  <1>5. CASE (\E r \in Roots : ClearRoot(r)) \/ Drained \/ RequestShutdown \/ UNCHANGED vars
    <2>1. Transit' = Transit /\ (worker' = "stopped" <=> worker = "stopped")
      BY <1>5, QuietOther, QuietNumbers DEF Quiet
    <2>2. UNCHANGED <<pc, payload, handled>>
      BY <1>5 DEF ClearRoot, Drained, RequestShutdown, vars, threadVars, history
    <2> QED
      BY <1>t, <1>1, <2>1, <2>2, OrderOther
  <1> QED
    BY <1>1, <1>2, <1>3, <1>4, <1>5 DEF Next, Worker

LEMMA OrderInit == Init => HandInv /\ OrderInv
  <1> SUFFICES ASSUME Init PROVE HandInv /\ OrderInv
    OBVIOUS
  <1>1. HandInv
    BY DEF Init, HandInv, NoPayload, Payload
  <1>2. Transit = {}
    BY DEF Init, Transit, Sending
  <1>3. \A c \in Conns : handled[c] = 0 /\ payload[c].idx = 0 /\ pc[c] = "read"
    BY DEF Init, NoPayload, Payload
  <1> QED
    BY <1>1, <1>2, <1>3 DEF OrderInv

\* The events of one process reach the normalizer in the order it wrote them,
\* and the fallback sent for it comes last.
THEOREM OrderOfEvents == Spec => ConnectionOrderKept
  <1> DEFINE IInv == TypeOK /\ HandInv /\ NumberInv /\ OrderInv
  <1>1. Init => IInv
    BY TypeInit, NumberInit, OrderInit
  <1>2. IInv /\ [Next]_vars => IInv'
    BY TypeNext, HandNext, NumberNext, OrderNext
  <1>3. IInv /\ [Next]_vars => [\A c \in Conns : handled'[c] >= handled[c]]_vars
    BY OrderNext
  <1> QED
    BY <1>1, <1>2, <1>3, PTL DEF Spec, ConnectionOrderKept

----------------------------------------------------------------------------
(* The end of a command *)

\* The thread will close its connection and has not done so.
Live(c) ==
  /\ read[c] > 0
  /\ pc[c] \in {"read", "augment", "capture", "stamp", "send", "close"}
  /\ pc[c] \in {"stamp", "send"} => ~payload[c].fallback

LiveOf(r) == {c \in Conns : RootOf[c] = r /\ Live(c)}

\* The connection was opened and no more is read from it.
Silent(c) == read[c] > 0 /\ ~Live(c)

\* Lines of the root's own process that the worker has processed.
Heard(r, events) ==
  \E i \in 1 .. read[RootConn[r]] :
    i <= handled[RootConn[r]] /\ Script[RootConn[r]][i] \in events

Started(r) == Heard(r, {"start"})

\* The command can no longer be finalized, or has been.
Over(r) == Started(r) /\ r \notin pending

\* Payloads on their way to the worker, numbered or not.
Coming == Transit \cup {payload[c] : c \in {d \in Conns : pc[d] = "stamp"}}

\* What a payload says is what its process wrote, or a fallback in its place;
\* a start that calls itself read-only is not sent.
EventInv ==
  /\ \A c \in Conns : pc[c] \in {"augment", "capture", "stamp", "send", "close", "fallback"} => read[c] > 0
  /\ \A c \in Conns : pc[c] \in {"augment", "capture", "stamp"} =>
       (~payload[c].fallback => payload[c].event = Script[c][read[c]])
  /\ \A c \in Conns : pc[c] \in {"capture", "stamp"} => (c \in ReadOnly => payload[c].event # "start")
  /\ \A p \in Transit :
       /\ ~p.fallback => p.idx \in 1 .. read[p.conn] /\ p.event = Script[p.conn][p.idx]
       /\ p.conn \in ReadOnly => p.event # "start"
  /\ \A p \in Coming : p.fallback => p.event = "atexit" /\ Silent(p.conn)
  /\ \A r \in readOnly : RootConn[r] \in ReadOnly

\* Each line of a root's own process is processed, in a thread's hands, or on
\* its way.
SentInv ==
  \A r \in Roots : RootConn[r] \notin ReadOnly =>
    \A i \in 1 .. read[RootConn[r]] :
      \/ i <= handled[RootConn[r]]
      \/ /\ i = read[RootConn[r]] /\ pc[RootConn[r]] \in Unnumbered
         /\ ~payload[RootConn[r]].fallback
      \/ \E p \in Transit : p.conn = RootConn[r] /\ p.idx = i /\ ~p.fallback

\* Until a root is cleared its count includes every connection that is open.
CountInv ==
  /\ \A r \in Roots : IsFiniteSet(LiveOf(r))
  /\ \A r \in Roots : ~Over(r) => Cardinality(LiveOf(r)) <= open[r]
  /\ \A r \in clearing : Over(r)

\* A fallback that is not early comes after all that the process wrote.
LastInv ==
  \A r \in Roots : r \notin early => (~Over(r) =>
    /\ \A p \in Coming : p.fallback => (RootOf[p.conn] = r => Silent(RootConn[r]))
    /\ \A p, q \in Transit : p.fallback => (RootOf[p.conn] = r =>
         (q.conn = RootConn[r] => (~q.fallback => q.seq < p.seq))))

\* What the normalizer has of a root.
NormInv ==
  /\ \A r \in pending : RootConn[r] \notin ReadOnly /\ Started(r) /\ ~Heard(r, {"exit", "atexit"}) /\ r \notin completed
  /\ \A r \in completed \cup slots : Started(r)
  /\ \A r \in Roots : ended[r] # "no" => r \in completed
  /\ \A r \in Roots : RootConn[r] \notin ReadOnly =>
       (~Started(r) => (deferred[r] = "no" => ~Heard(r, {"exit", "atexit"})))

\* A fallback that was deferred, unless early, is the last there was to come.
DeferredInv ==
  \A r \in Roots : deferred[r] = "fallback" => (r \notin early => (~Started(r) =>
    /\ Silent(RootConn[r])
    /\ RootConn[r] \notin ReadOnly => \A p \in Transit : p.conn = RootConn[r] => p.fallback))

\* A command that was finalized by a fallback, unless early, wrote no exit.
EndInv ==
  \A r \in Roots : ended[r] = "fallback" => (r \notin early => Silent(RootConn[r]) /\ ~ExitRead(r))

WorkingInv == EventInv /\ SentInv /\ CountInv /\ LastInv /\ NormInv /\ DeferredInv

LEMMA Roles ==
  ASSUME NEW r \in Roots
  PROVE  /\ RootConn[r] \in Conns /\ RootOf[RootConn[r]] = r /\ Own(RootConn[r])
         /\ \A c \in Conns : Own(c) /\ RootOf[c] = r => c = RootConn[r]
         /\ \A i, j \in DOMAIN Script[RootConn[r]] :
              Script[RootConn[r]][i] = "start" /\ Script[RootConn[r]][j] = "start" => i = j
  BY IngressAssumption DEF IngressAssumption, Own

LEMMA SilentStays ==
  ASSUME TypeOK, HandInv, [Next]_vars, NEW c \in Conns, Silent(c)
  PROVE  Silent(c)' /\ read'[c] = read[c]
  <1>t. /\ pc \in [Conns -> Labels] /\ payload \in [Conns -> Payloads] /\ read \in [Conns -> Nat]
    BY DEF TypeOK
  <1>0. /\ read[c] > 0 /\ pc[c] \in {"stamp", "send", "fallback", "done"}
        /\ pc[c] \in {"stamp", "send"} => payload[c].fallback
    BY <1>t DEF Silent, Live, Labels
  <1>1. ASSUME pc'[c] = pc[c], payload'[c] = payload[c], read'[c] = read[c]
        PROVE  Silent(c)' /\ read'[c] = read[c]
    BY <1>1 DEF Silent, Live
  <1>2. ASSUME NEW d \in Conns, Thread(d) \/ ReadFails(d)
        PROVE  Silent(c)' /\ read'[c] = read[c]
    <2>1. CASE d # c
      <3>1. /\ pc'[c] = pc[c] /\ payload'[c] = payload[c] /\ read'[c] = read[c]
        BY <1>t, <1>2, <2>1
           DEF Thread, Read, EndOfFile, ReadFails, AugmentReadOnly, Augment, CaptureReflogs, Stamp,
               Enqueue, RecordClose, EnqueueFallback, Goto
      <3> QED
        BY <1>1, <3>1
    <2>2. CASE d = c
      <3>1. Stamp(c) \/ Enqueue(c) \/ EnqueueFallback(c)
        BY <1>0, <1>2, <2>2
           DEF Thread, Read, EndOfFile, ReadFails, AugmentReadOnly, Augment, CaptureReflogs, RecordClose
      <3>2. CASE Stamp(c)
        <4>1. payload'[c].fallback = payload[c].fallback /\ pc'[c] = "send" /\ read' = read
          <5>1. payload[c] \in Payloads
            BY <1>t
          <5>2. payload'[c] = [payload[c] EXCEPT !.seq = stamped + 1]
            BY <1>t, <3>2 DEF Stamp
          <5> QED
            BY <1>t, <3>2, <5>1, <5>2 DEF Stamp, Goto, Payloads
        <4>2. pc[c] = "stamp"
          BY <3>2 DEF Stamp
        <4> QED
          BY <1>0, <4>1, <4>2 DEF Silent, Live
      <3>3. CASE Enqueue(c)
        <4>1. payload[c].fallback
          BY <1>0, <3>3 DEF Enqueue
        <4>2. pc'[c] = "done" /\ read' = read
          BY <1>t, <3>3, <4>1 DEF Enqueue, Goto
        <4> QED
          BY <1>0, <4>2 DEF Silent, Live
      <3>4. CASE EnqueueFallback(c)
        <4>1. read' = read
          BY <3>4 DEF EnqueueFallback
        <4>2. CASE pc'[c] = "done"
          BY <1>0, <4>1, <4>2 DEF Silent, Live
        <4>3. CASE payload' = [payload EXCEPT ![c] = Payload(c, read[c] + 1, "atexit", TRUE)] /\ pc'[c] = "stamp"
          <5>1. payload'[c].fallback
            BY <1>t, <4>3 DEF Payload
          <5> QED
            BY <1>0, <4>1, <4>3, <5>1 DEF Silent, Live
        <4> QED
          BY <1>t, <3>4, <4>2, <4>3 DEF EnqueueFallback, Goto
      <3> QED
        BY <3>1, <3>2, <3>3, <3>4
    <2> QED
      BY <2>1, <2>2
  <1>3. CASE Worker \/ RequestShutdown \/ UNCHANGED vars
    <2>1. UNCHANGED threadVars
      BY <1>3 DEF Worker, Receive, StopWorker, Ingest, ClearRoot, Drained,
                  RequestShutdown, vars
    <2> QED
      BY <1>1, <2>1 DEF threadVars
  <1> QED
    BY <1>2, <1>3 DEF Next

LEMMA HeardSame ==
  ASSUME TypeOK, handled' = handled,
         \A d \in Conns : read'[d] = read[d] \/ (read'[d] = read[d] + 1 /\ handled[d] <= read[d])
  PROVE  \A r \in Roots : \A S : Heard(r, S)' <=> Heard(r, S)
  <1> TAKE r \in Roots
  <1> TAKE S
  <1>1. PICK d \in Conns : d = RootConn[r]
    BY Roles
  <1>2. read[d] \in Nat /\ handled[d] \in Nat
    BY DEF TypeOK
  <1>3. \A i \in Nat : i <= handled[d] => (i \in 1 .. read'[d] <=> i \in 1 .. read[d])
    BY <1>1, <1>2
  <1>4. \A i \in 1 .. read[d] : i \in Nat
    BY <1>2
  <1>5. \A i \in 1 .. read'[d] : i \in Nat
    BY <1>2
  <1> QED
    BY <1>1, <1>3, <1>4, <1>5 DEF Heard

\* Payloads move from a thread to the channel and on to the worker.
LEMMA EnqueueMoves ==
  ASSUME TypeOK, NumberInv, NEW c \in Conns, Enqueue(c), worker # "stopped"
  PROVE  Transit' = Transit
  <1>t. channel \in Seq(Payloads) /\ payload[c] \in Payloads /\ pc \in [Conns -> Labels]
    BY DEF TypeOK
  <1>1. /\ Sending' = Sending \ {c} /\ c \in Sending /\ channel' = Append(channel, payload[c])
        /\ payload' = payload /\ buffer' = buffer
    BY <1>t DEF Enqueue, Goto, Sending, workerVars
  <1>2. /\ DOMAIN channel' = (DOMAIN channel) \cup {Len(channel) + 1}
        /\ \A i \in DOMAIN channel : channel'[i] = channel[i]
        /\ channel'[Len(channel) + 1] = payload[c]
    BY <1>t, <1>1
  <1>3. {channel'[i] : i \in DOMAIN channel'} = {channel[i] : i \in DOMAIN channel} \cup {payload[c]}
    BY <1>2
  <1>4. {payload[d] : d \in Sending} = {payload[d] : d \in Sending'} \cup {payload[c]}
    BY <1>1
  <1> QED
    BY <1>1, <1>3, <1>4 DEF Transit

LEMMA ReceiveMoves ==
  ASSUME TypeOK, Receive, worker' # "stopped"
  PROVE  Transit' = Transit
  <1>t. channel \in Seq(Payloads)
    BY DEF TypeOK
  <1>1. /\ channel # <<>> /\ channel' = Tail(channel) /\ buffer' = buffer \cup {Head(channel)}
        /\ payload' = payload /\ Sending' = Sending
    BY DEF Receive, Stopped, threadVars, Sending
  <1>2. /\ 1 \in DOMAIN channel /\ Head(channel) = channel[1]
        /\ \A i \in DOMAIN channel' : i + 1 \in DOMAIN channel /\ channel'[i] = channel[i + 1]
        /\ \A i \in DOMAIN channel : i # 1 => i - 1 \in DOMAIN channel' /\ channel'[i - 1] = channel[i]
    BY <1>t, <1>1
  <1>3. {channel[i] : i \in DOMAIN channel} = {channel'[i] : i \in DOMAIN channel'} \cup {Head(channel)}
    BY <1>2
  <1> QED
    BY <1>1, <1>3 DEF Transit

\* The steps of the worker that process no payload, and the shutdown request.
Aside ==
  \/ Receive \/ StopWorker \/ (\E r \in Roots : ClearRoot(r)) \/ Drained
  \/ RequestShutdown \/ UNCHANGED vars

LEMMA StepKinds ==
  ASSUME [Next]_vars
  PROVE  \/ \E c \in Conns : Thread(c) \/ ReadFails(c)
         \/ Aside
         \/ \E p \in buffer : Ingest(p)
  BY DEF Next, Worker, Aside

LEMMA ThreadMoves ==
  ASSUME TypeOK, NEW c \in Conns, Thread(c) \/ ReadFails(c)
  PROVE  /\ UNCHANGED <<worker, clearing, handled, pending, deferred, completed, slots, ended>>
         /\ early \subseteq early'
         /\ \A d \in Conns : d # c => pc'[d] = pc[d] /\ payload'[d] = payload[d] /\ read'[d] = read[d]
         /\ Read(c) \/ read' = read
  <1>t. /\ pc \in [Conns -> Labels] /\ payload \in [Conns -> Payloads] /\ read \in [Conns -> Nat]
    BY DEF TypeOK
  <1>1. CASE Read(c)
    BY <1>t, <1>1 DEF Read, Goto, workerVars, normVars, history
  <1>2. CASE EndOfFile(c) \/ ReadFails(c) \/ RecordClose(c) \/ CaptureReflogs(c)
    BY <1>t, <1>2
       DEF EndOfFile, ReadFails, RecordClose, CaptureReflogs, Goto, workerVars, normVars, history
  <1>3. CASE AugmentReadOnly(c)
    BY <1>t, <1>3 DEF AugmentReadOnly, Goto, workerVars, normVars, history
  <1>4. CASE Augment(c)
    BY <1>t, <1>4 DEF Augment, Goto, workerVars, normVars, history
  <1>5. CASE Stamp(c)
    BY <1>t, <1>5 DEF Stamp, Goto, workerVars, normVars, history
  <1>6. CASE Enqueue(c)
    BY <1>t, <1>6 DEF Enqueue, Goto, workerVars, normVars, history
  <1>7. CASE EnqueueFallback(c)
    BY <1>t, <1>7 DEF EnqueueFallback, Goto, workerVars, normVars
  <1> QED
    BY <1>1, <1>2, <1>3, <1>4, <1>5, <1>6, <1>7 DEF Thread

LEMMA AsideMoves ==
  ASSUME Aside
  PROVE  UNCHANGED <<pc, payload, read, handled, pending, deferred, completed, slots, ended, early>>
  BY DEF Aside, Receive, Stopped, StopWorker, ClearRoot, Drained, RequestShutdown, vars,
         threadVars, normVars, history

\* What is on its way changes only when a payload is numbered or processed.
LEMMA TransitMoves ==
  ASSUME TypeOK, NumberInv, worker # "stopped", worker' # "stopped"
  PROVE  /\ Aside => Transit' = Transit
         /\ \A c \in Conns : Thread(c) \/ ReadFails(c) => Stamp(c) \/ Transit' = Transit
  <1>1. ASSUME Aside PROVE Transit' = Transit
    <2>1. CASE Receive
      BY <2>1, ReceiveMoves
    <2>2. ~StopWorker
      BY DEF StopWorker, Stopped
    <2>3. CASE (\E r \in Roots : ClearRoot(r)) \/ Drained \/ RequestShutdown \/ UNCHANGED vars
      <3>1. UNCHANGED <<pc, payload, channel, buffer>>
        BY <2>3 DEF ClearRoot, Drained, RequestShutdown, vars, threadVars, workerVars
      <3> QED
        BY <3>1 DEF Transit, Sending
    <2> QED
      BY <1>1, <2>1, <2>2, <2>3 DEF Aside
  <1>2. ASSUME NEW c \in Conns, Thread(c) \/ ReadFails(c) PROVE Stamp(c) \/ Transit' = Transit
    <2>1. CASE Enqueue(c)
      BY <2>1, EnqueueMoves
    <2>2. CASE ~Enqueue(c) /\ ~Stamp(c)
      <3>1. Quiet
        BY <1>2, <2>2, QuietThread DEF Thread
      <3>2. UNCHANGED <<channel, buffer>> /\ Sending' = Sending
            /\ \A d \in Sending : payload'[d] = payload[d]
        BY <3>1 DEF Quiet, Sending
      <3> QED
        BY <3>2 DEF Transit
    <2> QED
      BY <2>1, <2>2
  <1> QED
    BY <1>1, <1>2

\* A thread that reads has handed on what it had.
LEMMA HeardStays ==
  ASSUME TypeOK, HandInv, OrderInv, worker # "stopped",
         (\E c \in Conns : Thread(c) \/ ReadFails(c)) \/ Aside
  PROVE  \A r \in Roots : \A S : Heard(r, S)' <=> Heard(r, S)
  <1>1. CASE Aside
    BY <1>1, AsideMoves, HeardSame
  <1>2. ASSUME NEW c \in Conns, Thread(c) \/ ReadFails(c)
        PROVE  \A r \in Roots : \A S : Heard(r, S)' <=> Heard(r, S)
    <2>1. CASE read' = read
      BY <1>2, <2>1, ThreadMoves, HeardSame
    <2>2. CASE Read(c)
      <3>1. pc[c] = "read" /\ read' = [read EXCEPT ![c] = read[c] + 1]
        BY <2>2 DEF Read
      <3>2. handled[c] <= read[c]
        BY <3>1 DEF HandInv, OrderInv
      <3>3. \A d \in Conns : read'[d] = read[d] \/ (read'[d] = read[d] + 1 /\ handled[d] <= read[d])
        BY <3>1, <3>2 DEF TypeOK
      <3>4. handled' = handled
        BY <1>2, ThreadMoves
      <3> QED
        BY <3>3, <3>4, HeardSame
    <2> QED
      BY <1>2, <2>1, <2>2, ThreadMoves
  <1> QED
    BY <1>1, <1>2

\* Steps that process nothing.
LEMMA NormStays ==
  ASSUME TypeOK, HandInv, OrderInv, NormInv, worker # "stopped",
         (\E c \in Conns : Thread(c) \/ ReadFails(c)) \/ Aside
  PROVE  NormInv'
  <1>1. UNCHANGED <<pending, deferred, completed, slots, ended>>
    BY ThreadMoves, AsideMoves
  <1>2. \A r \in Roots : \A S : Heard(r, S)' <=> Heard(r, S)
    BY HeardStays
  <1>3. /\ \A r \in Roots : Started(r)' <=> Started(r)
        /\ \A r \in Roots : Heard(r, {"exit", "atexit"})' <=> Heard(r, {"exit", "atexit"})
    BY <1>2 DEF Started
  <1>4. pending \subseteq Roots /\ completed \subseteq Roots /\ slots \subseteq Roots
    BY DEF TypeOK
  <1> QED
    BY <1>1, <1>3, <1>4 DEF NormInv

LEMMA OverStays ==
  ASSUME TypeOK, HandInv, OrderInv, worker # "stopped",
         (\E c \in Conns : Thread(c) \/ ReadFails(c)) \/ Aside
  PROVE  \A r \in Roots : (Over(r)' <=> Over(r)) /\ (Started(r)' <=> Started(r))
  <1>1. UNCHANGED pending
    BY ThreadMoves, AsideMoves
  <1>2. \A r \in Roots : \A S : Heard(r, S)' <=> Heard(r, S)
    BY HeardStays
  <1>3. \A r \in Roots : Started(r)' <=> Started(r)
    BY <1>2 DEF Started
  <1> QED
    BY <1>1, <1>3 DEF Over

LEMMA EndStays ==
  ASSUME TypeOK, HandInv, EndInv,
         (\E c \in Conns : Thread(c) \/ ReadFails(c)) \/ Aside
  PROVE  EndInv'
  <1>1. UNCHANGED ended /\ early \subseteq early'
    BY ThreadMoves, AsideMoves
  <1>2. [Next]_vars
    BY DEF Aside, Next, Worker
  <1> SUFFICES ASSUME NEW r \in Roots, ended[r] = "fallback", r \notin early
               PROVE  Silent(RootConn[r])' /\ ~ExitRead(r)'
    BY <1>1 DEF EndInv
  <1>3. Silent(RootConn[r]) /\ ~ExitRead(r) /\ RootConn[r] \in Conns
    BY Roles DEF EndInv
  <1>4. Silent(RootConn[r])' /\ read'[RootConn[r]] = read[RootConn[r]]
    BY <1>2, <1>3, SilentStays
  <1> QED
    BY <1>3, <1>4 DEF ExitRead

LEMMA StampedPayload ==
  ASSUME TypeOK, HandInv, NumberInv, NEW c \in Conns, Stamp(c)
  PROVE  /\ pc[c] = "stamp" /\ pc'[c] = "send" /\ read' = read /\ stamped' = stamped + 1
         /\ Transit' = Transit \cup {payload'[c]}
         /\ payload'[c].seq = stamped + 1 /\ payload'[c].conn = c
         /\ payload'[c].idx = payload[c].idx /\ payload'[c].event = payload[c].event
         /\ payload'[c].fallback = payload[c].fallback
  <1>1. /\ payload[c] \in Payloads /\ payload \in [Conns -> Payloads] /\ pc \in [Conns -> Labels]
    BY DEF TypeOK
  <1>2. payload'[c] = [payload[c] EXCEPT !.seq = stamped + 1]
    BY <1>1 DEF Stamp
  <1>3. payload[c].conn = c
    BY DEF HandInv
  <1> QED
    BY <1>1, <1>2, <1>3, StampNumbers DEF Stamp, Goto, Payloads

LEMMA DeferredStays ==
  ASSUME TypeOK, HandInv, NumberInv, OrderInv, DeferredInv, worker # "stopped", worker' # "stopped",
         (\E c \in Conns : Thread(c) \/ ReadFails(c)) \/ Aside
  PROVE  DeferredInv'
  <1>1. UNCHANGED deferred /\ early \subseteq early'
    BY ThreadMoves, AsideMoves
  <1>2. [Next]_vars
    BY DEF Aside, Next, Worker
  <1> SUFFICES ASSUME NEW r \in Roots, deferred[r] = "fallback", r \notin early, ~Started(r)
               PROVE  /\ Silent(RootConn[r])'
                      /\ RootConn[r] \notin ReadOnly =>
                           \A p \in Transit' : p.conn = RootConn[r] => p.fallback
    BY <1>1, OverStays DEF DeferredInv
  <1>3. /\ Silent(RootConn[r]) /\ RootConn[r] \in Conns
        /\ RootConn[r] \notin ReadOnly => \A p \in Transit : p.conn = RootConn[r] => p.fallback
    BY Roles DEF DeferredInv
  <1>4. Silent(RootConn[r])'
    BY <1>2, <1>3, SilentStays
  <1>5. ASSUME RootConn[r] \notin ReadOnly, NEW p \in Transit', p.conn = RootConn[r]
        PROVE  p.fallback
    <2>1. CASE Transit' = Transit
      BY <1>3, <1>5, <2>1
    <2>2. ASSUME NEW c \in Conns, Stamp(c) PROVE p.fallback
      <3>1. CASE p \in Transit
        BY <1>3, <1>5, <3>1
      <3>2. CASE p = payload'[c]
        <4>1. c = RootConn[r] /\ pc[c] = "stamp"
          BY <1>5, <2>2, <3>2, StampedPayload
        <4>2. payload[c].fallback
          BY <1>3, <4>1 DEF Silent, Live
        <4> QED
          BY <2>2, <3>2, <4>2, StampedPayload
      <3> QED
        BY <2>2, <3>1, <3>2, StampedPayload
    <2> QED
      BY <2>1, <2>2, TransitMoves
  <1> QED
    BY <1>4, <1>5

\* A step that reads, numbers and processes nothing and sends no fallback.
Still ==
  /\ UNCHANGED <<read, payload, handled, pending, early>>
  /\ Transit' = Transit
  /\ \A c \in Conns :
       /\ Silent(c) => Silent(c)'
       /\ pc'[c] \in Unnumbered => pc[c] \in Unnumbered
       /\ pc'[c] \in {"capture", "stamp"} =>
            pc[c] \in {"capture", "stamp"} \/ (c \in ReadOnly => payload[c].event # "start")
       /\ pc'[c] \in {"send", "close", "fallback"} => read[c] > 0
  /\ \A r \in Roots : RootConn[r] \notin ReadOnly =>
       (pc[RootConn[r]] \in Unnumbered => pc'[RootConn[r]] \in Unnumbered)
  /\ \A r \in readOnly' : RootConn[r] \in ReadOnly

\* A connection's fallback is in its hands only when it is numbered.
LEMMA HandFallback ==
  ASSUME HandInv, NEW c \in Conns, pc[c] \in {"read", "augment", "capture", "close", "fallback"}
  PROVE  ~payload[c].fallback
  BY DEF HandInv

LEMMA StillComing ==
  ASSUME TypeOK, HandInv, Still
  PROVE  \A p \in Coming' : p \in Coming \/ ~p.fallback
  <1> SUFFICES ASSUME NEW p \in Coming', p.fallback
               PROVE  p \in Coming
    OBVIOUS
  <1>1. CASE p \in Transit'
    BY <1>1 DEF Still, Coming
  <1>2. ASSUME NEW c \in Conns, pc'[c] = "stamp", p = payload'[c]
        PROVE  p \in Coming
    <2>1. p = payload[c] /\ pc[c] \in Unnumbered
      BY <1>2 DEF Still, Unnumbered
    <2>2. pc[c] = "stamp"
      BY <2>1, HandFallback DEF Unnumbered
    <2> QED
      BY <2>1, <2>2 DEF Coming
  <1> QED
    BY <1>1, <1>2 DEF Coming

LEMMA StillKeeps ==
  ASSUME TypeOK, HandInv, EventInv, SentInv, LastInv, Still,
         \A r \in Roots : Over(r)' <=> Over(r)
  PROVE  EventInv' /\ SentInv' /\ LastInv'
  <1>1. /\ read' = read /\ payload' = payload /\ handled' = handled /\ early' = early
        /\ Transit' = Transit
    BY DEF Still
  <1>4. \A p \in Coming' : p \in Coming \/ ~p.fallback
    BY StillComing
  <1>5. \A p \in Coming : p.conn \in Conns
    BY TransitType DEF Coming, HandInv
  <1>6. EventInv'
    <2>1. \A c \in Conns : pc'[c] \in {"augment", "capture", "stamp", "send", "close", "fallback"} => read'[c] > 0
      BY <1>1 DEF EventInv, Still, Unnumbered
    <2>2. \A c \in Conns : pc'[c] \in {"augment", "capture", "stamp"} =>
            (~payload'[c].fallback => payload'[c].event = Script[c][read'[c]])
      BY <1>1 DEF EventInv, Still, Unnumbered
    <2>3. \A c \in Conns : pc'[c] \in {"capture", "stamp"} => (c \in ReadOnly => payload'[c].event # "start")
      BY <1>1 DEF EventInv, Still
    <2>4. \A p \in Transit' :
            /\ ~p.fallback => p.idx \in 1 .. read'[p.conn] /\ p.event = Script[p.conn][p.idx]
            /\ p.conn \in ReadOnly => p.event # "start"
      BY <1>1 DEF EventInv
    <2>5. \A p \in Coming' : p.fallback => p.event = "atexit" /\ Silent(p.conn)'
      BY <1>4, <1>5 DEF EventInv, Still
    <2>6. \A r \in readOnly' : RootConn[r] \in ReadOnly
      BY DEF Still
    <2> QED
      BY <2>1, <2>2, <2>3, <2>4, <2>5, <2>6 DEF EventInv
  <1>7. SentInv'
    BY <1>1 DEF SentInv, Still
  <1>8. LastInv'
    <2> SUFFICES ASSUME NEW r \in Roots, r \notin early, ~Over(r)
                 PROVE  /\ \A p \in Coming' : p.fallback => (RootOf[p.conn] = r => Silent(RootConn[r])')
                        /\ \A p, q \in Transit' : p.fallback => (RootOf[p.conn] = r =>
                             (q.conn = RootConn[r] => (~q.fallback => q.seq < p.seq)))
      BY <1>1 DEF LastInv
    <2>1. RootConn[r] \in Conns
      BY Roles
    <2> QED
      BY <1>1, <1>4, <2>1 DEF LastInv, Still
  <1> QED
    BY <1>6, <1>7, <1>8

\* A process that is not of a read-only command is never taken for one.
LEMMA NotFast ==
  ASSUME TypeOK, HandInv, EventInv, NEW r \in Roots, RootConn[r] \notin ReadOnly
  PROVE  ~AugmentReadOnly(RootConn[r])
  <1> SUFFICES ASSUME AugmentReadOnly(RootConn[r])
               PROVE  FALSE
    OBVIOUS
  <1>1. PICK c \in Conns : c = RootConn[r] /\ RootOf[c] = r
    BY Roles
  <1>2. payload[c].conn = c
    BY DEF HandInv
  <1>3. Fast(payload[c])
    BY <1>1 DEF AugmentReadOnly
  <1>4. ~SaysReadOnly(payload[c])
    BY <1>1, <1>2 DEF SaysReadOnly
  <1>5. r \in readOnly
    BY <1>1, <1>2, <1>3, <1>4 DEF Fast
  <1> QED
    BY <1>5 DEF EventInv

LEMMA StillThread ==
  ASSUME TypeOK, HandInv, NumberInv, EventInv, worker # "stopped", worker' # "stopped",
         [Next]_vars, NEW c \in Conns,
         \/ EndOfFile(c) \/ ReadFails(c) \/ AugmentReadOnly(c) \/ Augment(c) \/ CaptureReflogs(c)
         \/ Enqueue(c) \/ RecordClose(c)
         \/ EnqueueFallback(c) /\ UNCHANGED <<payload, early>> /\ pc' = [pc EXCEPT ![c] = "done"]
  PROVE  Still
  <1>t. pc \in [Conns -> Labels] /\ read \in [Conns -> Nat] /\ readOnly \subseteq Roots
    BY DEF TypeOK
  <1>k. /\ Thread(c) \/ ReadFails(c)
        /\ ~Read(c) /\ ~Stamp(c)
    BY <1>t DEF Thread, EndOfFile, ReadFails, AugmentReadOnly, Augment, CaptureReflogs, Enqueue,
                RecordClose, EnqueueFallback, Read, Stamp, Goto
  <1>1. UNCHANGED <<read, payload, handled, pending, early>>
    <2>1. UNCHANGED <<read, handled, pending>>
      BY <1>k, ThreadMoves
    <2> QED
      BY <2>1 DEF EndOfFile, ReadFails, AugmentReadOnly, Augment, CaptureReflogs, Enqueue, RecordClose,
                  history
  <1>2. Transit' = Transit
    BY <1>k, TransitMoves
  <1>3. \A d \in Conns : Silent(d) => Silent(d)'
    BY SilentStays
  <1>4. \A d \in Conns : d # c => pc'[d] = pc[d]
    BY <1>k, ThreadMoves
  <1>5. pc'[c] \in Unnumbered => pc[c] \in Unnumbered
    BY <1>t DEF EndOfFile, ReadFails, AugmentReadOnly, Augment, CaptureReflogs, Enqueue, RecordClose,
                Goto, Unnumbered
  <1>6. pc'[c] \in {"capture", "stamp"} =>
          pc[c] \in {"capture", "stamp"} \/ (c \in ReadOnly => payload[c].event # "start")
    <2>1. CASE Augment(c)
      <3>1. ~SaysReadOnly(payload[c]) /\ payload[c].conn = c
        BY <2>1 DEF Augment, Fast, HandInv
      <3> QED
        BY <3>1 DEF SaysReadOnly
    <2>2. CASE ~Augment(c)
      BY <1>t, <2>2 DEF EndOfFile, ReadFails, AugmentReadOnly, CaptureReflogs, Enqueue, RecordClose, Goto
    <2> QED
      BY <2>1, <2>2
  <1>7. pc'[c] \in {"send", "close", "fallback"} => read[c] > 0
    <2>1. CASE EndOfFile(c)
      BY <1>t, <2>1 DEF EndOfFile, Goto
    <2>2. CASE RecordClose(c)
      BY <2>2 DEF RecordClose, EventInv
    <2>3. CASE Enqueue(c)
      BY <2>3 DEF Enqueue, EventInv
    <2>4. CASE ~EndOfFile(c) /\ ~RecordClose(c) /\ ~Enqueue(c)
      BY <1>t, <2>4 DEF ReadFails, AugmentReadOnly, Augment, CaptureReflogs, Goto
    <2> QED
      BY <2>1, <2>2, <2>3, <2>4
  <1>8. ASSUME NEW r \in Roots, RootConn[r] \notin ReadOnly, RootConn[r] = c, pc[c] \in Unnumbered, ~Stamp(c)
        PROVE  pc'[c] \in Unnumbered
    <2>1. ~AugmentReadOnly(c)
      BY <1>8, NotFast
    <2> QED
      BY <1>t, <1>8, <2>1 DEF EndOfFile, ReadFails, Augment, CaptureReflogs, Enqueue, RecordClose,
                             EnqueueFallback, Goto, Unnumbered
  <1>9. \A r \in readOnly' : RootConn[r] \in ReadOnly
    <2>1. CASE AugmentReadOnly(c)
      <3>1. CASE readOnly' \subseteq readOnly
        BY <3>1 DEF EventInv
      <3>2. CASE Start(payload[c]) /\ readOnly' = readOnly \cup {RootOf[c]}
        <4>1. payload[c].conn = c
          BY DEF HandInv
        <4>2. RootConn[RootOf[c]] = c /\ payload[c].event = "start"
          BY <3>2, <4>1 DEF Start, Own
        <4>3. SaysReadOnly(payload[c])
          BY <2>1, <4>2 DEF AugmentReadOnly, Fast, HasCommand
        <4>4. c \in ReadOnly
          BY <4>1, <4>3 DEF SaysReadOnly
        <4> QED
          BY <3>2, <4>2, <4>4 DEF EventInv
      <3> QED
        BY <2>1, <3>1, <3>2 DEF AugmentReadOnly
    <2>2. CASE ~AugmentReadOnly(c)
      <3>1. readOnly' = readOnly
        BY <2>2 DEF EndOfFile, ReadFails, Augment, CaptureReflogs, Enqueue, RecordClose,
                    EnqueueFallback, ingressVars
      <3> QED
        BY <3>1 DEF EventInv
    <2> QED
      BY <2>1, <2>2
  <1>11. \A r \in Roots : RootConn[r] \in Conns
    BY Roles
  <1>12. \A d \in Conns : pc[d] \in {"send", "close", "fallback"} => read[d] > 0
    BY DEF EventInv
  <1> QED
    BY <1>k, <1>1, <1>2, <1>3, <1>4, <1>5, <1>6, <1>7, <1>8, <1>9, <1>11, <1>12 DEF Still

LEMMA StillAside ==
  ASSUME TypeOK, HandInv, NumberInv, EventInv, worker # "stopped", worker' # "stopped", Aside
  PROVE  Still
  <1>1. UNCHANGED <<pc, read, payload, handled, pending, early>>
    BY AsideMoves
  <1>2. Transit' = Transit
    BY TransitMoves
  <1>3. readOnly' \subseteq readOnly
    BY DEF Aside, Receive, StopWorker, ClearRoot, Drained, RequestShutdown, vars, ingressVars
  <1>4. [Next]_vars
    BY DEF Aside, Next, Worker
  <1>5. \A c \in Conns : Silent(c) => Silent(c)'
    BY <1>4, SilentStays
  <1>6. /\ \A c \in Conns : pc[c] \in {"send", "close", "fallback"} => read[c] > 0
        /\ \A r \in readOnly : RootConn[r] \in ReadOnly
    BY DEF EventInv
  <1> QED
    BY <1>1, <1>2, <1>3, <1>5, <1>6 DEF Still

LEMMA ReadKeeps ==
  ASSUME TypeOK, HandInv, NumberInv, EventInv, SentInv, LastInv,
         worker # "stopped", worker' # "stopped", [Next]_vars,
         \A r \in Roots : Over(r)' <=> Over(r),
         NEW c \in Conns, Read(c)
  PROVE  EventInv' /\ SentInv' /\ LastInv'
  <1>t. /\ pc \in [Conns -> Labels] /\ payload \in [Conns -> Payloads] /\ read \in [Conns -> Nat]
    BY DEF TypeOK
  <1>0. PICK n \in Nat : n = read[c]
    BY <1>t
  <1>1. /\ pc[c] = "read" /\ pc' = [pc EXCEPT ![c] = "augment"]
        /\ read' = [read EXCEPT ![c] = n + 1]
        /\ payload' = [payload EXCEPT ![c] = Payload(c, n + 1, Script[c][n + 1], FALSE)]
        /\ UNCHANGED <<readOnly, handled, early>>
    BY <1>0 DEF Read, Goto, history
  <1>2. Transit' = Transit
    <2>1. ~Stamp(c)
      BY <1>1 DEF Stamp
    <2> QED
      BY <2>1, TransitMoves DEF Thread
  <1>3. \A d \in Conns : Silent(d) => Silent(d)'
    BY SilentStays
  <1>4. /\ \A d \in Conns : d # c => pc'[d] = pc[d] /\ payload'[d] = payload[d] /\ read'[d] = read[d]
        /\ pc'[c] = "augment" /\ read'[c] = n + 1
        /\ payload'[c] = Payload(c, n + 1, Script[c][n + 1], FALSE)
    BY <1>t, <1>1
  <1>5. payload'[c].event = Script[c][n + 1] /\ ~payload'[c].fallback
    BY <1>4 DEF Payload
  <1>6. \A p \in Transit : p.conn \in Conns /\ p.idx \in Nat
    BY TransitType
  <1>7. \A p \in Coming' : p \in Coming
    BY <1>2, <1>4 DEF Coming
  <1>8. \A d \in Conns : \A i \in 1 .. read[d] : i \in 1 .. read'[d]
    BY <1>0, <1>t, <1>4
  <1>9. EventInv'
    <2>1. \A d \in Conns : pc'[d] \in {"augment", "capture", "stamp", "send", "close", "fallback"} => read'[d] > 0
      BY <1>4 DEF EventInv
    <2>2. \A d \in Conns : pc'[d] \in {"augment", "capture", "stamp"} =>
            (~payload'[d].fallback => payload'[d].event = Script[d][read'[d]])
      BY <1>4, <1>5 DEF EventInv
    <2>3. \A d \in Conns : pc'[d] \in {"capture", "stamp"} => (d \in ReadOnly => payload'[d].event # "start")
      BY <1>4 DEF EventInv
    <2>4. \A p \in Transit' :
            /\ ~p.fallback => p.idx \in 1 .. read'[p.conn] /\ p.event = Script[p.conn][p.idx]
            /\ p.conn \in ReadOnly => p.event # "start"
      BY <1>2, <1>6, <1>8 DEF EventInv
    <2>5. \A p \in Coming' : p.fallback => p.event = "atexit" /\ Silent(p.conn)'
      <3>1. \A p \in Coming : p.conn \in Conns
        BY <1>6 DEF Coming, HandInv
      <3> QED
        BY <1>3, <1>7, <3>1 DEF EventInv
    <2>6. \A r \in readOnly' : RootConn[r] \in ReadOnly
      BY <1>1 DEF EventInv
    <2> QED
      BY <2>1, <2>2, <2>3, <2>4, <2>5, <2>6 DEF EventInv
  <1>10. SentInv'
    <2> SUFFICES ASSUME NEW r \in Roots, RootConn[r] \notin ReadOnly, NEW i \in 1 .. read'[RootConn[r]]
                 PROVE  \/ i <= handled[RootConn[r]]
                        \/ /\ i = read'[RootConn[r]] /\ pc'[RootConn[r]] \in Unnumbered
                           /\ ~payload'[RootConn[r]].fallback
                        \/ \E p \in Transit : p.conn = RootConn[r] /\ p.idx = i /\ ~p.fallback
      BY ZenonT(30), <1>1, <1>2 DEF SentInv
    <2>1. PICK d \in Conns : d = RootConn[r]
      BY Roles
    <2>2. CASE d = c /\ i = n + 1
      BY <1>4, <1>5, <2>1, <2>2 DEF Unnumbered
    <2>3. CASE ~(d = c /\ i = n + 1)
      <3>1. i \in 1 .. read[d]
        BY <1>0, <1>t, <1>4, <2>1, <2>3
      <3>2. \/ i <= handled[d]
            \/ i = read[d] /\ pc[d] \in Unnumbered /\ ~payload[d].fallback
            \/ \E p \in Transit : p.conn = d /\ p.idx = i /\ ~p.fallback
        BY <2>1, <3>1 DEF SentInv
      <3> QED
        BY <1>1, <1>4, <2>1, <3>2 DEF Unnumbered
    <2> QED
      BY <2>2, <2>3
  <1>11. LastInv'
    <2> SUFFICES ASSUME NEW r \in Roots, r \notin early, ~Over(r)
                 PROVE  /\ \A p \in Coming' : p.fallback => (RootOf[p.conn] = r => Silent(RootConn[r])')
                        /\ \A p, q \in Transit' : p.fallback => (RootOf[p.conn] = r =>
                             (q.conn = RootConn[r] => (~q.fallback => q.seq < p.seq)))
      BY <1>1 DEF LastInv
    <2>1. RootConn[r] \in Conns
      BY Roles
    <2> QED
      BY <1>2, <1>3, <1>7, <2>1 DEF LastInv
  <1> QED
    BY <1>9, <1>10, <1>11

LEMMA StampKeeps ==
  ASSUME TypeOK, HandInv, NumberInv, EventInv, SentInv, LastInv,
         worker # "stopped", worker' # "stopped", [Next]_vars,
         \A r \in Roots : Over(r)' <=> Over(r),
         NEW c \in Conns, Stamp(c)
  PROVE  EventInv' /\ SentInv' /\ LastInv'
  <1>t. /\ pc \in [Conns -> Labels] /\ payload \in [Conns -> Payloads] /\ read \in [Conns -> Nat]
        /\ stamped \in Nat
    BY DEF TypeOK
  <1>1. /\ pc[c] = "stamp" /\ pc'[c] = "send" /\ read' = read
        /\ UNCHANGED <<readOnly, handled, early>>
    BY StampedPayload DEF Stamp, ingressVars, history
  <1>q. PICK q : q = payload'[c]
    OBVIOUS
  <1>2. /\ Transit' = Transit \cup {q}
        /\ q.seq = stamped + 1 /\ q.conn = c /\ q.idx = payload[c].idx
        /\ q.event = payload[c].event /\ q.fallback = payload[c].fallback
    BY <1>q, StampedPayload
  <1>3. \A d \in Conns : Silent(d) => Silent(d)'
    BY SilentStays
  <1>4. \A d \in Conns : d # c => pc'[d] = pc[d] /\ payload'[d] = payload[d]
    BY ThreadMoves DEF Thread
  <1>5. payload[c] \in Coming
    BY <1>1 DEF Coming
  <1>6. \A p \in Coming' : p \in Coming \/ p = q
    BY <1>1, <1>2, <1>4 DEF Coming
  <1>7. \A p \in Coming : p.conn \in Conns
    BY TransitType DEF Coming, HandInv
  <1>8. payload[c].conn = c /\ payload[c].idx = IF payload[c].fallback THEN read[c] + 1 ELSE read[c]
    BY DEF HandInv
  <1>9. read[c] > 0 /\ (~payload[c].fallback => payload[c].event = Script[c][read[c]])
        /\ (c \in ReadOnly => payload[c].event # "start")
    BY <1>1 DEF EventInv
  <1>10. EventInv'
    <2>1. \A d \in Conns : pc'[d] \in {"augment", "capture", "stamp", "send", "close", "fallback"} => read'[d] > 0
      BY <1>1, <1>4, <1>9 DEF EventInv
    <2>2. \A d \in Conns : pc'[d] \in {"augment", "capture", "stamp"} =>
            (~payload'[d].fallback => payload'[d].event = Script[d][read'[d]])
      BY <1>1, <1>4 DEF EventInv
    <2>3. \A d \in Conns : pc'[d] \in {"capture", "stamp"} => (d \in ReadOnly => payload'[d].event # "start")
      BY <1>1, <1>4 DEF EventInv
    <2>4. \A p \in Transit' :
            /\ ~p.fallback => p.idx \in 1 .. read'[p.conn] /\ p.event = Script[p.conn][p.idx]
            /\ p.conn \in ReadOnly => p.event # "start"
      <3> TAKE p \in Transit'
      <3>1. CASE p \in Transit
        BY <1>1, <3>1 DEF EventInv
      <3>2. CASE p = q
        BY <1>t, <1>1, <1>2, <1>8, <1>9, <3>2
      <3> QED
        BY <1>2, <3>1, <3>2
    <2>5. \A p \in Coming' : p.fallback => p.event = "atexit" /\ Silent(p.conn)'
      <3> SUFFICES ASSUME NEW p \in Coming', p.fallback
                   PROVE  p.event = "atexit" /\ Silent(p.conn)'
        OBVIOUS
      <3>1. CASE p \in Coming
        BY <1>3, <1>7, <3>1 DEF EventInv
      <3>2. CASE p = q
        <4>1. payload[c].event = "atexit" /\ Silent(c)
          BY <1>2, <1>5, <1>8, <3>2 DEF EventInv
        <4> QED
          BY <1>2, <1>3, <3>2, <4>1
      <3> QED
        BY <1>6, <3>1, <3>2
    <2>6. \A r \in readOnly' : RootConn[r] \in ReadOnly
      BY <1>1 DEF EventInv
    <2> QED
      BY <2>1, <2>2, <2>3, <2>4, <2>5, <2>6 DEF EventInv
  <1>11. SentInv'
    <2> SUFFICES ASSUME NEW r \in Roots, RootConn[r] \notin ReadOnly, NEW i \in 1 .. read[RootConn[r]]
                 PROVE  \/ i <= handled[RootConn[r]]
                        \/ /\ i = read[RootConn[r]] /\ pc'[RootConn[r]] \in Unnumbered
                           /\ ~payload'[RootConn[r]].fallback
                        \/ \E p \in Transit' : p.conn = RootConn[r] /\ p.idx = i /\ ~p.fallback
      BY <1>1 DEF SentInv
    <2>1. PICK d \in Conns : d = RootConn[r]
      BY Roles
    <2>2. \/ i <= handled[d]
          \/ i = read[d] /\ pc[d] \in Unnumbered /\ ~payload[d].fallback
          \/ \E p \in Transit : p.conn = d /\ p.idx = i /\ ~p.fallback
      BY <2>1 DEF SentInv
    <2>3. CASE d = c /\ i = read[d] /\ ~payload[d].fallback
      <3>1. q \in Transit' /\ q.conn = d /\ q.idx = i /\ ~q.fallback
        BY <1>2, <1>8, <2>3
      <3> QED
        BY <2>1, <3>1
    <2>4. CASE ~(d = c /\ i = read[d] /\ ~payload[d].fallback)
      <3>1. CASE d = c
        BY <1>2, <2>1, <2>2, <2>4, <3>1
      <3>2. CASE d # c
        BY <1>2, <1>4, <2>1, <2>2, <3>2
      <3> QED
        BY <3>1, <3>2
    <2> QED
      BY <2>3, <2>4
  <1>12. LastInv'
    <2> SUFFICES ASSUME NEW r \in Roots, r \notin early, ~Over(r)
                 PROVE  /\ \A p \in Coming' : p.fallback => (RootOf[p.conn] = r => Silent(RootConn[r])')
                        /\ \A p, s \in Transit' : p.fallback => (RootOf[p.conn] = r =>
                             (s.conn = RootConn[r] => (~s.fallback => s.seq < p.seq)))
      BY <1>1 DEF LastInv
    <2>1. PICK d \in Conns : d = RootConn[r]
      BY Roles
    <2>2. \A p \in Coming : p.fallback => (RootOf[p.conn] = r => Silent(d))
      BY <2>1 DEF LastInv
    <2>3. \A p, s \in Transit : p.fallback => (RootOf[p.conn] = r =>
            (s.conn = d => (~s.fallback => s.seq < p.seq)))
      BY <2>1 DEF LastInv
    <2>4. ASSUME NEW p \in Coming', p.fallback, RootOf[p.conn] = r
          PROVE  Silent(d)'
      <3>1. CASE p \in Coming
        BY <1>3, <2>2, <2>4, <3>1
      <3>2. CASE p = q
        BY <1>2, <1>3, <1>5, <1>8, <2>2, <2>4, <3>2
      <3> QED
        BY <1>6, <3>1, <3>2
    <2>5. ASSUME NEW p \in Transit', NEW s \in Transit', p.fallback, RootOf[p.conn] = r,
                 s.conn = d, ~s.fallback
          PROVE  s.seq < p.seq
      <3>1. CASE p \in Transit /\ s \in Transit
        BY <2>3, <2>5, <3>1
      <3>2. CASE s = q /\ p \in Transit
        <4>1. Silent(c)
          BY <1>2, <2>2, <2>5, <3>2 DEF Coming
        <4> QED
          BY <1>1, <1>2, <1>9, <2>5, <3>2, <4>1 DEF Silent, Live
      <3>3. CASE p = q /\ s \in Transit
        <4>1. s.seq \in next .. stamped /\ next \in Nat
          BY <3>3, TransitNumbers DEF TypeOK
        <4> QED
          BY <1>t, <1>2, <3>3, <4>1
      <3>4. ~(p = q /\ s = q)
        BY <2>5
      <3> QED
        BY <1>2, <3>1, <3>2, <3>3, <3>4
    <2> QED
      BY <2>1, <2>4, <2>5
  <1> QED
    BY <1>10, <1>11, <1>12

\* A count of zero says that nothing of the root is open, the root's own
\* connection included.
LEMMA NothingOpen ==
  ASSUME TypeOK, CountInv, NEW r \in Roots, ~Over(r), open[r] = 0, read[RootConn[r]] # 0
  PROVE  Silent(RootConn[r])
  <1>1. IsFiniteSet(LiveOf(r)) /\ Cardinality(LiveOf(r)) <= 0
    BY DEF CountInv
  <1>2. Cardinality(LiveOf(r)) = 0
    BY <1>1, FS_CardinalityType
  <1>3. LiveOf(r) = {}
    BY <1>1, <1>2, FS_EmptySet
  <1>4. PICK c \in Conns : c = RootConn[r] /\ RootOf[c] = r
    BY Roles
  <1>5. ~Live(c)
    BY <1>3, <1>4 DEF LiveOf
  <1>6. read[c] \in Nat /\ read[c] # 0
    BY <1>4 DEF TypeOK
  <1> QED
    BY <1>4, <1>5, <1>6 DEF Silent

LEMMA FallbackKeeps ==
  ASSUME TypeOK, HandInv, NumberInv, EventInv, SentInv, CountInv, LastInv,
         worker # "stopped", worker' # "stopped", [Next]_vars,
         \A r \in Roots : Over(r)' <=> Over(r),
         NEW c \in Conns, EnqueueFallback(c)
  PROVE  EventInv' /\ SentInv' /\ LastInv'
  <1>t. /\ pc \in [Conns -> Labels] /\ payload \in [Conns -> Payloads] /\ read \in [Conns -> Nat]
    BY DEF TypeOK
  <1>a. CASE UNCHANGED <<payload, early>> /\ pc' = [pc EXCEPT ![c] = "done"]
    BY <1>a, StillThread, StillKeeps
  <1>b. CASE /\ open[RootOf[c]] = 0
             /\ payload' = [payload EXCEPT ![c] = Payload(c, read[c] + 1, "atexit", TRUE)]
             /\ early' = IF read[RootConn[RootOf[c]]] = 0 THEN early \cup {RootOf[c]} ELSE early
             /\ pc' = [pc EXCEPT ![c] = "stamp"]
    <2>q. PICK q : q = Payload(c, read[c] + 1, "atexit", TRUE)
      OBVIOUS
    <2>1. /\ pc[c] = "fallback" /\ pc'[c] = "stamp" /\ payload'[c] = q
          /\ UNCHANGED <<read, readOnly, handled>> /\ early \subseteq early'
      BY <1>t, <1>b, <2>q DEF EnqueueFallback
    <2>2. q.conn = c /\ q.event = "atexit" /\ q.fallback
      BY <2>q DEF Payload
    <2>3. Transit' = Transit
      <3>1. ~Stamp(c)
        BY <2>1 DEF Stamp
      <3> QED
        BY <3>1, TransitMoves DEF Thread
    <2>4. \A d \in Conns : Silent(d) => Silent(d)'
      BY SilentStays
    <2>5. \A d \in Conns : d # c => pc'[d] = pc[d] /\ payload'[d] = payload[d]
      BY ThreadMoves DEF Thread
    <2>6. \A p \in Coming' : p \in Coming \/ p = q
      BY <2>1, <2>3, <2>5 DEF Coming
    <2>7. \A p \in Coming : p.conn \in Conns
      BY TransitType DEF Coming, HandInv
    <2>8. read[c] > 0 /\ Silent(c)
      BY <2>1 DEF EventInv, Silent, Live
    <2>9. EventInv'
      <3>1. \A d \in Conns : pc'[d] \in {"augment", "capture", "stamp", "send", "close", "fallback"} => read'[d] > 0
        BY <2>1, <2>5, <2>8 DEF EventInv
      <3>2. \A d \in Conns : pc'[d] \in {"augment", "capture", "stamp"} =>
              (~payload'[d].fallback => payload'[d].event = Script[d][read'[d]])
        BY <2>1, <2>2, <2>5 DEF EventInv
      <3>3. \A d \in Conns : pc'[d] \in {"capture", "stamp"} => (d \in ReadOnly => payload'[d].event # "start")
        BY <2>1, <2>2, <2>5 DEF EventInv
      <3>4. \A p \in Transit' :
              /\ ~p.fallback => p.idx \in 1 .. read'[p.conn] /\ p.event = Script[p.conn][p.idx]
              /\ p.conn \in ReadOnly => p.event # "start"
        BY <2>1, <2>3 DEF EventInv
      <3>5. \A p \in Coming' : p.fallback => p.event = "atexit" /\ Silent(p.conn)'
        BY <2>2, <2>4, <2>6, <2>7, <2>8 DEF EventInv
      <3>6. \A r \in readOnly' : RootConn[r] \in ReadOnly
        BY <2>1 DEF EventInv
      <3> QED
        BY <3>1, <3>2, <3>3, <3>4, <3>5, <3>6 DEF EventInv
    <2>10. SentInv'
      <3> SUFFICES ASSUME NEW r \in Roots, RootConn[r] \notin ReadOnly, NEW i \in 1 .. read[RootConn[r]]
                   PROVE  \/ i <= handled[RootConn[r]]
                          \/ /\ i = read[RootConn[r]] /\ pc'[RootConn[r]] \in Unnumbered
                             /\ ~payload'[RootConn[r]].fallback
                          \/ \E p \in Transit : p.conn = RootConn[r] /\ p.idx = i /\ ~p.fallback
        BY <2>1, <2>3 DEF SentInv
      <3>1. RootConn[r] \in Conns
        BY Roles
      <3>2. pc[c] \notin Unnumbered
        BY <2>1 DEF Unnumbered
      <3> QED
        BY <2>5, <3>1, <3>2 DEF SentInv
    <2>11. LastInv'
      <3> SUFFICES ASSUME NEW r \in Roots, r \notin early', ~Over(r)
                   PROVE  /\ \A p \in Coming' : p.fallback => (RootOf[p.conn] = r => Silent(RootConn[r])')
                          /\ \A p, s \in Transit' : p.fallback => (RootOf[p.conn] = r =>
                               (s.conn = RootConn[r] => (~s.fallback => s.seq < p.seq)))
        BY DEF LastInv
      <3>1. RootConn[r] \in Conns /\ r \notin early
        BY <2>1, Roles
      <3>2. RootOf[c] = r => Silent(RootConn[r])
        <4> SUFFICES ASSUME RootOf[c] = r PROVE Silent(RootConn[r])
          OBVIOUS
        <4>1. open[r] = 0 /\ read[RootConn[r]] # 0
          BY <1>b
        <4> QED
          BY <4>1, NothingOpen
      <3> QED
        BY <2>2, <2>3, <2>4, <2>6, <3>1, <3>2 DEF LastInv
    <2> QED
      BY <2>9, <2>10, <2>11
  <1> QED
    BY <1>a, <1>b DEF EnqueueFallback, Goto

\* Connections that end can only lower the need for a count.
LEMMA LiveShrinks ==
  ASSUME TypeOK, CountInv, clearing' \subseteq clearing, open' \in [Roots -> Nat],
         \A r \in Roots : Over(r)' <=> Over(r),
         \A r \in Roots : LiveOf(r)' \subseteq LiveOf(r),
         \A r \in Roots : ~Over(r) => open'[r] >= open[r]
  PROVE  CountInv'
  <1>1. \A r \in Roots : IsFiniteSet(LiveOf(r)') /\ Cardinality(LiveOf(r)') <= Cardinality(LiveOf(r))
        /\ Cardinality(LiveOf(r)') \in Nat /\ Cardinality(LiveOf(r)) \in Nat
    <2> TAKE r \in Roots
    <2>1. IsFiniteSet(LiveOf(r)) /\ LiveOf(r)' \subseteq LiveOf(r)
      BY DEF CountInv
    <2> QED
      BY <2>1, FS_Subset, FS_CardinalityType
  <1>2. \A r \in Roots : ~Over(r) => Cardinality(LiveOf(r)') <= open'[r]
    <2> SUFFICES ASSUME NEW r \in Roots, ~Over(r) PROVE Cardinality(LiveOf(r)') <= open'[r]
      OBVIOUS
    <2>1. Cardinality(LiveOf(r)) <= open[r] /\ open'[r] >= open[r] /\ open[r] \in Nat /\ open'[r] \in Nat
      BY DEF CountInv, TypeOK
    <2> QED
      BY <1>1, <2>1
  <1>3. \A r \in clearing' : Over(r)'
    BY DEF CountInv, TypeOK
  <1> QED
    BY <1>1, <1>2, <1>3 DEF CountInv

LEMMA LiveMoves ==
  ASSUME TypeOK, HandInv, EventInv, NEW c \in Conns, Thread(c) \/ ReadFails(c)
  PROVE  /\ \A d \in Conns : d # c => (Live(d)' <=> Live(d))
         /\ Live(c)' => Live(c) \/ (Read(c) /\ read[c] = 0)
         /\ RecordClose(c) => Live(c) /\ ~Live(c)'
  <1>t. /\ pc \in [Conns -> Labels] /\ payload \in [Conns -> Payloads] /\ read \in [Conns -> Nat]
        /\ read[c] \in Nat
    BY DEF TypeOK
  <1>1. \A d \in Conns : d # c => (Live(d)' <=> Live(d))
    BY ThreadMoves DEF Live
  <1>2. ASSUME Live(c)', ~Read(c) PROVE Live(c)
    <2>0. read' = read /\ read[c] > 0
      BY <1>2, ThreadMoves DEF Live
    <2>1. CASE EndOfFile(c) \/ ReadFails(c)
      BY <2>0, <2>1 DEF EndOfFile, ReadFails, Live
    <2>2. CASE AugmentReadOnly(c) \/ Augment(c) \/ CaptureReflogs(c)
      <3>1. pc[c] \in {"augment", "capture"}
        BY <2>2 DEF AugmentReadOnly, Augment, CaptureReflogs
      <3> QED
        BY <2>0, <3>1 DEF Live
    <2>3. CASE Stamp(c)
      <3>1. pc[c] = "stamp" /\ pc'[c] = "send" /\ payload'[c].fallback = payload[c].fallback
        BY <2>3, <1>t DEF Stamp, Goto, Payloads
      <3> QED
        BY <1>2, <2>0, <3>1 DEF Live
    <2>4. CASE Enqueue(c)
      <3>1. pc[c] = "send" /\ (payload[c].fallback => pc'[c] = "done")
        BY <1>t, <2>4 DEF Enqueue, Goto
      <3> QED
        BY <1>2, <2>0, <3>1 DEF Live
    <2>5. CASE RecordClose(c)
      BY <2>0, <2>5 DEF RecordClose, Live
    <2>6. CASE EnqueueFallback(c)
      <3>1. \/ pc'[c] = "done"
            \/ pc'[c] = "stamp" /\ payload'[c] = Payload(c, read[c] + 1, "atexit", TRUE)
        BY <1>t, <2>6 DEF EnqueueFallback, Goto
      <3> QED
        BY <1>2, <3>1 DEF Live, Payload
    <2> QED
      BY <1>2, <2>1, <2>2, <2>3, <2>4, <2>5, <2>6 DEF Thread
  <1>3. ASSUME Read(c), read[c] # 0 PROVE Live(c)
    BY <1>3, <1>t DEF Read, Live
  <1>4. ASSUME RecordClose(c) PROVE Live(c) /\ ~Live(c)'
    <2>1. pc[c] = "close" /\ pc'[c] \in {"done", "fallback"}
      BY <1>4, <1>t DEF RecordClose, Goto
    <2> QED
      BY <2>1 DEF Live, EventInv
  <1> QED
    BY <1>1, <1>2, <1>3, <1>4

LEMMA CountOther ==
  ASSUME TypeOK, HandInv, EventInv, CountInv, TypeOK',
         \A r \in Roots : Over(r)' <=> Over(r), NEW c \in Conns,
         (Thread(c) \/ ReadFails(c)) /\ ~RecordClose(c) /\ (Read(c) => read[c] # 0)
  PROVE  CountInv'
  <1>1. clearing' = clearing
    BY ThreadMoves
  <1>2. open' = open
    <2>1. CASE Read(c)
      <3>1. read[c] # 0 /\ read[c] \in Nat
        BY <2>1 DEF TypeOK
      <3>2. read[c] + 1 # 1
        BY <3>1
      <3> QED
        BY <2>1, <3>2 DEF Read
    <2>2. CASE ~Read(c)
      BY <2>2 DEF Thread, EndOfFile, ReadFails, AugmentReadOnly, Augment, CaptureReflogs, Stamp,
                  Enqueue, EnqueueFallback, ingressVars
    <2> QED
      BY <2>1, <2>2
  <1>3. \A r \in Roots : LiveOf(r)' \subseteq LiveOf(r)
    BY LiveMoves DEF LiveOf
  <1>4. \A r \in Roots : open'[r] >= open[r]
    BY <1>2 DEF TypeOK
  <1> QED
    BY <1>1, <1>3, <1>4, LiveShrinks DEF TypeOK

LEMMA CountRead ==
  ASSUME TypeOK, HandInv, EventInv, CountInv, TypeOK',
         \A r \in Roots : Over(r)' <=> Over(r), NEW c \in Conns, Read(c), read[c] = 0
  PROVE  CountInv'
  <1>1. clearing' = clearing /\ RootOf[c] \in Roots
    BY ThreadMoves, ConstantsType DEF Thread
  <1>2. open' = [open EXCEPT ![RootOf[c]] = open[RootOf[c]] + 1]
    BY DEF Read
  <1>3. ASSUME NEW r \in Roots
        PROVE  /\ IsFiniteSet(LiveOf(r)')
               /\ ~Over(r) => Cardinality(LiveOf(r)') <= open'[r]
    <2>0. PICK S : S = LiveOf(r)
      OBVIOUS
    <2>1. IsFiniteSet(S) /\ (~Over(r) => Cardinality(S) <= open[r])
      BY <2>0 DEF CountInv
    <2>t. Cardinality(S) \in Nat /\ open[r] \in Nat
      BY <2>1, FS_CardinalityType DEF TypeOK
    <2>2. CASE r # RootOf[c]
      <3>1. LiveOf(r)' = S
        BY <2>0, <2>2, LiveMoves DEF LiveOf, Thread
      <3>2. open'[r] = open[r]
        BY <1>2, <2>2 DEF TypeOK
      <3> QED
        BY <2>1, <3>1, <3>2
    <2>3. CASE r = RootOf[c]
      <3>1. LiveOf(r)' \subseteq S \cup {c}
        BY <2>0, <2>3, LiveMoves DEF LiveOf, Thread
      <3>2. open'[r] = open[r] + 1
        BY <1>2, <2>3 DEF TypeOK
      <3>3. /\ IsFiniteSet(S \cup {c})
            /\ Cardinality(S \cup {c}) <= Cardinality(S) + 1
            /\ Cardinality(S \cup {c}) \in Nat
        BY <2>1, <2>t, FS_AddElement, FS_CardinalityType
      <3>4. /\ IsFiniteSet(LiveOf(r)')
            /\ Cardinality(LiveOf(r)') <= Cardinality(S \cup {c})
            /\ Cardinality(LiveOf(r)') \in Nat
        BY <3>1, <3>3, FS_Subset, FS_CardinalityType
      <3> QED
        BY <2>1, <2>t, <3>2, <3>3, <3>4
    <2> QED
      BY <2>2, <2>3
  <1>4. \A r \in clearing' : Over(r)'
    BY <1>1 DEF CountInv, TypeOK
  <1> QED
    BY <1>3, <1>4 DEF CountInv

LEMMA CountClose ==
  ASSUME TypeOK, HandInv, EventInv, CountInv, TypeOK',
         \A r \in Roots : Over(r)' <=> Over(r), NEW c \in Conns, RecordClose(c)
  PROVE  CountInv'
  <1>1. clearing' = clearing /\ RootOf[c] \in Roots
    BY ThreadMoves, ConstantsType DEF Thread
  <1>2. /\ open' = [open EXCEPT ![RootOf[c]] = IF open[RootOf[c]] > 1 THEN open[RootOf[c]] - 1 ELSE 0]
        /\ ~Read(c)
    BY DEF RecordClose, Read
  <1>3. ASSUME NEW r \in Roots
        PROVE  /\ IsFiniteSet(LiveOf(r)')
               /\ ~Over(r) => Cardinality(LiveOf(r)') <= open'[r]
    <2>0. PICK S : S = LiveOf(r)
      OBVIOUS
    <2>1. IsFiniteSet(S) /\ (~Over(r) => Cardinality(S) <= open[r])
      BY <2>0 DEF CountInv
    <2>t. Cardinality(S) \in Nat /\ open[r] \in Nat
      BY <2>1, FS_CardinalityType DEF TypeOK
    <2>2. CASE r # RootOf[c]
      <3>1. LiveOf(r)' = S
        BY <2>0, <2>2, LiveMoves DEF LiveOf, Thread
      <3>2. open'[r] = open[r]
        BY <1>2, <2>2 DEF TypeOK
      <3> QED
        BY <2>1, <3>1, <3>2
    <2>3. CASE r = RootOf[c]
      <3>1. LiveOf(r)' = S \ {c} /\ c \in S
        BY <1>2, <2>0, <2>3, LiveMoves DEF LiveOf, Thread
      <3>2. open'[r] = IF open[r] > 1 THEN open[r] - 1 ELSE 0
        BY <1>2, <2>3 DEF TypeOK
      <3>3. IsFiniteSet(S \ {c}) /\ Cardinality(S \ {c}) = Cardinality(S) - 1
        BY <2>1, <3>1, FS_RemoveElement
      <3> QED
        BY <2>1, <2>t, <3>1, <3>2, <3>3
    <2> QED
      BY <2>2, <2>3
  <1>4. \A r \in clearing' : Over(r)'
    BY <1>1 DEF CountInv, TypeOK
  <1> QED
    BY <1>3, <1>4 DEF CountInv

\* Forgetting a root whose command is over gives up its count.
LEMMA CountAside ==
  ASSUME TypeOK, CountInv, TypeOK', \A r \in Roots : Over(r)' <=> Over(r), Aside
  PROVE  CountInv'
  <1>1. \A r \in Roots : LiveOf(r)' = LiveOf(r)
    BY AsideMoves DEF LiveOf, Live
  <1>2. CASE \E r \in Roots : ClearRoot(r)
    <2>1. PICK s \in Roots : ClearRoot(s)
      BY <1>2
    <2>2. clearing' = {} /\ Over(s) /\ open' = [open EXCEPT ![s] = 0]
      BY <2>1 DEF ClearRoot, CountInv
    <2>3. \A r \in Roots : ~Over(r) => open'[r] >= open[r]
      BY <2>2 DEF TypeOK
    <2> QED
      BY <1>1, <2>2, <2>3, LiveShrinks DEF TypeOK
  <1>3. CASE ~(\E r \in Roots : ClearRoot(r))
    <2>1. clearing' = clearing /\ open' = open
      BY <1>3 DEF Aside, Receive, StopWorker, Drained, RequestShutdown, vars, ingressVars, workerVars
    <2>2. \A r \in Roots : open'[r] >= open[r]
      BY <2>1 DEF TypeOK
    <2> QED
      BY <1>1, <2>1, <2>2, LiveShrinks DEF TypeOK
  <1> QED
    BY <1>2, <1>3

\* The worker takes the first payload on its way.
LEMMA IngestMoves ==
  ASSUME TypeOK, NumberInv, OrderInv, NEW p \in buffer, Ingest(p)
  PROVE  /\ p \in Transit /\ p.conn \in Conns /\ p.idx \in Nat /\ RootOf[p.conn] \in Roots
         /\ UNCHANGED <<pc, read, payload, readOnly, open, early>>
         /\ Transit' = Transit \ {p}
         /\ handled' = [handled EXCEPT ![p.conn] = p.idx] /\ handled[p.conn] < p.idx
         /\ \A q \in Transit : ~(q.seq < p.seq)
         /\ \A q \in Transit : q.conn = p.conn => q = p \/ p.idx < q.idx
  <1>0. worker # "stopped" /\ p.seq = next /\ next \in Nat
    BY DEF Ingest, TypeOK
  <1>1. /\ UNCHANGED <<pc, read, payload, readOnly, open, early>>
        /\ handled' = [handled EXCEPT ![p.conn] = p.idx]
    BY DEF Ingest, threadVars, ingressVars
  <1>2. p \in Transit
    BY DEF Transit
  <1>3. p.conn \in Conns /\ p.idx \in Nat /\ RootOf[p.conn] \in Roots
    BY <1>2, TransitType, ConstantsType
  <1>4. handled[p.conn] < p.idx
    BY <1>0, <1>2 DEF OrderInv
  <1>5. \A q \in Transit : q.seq \in Nat /\ next <= q.seq /\ (q.seq = p.seq => q = p)
    BY <1>0, <1>2, TransitNumbers, TransitType DEF TypeOK
  <1>6. \A q \in Transit : q.conn = p.conn => q = p \/ p.idx < q.idx
    <2> SUFFICES ASSUME NEW q \in Transit, q.conn = p.conn, q # p
                 PROVE  p.idx < q.idx
      OBVIOUS
    <2>1. p.seq < q.seq
      BY <1>0, <1>5
    <2> QED
      BY <1>0, <1>2, <2>1 DEF OrderInv
  <1> QED
    BY <1>0, <1>1, <1>2, <1>3, <1>4, <1>5, <1>6, IngestNumbers

LEMMA HeardIngest ==
  ASSUME TypeOK, NumberInv, OrderInv, HandInv, SentInv, NEW p \in buffer, Ingest(p), NEW s \in Roots, NEW S
  PROVE  /\ Heard(s, S) => Heard(s, S)'
         /\ p.conn # RootConn[s] => (Heard(s, S)' <=> Heard(s, S))
         /\ p.conn = RootConn[s] /\ p.conn \notin ReadOnly /\ Heard(s, S)' =>
              Heard(s, S) \/ (~p.fallback /\ p.idx \in 1 .. read[p.conn] /\ Script[p.conn][p.idx] \in S)
  <1>0. PICK d \in Conns : d = RootConn[s]
    BY Roles
  <1>1. /\ p.conn \in Conns /\ p.idx \in Nat /\ p \in Transit
        /\ handled' = [handled EXCEPT ![p.conn] = p.idx] /\ handled[p.conn] < p.idx
        /\ read' = read /\ handled \in [Conns -> Nat] /\ read \in [Conns -> Nat]
        /\ \A q \in Transit : q.conn = p.conn => q = p \/ p.idx < q.idx
    BY IngestMoves DEF TypeOK
  <1>2. handled'[d] = IF p.conn = d THEN p.idx ELSE handled[d]
    BY <1>1
  <1>3. \A i \in 1 .. read[d] : i \in Nat
    BY <1>1
  <1>4. Heard(s, S) => Heard(s, S)'
    <2> SUFFICES ASSUME NEW i \in 1 .. read[d], i <= handled[d], Script[d][i] \in S
                 PROVE  i <= handled'[d]
      BY <1>0, <1>1 DEF Heard
    <2>1. handled[d] \in Nat /\ i \in Nat
      BY <1>1
    <2> QED
      BY <1>1, <1>2, <2>1
  <1>5. p.conn # RootConn[s] => (Heard(s, S)' <=> Heard(s, S))
    BY <1>0, <1>1, <1>2 DEF Heard
  <1>6. ASSUME p.conn = d, d \notin ReadOnly, NEW i \in 1 .. read[d], i <= p.idx
        PROVE  i <= handled[d] \/ (~p.fallback /\ i = p.idx)
    <2>1. \/ i <= handled[d]
          \/ i = read[d] /\ pc[d] \in Unnumbered /\ ~payload[d].fallback
          \/ \E q \in Transit : q.conn = d /\ q.idx = i /\ ~q.fallback
      BY <1>0, <1>6 DEF SentInv
    <2>2. ~(i = read[d] /\ pc[d] \in Unnumbered /\ ~payload[d].fallback)
      <3> SUFFICES ASSUME i = read[d], pc[d] \in Unnumbered, ~payload[d].fallback
                   PROVE  FALSE
        OBVIOUS
      <3>1. payload[d].idx = i
        BY DEF HandInv
      <3>2. p.idx < payload[d].idx
        BY <1>1, <1>6 DEF OrderInv, Ingest, Unnumbered
      <3> QED
        BY <1>1, <1>3, <1>6, <3>1, <3>2
    <2>3. ASSUME NEW q \in Transit, q.conn = d, q.idx = i, ~q.fallback
          PROVE  ~p.fallback /\ i = p.idx
      <3>1. q = p \/ p.idx < i
        BY <1>1, <1>6, <2>3
      <3>2. ~(p.idx < i)
        BY <1>1, <1>3, <1>6
      <3> QED
        BY <2>3, <3>1, <3>2
    <2> QED
      BY <2>1, <2>2, <2>3
  <1>7. ASSUME p.conn = d, d \notin ReadOnly, Heard(s, S)'
        PROVE  Heard(s, S) \/ (~p.fallback /\ p.idx \in 1 .. read[p.conn] /\ Script[p.conn][p.idx] \in S)
    <2>1. PICK i \in 1 .. read[d] : i <= p.idx /\ Script[d][i] \in S
      BY <1>0, <1>1, <1>2, <1>7 DEF Heard
    <2>2. i <= handled[d] \/ (~p.fallback /\ i = p.idx)
      BY <1>6, <1>7, <2>1
    <2> QED
      BY <1>0, <1>7, <2>1, <2>2 DEF Heard
  <1> QED
    BY <1>0, <1>4, <1>5, <1>7

\* What has been read was written.
ReadInv == \A c \in Conns : read[c] <= Len(Script[c])

LEMMA ReadNext ==
  ASSUME TypeOK, ReadInv, [Next]_vars
  PROVE  ReadInv'
  <1>t. read \in [Conns -> Nat]
    BY DEF TypeOK
  <1>1. CASE read' = read
    BY <1>1 DEF ReadInv
  <1>2. ASSUME NEW c \in Conns, Read(c) PROVE ReadInv'
    <2>1. read' = [read EXCEPT ![c] = read[c] + 1] /\ read[c] + 1 <= Len(Script[c])
      BY <1>2 DEF Read
    <2> QED
      BY <1>t, <2>1 DEF ReadInv
  <1>3. Aside \/ (\E p \in buffer : Ingest(p)) => read' = read
    BY AsideMoves DEF Ingest, threadVars
  <1> QED
    BY <1>1, <1>2, <1>3, StepKinds, ThreadMoves

\* A start that arrives is the root's own, and the first.
LEMMA StartIngest ==
  ASSUME TypeOK, NumberInv, OrderInv, ReadInv, EventInv, NEW p \in buffer, Ingest(p), Start(p)
  PROVE  LET r == RootOf[p.conn] IN
         /\ p.conn = RootConn[r] /\ p.conn \notin ReadOnly /\ ~p.fallback
         /\ p.idx \in 1 .. read[p.conn] /\ Script[p.conn][p.idx] = "start"
         /\ ~Started(r) /\ Started(r)'
  <1>0. PICK d, r : d = p.conn /\ r = RootOf[d]
    OBVIOUS
  <1>1. /\ p \in Transit /\ d \in Conns /\ p.idx \in Nat /\ r \in Roots /\ read' = read
        /\ handled' = [handled EXCEPT ![d] = p.idx] /\ handled[d] < p.idx
        /\ handled \in [Conns -> Nat] /\ read \in [Conns -> Nat]
    BY <1>0, IngestMoves DEF TypeOK
  <1>2. d = RootConn[r] /\ p.event = "start"
    BY <1>0 DEF Start, Own
  <1>3. ~p.fallback /\ d \notin ReadOnly
    BY <1>0, <1>1, <1>2 DEF EventInv, Coming
  <1>4. p.idx \in 1 .. read[d] /\ Script[d][p.idx] = "start"
    BY <1>0, <1>1, <1>2, <1>3 DEF EventInv
  <1>5. Started(r)'
    BY <1>1, <1>2, <1>4 DEF Started, Heard
  <1>6. ASSUME Started(r) PROVE FALSE
    <2>1. PICK i \in 1 .. read[d] : i <= handled[d] /\ Script[d][i] = "start"
      BY <1>2, <1>6 DEF Started, Heard
    <2>2. Script[d] \in Seq(Events)
      BY <1>1, IngressAssumption DEF IngressAssumption
    <2>3. PICK n \in Nat : n = Len(Script[d]) /\ DOMAIN Script[d] = 1 .. n
      BY <2>2
    <2>4. read[d] <= n
      BY <1>1, <2>3 DEF ReadInv
    <2>5. i \in DOMAIN Script[d] /\ p.idx \in DOMAIN Script[d]
      BY <1>1, <1>4, <2>3, <2>4
    <2>6. i = p.idx
      BY <1>1, <1>2, <1>4, <2>1, <2>5, Roles
    <2> QED
      BY <1>1, <2>1, <2>6
  <1> QED
    BY <1>0, <1>2, <1>3, <1>4, <1>5, <1>6

\* What is over stays over.
LEMMA OverIngest ==
  ASSUME TypeOK, NumberInv, OrderInv, HandInv, ReadInv, EventInv, SentInv, NEW p \in buffer, Ingest(p),
         NEW s \in Roots
  PROVE  /\ Started(s) => Started(s)'
         /\ Over(s) => Over(s)'
         /\ p.conn # RootConn[s] => (Started(s)' <=> Started(s))
  <1>1. (Started(s) => Started(s)') /\ (p.conn # RootConn[s] => (Started(s)' <=> Started(s)))
    BY HeardIngest DEF Started
  <1>2. ASSUME Over(s) PROVE s \notin pending'
    <2>1. s \notin pending /\ Started(s)
      BY <1>2 DEF Over
    <2>2. CASE pending' \subseteq pending
      BY <2>1, <2>2
    <2>3. CASE Start(p) /\ pending' = pending \cup {RootOf[p.conn]}
      <3>1. ~Started(RootOf[p.conn])
        BY <2>3, StartIngest
      <3> QED
        BY <2>1, <2>3, <3>1
    <2> QED
      BY <2>2, <2>3 DEF Ingest, HandleStart, HandleExit, Finalize
  <1> QED
    BY <1>1, <1>2 DEF Over

LEMMA IngestKeeps ==
  ASSUME TypeOK, NumberInv, OrderInv, HandInv, ReadInv, EventInv, SentInv, LastInv,
         NEW p \in buffer, Ingest(p)
  PROVE  EventInv' /\ SentInv' /\ LastInv'
  <1>1. /\ UNCHANGED <<pc, read, payload, readOnly, open, early>>
        /\ Transit' = Transit \ {p} /\ p \in Transit
        /\ handled' = [handled EXCEPT ![p.conn] = p.idx] /\ handled[p.conn] < p.idx
        /\ p.conn \in Conns /\ p.idx \in Nat
    BY IngestMoves
  <1>2. \A d \in Conns : Silent(d)' <=> Silent(d)
    BY <1>1 DEF Silent, Live
  <1>3. Coming' \subseteq Coming
    BY <1>1 DEF Coming
  <1>4. \A q \in Coming : q.conn \in Conns
    BY TransitType DEF Coming, HandInv
  <1>5. EventInv'
    BY <1>1, <1>2, <1>3, <1>4 DEF EventInv
  <1>6. SentInv'
    <2> SUFFICES ASSUME NEW r \in Roots, RootConn[r] \notin ReadOnly, NEW i \in 1 .. read[RootConn[r]]
                 PROVE  \/ i <= handled'[RootConn[r]]
                        \/ /\ i = read[RootConn[r]] /\ pc[RootConn[r]] \in Unnumbered
                           /\ ~payload[RootConn[r]].fallback
                        \/ \E q \in Transit' : q.conn = RootConn[r] /\ q.idx = i /\ ~q.fallback
      BY <1>1 DEF SentInv
    <2>1. PICK d \in Conns : d = RootConn[r]
      BY Roles
    <2>2. \/ i <= handled[d]
          \/ i = read[d] /\ pc[d] \in Unnumbered /\ ~payload[d].fallback
          \/ \E q \in Transit : q.conn = d /\ q.idx = i /\ ~q.fallback
      BY <2>1 DEF SentInv
    <2>t. i \in Nat /\ handled[d] \in Nat
      BY <2>1 DEF TypeOK
    <2>3. handled'[d] = IF p.conn = d THEN p.idx ELSE handled[d]
      BY <1>1 DEF TypeOK
    <2>4. CASE i <= handled[d]
      BY <1>1, <2>t, <2>1, <2>3, <2>4
    <2>5. ASSUME NEW q \in Transit, q.conn = d, q.idx = i, ~q.fallback
          PROVE  i <= handled'[d] \/ q \in Transit'
      BY <1>1, <2>t, <2>3, <2>5
    <2> QED
      BY <2>1, <2>2, <2>4, <2>5
  <1>7. LastInv'
    <2> SUFFICES ASSUME NEW r \in Roots, r \notin early, ~Over(r)
                 PROVE  /\ \A q \in Coming' : q.fallback => (RootOf[q.conn] = r => Silent(RootConn[r])')
                        /\ \A q, s \in Transit' : q.fallback => (RootOf[q.conn] = r =>
                             (s.conn = RootConn[r] => (~s.fallback => s.seq < q.seq)))
      BY <1>1, OverIngest DEF LastInv
    <2>1. RootConn[r] \in Conns
      BY Roles
    <2> QED
      BY <1>1, <1>2, <1>3, <2>1 DEF LastInv
  <1> QED
    BY <1>5, <1>6, <1>7

\* What processing a payload does to its root.
Ends(r, by) ==
  /\ pending' = pending \ {r}
  /\ \/ /\ completed' = completed \cup {r} /\ ended' = [ended EXCEPT ![r] = by] /\ clearing' = {r}
     \/ UNCHANGED <<completed, ended, clearing>>

LEMMA Outcomes ==
  ASSUME TypeOK, NumberInv, OrderInv, HandInv, ReadInv, EventInv, NormInv, NEW p \in buffer, Ingest(p),
         NEW r, r = RootOf[p.conn]
  PROVE  /\ slots' \subseteq slots \cup (IF Start(p) THEN {r} ELSE {})
         /\ \/ /\ Start(p) /\ deferred[r] = "no" /\ r \notin completed
               /\ pending' = pending \cup {r}
               /\ UNCHANGED <<completed, ended, clearing>>
               /\ deferred' = [deferred EXCEPT ![r] = "no"]
            \/ /\ Start(p) /\ deferred[r] # "no" /\ Ends(r, deferred[r])
               /\ deferred' = [deferred EXCEPT ![r] = "no"]
            \/ /\ Terminal(p) /\ r \in pending /\ Ends(r, EndedBy(p))
               /\ UNCHANGED deferred
            \/ /\ Terminal(p) /\ r \notin pending
               /\ UNCHANGED <<pending, completed, ended>>
               /\ deferred' = IF r \in completed THEN deferred
                              ELSE [deferred EXCEPT ![r] = EndedBy(p)]
               /\ clearing' = slots \cap {r}
            \/ /\ ~Start(p) /\ ~Terminal(p)
               /\ UNCHANGED <<pending, completed, ended, clearing, deferred>>
  <1>1. slots' \subseteq slots \cup (IF Start(p) THEN {r} ELSE {})
    BY DEF Ingest
  <1>2. CASE Start(p) /\ HandleStart(r)
    <2>1. ~Started(r) /\ r \in Roots
      BY <1>2, StartIngest, IngestMoves
    <2>2. r \notin completed
      BY <2>1 DEF NormInv
    <2> QED
      BY <1>1, <1>2, <2>2 DEF HandleStart, Finalize, Ends
  <1>3. CASE Terminal(p) /\ HandleExit(r, p)
    BY <1>1, <1>3 DEF HandleExit, Finalize, Ends
  <1>4. CASE ~Start(p) /\ ~Terminal(p) /\ UNCHANGED <<pending, deferred, completed, ended, clearing, errors>>
    BY <1>1, <1>4
  <1> QED
    BY <1>2, <1>3, <1>4 DEF Ingest

LEMMA CountIngest ==
  ASSUME TypeOK, NumberInv, OrderInv, HandInv, ReadInv, EventInv, SentInv, CountInv, NormInv,
         NEW p \in buffer, Ingest(p)
  PROVE  CountInv'
  <1>0. PICK r \in Roots : r = RootOf[p.conn]
    BY IngestMoves
  <1>1. UNCHANGED <<pc, read, payload, open>>
    BY IngestMoves
  <1>2. \A s \in Roots : LiveOf(s)' = LiveOf(s)
    BY <1>1 DEF LiveOf, Live
  <1>3. \A s \in Roots : (Over(s) => Over(s)') /\ (Started(s) => Started(s)')
    BY OverIngest
  <1>4. \A s \in clearing' : Over(s)'
    <2> SUFFICES ASSUME NEW s \in clearing', s \notin clearing
                 PROVE  Over(s)'
      BY <1>3 DEF CountInv, TypeOK
    <2>1. CASE Start(p) /\ Ends(r, deferred[r])
      <3>1. s = r /\ r \notin pending'
        BY <2>1 DEF Ends
      <3> QED
        BY <1>0, <2>1, <3>1, StartIngest DEF Over
    <2>2. CASE r \in pending /\ Ends(r, EndedBy(p))
      <3>1. s = r /\ r \notin pending'
        BY <2>2 DEF Ends
      <3>2. Started(r)
        BY <2>2 DEF NormInv
      <3> QED
        BY <1>3, <3>1, <3>2 DEF Over
    <2>3. CASE r \notin pending /\ clearing' = slots \cap {r} /\ UNCHANGED pending
      <3>1. s = r /\ Started(r) /\ r \notin pending'
        BY <2>3 DEF NormInv
      <3> QED
        BY <1>3, <3>1 DEF Over
    <2> QED
      BY <1>0, <2>1, <2>2, <2>3, Outcomes
  <1> QED
    BY <1>1, <1>2, <1>3, <1>4 DEF CountInv

LEMMA DeferredIngest ==
  ASSUME TypeOK, NumberInv, OrderInv, HandInv, ReadInv, EventInv, SentInv, LastInv, NormInv, DeferredInv,
         NEW p \in buffer, Ingest(p)
  PROVE  DeferredInv'
  <1>0. PICK r \in Roots : r = RootOf[p.conn]
    BY IngestMoves
  <1>1. /\ UNCHANGED <<pc, read, payload, early>> /\ Transit' = Transit \ {p} /\ p \in Transit
        /\ \A q \in Transit : ~(q.seq < p.seq)
    BY IngestMoves
  <1>2. \A d \in Conns : Silent(d)' <=> Silent(d)
    BY <1>1 DEF Silent, Live
  <1> SUFFICES ASSUME NEW s \in Roots, deferred'[s] = "fallback", s \notin early, ~Started(s)'
               PROVE  /\ Silent(RootConn[s])
                      /\ RootConn[s] \notin ReadOnly =>
                           \A q \in Transit' : q.conn = RootConn[s] => q.fallback
    BY <1>1, <1>2, Roles DEF DeferredInv
  <1>3. ~Started(s)
    BY OverIngest
  <1>4. CASE deferred[s] = "fallback"
    BY <1>1, <1>3, <1>4 DEF DeferredInv
  <1>5. CASE deferred[s] # "fallback"
    <2>1. Terminal(p) /\ s = r /\ EndedBy(p) = "fallback"
      <3>1. \/ deferred' = deferred
            \/ deferred' = [deferred EXCEPT ![r] = "no"]
            \/ Terminal(p) /\ deferred' = [deferred EXCEPT ![r] = EndedBy(p)]
        BY <1>0, Outcomes
      <3>2. deferred \in [Roots -> {"no", "exit", "fallback"}]
        BY DEF TypeOK
      <3> QED
        BY <1>5, <3>1, <3>2
    <2>2. p.fallback /\ p \in Coming
      BY <1>1, <2>1 DEF EndedBy, Coming
    <2>3. ~Over(s)
      BY <1>3 DEF Over
    <2>4. Silent(RootConn[s])
      BY <1>0, <2>1, <2>2, <2>3 DEF LastInv
    <2>5. \A q \in Transit : q.conn = RootConn[s] => q.fallback
      BY <1>0, <1>1, <2>1, <2>2, <2>3 DEF LastInv
    <2> QED
      BY <1>1, <2>4, <2>5
  <1> QED
    BY <1>4, <1>5

LEMMA NormIngest ==
  ASSUME TypeOK, NumberInv, OrderInv, HandInv, ReadInv, EventInv, SentInv, NormInv,
         NEW p \in buffer, Ingest(p)
  PROVE  NormInv'
  <1>0. PICK r \in Roots : r = RootOf[p.conn]
    BY IngestMoves
  <1>1. \A s \in Roots : s # r => p.conn # RootConn[s]
    BY <1>0, Roles
  <1>2. \A s \in Roots : /\ Started(s) => Started(s)'
                         /\ s # r => (Started(s)' <=> Started(s))
    BY <1>1, OverIngest
  <1>e. PICK S : S = {"exit", "atexit"}
    OBVIOUS
  <1>3. \A s \in Roots : s # r => (Heard(s, S)' <=> Heard(s, S))
    BY <1>1, HeardIngest
  <1>4. ASSUME RootConn[r] \notin ReadOnly, ~Heard(r, S), ~Terminal(p)
        PROVE  ~Heard(r, S)'
    <2>1. CASE p.conn # RootConn[r]
      BY <1>4, <2>1, HeardIngest
    <2>2. CASE p.conn = RootConn[r]
      <3>1. Heard(r, S)' => ~p.fallback /\ Script[p.conn][p.idx] \in S
        BY <1>4, <2>2, HeardIngest
      <3>2. ~p.fallback => p.event = Script[p.conn][p.idx]
        BY IngestMoves DEF EventInv
      <3>3. Own(p.conn)
        BY <1>0, <2>2 DEF Own
      <3> QED
        BY <1>4, <1>e, <3>1, <3>2, <3>3 DEF Terminal
    <2> QED
      BY <2>1, <2>2
  <1>5. Start(p) => /\ RootConn[r] \notin ReadOnly /\ ~Started(r) /\ Started(r)' /\ ~Terminal(p)
    <2> SUFFICES ASSUME Start(p)
                 PROVE  RootConn[r] \notin ReadOnly /\ ~Started(r) /\ Started(r)' /\ ~Terminal(p)
      OBVIOUS
    <2>1. RootConn[r] \notin ReadOnly /\ ~Started(r) /\ Started(r)' /\ ~p.fallback
      BY <1>0, StartIngest
    <2> QED
      BY <2>1 DEF Terminal, Start
  <1>t. /\ pending \subseteq Roots /\ completed \subseteq Roots /\ slots \subseteq Roots
        /\ deferred \in [Roots -> {"no", "exit", "fallback"}]
        /\ ended \in [Roots -> {"no", "exit", "fallback"}]
    BY DEF TypeOK
  <1>6. /\ \A s \in pending : RootConn[s] \notin ReadOnly /\ Started(s) /\ ~Heard(s, S) /\ s \notin completed
        /\ \A s \in completed \cup slots : Started(s)
        /\ \A s \in Roots : ended[s] # "no" => s \in completed
        /\ \A s \in Roots : RootConn[s] \notin ReadOnly =>
             (~Started(s) => (deferred[s] = "no" => ~Heard(s, S)))
    BY <1>e DEF NormInv
  <1>o. /\ slots' \subseteq slots \cup (IF Start(p) THEN {r} ELSE {})
        /\ \/ /\ Start(p) /\ deferred[r] = "no" /\ r \notin completed
              /\ pending' = pending \cup {r}
              /\ UNCHANGED <<completed, ended>>
              /\ deferred' = [deferred EXCEPT ![r] = "no"]
           \/ /\ Start(p) /\ Ends(r, deferred[r])
              /\ deferred' = [deferred EXCEPT ![r] = "no"]
           \/ /\ Terminal(p) /\ r \in pending /\ Ends(r, EndedBy(p))
              /\ UNCHANGED deferred
           \/ /\ Terminal(p) /\ r \notin pending
              /\ UNCHANGED <<pending, completed, ended>>
              /\ deferred' = IF r \in completed THEN deferred
                             ELSE [deferred EXCEPT ![r] = EndedBy(p)]
           \/ /\ ~Start(p) /\ ~Terminal(p)
              /\ UNCHANGED <<pending, completed, ended, deferred>>
    BY <1>0, Outcomes
  <1>7. \A s \in pending' : RootConn[s] \notin ReadOnly /\ Started(s)' /\ ~Heard(s, S)' /\ s \notin completed'
    <2> SUFFICES ASSUME NEW s \in pending'
                 PROVE  RootConn[s] \notin ReadOnly /\ Started(s)' /\ ~Heard(s, S)' /\ s \notin completed'
      OBVIOUS
    <2>1. CASE s # r
      <3>1. s \in pending /\ (s \in completed' => s \in completed)
        BY <1>o, <2>1 DEF Ends
      <3> QED
        BY <1>2, <1>3, <1>6, <1>t, <2>1, <3>1
    <2>2. CASE s = r
      <3>1. \/ Start(p) /\ deferred[r] = "no" /\ r \notin completed /\ completed' = completed
            \/ r \in pending /\ ~Terminal(p) /\ completed' = completed
        BY <1>o, <2>2 DEF Ends
      <3> QED
        BY <1>2, <1>4, <1>5, <1>6, <2>2, <3>1
    <2> QED
      BY <2>1, <2>2
  <1>8. \A s \in completed' \cup slots' : Started(s)'
    <2>1. \A s \in completed \cup slots : Started(s)'
      BY <1>2, <1>6, <1>t
    <2>2. completed' \subseteq completed \cup (IF Start(p) \/ r \in pending THEN {r} ELSE {})
      BY <1>o DEF Ends
    <2>3. Start(p) \/ r \in pending => Started(r)'
      BY <1>2, <1>5, <1>6
    <2> QED
      BY <1>o, <2>1, <2>2, <2>3
  <1>9. \A s \in Roots : ended'[s] # "no" => s \in completed'
    <2>1. \/ ended' = ended /\ completed' = completed
          \/ \E by : ended' = [ended EXCEPT ![r] = by] /\ completed' = completed \cup {r}
      BY <1>o DEF Ends
    <2>2. CASE ended' = ended /\ completed' = completed
      BY <1>6, <2>2
    <2>3. ASSUME NEW by, ended' = [ended EXCEPT ![r] = by], completed' = completed \cup {r}
          PROVE  \A s \in Roots : ended'[s] # "no" => s \in completed'
      BY <1>6, <1>t, <2>3
    <2> QED
      BY <2>1, <2>2, <2>3
  <1>10. \A s \in Roots : RootConn[s] \notin ReadOnly =>
           (~Started(s)' => (deferred'[s] = "no" => ~Heard(s, S)'))
    <2> SUFFICES ASSUME NEW s \in Roots, RootConn[s] \notin ReadOnly, ~Started(s)', deferred'[s] = "no"
                 PROVE  ~Heard(s, S)'
      OBVIOUS
    <2>1. ~Started(s)
      BY <1>2
    <2>2. CASE s # r
      <3>1. deferred[s] = "no"
        <4>1. \/ deferred' = deferred
              \/ \E by : deferred' = [deferred EXCEPT ![r] = by]
          BY <1>o
        <4> QED
          BY <1>t, <2>2, <4>1
      <3> QED
        BY <1>3, <1>6, <2>1, <2>2, <3>1
    <2>3. CASE s = r
      <3>1. ~Start(p) /\ r \notin pending /\ r \notin completed
        BY <1>5, <1>6, <2>1, <2>3
      <3>2. EndedBy(p) # "no"
        BY DEF EndedBy
      <3>3. ~(Terminal(p) /\ deferred' = [deferred EXCEPT ![r] = EndedBy(p)])
        BY <1>t, <2>3, <3>2
      <3>4. ~Terminal(p) /\ deferred' = deferred
        BY <1>o, <3>1, <3>3
      <3> QED
        BY <1>4, <1>6, <2>1, <2>3, <3>4
    <2> QED
      BY <2>2, <2>3
  <1> QED
    BY <1>7, <1>8, <1>9, <1>10, <1>e DEF NormInv

LEMMA EndIngest ==
  ASSUME TypeOK, NumberInv, OrderInv, HandInv, ReadInv, EventInv, SentInv, LastInv, NormInv, DeferredInv,
         EndInv, NEW p \in buffer, Ingest(p)
  PROVE  EndInv'
  <1>0. PICK r \in Roots : r = RootOf[p.conn]
    BY IngestMoves
  <1>1. /\ UNCHANGED <<pc, read, payload, early>> /\ p \in Transit
        /\ \A q \in Transit : ~(q.seq < p.seq)
    BY IngestMoves
  <1>2. \A d \in Conns : Silent(d)' <=> Silent(d)
    BY <1>1 DEF Silent, Live
  <1>3. \A s \in Roots : ExitRead(s)' <=> ExitRead(s)
    BY <1>1 DEF ExitRead
  <1> SUFFICES ASSUME NEW s \in Roots, ended'[s] = "fallback", s \notin early
               PROVE  Silent(RootConn[s]) /\ ~ExitRead(s)
    BY <1>1, <1>2, <1>3, Roles DEF EndInv
  <1>4. CASE ended[s] = "fallback"
    BY <1>4 DEF EndInv
  <1>5. CASE ended[s] # "fallback"
    <2>1. \/ Start(p) /\ ended' = [ended EXCEPT ![r] = deferred[r]]
          \/ Terminal(p) /\ r \in pending /\ ended' = [ended EXCEPT ![r] = EndedBy(p)]
      <3>1. ended' # ended
        BY <1>5
      <3> QED
        BY <1>0, <3>1, Outcomes DEF Ends
    <2>t. ended \in [Roots -> {"no", "exit", "fallback"}]
      BY DEF TypeOK
    <2>2. CASE Start(p) /\ ended' = [ended EXCEPT ![r] = deferred[r]]
      <3>1. s = r /\ deferred[r] = "fallback"
        BY <1>5, <2>2, <2>t
      <3>2. /\ ~Started(r) /\ p.conn = RootConn[r] /\ p.conn \notin ReadOnly /\ ~p.fallback
        BY <1>0, <2>2, StartIngest
      <3> QED
        BY <1>1, <3>1, <3>2 DEF DeferredInv
    <2>3. CASE Terminal(p) /\ r \in pending /\ ended' = [ended EXCEPT ![r] = EndedBy(p)]
      <3>1. s = r /\ p.fallback
        BY <1>5, <2>3, <2>t DEF EndedBy
      <3>2. RootConn[r] \notin ReadOnly /\ ~Heard(r, {"exit", "atexit"}) /\ ~Over(r)
        BY <2>3 DEF NormInv, Over
      <3>3. PICK d \in Conns : d = RootConn[r]
        BY Roles
      <3>4. Silent(d)
        BY <1>0, <1>1, <3>1, <3>2, <3>3 DEF LastInv, Coming
      <3>5. \A q \in Transit : q.conn = d => q.fallback
        BY <1>0, <1>1, <3>1, <3>2, <3>3 DEF LastInv
      <3>6. ASSUME ExitRead(r) PROVE FALSE
        <4>1. PICK i \in 1 .. read[d] : Script[d][i] \in {"exit", "atexit"}
          BY <3>3, <3>6 DEF ExitRead
        <4>2. ~(i <= handled[d])
          BY <3>2, <3>3, <4>1 DEF Heard
        <4>3. pc[d] \in Unnumbered /\ ~payload[d].fallback
          BY <3>2, <3>3, <3>5, <4>2 DEF SentInv
        <4> QED
          BY <3>4, <4>3 DEF Silent, Live, Unnumbered
      <3> QED
        BY <3>1, <3>3, <3>4, <3>6
    <2> QED
      BY <2>1, <2>2, <2>3
  <1> QED
    BY <1>4, <1>5

LEMMA StaysStopped ==
  ASSUME TypeOK, [Next]_vars, worker' # "stopped"
  PROVE  worker # "stopped"
  <1>1. ASSUME NEW c \in Conns, Thread(c) \/ ReadFails(c) PROVE worker # "stopped"
    BY <1>1, ThreadMoves
  <1>2. ASSUME Aside PROVE worker # "stopped"
    BY <1>2 DEF Aside, Receive, StopWorker, Stopped, ClearRoot, Drained, RequestShutdown, vars, workerVars
  <1>3. ASSUME NEW p \in buffer, Ingest(p) PROVE worker # "stopped"
    BY <1>3 DEF Ingest
  <1> QED
    BY <1>1, <1>2, <1>3, StepKinds

LEMMA ThreadKeeps ==
  ASSUME TypeOK, TypeOK', HandInv, NumberInv, OrderInv, WorkingInv, worker' # "stopped", worker # "stopped",
         [Next]_vars, NEW c \in Conns, Thread(c) \/ ReadFails(c)
  PROVE  WorkingInv'
  <1>0. /\ EventInv /\ SentInv /\ CountInv /\ LastInv /\ NormInv /\ DeferredInv
    BY DEF WorkingInv
  <1>1. \A r \in Roots : Over(r)' <=> Over(r)
    BY OverStays
  <1>2. NormInv' /\ DeferredInv'
    BY <1>0, NormStays, DeferredStays
  <1>3. CountInv'
    BY <1>0, <1>1, CountOther, CountRead, CountClose DEF Thread
  <1>4. EventInv' /\ SentInv' /\ LastInv'
    <2>1. CASE Read(c)
      BY <1>0, <1>1, <2>1, ReadKeeps
    <2>2. CASE Stamp(c)
      BY <1>0, <1>1, <2>2, StampKeeps
    <2>3. CASE EnqueueFallback(c)
      BY <1>0, <1>1, <2>3, FallbackKeeps
    <2>4. CASE ~Read(c) /\ ~Stamp(c) /\ ~EnqueueFallback(c)
      <3>1. Still
        BY <1>0, <2>4, StillThread DEF Thread
      <3> QED
        BY <1>0, <1>1, <3>1, StillKeeps
    <2> QED
      BY <2>1, <2>2, <2>3, <2>4
  <1> QED
    BY <1>2, <1>3, <1>4 DEF WorkingInv

LEMMA AsideKeeps ==
  ASSUME TypeOK, TypeOK', HandInv, NumberInv, OrderInv, WorkingInv, worker' # "stopped", worker # "stopped",
         Aside
  PROVE  WorkingInv'
  <1>0. /\ EventInv /\ SentInv /\ CountInv /\ LastInv /\ NormInv /\ DeferredInv
    BY DEF WorkingInv
  <1>1. \A r \in Roots : Over(r)' <=> Over(r)
    BY OverStays
  <1>2. NormInv' /\ DeferredInv'
    BY <1>0, NormStays, DeferredStays
  <1>3. CountInv'
    BY <1>0, <1>1, CountAside
  <1>4. EventInv' /\ SentInv' /\ LastInv'
    BY <1>0, <1>1, StillAside, StillKeeps
  <1> QED
    BY <1>2, <1>3, <1>4 DEF WorkingInv

LEMMA IngestWorks ==
  ASSUME TypeOK, HandInv, NumberInv, OrderInv, ReadInv, WorkingInv, NEW p \in buffer, Ingest(p)
  PROVE  WorkingInv'
  <1>0. /\ EventInv /\ SentInv /\ CountInv /\ LastInv /\ NormInv /\ DeferredInv
    BY DEF WorkingInv
  <1> QED
    BY <1>0, IngestKeeps, CountIngest, NormIngest, DeferredIngest DEF WorkingInv

\* Everything about the end of a command, as long as the worker runs.
LifeInv ==
  /\ ReadInv /\ EndInv
  /\ worker # "stopped" => WorkingInv

LEMMA LifeNext ==
  TypeOK /\ HandInv /\ NumberInv /\ OrderInv /\ LifeInv /\ [Next]_vars => LifeInv'
  <1> SUFFICES ASSUME TypeOK, HandInv, NumberInv, OrderInv, LifeInv, [Next]_vars
               PROVE  LifeInv'
    OBVIOUS
  <1>1. TypeOK'
    BY TypeNext
  <1>2. ReadInv'
    BY ReadNext DEF LifeInv
  <1>3. worker' # "stopped" => worker # "stopped" /\ WorkingInv
    BY StaysStopped DEF LifeInv
  <1>4. \A p \in buffer : Ingest(p) => WorkingInv
    BY DEF Ingest, LifeInv
  <1>5. EndInv'
    <2>1. ASSUME NEW p \in buffer, Ingest(p) PROVE EndInv'
      BY <1>4, <2>1, EndIngest DEF LifeInv, WorkingInv
    <2> QED
      BY <2>1, StepKinds, EndStays DEF LifeInv
  <1>6. ASSUME worker' # "stopped" PROVE WorkingInv'
    <2>0. worker # "stopped" /\ WorkingInv
      BY <1>3, <1>6
    <2>1. ASSUME NEW c \in Conns, Thread(c) \/ ReadFails(c) PROVE WorkingInv'
      BY <1>1, <1>6, <2>0, <2>1, ThreadKeeps
    <2>2. ASSUME Aside PROVE WorkingInv'
      BY <1>1, <1>6, <2>0, <2>2, AsideKeeps
    <2>3. ASSUME NEW p \in buffer, Ingest(p) PROVE WorkingInv'
      BY <2>0, <2>3, IngestWorks DEF LifeInv
    <2> QED
      BY <2>1, <2>2, <2>3, StepKinds
  <1> QED
    BY <1>2, <1>5, <1>6 DEF LifeInv

LEMMA LifeInit == Init => LifeInv
  <1> SUFFICES ASSUME Init PROVE LifeInv
    OBVIOUS
  <1>1. Transit = {} /\ Coming = {}
    BY DEF Init, Transit, Coming, Sending
  <1>2. ReadInv
    <2> SUFFICES ASSUME NEW c \in Conns PROVE 0 <= Len(Script[c])
      BY DEF ReadInv, Init
    <2>1. Script[c] \in Seq(Events)
      BY IngressAssumption DEF IngressAssumption
    <2> QED
      BY <2>1
  <1>3. \A r \in Roots : LiveOf(r) = {} /\ \A S : ~Heard(r, S)
    BY Roles DEF Init, LiveOf, Live, Heard
  <1>4. EventInv
    BY <1>1 DEF Init, EventInv
  <1>s. SentInv
    <2>1. \A r \in Roots : read[RootConn[r]] = 0
      BY Roles DEF Init
    <2>2. 1 .. 0 = {}
      OBVIOUS
    <2> QED
      BY <2>1, <2>2 DEF SentInv
  <1>5. CountInv
    <2>1. Cardinality({}) = 0 /\ IsFiniteSet({})
      BY FS_EmptySet
    <2>2. \A r \in Roots : LiveOf(r) = {} /\ open[r] = 0
      BY <1>3 DEF Init
    <2>3. clearing = {}
      BY DEF Init
    <2> QED
      BY <2>1, <2>2, <2>3 DEF CountInv
  <1>6. LastInv /\ DeferredInv /\ EndInv
    BY <1>1 DEF Init, LastInv, DeferredInv, EndInv
  <1>7. NormInv
    BY <1>3 DEF Init, NormInv
  <1> QED
    BY <1>2, <1>4, <1>s, <1>5, <1>6, <1>7 DEF LifeInv, WorkingInv

\* A command whose exit the daemon reads is ended by that exit: a thread sends
\* a fallback only when the count of the root's open connections is zero
\* (record_trace_connection_close), which is no less than the connections there
\* are, and then the root's process wrote nothing that the worker does not
\* process first.  Only a root whose own first line was not read yet when its
\* child's connection closed is excepted.
THEOREM ExitsEndCommands == Spec => []EndedByItsExit
  <1> DEFINE Known == TypeOK /\ NumberInv /\ HandInv /\ OrderInv /\ LifeInv
  <1>1. Init => Known
    BY TypeInit, NumberInit, OrderInit, LifeInit
  <1>2. Known /\ [Next]_vars => Known'
    BY TypeNext, HandNext, NumberNext, OrderNext, LifeNext
  <1>3. Known => EndedByItsExit
    BY DEF LifeInv, EndInv, EndedByItsExit
  <1> QED
    BY <1>1, <1>2, <1>3, PTL DEF Spec

=============================================================================
