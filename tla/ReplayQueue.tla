---------------------------- MODULE ReplayQueue ----------------------------
(***************************************************************************)
(* What the sequencer of FamilySequencer promises, without its threads,    *)
(* locks, slots, ordinals and collections: every family has a queue of     *)
(* items ordered by their start.  An item enters it once, open if its      *)
(* outcome is not known yet; a replayer takes, in one step, all that       *)
(* precedes the first open item and then leaves with them one by one in    *)
(* the order of their start.  A void item leaves without being applied and *)
(* no item is applied twice.                                               *)
(***************************************************************************)
EXTENDS Integers

CONSTANTS
  Items,      \* commands and checkpoint requests
  Families,
  Replayers,  \* who takes items from the queues
  Home        \* the family of an item

VARIABLES
  queue,    \* the queue of each family
  batch,    \* what each replayer has taken
  applied   \* how often each item was applied

vars == <<queue, batch, applied>>

Modes == {"open", "live", "void"}
Places == [item : Items, ts : Nat, ord : Nat, mode : Modes]

Earlier(p, q) == p.ts < q.ts \/ (p.ts = q.ts /\ p.ord < q.ord)

Init ==
  /\ queue = [f \in Families |-> {}]
  /\ batch = [a \in Replayers |-> {}]
  /\ applied = [x \in Items |-> 0]

\* Neither queued, nor taken, nor applied.
Fresh(x) ==
  /\ applied[x] = 0
  /\ \A f \in Families : \A p \in queue[f] : p.item # x
  /\ \A a \in Replayers : \A p \in batch[a] : p.item # x

\* An item enters under an order nobody in its queue has.
Enter(x) ==
  /\ Fresh(x)
  /\ \E p \in queue'[Home[x]] :
       /\ p \in Places /\ p.item = x /\ p.mode # "void"
       /\ \A q \in queue[Home[x]] : q.ts # p.ts \/ q.ord # p.ord
       /\ queue' = [queue EXCEPT ![Home[x]] = @ \cup {p}]
  /\ UNCHANGED <<batch, applied>>

\* The outcome of an open item is known; its place stays.
Close(f) ==
  /\ \E p \in queue[f], m \in {"live", "void"} :
       /\ p.mode = "open"
       /\ queue' = [queue EXCEPT ![f] = (@ \ {p}) \cup {[p EXCEPT !.mode = m]}]
  /\ UNCHANGED <<batch, applied>>

\* Everything before the first open item.
Closed(f) ==
  {p \in queue[f] : \A q \in queue[f] : q.mode = "open" => Earlier(p, q)}

Take(a, f) ==
  /\ batch[a] = {}
  /\ Closed(f) # {}
  /\ batch' = [batch EXCEPT ![a] = Closed(f)]
  /\ queue' = [queue EXCEPT ![f] = @ \ Closed(f)]
  /\ UNCHANGED applied

\* The first of a batch is applied, or it has no effect.
Leave(a) ==
  /\ \E p \in batch[a] :
       /\ \A q \in batch[a] \ {p} : Earlier(p, q)
       /\ batch' = [batch EXCEPT ![a] = @ \ {p}]
       /\ \/ p.mode = "live" /\ applied' = [applied EXCEPT ![p.item] = 1]
          \/ UNCHANGED applied
  /\ UNCHANGED queue

\* An item that never enters is applied at once.
Bypass(x) ==
  /\ Fresh(x)
  /\ applied' = [applied EXCEPT ![x] = 1]
  /\ UNCHANGED <<queue, batch>>

Next ==
  \/ \E x \in Items : Enter(x) \/ Bypass(x)
  \/ \E f \in Families : Close(f) \/ \E a \in Replayers : Take(a, f)
  \/ \E a \in Replayers : Leave(a)

Spec == Init /\ [][Next]_vars
=============================================================================
