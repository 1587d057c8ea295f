---------------------------- MODULE MCTraceIngress ----------------------------
(* An instance of TraceIngress for TLC and, side by side with it, one of      *)
(* FamilySequencer for the saves it suppresses.  They share no state: side    *)
(* says whose steps a behaviour takes, and the other stays in its initial     *)
(* state.                                                                     *)
EXTENDS TraceIngress, TLC

CONSTANTS r1, r2, git, child, other, f1, q1, q2, q3, x1, x2, g1, ingester, None

VARIABLES side, at, slot,
  clock, nextOrdinal, entries, lock, arc, job, ready, cur, inflight, edits, norm,
  todo, processed, periodic, ran, after, leaked, opens

sequencerVars == <<at, slot, clock, nextOrdinal, entries, lock, arc, job, ready, cur,
                   inflight, edits, norm, todo, processed, periodic, ran, after, leaked,
                   opens>>

\* A mutating command, its child, and a listing.
ThreeRoot == r1 :> git @@ r2 :> other
Three == git :> r1 @@ child :> r1 @@ other :> r2
ThreeScript == git :> <<"start", "exit">>
               @@ child :> <<"exit">>
               @@ other :> <<"start", "cmd_name", "exit">>

\* An agent's pre-edit and post-edit of a file, and a save of two files.
EditCycle ==
  q1 :> [kind |-> "Human", role |-> "WillEdit", agent |-> g1, files |-> {x1}]
  @@ q2 :> [kind |-> "AiAgent", role |-> "Edited", agent |-> g1, files |-> {x1}]
  @@ q3 :> [kind |-> "KnownHuman", role |-> "Edited", agent |-> None, files |-> {x1, x2}]

\* In the order of git, or with the start after the exit.
EitherOrder == {<<"start", "exit">>, <<"exit", "start">>}

Sequencer == INSTANCE FamilySequencer WITH
  Families <- {f1}, Roots <- {r1}, Requests <- {q1, q2, q3},
  Files <- {x1, x2}, Agents <- {g1}, Worker <- ingester, None <- None,
  Family <- [i \in {r1, q1, q2, q3} |-> f1], Sequenced <- {}, Class <- EditCycle,
  Deliveries <- EitherOrder, MaxClock <- 2, EditTimeout <- 2, GcInterval <- 100,
  MaxPeriodicGc <- 1, pc <- at, slots <- slot

BothInit ==
  /\ Init /\ Sequencer!Init
  /\ \/ side = "ingress" /\ todo[r1][1] = "start"
     \/ side = "sequencer"

BothNext ==
  \/ side = "ingress" /\ Next /\ UNCHANGED <<side, sequencerVars>>
  \/ side = "sequencer" /\ Sequencer!Next /\ UNCHANGED <<side, vars>>

BothSpec == BothInit /\ [][BothNext]_<<side, vars, sequencerVars>>

----------------------------------------------------------------------------

\* FamilySequencer: a save during an agent's edit is not applied to its files.
SaveDuringEditSuppressed == Sequencer!SaveDuringEditSuppressed
=============================================================================
