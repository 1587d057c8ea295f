------------------------- MODULE MCFamilySequencer -------------------------
(* Instances of FamilySequencer for TLC. *)
EXTENDS FamilySequencer

CONSTANTS f1, r1, r2, r3, q1, q2, x1

Untracked(S) == [kind |-> "Human", role |-> "WillEdit", agent |-> None, files |-> S]

OneFamily == [i \in Roots \cup Requests |-> f1]

AllRoots == Roots

\* Edits that no agent announced.
PlainEdits == [q \in Requests |-> Untracked({x1})]

\* git delivers start, exit and atexit of a root on one connection.
GitOrder == {<<"start", "exit", "atexit">>}
GitOrderOrNone == GitOrder \cup {<<>>}

\* Three situations: two sequenced commands without the update check's
\* collections, one command with them, and a command that is not sequenced.
SituationsInit ==
  /\ Init
  /\ LET running == {r \in Roots : todo[r] # <<>>}
     IN  \/ running = Sequenced /\ periodic = MaxPeriodicGc
         \/ running = {r1} /\ periodic < MaxPeriodicGc
         \/ running = Roots \ Sequenced /\ periodic = MaxPeriodicGc

SituationsSpec == SituationsInit /\ [][Next]_vars /\ Fairness
============================================================================
