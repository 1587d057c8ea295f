---------------------------- MODULE WrapperState ----------------------------
(***************************************************************************)
(* The repository states that the git wrapper measures before and after a  *)
(* command (wrapper_states, src/src/daemon.rs).  Each arrives in a request *)
(* of its own; when the ingest worker applies the command outside a family *)
(* sequencer it waits up to 750 ms for both and puts them in the place of  *)
(* its own.  A collector removes the entries that are a minute old.        *)
(*                                                                         *)
(* taken is a history variable.                                            *)
(***************************************************************************)
EXTENDS FiniteSets

CONSTANT
  Commands  \* wrapped git commands, by invocation id

VARIABLES
  ahead,    \* requests of each command's wrapper that may still arrive
  entry,    \* states received for it, or None
  old,      \* entries of which the last part came a minute ago
  pending,  \* commands the daemon will apply by itself
  waiter,   \* the command the worker applies, or NoCommand
  at,       \* the worker's step
  woken,    \* notify_waiters since the worker registered
  late,     \* the deadline has passed
  taken     \* history: parts with which each command was overlaid, or None

vars == <<ahead, entry, old, pending, waiter, at, woken, late, taken>>

Parts == {"pre", "post"}

None == {"none"}

NoCommand == "no command"

Init ==
  /\ ahead = [c \in Commands |-> Parts]
  /\ entry = [c \in Commands |-> None]
  /\ old = {}
  /\ pending \in SUBSET Commands
  /\ waiter = NoCommand /\ at = "idle"
  /\ woken = FALSE /\ late = FALSE
  /\ taken = [c \in Commands |-> None]

\* Mutant: only a new entry is announced.
StoreWrapperState_NotifiesOnce(c) ==
  \E part \in ahead[c] :
    /\ part = "post" => "pre" \notin ahead[c]
    /\ ahead' = [ahead EXCEPT ![c] = @ \ {part}]
    /\ entry' = [entry EXCEPT ![c] = (@ \ None) \cup {part}]
    /\ old' = old \ {c}
    /\ woken' = (woken \/ entry[c] = None)
    /\ UNCHANGED <<pending, waiter, at, late, taken>>

\* store_wrapper_state.  The wrapper sends the second part when git is done.
StoreWrapperState(c) ==
  \E part \in ahead[c] :
    /\ part = "post" => "pre" \notin ahead[c]
    /\ ahead' = [ahead EXCEPT ![c] = @ \ {part}]
    /\ entry' = [entry EXCEPT ![c] = (@ \ None) \cup {part}]
    /\ old' = old \ {c}
    /\ woken' = TRUE
    /\ UNCHANGED <<pending, waiter, at, late, taken>>

\* A request fails.
Lose(c) ==
  /\ \E part \in ahead[c] : /\ part = "post" => "pre" \notin ahead[c]
                            /\ ahead' = [ahead EXCEPT ![c] = @ \ {part}]
  /\ UNCHANGED <<entry, old, pending, waiter, at, woken, late, taken>>

----------------------------------------------------------------------------
(* apply_wrapper_state_overlay *)

Begin(c) ==
  /\ at = "idle" /\ c \in pending
  /\ pending' = pending \ {c}
  /\ waiter' = c /\ at' = "register"
  /\ late' = FALSE
  /\ UNCHANGED <<ahead, entry, old, woken, taken>>

Register ==
  /\ at = "register" /\ at' = "check"
  /\ woken' = FALSE
  /\ UNCHANGED <<ahead, entry, old, pending, waiter, late, taken>>

Finish(parts) ==
  /\ entry' = [entry EXCEPT ![waiter] = None]
  /\ old' = old \ {waiter}
  /\ taken' = [taken EXCEPT ![waiter] = parts]
  /\ waiter' = NoCommand /\ at' = "idle"

\* Mutant: one part is enough.
Check_OnePart ==
  /\ at = "check"
  /\ \/ entry[waiter] # None /\ at' = "take" /\ UNCHANGED <<entry, old, waiter, taken>>
     \/ entry[waiter] = None /\ late /\ Finish({})
     \/ entry[waiter] = None /\ ~late /\ at' = "wait" /\ UNCHANGED <<entry, old, waiter, taken>>
  /\ UNCHANGED <<ahead, pending, woken, late>>

\* Both parts are there, the deadline has passed, or the worker waits.
Check ==
  /\ at = "check"
  /\ \/ entry[waiter] = Parts /\ at' = "take" /\ UNCHANGED <<entry, old, waiter, taken>>
     \/ entry[waiter] # Parts /\ late /\ Finish({})
     \/ entry[waiter] # Parts /\ ~late /\ at' = "wait" /\ UNCHANGED <<entry, old, waiter, taken>>
  /\ UNCHANGED <<ahead, pending, woken, late>>

\* The entry is removed under the lock once more: the collector may have been
\* there.
Take ==
  /\ at = "take"
  /\ Finish(entry[waiter] \ None)
  /\ UNCHANGED <<ahead, pending, woken, late>>

\* Mutant: waits for as long as it takes.
Wait_NoDeadline ==
  /\ at = "wait" /\ woken
  /\ at' = "register"
  /\ UNCHANGED <<ahead, entry, old, pending, waiter, woken, late, taken>>

Wait ==
  /\ at = "wait" /\ (woken \/ late)
  /\ at' = "register"
  /\ UNCHANGED <<ahead, entry, old, pending, waiter, woken, late, taken>>

Deadline ==
  /\ waiter # NoCommand /\ ~late
  /\ late' = TRUE
  /\ UNCHANGED <<ahead, entry, old, pending, waiter, at, woken, taken>>

----------------------------------------------------------------------------
\* A minute passes.
GrowOld(c) ==
  /\ entry[c] # None /\ c \notin old
  /\ old' = old \cup {c}
  /\ UNCHANGED <<ahead, entry, pending, waiter, at, woken, late, taken>>

\* Mutant: an entry that lacks a part is kept for its command.
Collect_WholeOnly ==
  /\ old # {}
  /\ entry' = [c \in Commands |-> IF c \in old /\ entry[c] = Parts THEN None ELSE entry[c]]
  /\ old' = {}
  /\ UNCHANGED <<ahead, pending, waiter, at, woken, late, taken>>

\* gc_stale_family_state, of the update check thread and the ingest worker.
Collect ==
  /\ old # {}
  /\ entry' = [c \in Commands |-> IF c \in old THEN None ELSE entry[c]]
  /\ old' = {}
  /\ UNCHANGED <<ahead, pending, waiter, at, woken, late, taken>>

Worker == (\E c \in Commands : Begin(c)) \/ Register \/ Check \/ Take \/ Wait

Next ==
  \/ \E c \in Commands : StoreWrapperState(c) \/ Lose(c) \/ GrowOld(c)
  \/ Worker \/ Deadline \/ Collect

\* Time passes, the worker runs, and the update check thread comes round.
Fairness ==
  /\ WF_vars(Worker) /\ WF_vars(Deadline) /\ WF_vars(Collect)
  /\ \A c \in Commands : WF_vars(GrowOld(c))

Spec == Init /\ [][Next]_vars /\ Fairness

----------------------------------------------------------------------------
TypeOK ==
  /\ ahead \in [Commands -> SUBSET Parts]
  /\ entry \in [Commands -> (SUBSET Parts) \cup {None}]
  /\ old \subseteq {c \in Commands : entry[c] # None}
  /\ pending \subseteq Commands
  /\ waiter \in Commands \cup {NoCommand}
  /\ at \in {"idle", "register", "check", "take", "wait"}
  /\ woken \in BOOLEAN /\ late \in BOOLEAN
  /\ taken \in [Commands -> (SUBSET Parts) \cup {None}]

\* A command is overlaid with both states or with none: a state measured
\* before it is never compared with one the daemon read later
\* (has_pre && has_post, daemon.rs:8246).
WholeOverlay == \A c \in Commands : taken[c] \in {None, {}, Parts}

\* The worker does not sleep while both states are there, whenever they came:
\* it has been woken, or wakes at the deadline (notified before the check,
\* daemon.rs:8230).
NoLostWakeup == at = "wait" /\ entry[waiter] = Parts => woken \/ late
=============================================================================
