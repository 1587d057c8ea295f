---------------------------- MODULE MCServices ----------------------------
(* Instances of three parts in which something must happen in the end: the  *)
(* stored sign-in, the wrapper's repository states and the trace ingress.   *)
(* They share no state, so TLC checks them side by side: which says whose   *)
(* steps a behaviour takes, and pending is used by the one it names.        *)
EXTENDS Integers, TLC

CONSTANTS Procs, Steady, Commands, r1, git, child,
          MaxLogins, MaxUses, MaxFaults

ASSUME ServicesAssumption ==
  MaxLogins \in Nat /\ MaxUses \in Nat /\ MaxFaults \in Nat

VARIABLES which,
  pending,  \* WrapperState, TraceIngress
  \* Credentials
  store, lock, job, memory, signIn, faults, live, refusals, raced, spilt,
  \* WrapperState
  ahead, entry, old, waiter, at, woken, late, taken,
  \* TraceIngress
  pc, read, payload, known, readOnly, open, fallback, stamped, channel, stopping,
  worker, buffer, next, clearing, deferred, completed, slots, breaks, errors,
  ended, handled, early

SignIns == INSTANCE Credentials

Overlays == INSTANCE WrapperState

\* A mutating command and a child that may outlive it, one of which may be
\* killed, and a daemon that may be asked to stop.
Script == git :> <<"start", "exit", "atexit">> @@ child :> <<"def_repo">>

Ingress == INSTANCE TraceIngress WITH
  Roots <- {r1}, Conns <- {git, child},
  RootOf <- (git :> r1 @@ child :> r1), RootConn <- (r1 :> git),
  ReadOnly <- {}, Listing <- {}, Sequenced <- {r1},
  Capacity <- 1, Stoppable <- TRUE, MaxBreaks <- 1, MaxErrors <- 1

notSignIns == <<ahead, entry, old, pending, waiter, at, woken, late, taken, pc, read,
                payload, known, readOnly, open, fallback, stamped, channel, stopping,
                worker, buffer, next, clearing, deferred, completed, slots, breaks,
                errors, ended, handled, early>>
notOverlays == <<store, lock, job, memory, signIn, faults, live, refusals, raced,
                 spilt, pc, read, payload, known, readOnly, open, fallback, stamped,
                 channel, stopping, worker, buffer, next, clearing, deferred,
                 completed, slots, breaks, errors, ended, handled, early>>
notIngress == <<store, lock, job, memory, signIn, faults, live, refusals, raced,
                spilt, ahead, entry, old, waiter, at, woken, late, taken>>

all == <<which, store, lock, job, memory, signIn, faults, live, refusals, raced,
         spilt, ahead, entry, old, pending, waiter, at, woken, late, taken, pc, read,
         payload, known, readOnly, open, fallback, stamped, channel, stopping,
         worker, buffer, next, clearing, deferred, completed, slots, breaks, errors,
         ended, handled, early>>

\* Variables no one uses are 0.
Init ==
  \/ /\ which = "sign-ins" /\ SignIns!Init
     /\ ahead = 0 /\ entry = 0 /\ old = 0 /\ pending = 0 /\ waiter = 0 /\ at = 0
     /\ woken = 0 /\ late = 0 /\ taken = 0 /\ pc = 0 /\ read = 0 /\ payload = 0
     /\ known = 0 /\ readOnly = 0 /\ open = 0 /\ fallback = 0 /\ stamped = 0 /\ channel = 0
     /\ stopping = 0 /\ worker = 0 /\ buffer = 0 /\ next = 0 /\ clearing = 0 /\ deferred = 0
     /\ completed = 0 /\ slots = 0 /\ breaks = 0 /\ errors = 0 /\ ended = 0 /\ handled = 0
     /\ early = 0
  \/ /\ which = "overlays" /\ Overlays!Init
     /\ store = 0 /\ lock = 0 /\ job = 0 /\ memory = 0 /\ signIn = 0 /\ faults = 0
     /\ live = 0 /\ refusals = 0 /\ raced = 0 /\ spilt = 0 /\ pc = 0 /\ read = 0
     /\ payload = 0 /\ known = 0 /\ readOnly = 0 /\ open = 0 /\ fallback = 0 /\ stamped = 0
     /\ channel = 0 /\ stopping = 0 /\ worker = 0 /\ buffer = 0 /\ next = 0 /\ clearing = 0
     /\ deferred = 0 /\ completed = 0 /\ slots = 0 /\ breaks = 0 /\ errors = 0 /\ ended = 0
     /\ handled = 0 /\ early = 0
  \/ /\ which = "ingress" /\ Ingress!Init
     /\ store = 0 /\ lock = 0 /\ job = 0 /\ memory = 0 /\ signIn = 0 /\ faults = 0
     /\ live = 0 /\ refusals = 0 /\ raced = 0 /\ spilt = 0 /\ ahead = 0 /\ entry = 0
     /\ old = 0 /\ waiter = 0 /\ at = 0 /\ woken = 0 /\ late = 0 /\ taken = 0

SignIn(A) == which = "sign-ins" /\ A /\ UNCHANGED <<which, notSignIns>>

Overlay(A) == which = "overlays" /\ A /\ UNCHANGED <<which, notOverlays>>

Trace(A) == which = "ingress" /\ A /\ UNCHANGED <<which, notIngress>>

Next == SignIn(SignIns!Next) \/ Overlay(Overlays!Next) \/ Trace(Ingress!Next)

\* The fairness of the three modules.
Fairness ==
  /\ WF_all(SignIn(SignIns!Run(Steady)))
  /\ WF_all(Overlay(Overlays!Worker))
  /\ WF_all(Overlay(Overlays!Deadline))
  /\ WF_all(Overlay(Overlays!Collect))
  /\ \A c \in Commands : WF_all(Overlay(Overlays!GrowOld(c)))
  /\ WF_all(Trace(Ingress!Worker))
  /\ \A c \in {git, child} : WF_all(Trace(Ingress!Thread(c)))

Spec == Init /\ [][Next]_all /\ Fairness

----------------------------------------------------------------------------

\* Credentials: what is stored is the latest login and the server accepts it, a
\* login that works is never marked as refused, and a process that was refused
\* does not send the same token again; the state keeps its type.
SignInsWork ==
  which = "sign-ins" => /\ SignIns!TypeOK
                        /\ SignIns!StoredLoginWorks /\ SignIns!LatestLoginStays
                        /\ SignIns!MarkedWasRefused /\ SignIns!RefusedOnce

\* Credentials: no process waits for ever for a stalled sibling.
CallReturns ==
  (which = "sign-ins" /\ ~SignIns!At(Steady, "idle"))
    ~> ~(which = "sign-ins" /\ ~SignIns!At(Steady, "idle"))

\* WrapperState: both of a command's states are used, or none, and the worker
\* does not sleep while both are there; the state keeps its type.
OverlaysMeet ==
  which = "overlays" =>
    Overlays!TypeOK /\ Overlays!WholeOverlay /\ Overlays!NoLostWakeup

\* WrapperState: the worker does not wait for ever, and a state that comes too
\* late for it is collected.
OverlaysEnd ==
  /\ (which = "overlays" /\ at # "idle") ~> ~(which = "overlays" /\ at # "idle")
  /\ \A c \in Commands :
       (which = "overlays" /\ entry[c] # Overlays!None)
         ~> ~(which = "overlays" /\ entry[c] # Overlays!None)

\* TraceIngress: a command that started is finalized, or the daemon stops.
PendingRootEnds ==
  (which = "ingress" /\ r1 \in pending)
    ~> ~(which = "ingress" /\ r1 \in pending /\ worker # "stopped" /\ ~Ingress!Leaked(r1))

\* TraceIngress: a shutdown ends the worker and every thread.
ShutdownEndsThreads ==
  (which = "ingress" /\ stopping)
    ~> (which = "ingress" => worker = "stopped" /\ \A c \in {git, child} : pc[c] = "done")
=============================================================================
