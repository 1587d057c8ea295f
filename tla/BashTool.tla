------------------------------ MODULE BashTool ------------------------------
(***************************************************************************)
(* Attribution of what an agent's shell commands change                    *)
(* (src/src/commands/checkpoint_agent/bash_tool.rs) in one worktree.  A    *)
(* hook before the command asks the daemon for its watermarks, takes the   *)
(* stats of the files that no watermark covers, hands them to the daemon   *)
(* as a bash session (daemon/bash_sessions.rs) and sends those files as a  *)
(* Human checkpoint; the hook after it fetches the stats, takes them again *)
(* under the same watermarks, sends the files that differ as the agent's   *)
(* checkpoint and ends the session.  The daemon applies the checkpoints    *)
(* later and raises its watermarks (daemon.rs, daemon/family_actor.rs).    *)
(*                                                                         *)
(* A file is its modification time; every write gets a later one.          *)
(* Per-file watermarks are kept under absolute paths (the requests' paths) *)
(* and looked up under relative ones, so none is found: a Boolean tells    *)
(* that the daemon has some.  uncaptured, wrote, lost and orphans are      *)
(* history variables.                                                      *)
(***************************************************************************)
EXTENDS Integers, Sequences, SequencesExt

CONSTANTS
  Files,     \* files of the worktree
  Calls,     \* shell commands of agents
  Grace,     \* MTIME_GRACE_WINDOW_NS, in units of the clock
  MaxClock,  \* bound: writes and moments told apart
  MaxQueue,  \* bound: checkpoints waiting in the daemon
  MaxFaults  \* bound: failed requests and walks, interruptions, daemon restarts

\* What the constants are.
BoundsAssumption ==
  Grace \in Nat /\ MaxClock \in Nat /\ MaxQueue \in Nat /\ MaxFaults \in Nat

VARIABLES
  clock,
  mtime,     \* modification time of each file
  index,     \* modification time of .git/index, or Never
  worktree,  \* the daemon's watermark of the worktree, or Never
  perFile,   \* whether the daemon has a watermark of a file
  queue,     \* checkpoints the daemon has not applied
  sessions,  \* the daemon's bash session of each call: its snapshot or None
  stale,     \* sessions older than STALE_SESSION_SECS
  call,      \* each call's hooks
  faults,
  uncaptured, \* history: files whose content is in no checkpoint
  wrote,     \* history: when a call's command last wrote a file, or Never
  lost,      \* history: calls whose hooks or session met a fault, or during which
             \* the repository got its first index
  orphans    \* history: calls the daemon is not told the end of

vars == <<clock, mtime, index, worktree, perFile, queue, sessions, stale, call, faults,
          uncaptured, wrote, lost, orphans>>

history == <<uncaptured, wrote, lost, orphans>>

daemon == <<worktree, perFile, queue, sessions, stale>>

Never == -1

None == [wm |-> Never, late |-> FALSE, entries |-> <<>>]

\* wm: watermark in use, or, if late, the index when the snapshot is taken;
\* taken: when the first snapshot was (history); report: the files found.
Idle == [at |-> "off", wm |-> Never, late |-> FALSE, snapshot |-> None,
         taken |-> 0, report |-> {}]

Init ==
  /\ clock = 0
  /\ mtime = [f \in Files |-> 0]
  /\ index \in {Never, 0}
  /\ worktree = Never /\ perFile = FALSE
  /\ queue = <<>>
  /\ sessions = [c \in Calls |-> None] /\ stale = {}
  /\ call = [c \in Calls |-> Idle]
  /\ faults = 0
  /\ uncaptured = {}
  /\ wrote = [c \in Calls |-> [f \in Files |-> Never]]
  /\ lost = {} /\ orphans = {}

At(c, step) == call[c].at = step

Active(c) == sessions[c] # None

Fault == faults < MaxFaults /\ faults' = faults + 1

Tick == clock < MaxClock /\ clock' = clock + 1

\* is_wm_covered, with no watermark of the file itself.
Covered(f, wm) == wm # Never /\ mtime[f] <= wm + Grace

\* snapshot: the stats of the files that are not covered.
Snapshot(wm, late) == [wm |-> wm, late |-> late /\ wm = Never, entries |-> 
  [f \in {g \in Files : ~Covered(g, wm)} |-> mtime[f]]]

\* Mutant: a file that the first snapshot lacks is not a change.
Diff_ModifiedOnly(pre, post) ==
  {f \in DOMAIN post.entries : f \in DOMAIN pre.entries /\ pre.entries[f] # post.entries[f]}

\* diff: created and modified.
Diff(pre, post) ==
  {f \in DOMAIN post.entries : f \in DOMAIN pre.entries => pre.entries[f] # post.entries[f]}

\* The hooks are over, and what they did no longer matters.
Done(c) ==
  /\ call' = [call EXCEPT ![c] = [Idle EXCEPT !.at = "done"]]
  /\ wrote' = [wrote EXCEPT ![c] = [f \in Files |-> Never]]

\* A request with the files' present content.
Send(kind, fs) ==
  IF fs = {} THEN UNCHANGED <<queue, uncaptured>>
  ELSE /\ Len(queue) < MaxQueue
       /\ queue' = Append(queue, [kind |-> kind, files |-> fs])
       /\ uncaptured' = uncaptured \ fs

\* prune_stale_sessions
PruneStale == [c \in Calls |-> IF c \in stale THEN None ELSE sessions[c]]

----------------------------------------------------------------------------
(* handle_bash_pre_tool_use_with_context *)

\* query_daemon_watermarks, or the time of .git/index.  A daemon that only has
\* watermarks of files leaves the index to the snapshot.
PreQuery(c) ==
  /\ At(c, "off")
  /\ \/ /\ worktree # Never \/ perFile
        /\ call' = [call EXCEPT ![c].at = "asked", ![c].wm = worktree,
                                ![c].late = (worktree = Never)]
        /\ UNCHANGED <<faults, lost>>
     \/ /\ IF worktree = Never /\ ~perFile THEN UNCHANGED <<faults, lost>>
                                           ELSE Fault /\ lost' = lost \cup {c}
        /\ call' = [call EXCEPT ![c].at = "asked", ![c].wm = index]
  /\ UNCHANGED <<clock, mtime, index, daemon, uncaptured, wrote, orphans>>

PreSnapshot(c) ==
  /\ At(c, "asked")
  /\ LET wm == IF call[c].late THEN index ELSE call[c].wm
     IN  call' = [call EXCEPT ![c].at = "snapped", ![c].wm = Never, ![c].late = FALSE,
                              ![c].snapshot = Snapshot(wm, call[c].late), ![c].taken = clock]
  /\ UNCHANGED <<clock, mtime, index, daemon, faults, history>>

\* start_session, and the checkpoint of the files that may hold edits of a
\* human.
PreStart(c) ==
  LET snap == call[c].snapshot IN
  /\ At(c, "snapped")
  /\ sessions' = [PruneStale EXCEPT ![c] = snap]
  /\ stale' = {}
  /\ lost' = lost \cup stale
  /\ Send("Human", IF snap.wm = Never /\ ~snap.late THEN {f \in Files : mtime[f] > 0}
                   ELSE DOMAIN snap.entries)
  /\ call' = [call EXCEPT ![c].at = "running", ![c].snapshot = None]
  /\ UNCHANGED <<clock, mtime, index, worktree, perFile, faults, wrote, orphans>>

\* The walk takes too long or finds too many files, or the daemon does not
\* answer: the command runs without a session.
PreFail(c) ==
  /\ call[c].at \in {"asked", "snapped"} /\ Fault
  /\ call' = [call EXCEPT ![c].at = "running", ![c].wm = Never, ![c].late = FALSE,
                          ![c].snapshot = None]
  /\ lost' = lost \cup {c}
  /\ UNCHANGED <<clock, mtime, index, daemon, uncaptured, wrote, orphans>>

----------------------------------------------------------------------------
(* The command, and handle_bash_post_tool_use *)

Write(c, f) ==
  /\ At(c, "running") /\ Tick
  /\ mtime' = [mtime EXCEPT ![f] = clock']
  /\ wrote' = [wrote EXCEPT ![c][f] = clock']
  /\ uncaptured' = uncaptured \cup {f}
  /\ UNCHANGED <<index, daemon, call, faults, lost, orphans>>

\* query_daemon_bash_snapshot
PostQuery(c) ==
  /\ At(c, "running")
  /\ \/ Active(c)
        /\ call' = [call EXCEPT ![c].at = "fetched", ![c].snapshot = sessions[c]]
        /\ UNCHANGED <<faults, lost>>
     \/ /\ IF Active(c) THEN Fault /\ lost' = lost \cup {c} ELSE UNCHANGED <<faults, lost>>
        /\ call' = [call EXCEPT ![c].at = "ending"]
  /\ UNCHANGED <<clock, mtime, index, daemon, uncaptured, wrote, orphans>>

\* Mutant: the second snapshot ignores the watermark.
PostSnapshot_Unfiltered(c) ==
  LET pre == call[c].snapshot IN
  /\ At(c, "fetched")
  /\ call' = [call EXCEPT ![c].at = "ending", ![c].snapshot = None,
                          ![c].report = Diff(pre, Snapshot(Never, FALSE))]
  /\ UNCHANGED <<clock, mtime, index, daemon, faults, history>>

\* The watermarks of the first snapshot; without any but those of files, the
\* index as it is now.
PostSnapshot(c) ==
  LET pre == call[c].snapshot
      anew == pre.wm = Never /\ pre.late IN
  /\ At(c, "fetched")
  /\ call' = [call EXCEPT ![c].at = "ending", ![c].snapshot = None,
                          ![c].report = Diff(pre, Snapshot(IF anew THEN index ELSE pre.wm, FALSE))]
  /\ lost' = IF anew /\ index # Never THEN lost \cup {c} ELSE lost
  /\ UNCHANGED <<clock, mtime, index, daemon, faults, uncaptured, wrote, orphans>>

\* Mutant: returns at once.
PostFail_Returns(c) ==
  /\ At(c, "fetched") /\ Fault
  /\ Done(c)
  /\ lost' = lost \cup {c}
  /\ UNCHANGED <<clock, mtime, index, daemon, uncaptured, orphans>>

\* The hook's or the walk's time is over: nothing is reported.
PostFail(c) ==
  /\ At(c, "fetched") /\ Fault
  /\ call' = [call EXCEPT ![c].at = "ending", ![c].snapshot = None]
  /\ lost' = lost \cup {c}
  /\ UNCHANGED <<clock, mtime, index, daemon, uncaptured, wrote, orphans>>

\* The end of the session, which may not reach the daemon, and the checkpoint.
PostEnd(c) ==
  /\ At(c, "ending")
  /\ \/ sessions' = [sessions EXCEPT ![c] = None] /\ stale' = stale \ {c}
        /\ UNCHANGED <<faults, orphans>>
     \/ Active(c) /\ Fault /\ orphans' = orphans \cup {c} /\ UNCHANGED <<sessions, stale>>
  /\ Send("AiAgent", call[c].report)
  /\ Done(c)
  /\ UNCHANGED <<clock, mtime, index, worktree, perFile, lost>>

\* The agent is stopped: the hook after the command does not run.
Interrupt(c) ==
  /\ At(c, "running") /\ Fault
  /\ Done(c)
  /\ orphans' = orphans \cup {c}
  /\ UNCHANGED <<clock, mtime, index, daemon, uncaptured, lost>>

----------------------------------------------------------------------------
(* The rest of the world *)

Edit(f) ==
  /\ Tick
  /\ mtime' = [mtime EXCEPT ![f] = clock']
  /\ uncaptured' = uncaptured \cup {f}
  /\ UNCHANGED <<index, daemon, call, faults, wrote, lost, orphans>>

\* A command writes .git/index.
WriteIndex ==
  /\ Tick
  /\ index' = clock'
  /\ UNCHANGED <<mtime, daemon, call, faults, history>>

\* An agent is about to change a file, or has, with its editing tool
\* (execute_pre_file_edit, execute_post_file_edit).
FileEdit(f) ==
  /\ \E kind \in {"Human", "AiAgent"} : Send(kind, {f})
  /\ UNCHANGED <<clock, mtime, index, worktree, perFile, sessions, stale, call, faults,
                 wrote, lost, orphans>>

Wait ==
  /\ Tick
  /\ UNCHANGED <<mtime, index, daemon, call, faults, history>>

\* Five minutes pass.
GoStale(c) ==
  /\ Active(c) /\ c \notin stale
  /\ stale' = stale \cup {c}
  /\ UNCHANGED <<clock, mtime, index, worktree, perFile, queue, sessions, call, faults,
                 history>>

\* A call in another worktree starts: the daemon keeps all sessions together.
StartElsewhere ==
  /\ stale # {}
  /\ sessions' = PruneStale /\ stale' = {}
  /\ lost' = lost \cup stale
  /\ UNCHANGED <<clock, mtime, index, worktree, perFile, queue, call, faults, uncaptured,
                 wrote, orphans>>

\* The daemon applies a checkpoint.  A Human one raises the watermark of the
\* worktree, which removes the older ones of its files.
Apply ==
  LET human == Head(queue).kind = "Human" IN
  /\ queue # <<>>
  /\ queue' = Tail(queue)
  /\ \/ /\ worktree' = IF human THEN clock ELSE worktree
        /\ perFile' = (~human \/ clock = worktree)
        /\ UNCHANGED faults
     \/ Fault /\ UNCHANGED <<worktree, perFile>>
  /\ UNCHANGED <<clock, mtime, index, sessions, stale, call, history>>

\* The daemon starts again: all this was in its memory.
Restart ==
  /\ Fault
  /\ worktree' = Never /\ perFile' = FALSE
  /\ queue' = <<>>
  /\ lost' = lost \cup {c \in Calls : Active(c)}
  /\ sessions' = [c \in Calls |-> None] /\ stale' = {}
  /\ UNCHANGED <<clock, mtime, index, call, uncaptured, wrote, orphans>>

Next ==
  \/ \E c \in Calls :
       \/ PreQuery(c) \/ PreSnapshot(c) \/ PreStart(c) \/ PreFail(c)
       \/ PostQuery(c) \/ PostSnapshot(c) \/ PostFail(c) \/ PostEnd(c)
       \/ Interrupt(c) \/ GoStale(c)
       \/ \E f \in Files : Write(c, f)
  \/ \E f \in Files : Edit(f) \/ FileEdit(f)
  \/ WriteIndex \/ Wait \/ StartElsewhere \/ Apply \/ Restart

Spec == Init /\ [][Next]_vars

----------------------------------------------------------------------------
Times == 0..MaxClock

Snapshots == [wm : Times \cup {Never}, late : BOOLEAN,
              entries : UNION {[fs -> Times] : fs \in SUBSET Files}]

TypeOK ==
  /\ clock \in Times
  /\ mtime \in [Files -> Times] /\ uncaptured \subseteq Files
  /\ {index, worktree} \subseteq Times \cup {Never}
  /\ perFile \in BOOLEAN
  /\ Len(queue) <= MaxQueue
  /\ \A i \in DOMAIN queue : /\ queue[i].kind \in {"Human", "AiAgent"}
                             /\ queue[i].files \in (SUBSET Files) \ {{}}
  /\ sessions \in [Calls -> Snapshots]
  /\ stale \subseteq {c \in Calls : Active(c)}
  /\ call \in [Calls -> [at : {"off", "asked", "snapped", "running", "fetched", "ending", "done"},
                         wm : Times \cup {Never}, late : BOOLEAN, snapshot : Snapshots,
                         taken : Times, report : SUBSET Files]]
  /\ wrote \in [Calls -> [Files -> Times \cup {Never}]]
  /\ lost \subseteq Calls /\ orphans \subseteq Calls

\* A file reported as the command's has been written since the first
\* snapshot: neither a checkpoint, a command on the index nor a
\* restart of the daemon in between turns an old file into the agent's
\* (post_wm, bash_tool.rs:1011).
ReportedWasWritten ==
  \A c \in Calls : \A f \in call[c].report : mtime[f] > call[c].taken

\* What a command wrote is reported, though the daemon raises its watermarks
\* while it runs, unless a hook or the session met a fault, the repository got
\* its first index or it was written within the grace window after the first
\* hook (diff, bash_tool.rs:699).
ToolEditsReported ==
  \A c \in Calls \ lost : At(c, "ending") =>
    \A f \in Files : wrote[c][f] > call[c].taken + Grace => f \in call[c].report

\* The same without the grace window does not hold: what a command changes within
\* the window after its snapshot is not reported (bash_tool.rs:30).
QuickEditsReported ==
  \A c \in Calls \ lost : At(c, "ending") =>
    \A f \in Files : wrote[c][f] > call[c].taken => f \in call[c].report

\* A commit is credited to an agent only while the agent's command is there:
\* every return of the second hook ends the session it looks up
\* (query_active_for_repo, bash_sessions.rs:58).
SessionHasCommand ==
  \A c \in Calls \ orphans : Active(c) => call[c].at \in {"running", "fetched", "ending"}

\* "Full-repo" watermarks (family_actor.rs:139) would let a file that has not been
\* written since be in a checkpoint.  That does not hold: every Human checkpoint
\* raises the watermark of its worktree, whatever its files (daemon.rs:6365).
WatermarkIsCapture ==
  worktree # Never => \A f \in Files : mtime[f] <= worktree => f \notin uncaptured

\* A file reported as a command's was written while it ran, what it wrote is
\* reported, but for the grace window, and its session ends with it; the state
\* keeps its type (handle_bash_post_tool_use, bash_tool.rs:1011).
ShellEditsReported ==
  TypeOK /\ SessionHasCommand /\ ReportedWasWritten /\ ToolEditsReported
=============================================================================
