---------------------------- MODULE MCFileEdits ----------------------------
(* How edits of files become attributions, by checkpoint and by shell       *)
(* command: CheckpointFile and an instance of BashTool.  They share no      *)
(* state, so TLC checks them side by side: side says whose steps a          *)
(* behaviour takes, and the other stays in an initial state.                *)
EXTENDS CheckpointFile

CONSTANTS Files, Calls, Grace, MaxClock, MaxQueue, MaxFaults  \* of BashTool

VARIABLES side, now, mtime, index, worktree, perFile, queue, sessions, stale, call,
          faults, uncaptured, wrote, lost, orphans

Shell == INSTANCE BashTool WITH clock <- now

shellVars == <<now, mtime, index, worktree, perFile, queue, sessions, stale, call,
               faults, uncaptured, wrote, lost, orphans>>

ASSUME ShellAssumption == Shell!BoundsAssumption

EditsInit ==
  /\ Init /\ Shell!Init
  /\ \/ side = "files" /\ index = Shell!Never
     \/ side = "shells" /\ initial.lines = {}

EditsNext ==
  \/ side = "files" /\ Next /\ UNCHANGED <<side, shellVars>>
  \/ side = "shells" /\ Shell!Next /\ UNCHANGED <<side, vars>>

EditsSpec == EditsInit /\ [][EditsNext]_<<side, vars, shellVars>>

\* BashTool: what a command wrote, and nothing else, is reported as its own.
ShellEditsReported == Shell!ShellEditsReported

----------------------------------------------------------------------------
(* The values TLC is given: contents of up to six short lines that differ by *)
(* a deletion, an insertion, an edit inside a line, a moved block, a block   *)
(* moved with new indentation, a block pasted twice, and line endings.       *)
AB == <<"a", "nl", "b", "sp", "x", "nl">>
CD == <<"c", "nl", "d", "nl">>
ABCD == AB \o CD
Moved == CD \o AB
Indented == CD \o <<"sp", "a", "nl", "sp", "b", "sp", "x", "nl">>
Twice == CD \o AB \o AB
Longer == AB \o <<"x", "nl">> \o CD
Edited == AB \o <<"c", "sp", "x", "nl", "d", "nl">>
Crlf == <<"a", "cr", "nl", "b", "sp", "x", "nl">> \o CD

Texts == {ABCD, AB, Moved, Indented, Twice, Longer, Edited, Crlf}

\* INITIAL names no line, or the second, with or without a snapshot.
Line2 == [first |-> 2, last |-> 2, author |-> "s_0", overrode |-> {}]
Records == {[lines |-> {}, snapshot |-> <<>>],
            [lines |-> {Line2}, snapshot |-> <<>>],
            [lines |-> {Line2}, snapshot |-> <<Longer>>]}

AuthorRank(a) == CASE a = "h_1" -> 1 [] a = "human" -> 2 [] a = "s_0" -> 3 [] OTHER -> 4
=============================================================================
