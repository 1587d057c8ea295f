---------------------------- MODULE CommitReplay ----------------------------
(***************************************************************************)
(* Who wrote the lines of a commit: one file of one worktree, its working   *)
(* logs, and the notes the daemon writes for commits some time after they   *)
(* were made (apply_rewrite_side_effect, src/src/daemon.rs, with            *)
(* post_commit_with_final_state and the split of VirtualAttributions).      *)
(*                                                                         *)
(* People and agents write the file, stage and commit.  An agent's hooks    *)
(* before and after an edit are processes of their own: each reads HEAD,    *)
(* then the file, then asks the daemon for a checkpoint, and anybody may    *)
(* write or commit between any two of these steps.  The daemon carries out  *)
(* checkpoints and commits in the order in which they reach it; what the    *)
(* worktree held when a commit was made is read when the daemon sees the    *)
(* commit, which may be too late.                                           *)
(*                                                                         *)
(* A line is a number of its own, so a diff is what two versions do not     *)
(* share; nothing is moved.  by, doubtful and missed, and the field lines   *)
(* of the queue's elements, are history.                                    *)
(***************************************************************************)
EXTENDS Integers, Sequences, SequencesExt, FiniteSets

CONSTANTS
  Agents,
  Human,      \* the author of lines no agent claims
  Base,       \* the file in the first commit: lines 1..Len(Base), a human's
  MaxLines,   \* bound: lines ever written
  MaxDeletes, \* bound: lines ever deleted
  MaxEdits,   \* bound: edits the agents begin
  MaxCommits, \* bound: commits, the first included
  MaxQueue    \* bound: what the daemon has yet to do when more is asked of it

ASSUME CommitAssumption ==
  /\ {MaxLines, MaxDeletes, MaxEdits, MaxQueue} \subseteq Nat /\ MaxCommits \in Nat \ {0}
  /\ Base \in Seq(Nat) /\ Len(Base) <= MaxLines /\ \A l \in DOMAIN Base : Base[l] = l
  /\ Human \notin Agents

VARIABLES
  work,     \* the file in the worktree
  index,    \* the file in git's index
  trees,    \* the file in each commit; the last one is HEAD
  modified, \* commits there were when the file was last written: its mtime
  deletes, edits,
  edit,     \* where each agent is: at its hooks, at work on the file or idle
  queue,    \* checkpoint requests and commits the daemon has not carried out
  log,      \* the working log of each commit
  notes,    \* the notes of commits carried out
  by,       \* history: who wrote each line
  doubtful, \* history: lines that others wrote into an agent's edit
  missed    \* history: lines no checkpoint or snapshot took in time

vars == <<work, index, trees, modified, deletes, edits, edit, queue, log, notes, by,
          doubtful, missed>>

files == <<work, index, trees, modified, deletes, by>>

hooks == <<edits, edit>>

HEAD == Len(trees)

\* Lines with the agent that is named for some of them.
Named(content, names) == [content |-> content, names |-> names]

EmptyLog == [initial |-> <<>>, entry |-> <<>>]

Nobody == [l \in {} |-> Human]

\* An agent that is not at work; the lines are those it wrote in this edit.
Idle == [at |-> "idle", base |-> 1, content |-> <<>>, lines |-> {}]

Init ==
  /\ work = Base /\ index = Base /\ trees = <<Base>>
  /\ modified = 0 /\ deletes = 0 /\ edits = 0
  /\ edit = [a \in Agents |-> Idle]
  /\ queue = <<>>
  /\ log = [c \in 1..MaxCommits |-> EmptyLog]
  /\ notes = <<>>
  /\ by = [l \in DOMAIN Base |-> Human]
  /\ doubtful = {} /\ missed = {}

Lines(content) == DOMAIN content

\* Positions of the lines of new that old lacks.
Added(old, new) == {n \in Lines(new) : new[n] \notin ToSet(old)}

Only(f, lines) == [l \in (DOMAIN f) \cap lines |-> f[l]]

Over(f, g) == [l \in (DOMAIN f) \cup (DOMAIN g) |-> IF l \in DOMAIN f THEN f[l] ELSE g[l]]

----------------------------------------------------------------------------
(* The worktree *)

Fresh == Len(by) + 1

Open(a) == edit[a].at # "idle"

AgentLines(lines) == {l \in lines : by[l] \in Agents}

\* A new line; whose it is may be mistaken when somebody else's edit is open.
Adds(author) ==
  /\ Fresh <= MaxLines
  /\ by' = Append(by, author)
  /\ doubtful' = IF \E a \in Agents \ {author} : Open(a) THEN doubtful \cup {Fresh} ELSE doubtful

Deletes == deletes < MaxDeletes /\ deletes' = deletes + 1

\* Writes a new line before the p-th, or in its place, or deletes it.
Write(author, p) ==
  /\ \/ work' = InsertAt(work, p, Fresh) /\ Adds(author) /\ UNCHANGED deletes
     \/ p <= Len(work) /\ work' = [work EXCEPT ![p] = Fresh] /\ Adds(author) /\ Deletes
     \/ p <= Len(work) /\ work' = RemoveAt(work, p) /\ Deletes /\ UNCHANGED <<by, doubtful>>
  /\ modified' = Len(trees)

\* A person writes; no checkpoint is asked for.
HumanWrites ==
  /\ \E p \in 1..(Len(work) + 1) : Write(Human, p)
  /\ UNCHANGED <<index, trees, hooks, queue, log, notes, missed>>

\* An agent writes, between its hooks.
AgentWrites(a) ==
  /\ edit[a].at = "editing"
  /\ \E p \in 1..(Len(work) + 1) : Write(a, p)
  /\ edit' = [edit EXCEPT ![a].lines = @ \cup (DOMAIN by' \ DOMAIN by)]
  /\ UNCHANGED <<index, trees, edits, queue, log, notes, missed>>

\* A hook, before or after the edit, finds the commit its checkpoint is for
\* (read_head_state_for_worktree).  An edit begun during another agent's puts all
\* there is in doubt: their checkpoints mingle.
ReadHead(a) ==
  /\ \/ /\ edit[a].at = "idle" /\ edits < MaxEdits /\ edits' = edits + 1
        /\ edit' = [edit EXCEPT ![a] = [Idle EXCEPT !.at = "pre_head", !.base = HEAD]]
        /\ doubtful' = IF \E b \in Agents : Open(b) THEN DOMAIN by ELSE doubtful
     \/ /\ edit[a].at = "editing"
        /\ edit' = [edit EXCEPT ![a].at = "post_head", ![a].base = HEAD]
        /\ UNCHANGED <<edits, doubtful>>
  /\ UNCHANGED <<files, queue, log, notes, missed>>

\* It reads the file.
ReadFile(a) ==
  /\ \/ edit[a].at = "pre_head" /\ edit' = [edit EXCEPT ![a].at = "pre_read", ![a].content = work]
     \/ edit[a].at = "post_head" /\ edit' = [edit EXCEPT ![a].at = "post_read", ![a].content = work]
  /\ UNCHANGED <<files, edits, queue, log, notes, doubtful, missed>>

\* And asks for the checkpoint: a Human one before the edit, the agent's after
\* it (execute_pre_file_edit, execute_post_file_edit).
Asked(a, author) ==
  Append(queue, [is |-> "request", author |-> author, base |-> edit[a].base,
                 contents |-> <<edit[a].content>>, lines |-> edit[a].lines])

Request(a) ==
  /\ Len(queue) < MaxQueue
  /\ \/ /\ edit[a].at = "pre_read" /\ queue' = Asked(a, Human)
        /\ edit' = [edit EXCEPT ![a] = [Idle EXCEPT !.at = "editing"]]
     \/ edit[a].at = "post_read" /\ queue' = Asked(a, a) /\ edit' = [edit EXCEPT ![a] = Idle]
  /\ UNCHANGED <<files, edits, log, notes, doubtful, missed>>

\* git add, or git add -p that leaves a new line out.
Stage ==
  /\ index' \in {work} \cup {RemoveAt(work, p) : p \in Added(trees[HEAD], work)}
  /\ index' # index
  /\ UNCHANGED <<work, trees, modified, deletes, hooks, queue, log, notes, by, doubtful, missed>>

\* git commit; the daemon has not seen it yet.  An edit that is open then has
\* its hooks at different commits: what it wrote comes too late for the note, and
\* what others wrote and did not commit is new to its second checkpoint.  So is
\* what an agent wrote too late when it is staged and no longer in the worktree.
Commit ==
  LET editing == {a \in Agents : Open(a)} IN
  /\ index # trees[HEAD] /\ Len(trees) < MaxCommits /\ Len(queue) < MaxQueue
  /\ trees' = Append(trees, index)
  /\ queue' = Append(queue, [is |-> "unseen", author |-> Human, base |-> Len(trees),
                             contents |-> <<>>, lines |-> DOMAIN by])
  /\ doubtful' = doubtful \cup UNION {{l \in ToSet(work) \ ToSet(index) : by[l] # a} : a \in editing}
  /\ missed' = missed \cup AgentLines(ToSet(index) \ ToSet(work))
                     \cup UNION {edit[a].lines : a \in editing}
  /\ UNCHANGED <<work, index, modified, deletes, hooks, log, notes, by>>

----------------------------------------------------------------------------
(* The daemon *)

\* tracked_working_log_files
Tracked(c) == log[c] # EmptyLog

\* read_worktree_snapshot_for_files_at_or_before: the time of the last write
Unwritten(c) == modified <= c

\* The daemon is about to look at the i-th element, a commit.
Sees(i, is) == queue[i].is = is /\ \A j \in 1..(i - 1) : queue[j].is \notin {"unseen", "checked"}

\* Mutant: the time of the last write is not asked for.
CaptureCheck_AnyTime(i) ==
  /\ Sees(i, "unseen") /\ Tracked(queue[i].base)
  /\ queue' = [queue EXCEPT ![i].is = "checked", ![i].lines = DOMAIN by]
  /\ UNCHANGED <<files, hooks, log, notes, doubtful, missed>>

\* capture_carryover_snapshot_for_command: the daemon sees the next commit.
\* The worktree will be read if the base's working log has the file and it was
\* not written since the commit.
CaptureCheck(i) ==
  /\ Sees(i, "unseen") /\ Tracked(queue[i].base) /\ Unwritten(queue[i].base)
  /\ queue' = [queue EXCEPT ![i].is = "checked", ![i].lines = DOMAIN by]
  /\ UNCHANGED <<files, hooks, log, notes, doubtful, missed>>

\* The content that stands for the commit is too old for a line it lacks that was
\* there before, and too new for one it has that was not, when the commit was made
\* or the time of the last write looked at.
Captured(i, contents, content) ==
  LET r == queue[i] IN
  /\ queue' = [queue EXCEPT ![i].is = "commit", ![i].contents = contents, ![i].lines = {}]
  /\ missed' = missed \cup {l \in AgentLines(DOMAIN by) :
                              IF l \in r.lines THEN l \notin ToSet(content) \cup ToSet(trees[r.base + 1])
                              ELSE l \in ToSet(content)}
  /\ UNCHANGED <<files, hooks, log, notes, doubtful>>

\* Otherwise the commit itself has to do.
CaptureSkip(i) ==
  /\ Sees(i, "unseen") /\ ~(Tracked(queue[i].base) /\ Unwritten(queue[i].base))
  /\ Captured(i, <<>>, trees[queue[i].base + 1])

\* The file is read after its time was, whoever has written it since.
CaptureRead(i) == Sees(i, "checked") /\ Captured(i, <<work>>, work)

\* What a checkpoint compares with: the last entry, or INITIAL, or the commit.
Previous(l, c) ==
  IF l.entry # <<>> THEN l.entry[1]
  ELSE IF l.initial # <<>> THEN l.initial[1]
  ELSE Named(trees[c], Nobody)

\* Lines that are kept stay whose they were, new ones are the author's.
Entry(l, c, author, content) ==
  LET before == Previous(l, c)
      fresh == ToSet(content) \ ToSet(before.content)
      mine == [x \in IF author = Human THEN {} ELSE fresh |-> author]
  IN  Named(content, Over(mine, Only(before.names, ToSet(content))))

\* No entry for a file that did not change; INITIAL makes one.
After(l, c, author, content) ==
  IF content = Previous(l, c).content /\ (l.entry # <<>> \/ l.initial = <<>>)
  THEN l
  ELSE [l EXCEPT !.entry = <<Entry(l, c, author, content)>>]

\* Mutant: what people wrote since the last checkpoint is not set apart.
Checkpoint_NotHuman ==
  LET r == Head(queue)
  IN
  /\ queue # <<>> /\ r.is = "request"
  /\ log' = IF r.author = Human THEN log
            ELSE [log EXCEPT ![r.base] = After(log[r.base], r.base, r.author, r.contents[1])]
  /\ queue' = Tail(queue)
  /\ UNCHANGED <<files, hooks, notes, doubtful, missed>>

\* A checkpoint is written into the working log of the commit its hook saw,
\* be that HEAD or not.
Checkpoint ==
  LET r == Head(queue)
  IN
  /\ queue # <<>> /\ r.is = "request"
  /\ log' = [log EXCEPT ![r.base] = After(log[r.base], r.base, r.author, r.contents[1])]
  /\ queue' = Tail(queue)
  /\ UNCHANGED <<files, hooks, notes, doubtful, missed>>

\* Mutant: only the entries are read.
Known_NoInitial(l) == IF l.entry # <<>> /\ DOMAIN l.entry[1].names # {} THEN l.entry ELSE <<>>

\* What a working log says of the file, if anything.
Known(l) ==
  LET latest == IF l.entry # <<>> THEN l.entry ELSE l.initial
  IN  IF latest # <<>> /\ DOMAIN latest[1].names # {} THEN latest ELSE <<>>

\* collect_committed_hunks: the commit's line numbers that its parent lacks.
Committed(c) == {n \in Lines(trees[c]) : trees[c][n] \notin ToSet(trees[c - 1])}

\* Those that replace nothing: no line i of old is between the kept lines around
\* them, as a kept line above is at i or after it in old, or one below not after.
Insertions(old, new) ==
  {n \in Added(old, new) :
     \A i \in Lines(old) : \E m \in Lines(new), j \in Lines(old) :
       /\ new[m] = old[j]
       /\ (m < n /\ i <= j) \/ (n < m /\ j <= i)}

\* Mutant: insertions are treated like modifications.
Unstaged_NoInsertions(c, final) == Added(trees[c], final) \ Committed(c)

\* collect_unstaged_hunks_from_snapshot, less the lines with the number of a
\* committed one unless they were inserted.
Unstaged(c, final) ==
  Added(trees[c], final) \ (Committed(c) \ Insertions(trees[c], final))

\* Mutant: numbers are not converted.
InCommit_Unconverted(n, unstaged) == n

\* The commit's number for a line number of the final state.
InCommit(n, unstaged) == n - Cardinality({m \in unstaged : m < n})

\* The agents named for line numbers.
ByNumber(x) == [n \in {m \in Lines(x.content) : x.content[m] \in DOMAIN x.names} |-> x.names[x.content[n]]]

\* The line numbers of the commit with the agent named for them.
Claims(c, final, named) ==
  LET unstaged == Unstaged(c, final)
  IN  {<<InCommit(n, unstaged), named[n]>> :
         n \in {m \in (DOMAIN named) \ unstaged : InCommit(m, unstaged) \in Committed(c)}}

\* The names of the lines left for later.
Left(c, final, named) ==
  LET later == (DOMAIN named) \cap Unstaged(c, final)
  IN  [l \in {final[n] : n \in later} |-> named[CHOOSE n \in later : final[n] = l]]

\* Committed lines without a claim, between claims of one agent.
Gaps(c, claims) ==
  LET claimed == {x[1] : x \in claims}
      above(n) == {m \in claimed : m < n}
      below(n) == {m \in claimed : m > n}
  IN  {x \in (Committed(c) \ claimed) \X Agents :
         /\ above(x[1]) # {} /\ below(x[1]) # {}
         /\ <<Max(above(x[1])), x[2]>> \in claims /\ <<Min(below(x[1])), x[2]>> \in claims}

\* Mutant: the log is used as it is.
Synced_Not(base, final) == log[base]

\* The working log once it agrees with the commit or with the snapshot
\* (sync_pre_commit_checkpoint_for_daemon_commit).
Synced(base, final) ==
  IF Tracked(base) /\ Previous(log[base], base).content = final THEN log[base]
  ELSE After(log[base], base, Human, final)

\* Mutant: what is carried over is read from the new commit's log alone.
Carried_Not(base, final, left) == left

\* restore_virtual_attribution_carryover: the names of the base's log before
\* it was synced, for the lines that are still there.
Carried(base, final, left) ==
  IF final = trees[base + 1] \/ Known(log[base]) = <<>> THEN left
  ELSE Over(Only(Known(log[base])[1].names, ToSet(final)), left)

\* apply_rewrite_side_effect for a commit.
CommitEvent ==
  LET r == Head(queue)
      c == r.base + 1
      final == IF r.contents # <<>> THEN r.contents[1] ELSE trees[c]
      va == Known(Synced(r.base, final))
      named == IF va = <<>> THEN Nobody ELSE ByNumber(va[1])
      claims == Claims(c, final, named)
      left == Carried(r.base, final, Left(c, final, named))
  IN
  /\ queue # <<>> /\ r.is = "commit"
  /\ notes' = Append(notes, [claims |-> claims, gaps |-> Gaps(c, claims), final |-> final])
  /\ log' = [log EXCEPT ![r.base] = EmptyLog,
                        ![c] = [initial |-> IF left = Nobody THEN <<>> ELSE <<Named(final, left)>>,
                                entry |-> log[c].entry]]
  /\ queue' = Tail(queue)
  /\ UNCHANGED <<files, hooks, doubtful, missed>>

Next ==
  \/ HumanWrites
  \/ \E a \in Agents : ReadHead(a) \/ ReadFile(a) \/ Request(a) \/ AgentWrites(a)
  \/ Stage \/ Commit
  \/ \E i \in DOMAIN queue : CaptureCheck(i) \/ CaptureSkip(i) \/ CaptureRead(i)
  \/ Checkpoint \/ CommitEvent

Spec == Init /\ [][Next]_vars

----------------------------------------------------------------------------
Content(s) == s \in Seq(1..Len(by)) /\ Len(s) <= MaxLines

NamedOk(x) ==
  /\ Content(x.content)
  /\ DOMAIN x.names \subseteq ToSet(x.content)
  /\ \A l \in DOMAIN x.names : x.names[l] \in Agents

\* The type of the state: a working log names agents, and only for lines of
\* the content it was written for.
TypeOK ==
  /\ Content(work) /\ Content(index)
  /\ \A c \in DOMAIN trees : Content(trees[c])
  /\ modified \in 0..Len(trees) /\ deletes \in 0..MaxDeletes /\ edits \in 0..MaxEdits
  /\ \A a \in Agents :
       /\ edit[a].at \in {"idle", "pre_head", "pre_read", "editing", "post_head", "post_read"}
       /\ edit[a].base \in DOMAIN trees
       /\ Content(edit[a].content)
       /\ edit[a].lines \subseteq DOMAIN by
  /\ \A r \in ToSet(queue) :
       /\ r.is \in {"request", "unseen", "checked", "commit"}
       /\ r.base \in DOMAIN trees
       /\ \A s \in ToSet(r.contents) : Content(s)
       /\ r.lines \subseteq DOMAIN by
  /\ \A c \in DOMAIN log : \A x \in ToSet(log[c].initial) \cup ToSet(log[c].entry) : NamedOk(x)
  /\ Len(notes) < Len(trees)
  /\ doubtful \subseteq DOMAIN by /\ missed \subseteq DOMAIN by

\* A working log that will still be read never names an agent for an uncommitted
\* line that someone else wrote, through checkpoints, commits and what they carry
\* over, however late the daemon is, unless the line was written into an agent's
\* edit.
LogNamesAuthors ==
  \A c \in (DOMAIN log) \ (DOMAIN notes) : \A x \in ToSet(log[c].initial) \cup ToSet(log[c].entry) :
    \A l \in (DOMAIN x.names) \ doubtful :
      (c \in DOMAIN trees => l \notin ToSet(trees[c])) => x.names[l] = by[l]

\* Commits of which every line is in the content the note was made with: the
\* split works on line numbers, which a line deleted or replaced after it was
\* staged shifts (collect_unstaged_hunks_from_snapshot).
Intact(k) == ToSet(trees[k + 1]) \subseteq ToSet(notes[k].final)

\* A note claims for an agent only lines the agent wrote and the commit added,
\* whatever was left unstaged (to_authorship_log_and_initial_working_log);
\* the lines between two claims are not claimed but guessed.
NoteNamesAuthors ==
  \A k \in DOMAIN notes : Intact(k) =>
    \A x \in notes[k].claims :
      LET l == trees[k + 1][x[1]] IN l \in doubtful \/ by[l] = x[2]

\* Neither a working log nor a note names an agent for a line it did not write,
\* but for lines that others wrote into its edit, and both keep their type.
AuthorsNamed == TypeOK /\ LogNamesAuthors /\ NoteNamesAuthors

\* Lines of agents that were written when nobody else's edit was open and that
\* no commit came before the checkpoint of, nor a snapshot too late for.
Followed(l) == by[l] \in Agents /\ l \notin doubtful \cup missed

\* Every line that an agent wrote is in the note of the commit that added it,
\* in whichever commit it got there, unless somebody else's edit was open, a
\* commit came before the agent's checkpoint, or a snapshot came at the wrong
\* time.
NoteIsComplete ==
  \A k \in DOMAIN notes : Intact(k) =>
    \A n \in Committed(k + 1) :
      LET l == trees[k + 1][n] IN Followed(l) => <<n, by[l]>> \in notes[k].claims

\* When the daemon has caught up and nobody is at work, HEAD's working log knows
\* every line that an agent wrote and nobody has committed, with the exceptions
\* of NoteIsComplete.
UncommittedKept ==
  queue = <<>> /\ (\A a \in Agents : ~Open(a)) =>
    \A l \in ToSet(work) \ ToSet(trees[HEAD]) :
      Followed(l) => LET k == Known(log[HEAD]) IN k # <<>> /\ l \in DOMAIN k[1].names

=============================================================================
