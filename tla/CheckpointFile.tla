---------------------------- MODULE CheckpointFile ----------------------------
(***************************************************************************)
(* daemon/checkpoint.rs: the checkpoints of one file of a working log. The  *)
(* working tree changes (Edit); a checkpoint compares it with the latest     *)
(* entry of the file, or with HEAD and the INITIAL attributions, moves the   *)
(* attributions along (AttributionTracker) and appends an entry.            *)
(***************************************************************************)
EXTENDS AttributionTracker

CONSTANTS
  Symbols,         \* what a byte may be
  Contents,        \* what the working tree may hold
  HeadContent,     \* the file in the base commit's tree
  Initials,        \* INITIAL records: [lines, snapshot]; snapshot is <<content>> or <<>>
  InitialTs,       \* INITIAL_ATTRIBUTION_TS
  AiIds,           \* session::trace ids of AI checkpoints
  MinAfterAi,      \* KNOWN_HUMAN_MIN_SECS_AFTER_AI
  MaxCheckpoints   \* bound: checkpoints carried out

Authors ==
  AiIds \cup KnownHumans \cup {Human} \cup UNION {{l.author : l \in i.lines} : i \in Initials}

ASSUME CheckpointAssumption ==
  /\ HeadContent \in Contents /\ Contents \subseteq Seq(Symbols)
  /\ \A i \in Initials :
       /\ IsFiniteSet(i.lines)
       /\ \A l \in i.lines : {l.first, l.last} \subseteq Nat /\ l.first <= l.last
       /\ i.snapshot \in {<<>>} \cup {<<c>> : c \in Contents}
  /\ AiIds \cap (KnownHumans \cup {Human}) = {}
  /\ \A a, b \in Authors : Rank(a) \in Int /\ (Rank(a) = Rank(b) => a = b)
  /\ InitialTs \in Nat \ {0}
  /\ {MinAfterAi, MaxCheckpoints} \subseteq Nat

VARIABLES
  initial,    \* what INITIAL says of the file
  content,    \* the file in the working tree
  entry,      \* the latest entry of the file: <<>> or <<[content, atts, lines]>>
  aiTouched,  \* the file is in ai_touched_files
  lastAi,     \* ticks of the latest AI checkpoint with an entry, <<>> if none
  clock,      \* ticks; a checkpoint at tick t has ts 2 * t
  done,       \* checkpoints carried out
  last        \* the last attribution update, for the properties: <<>> or <<record>>

vars == <<initial, content, entry, aiTouched, lastAi, clock, done, last>>

Kinds == {"Human", "KnownHuman", "Ai"}
AuthorsOf(kind) ==
  CASE kind = "Human" -> {Human} [] kind = "KnownHuman" -> KnownHumans [] OTHER -> AiIds

Init ==
  /\ initial \in Initials
  /\ content = HeadContent
  /\ entry = <<>>
  /\ aiTouched = (initial.lines # {})
  /\ lastAi = <<>>
  /\ clock = InitialTs
  /\ done = 0
  /\ last = <<>>

\* Somebody writes the file.
Edit ==
  /\ done < MaxCheckpoints
  /\ \E c \in Contents \ {content} : content' = c
  /\ last' = <<>>
  /\ UNCHANGED <<initial, entry, aiTouched, lastAi, clock, done>>

-----------------------------------------------------------------------------

\* content_eq_normalized compares without the CR of a CRLF.
Normalized(text) ==
  LET crlf == {i \in DOMAIN text : text[i] = CR /\ i < Len(text) /\ text[i + 1] = NL}
      kept == Ordered((DOMAIN text) \ crlf, <)
  IN  [k \in DOMAIN kept |-> text[kept[k]]]

SameText(a, b) == Normalized(a) = Normalized(b)

\* The state the first entry starts from: INITIAL on the content it was written
\* for (the current one if that was not kept), else HEAD. An AI checkpoint adds
\* the lines beyond HEAD's last one that INITIAL does not cover.
InitialState(author, ai) ==
  LET covered == UNION {l.first..l.last : l \in initial.lines}
      beyond == ((Len(Lines(HeadContent)) + 1)..Len(Lines(content))) \ covered
      extra == IF ai THEN {[first |-> n, last |-> n, author |-> author, overrode |-> {}] :
                             n \in beyond}
               ELSE {}
      base == IF initial.lines = {} THEN HeadContent
              ELSE IF initial.snapshot # <<>> THEN initial.snapshot[1]
              ELSE content
  IN  [content |-> base,
       atts |-> LinesToAttributions(initial.lines \cup extra, base, InitialTs)]

Previous(author, ai) ==
  IF entry # <<>> THEN [content |-> entry[1].content, atts |-> entry[1].atts]
  ELSE InitialState(author, ai)

Unchanged ==
  IF entry # <<>> THEN content = entry[1].content
  ELSE initial.lines = {} /\ SameText(content, HeadContent)

\* A save event so soon after an AI checkpoint is taken for the AI's own.
TooSoon(kind) ==
  kind = "KnownHuman" /\ lastAi # <<>> /\ clock - lastAi[1] < MinAfterAi

Record(e, kind, author, history) ==
  /\ entry' = <<e>>
  /\ aiTouched' = (aiTouched \/ kind = "Ai"
                   \/ \E a \in e.atts \cup e.lines : IsAi(a.author))
  /\ lastAi' = IF kind = "Ai" THEN <<clock>> ELSE lastAi
  /\ last' = history

\* Human edits of a file no AI has touched keep no attributions.
HumanOnly(kind) ==
  /\ kind = "Human" /\ ~aiTouched
  /\ LET previous == IF entry # <<>> THEN entry[1].content ELSE HeadContent
     IN  ~SameText(content, previous)
  /\ Record([content |-> content, atts |-> {}, lines |-> {}], kind, Human, <<>>)

\* Only line endings differ: the attributions are mapped by line number.
LineEndings(kind, author) ==
  /\ ~(kind = "Human" /\ ~aiTouched)
  /\ entry # <<>>
  /\ content # entry[1].content /\ SameText(content, entry[1].content)
  /\ LET lines == AttributionsToLines(entry[1].atts, entry[1].content, kind = "Ai")
     IN  Record([content |-> content, atts |-> LinesToAttributions(lines, content, 2 * clock),
                 lines |-> lines],
                kind, author, <<>>)

\* make_entry_for_file: what nobody claims is a human's, just before now.
MakeEntry(kind, author) ==
  /\ ~(kind = "Human" /\ ~aiTouched)
  /\ IF entry # <<>> THEN ~SameText(content, entry[1].content) ELSE ~Unchanged
  /\ LET ai == kind = "Ai"
         ts == 2 * clock
         previous == Previous(author, ai)
         filled == FillGaps(previous.content, previous.atts, Human, ts - 1)
     IN  \E u \in UpdateAttributions(previous.content, content, filled, author, ts, ai) :
           Record([content |-> content, atts |-> u.atts,
                   lines |-> AttributionsToLines(u.atts, content, ai)],
                  kind, author,
                  <<[kind |-> kind, author |-> author, ts |-> ts, old |-> previous.content,
                     before |-> filled, diffs |-> u.diffs, moves |-> u.moves]>>)

Checkpoint(kind, author) ==
  /\ done < MaxCheckpoints
  /\ ~TooSoon(kind)
  /\ HumanOnly(kind) \/ LineEndings(kind, author) \/ MakeEntry(kind, author)
  /\ clock' = clock + 1
  /\ done' = done + 1
  /\ UNCHANGED <<initial, content>>

\* A rejected request.
Reject(kind) ==
  /\ done < MaxCheckpoints
  /\ TooSoon(kind)
  /\ clock' = clock + 1
  /\ done' = done + 1
  /\ last' = <<>>
  /\ UNCHANGED <<initial, content, entry, aiTouched, lastAi>>

Next ==
  \/ Edit
  \/ \E kind \in Kinds :
       \/ \E author \in AuthorsOf(kind) : Checkpoint(kind, author)
       \/ Reject(kind)

Spec == Init /\ [][Next]_vars

-----------------------------------------------------------------------------
(* Properties *)

\* Every attribution is a span of the file, of somebody who takes checkpoints or is
\* named by INITIAL, and not from the future.
TypeOK ==
  /\ content \in Contents
  /\ initial \in Initials
  /\ aiTouched \in BOOLEAN
  /\ clock \in Nat /\ done \in 0..MaxCheckpoints
  /\ Len(lastAi) <= 1 /\ Len(last) <= 1
  /\ \A e \in ToSet(entry) :
       /\ e.content \in Contents
       /\ \A a \in e.atts : /\ 0 <= a.start /\ a.start <= a.end
                            /\ a.author \in Authors
                            /\ a.ts <= 2 * clock

CoveredBy(atts, p) == {a \in atts : Overlaps(a, p, p + 1)}
OwnersOf(atts, p) == {<<a.author, a.ts>> : a \in CoveredBy(atts, p)}
ByteRange(text) == 0..(Len(text) - 1)

\* The diffs an entry rests on are an edit script, whichever way the hunks were
\* compared (by line, by token, forced apart): every byte of the old content is kept
\* or deleted once, every byte of the new one kept or inserted once, what is kept
\* is the same on both sides, and no two diffs cross.
DiffsRebuildBoth ==
  LET diffs == last[1].diffs
      Once(x, ops, SpanOf(_)) ==
        \E d \in diffs : /\ d.op \in ops /\ Overlaps(SpanOf(d), x, x + 1)
                         /\ \A e \in diffs \ {d} : ~Overlaps(SpanOf(e), x, x + 1)
      Precedes(d, e) == d.old.end <= e.old.start /\ d.new.end <= e.new.start
  IN  last # <<>> =>
        /\ \A x \in ByteRange(last[1].old) : Once(x, {"Equal", "Delete"}, LAMBDA d : d.old)
        /\ \A x \in ByteRange(entry[1].content) : Once(x, {"Equal", "Insert"}, LAMBDA d : d.new)
        /\ \A d \in diffs : d.op = "Equal" =>
             Text(last[1].old, d.old) = Text(entry[1].content, d.new)
        /\ \A d, e \in diffs : d = e \/ Precedes(d, e) \/ Precedes(e, d)

\* The moves of an update are clean if every block has the same bytes at both
\* ends and no block is inserted twice. The code does not see to that: blocks are
\* matched without their indentation (see EveryByteOwnedAlways).
CleanMoves ==
  LET ms == last[1].moves
  IN  /\ \A m \in ms : Text(last[1].old, m.source) = Text(entry[1].content, m.target)
      /\ \A m, n \in ms : m.del = n.del /\ m.source = n.source => m = n

Covered == \A p \in ByteRange(entry[1].content) : CoveredBy(entry[1].atts, p) # {}

\* No byte of a checkpointed file is without an owner after an edit: what was
\* kept, moved or inserted covers the new content, so no later checkpoint takes a
\* line for a human's because its author got lost.
EveryByteOwned == (last # <<>> /\ CleanMoves) => Covered

\* Nothing of a content is lost, doubled or without an owner, and the entry keeps
\* its type.
BytesAccounted == TypeOK /\ DiffsRebuildBoth /\ EveryByteOwned

\* attribution_tracker.rs promises to preserve "authorship information even
\* through moves, edits, and whitespace changes".  Without the condition on moves
\* this does not hold: a block that is moved with another indentation takes the
\* ranges of its old bytes (attribution_tracker.rs:961).
EveryByteOwnedAlways == last # <<>> => Covered

\* Text an edit kept has exactly the owners, and times, it had: nothing of a
\* neighbouring insertion, deletion or move spills over.
KeptBytesKeepOwners ==
  (last # <<>> /\ CleanMoves) =>
    \A d \in last[1].diffs : d.op = "Equal" =>
      \A i \in 0..(d.old.end - d.old.start - 1) :
        OwnersOf(entry[1].atts, d.new.start + i) = OwnersOf(last[1].before, d.old.start + i)

\* Text that an edit inserted, and did not move, is the checkpoint's author's and
\* nobody else's, down to the whitespace in an AI checkpoint: a human's edit is
\* never credited to the AI whose line it is in, nor an AI's to a human.
InsertedBytesAreTheAuthors ==
  (last # <<>> /\ CleanMoves) =>
    \A p \in ByteRange(entry[1].content) :
      LET moved == \E m \in last[1].moves : Overlaps(m.target, p, p + 1)
          inserted == \E d \in last[1].diffs : d.op = "Insert" /\ Overlaps(d.new, p, p + 1)
          counts == last[1].kind = "Ai" \/ entry[1].content[p + 1] \notin Blanks
      IN  inserted /\ counts /\ ~moved =>
            OwnersOf(entry[1].atts, p) = {<<last[1].author, last[1].ts>>}

\* Kept text stays its owners', inserted text is the author's of the checkpoint.
BytesNameTheirAuthor == KeptBytesKeepOwners /\ InsertedBytesAreTheAuthors

\* Who a list of line attributions names for a line.
Named(lines, n) ==
  LET runs == {l \in lines : n \in l.first..l.last}
  IN  IF runs = {} THEN Human ELSE (CHOOSE l \in runs : TRUE).author

\* The lines of the old content that the diffs keep whole, with their new numbers.
KeptLines(diffs, old, new) ==
  {x \in (DOMAIN Lines(old)) \X (DOMAIN Lines(new)) :
     LET o == Lines(old)[x[1]]
         w == Lines(new)[x[2]]
     IN  \E d \in diffs :
           /\ d.op = "Equal"
           /\ d.old.start <= o.start /\ o.end <= d.old.end
           /\ w.start - o.start = d.new.start - d.old.start
           /\ w.end - w.start = o.end - o.start}

\* Who a line's newest attributions name.
Newest(e, line, ai) ==
  LET counted == {a \in e.atts : Counts(a, e.content, line, ai)}
  IN  {a.author : a \in {b \in counted : \A c \in counted : c.ts <= b.ts}}

\* Lines whose author the next entry may decide anew: one with a deletion marker,
\* which does not outlive the entry; one with a gap that an unclean move left, which
\* the next update gives to a human; one whose newest attributions are of several
\* authors, or are an AI's white space, which counts in an AI's checkpoint only.
Unsettled(e) ==
  {n \in DOMAIN Lines(e.content) :
     LET line == Lines(e.content)[n]
         here == {a \in e.atts : Overlaps(a, line.start, line.end)}
         newest == Newest(e, line, TRUE) \cup Newest(e, line, FALSE)
     IN  \/ \E a \in here : a.start = a.end
         \/ here # {} /\ \E p \in line.start..(line.end - 1) : CoveredBy(e.atts, p) = {}
         \/ \E a, b \in newest : a # b}

\* A line that an edit leaves alone is named for the same author in the new entry
\* as in the one before, whoever takes the checkpoint and whatever happens to the
\* lines around it, unless its author was not settled.
KeptLinesKeepAuthor ==
  [][(last' # <<>> /\ entry # <<>> /\ CleanMoves') =>
       \A x \in KeptLines(last'[1].diffs, last'[1].old, content) :
         x[1] \notin Unsettled(entry[1]) =>
           Named(entry'[1].lines, x[2]) = Named(entry[1].lines, x[1])]_vars
=============================================================================
