-------------------------- MODULE AttributionTracker --------------------------
(***************************************************************************)
(* attribution_tracker.rs, move_detection.rs: how the attribution of a file *)
(* follows an edit. A content is a sequence of symbols of one byte each: a  *)
(* token, a space or a newline. Positions are byte offsets that count from  *)
(* 0, spans are half open. An attribution is a span with an author and a    *)
(* time; an empty one marks a deletion. The code's lists of attributions    *)
(* are sets here: it sorts them before it reads them.                       *)
(*                                                                         *)
(* The diff library is external: any longest common subsequence may come    *)
(* back, so the operators that need a diff yield the set of their results.  *)
(***************************************************************************)
EXTENDS Integers, SequencesExt

CONSTANTS
  SP, CR, NL,      \* the whitespace symbols; every other one is a token
  Human,           \* CheckpointKind::Human.to_str(), "human"
  KnownHumans,     \* ids with the prefix "h_"
  Rank(_),         \* alphabetical order of author ids
  MoveThreshold,   \* AttributionConfig.move_lines_threshold
  MoveMinFile,     \* MOVE_DETECTION_MIN_FILE_BYTES
  MoveMaxOps,      \* MOVE_DETECTION_MAX_OPS
  LinePathBytes,   \* TOKEN_DIFF_FAST_PATH_MIN_BYTES
  LinePathLines,   \* TOKEN_DIFF_FAST_PATH_MIN_LINES
  LinePathHuge     \* TOKEN_DIFF_FAST_PATH_HUGE_BYTES

ASSUME TrackerAssumption ==
  /\ SP # NL /\ CR # NL /\ SP # CR
  /\ {MoveThreshold, MoveMinFile, MoveMaxOps, LinePathBytes, LinePathLines,
      LinePathHuge} \subseteq Nat

Span(start, end) == [start |-> start, end |-> end]

Att(start, end, author, ts) ==
  [start |-> start, end |-> end, author |-> author, ts |-> ts]

IsAi(author) == author # Human /\ author \notin KnownHumans

Higher(x, y) == IF x >= y THEN x ELSE y
Lower(x, y) == IF x <= y THEN x ELSE y

Overlaps(span, start, end) == span.start < end /\ span.end > start

Blanks == {SP, CR, NL}

IsBlank(text) == \A i \in DOMAIN text : text[i] \in Blanks

Text(content, span) == SubSeq(content, span.start + 1, span.end)

\* The members of a finite set by their rank, counted from 0.
ByRank(S, rank) == [k \in 1..Cardinality(S) |-> CHOOSE x \in S : rank[x] = k - 1]

\* The members of a finite set in the given strict order.
Ordered(S, Less(_, _)) == ByRank(S, [x \in S |-> Cardinality({y \in S : Less(y, x)})])

\* The first member of a set in the given strict order, if it has one.
First(S, Less(_, _)) == {x \in S : \A y \in S \ {x} : Less(x, y)}

\* The spans of a content's lines; a line ends after its newline.
Lines(content) ==
  LET ends == Ordered({i \in DOMAIN content : content[i] = NL \/ i = Len(content)}, <)
  IN  [k \in DOMAIN ends |-> Span(IF k = 1 THEN 0 ELSE ends[k - 1], ends[k])]

-----------------------------------------------------------------------------
(* Diffs. A point is a position in the old content and one in the new; an   *)
(* edge of two points stands for what lies between them on both sides.      *)

Upto(p, q) == p[1] <= q[1] /\ p[2] <= q[2]

Edge(p, q) == <<p, q>>
OldSpan(e) == Span(e[1][1], e[2][1])
NewSpan(e) == Span(e[1][2], e[2][2])

\* Where a pair of matched pieces begins and ends.
Begin(x) == <<x[1].start, x[2].start>>
End(x) == <<x[1].end, x[2].end>>
Begins(a) == {Begin(x) : x \in a}
Ends(a) == {End(x) : x \in a}

\* Every longest common subsequence of two sets of pieces, as a set of pairs.
Alignments(old, new, os, ws) ==
  LET same == {x \in os \X ws : Text(old, x[1]) = Text(new, x[2])}
      common == {a \in SUBSET same : \A x, y \in a : \/ x = y
                                                     \/ Upto(End(x), Begin(y))
                                                     \/ Upto(End(y), Begin(x))}
      most == Max({Cardinality(a) : a \in common})
  IN  {a \in common : Cardinality(a) = most}

\* The edges between neighbouring points.
Edges(cuts) ==
  {e \in cuts \X cuts : /\ e[1] # e[2] /\ Upto(e[1], e[2])
                        /\ \A p \in cuts : Upto(p, e[1]) \/ Upto(e[2], p)}

\* The equal and changed runs of lines; an equal one begins with a matched line.
LineRuns(old, new, a) ==
  Edges({<<0, 0>>, <<Len(old), Len(new)>>} \cup (Begins(a) \ Ends(a)) \cup (Ends(a) \ Begins(a)))

\* Mutant: what is inserted in place of a deletion is left out.
Stretch_NoReplace(old, new, e, split) ==
  LET o == OldSpan(e)
      w == NewSpan(e)
  IN  IF ~split /\ o.start < o.end /\ Text(old, o) = Text(new, w)
      THEN {[op |-> "Equal", old |-> o, new |-> w]}
      ELSE IF o.start < o.end
      THEN {[op |-> "Delete", old |-> o, new |-> Span(w.start, w.start)]}
      ELSE {[op |-> "Insert", old |-> Span(o.end, o.end), new |-> w]}

\* The diffs of one stretch: equal if the texts are, unless a split is forced.
Stretch(old, new, e, split) ==
  LET o == OldSpan(e)
      w == NewSpan(e)
  IN  IF ~split /\ o.start < o.end /\ Text(old, o) = Text(new, w)
      THEN {[op |-> "Equal", old |-> o, new |-> w]}
      ELSE {d \in {[op |-> "Delete", old |-> o, new |-> Span(w.start, w.start)],
                   [op |-> "Insert", old |-> Span(o.end, o.end), new |-> w]} :
              d.old.start < d.old.end \/ d.new.start < d.new.end}

\* The tokens within a span.
TokensIn(content, span) ==
  {Span(p, p + 1) : p \in {q \in span.start..(span.end - 1) : content[q + 1] \notin Blanks}}

\* The tokens between two matched ones (or an end of the hunk), as an edge from the
\* first to the last on each side; where there is none, the side does not move.
Box(ot, wt, r) ==
  LET In(toks, from, to) == {x \in toks : from <= x.start /\ x.start < to}
      Low(toks, default) == IF toks = {} THEN default ELSE Min({x.start : x \in toks})
      High(toks, default) == IF toks = {} THEN default ELSE Max({x.end : x \in toks})
      dels == In(ot, r[1][1], r[2][1])
      adds == In(wt, r[1][2], r[2][2])
      start == <<Low(dels, r[1][1]), Low(adds, r[1][2])>>
  IN  Edge(start, <<High(dels, start[1]), High(adds, start[2])>>)

\* A hunk token by token: matched tokens are equal, the unmatched ones between
\* them are deleted and inserted at once, and what follows them is split too;
\* inserted tokens are substantive.
TokenDiffs(old, new, e, a) ==
  LET ot == TokensIn(old, OldSpan(e))
      wt == TokensIn(new, NewSpan(e))
      regions == {r \in ({e[1]} \cup Ends(a)) \X ({e[2]} \cup Begins(a)) :
                    /\ Upto(r[1], r[2])
                    /\ \A x \in a : Upto(End(x), r[1]) \/ Upto(r[2], Begin(x))}
      boxes == {b \in {Box(ot, wt, r) : r \in regions} : b[1] # b[2]}
      corners == {b[1] : b \in boxes} \cup {b[2] : b \in boxes}
  IN  [cuts |-> {e[1], e[2]} \cup Begins(a) \cup Ends(a) \cup corners,
       split |-> corners \ (Begins(a) \cup {e[2]}),
       fresh |-> {s \in {NewSpan(b) : b \in boxes} : s.start < s.end}]

\* should_use_line_aligned_hunk_diff: a large hunk is not diffed by token.
LineAligned(lines, bytes) ==
  bytes >= LinePathHuge \/ (bytes >= LinePathBytes /\ lines >= LinePathLines)

\* What a hunk is cut into. An AI checkpoint claims every byte of the lines it
\* changed.
HunkDiffs(old, new, e, ai) ==
  LET o == OldSpan(e)
      w == NewSpan(e)
      Within(content, s) == Cardinality({l \in ToSet(Lines(content)) :
                                           s.start <= l.start /\ l.start < s.end})
      Whole(fresh) == [cuts |-> {e[1], e[2]}, split |-> {e[1]}, fresh |-> fresh]
  IN  IF ai THEN {Whole({})}
      ELSE IF LineAligned(Higher(Within(old, o), Within(new, w)),
                          Higher(o.end - o.start, w.end - w.start))
      THEN {Whole(IF IsBlank(Text(new, w)) THEN {} ELSE {w})}
      ELSE {TokenDiffs(old, new, e, a) :
              a \in Alignments(old, new, TokensIn(old, o), TokensIn(new, w))}

\* The diffs of the pieces: their spans are what the code counts up from the
\* lengths, since nothing is left out (DiffsRebuildBoth).
Placed(old, new, pieces) ==
  LET cuts == UNION {x.cuts : x \in pieces}
      split == UNION {x.split : x \in pieces}
  IN  UNION {Stretch(old, new, e, e[1] \in split) : e \in Edges(cuts)}

\* Every result of diffing old with new: the diffs, and the substantive spans.
ComputeDiffs(old, new, ai) ==
  LET Picks(a) ==
        LET runs == LineRuns(old, new, a)
            pieces == [e \in runs |->
                         IF e[1] \in Begins(a)
                         THEN {[cuts |-> {e[1], e[2]}, split |-> {}, fresh |-> {}]}
                         ELSE HunkDiffs(old, new, e, ai)]
        IN  {P \in SUBSET UNION {pieces[e] : e \in runs} :
               \A e \in runs : \E x \in pieces[e] : P \cap pieces[e] = {x}}
  IN  {[diffs |-> Placed(old, new, P), fresh |-> UNION {x.fresh : x \in P}] : P \in UNION {Picks(a) :
         a \in Alignments(old, new, ToSet(Lines(old)), ToSet(Lines(new)))}}

-----------------------------------------------------------------------------
(* Moves: move_detection.rs *)

Trimmed(text) ==
  LET solid == {i \in DOMAIN text : text[i] \notin Blanks}
  IN  IF solid = {} THEN <<>> ELSE SubSeq(text, Min(solid), Max(solid))

TrimmedLines(content) ==
  LET lines == Lines(content)
  IN  [k \in DOMAIN lines |-> Trimmed(Text(content, lines[k]))]

\* The lines of a content that are not blank and that one of the spans touches, in
\* order: the line's number and the span.
TouchedLines(content, spans) ==
  LET lines == Lines(content)
      touched == {x \in (DOMAIN lines) \X spans :
                    /\ Overlaps(lines[x[1]], x[2].start, x[2].end)
                    /\ ~IsBlank(Text(content, lines[x[1]]))}
  IN  Ordered(touched, LAMBDA x, y : x[1] < y[1] \/ (x[1] = y[1] /\ x[2].start < y[2].start))

\* The blocks of inserted lines that repeat a block of deleted lines, given the text
\* of every line of the new and of the old content: from each inserted line the first
\* deleted one after which enough consecutive lines match is taken, and the search
\* goes on behind them.
Repeats(inserted, deleted, is, was) ==
  LET Consecutive(xs, i, n) ==
        i + n - 1 <= Len(xs) /\ \A d \in 1..(n - 1) : xs[i + d][1] = xs[i][1] + d
      Matches(i, p, n) ==
        /\ Consecutive(inserted, i, n) /\ Consecutive(deleted, p, n)
        /\ \A d \in 0..(n - 1) : is[inserted[i + d][1]] = was[deleted[p + d][1]]
      Length(i, p) == Max({n \in 0..Len(inserted) : Matches(i, p, n)})
      Found(i) == {p \in DOMAIN deleted : Length(i, p) >= Higher(MoveThreshold, 1)}
      Passed(i) == IF Found(i) = {} THEN 1 ELSE Length(i, Min(Found(i)))
      visited[i \in 1..(Len(inserted) + 1)] ==
        i = 1 \/ \E j \in 1..(i - 1) : visited[j] /\ i = j + Passed(j)
  IN  {[deleted |-> SubSeq(deleted, Min(Found(i)), Min(Found(i)) + Passed(i) - 1),
        inserted |-> SubSeq(inserted, i, i + Passed(i) - 1)] :
          i \in {j \in DOMAIN inserted : visited[j] /\ Found(j) # {}}}

\* The repeated blocks, blanks around the lines aside.
Blocks(old, new, dels, adds) ==
  Repeats(TouchedLines(new, adds), TouchedLines(old, dels), TrimmedLines(new), TrimmedLines(old))

\* The moves between deletions and insertions: which deletion, which insertion, and
\* the spans in the old and new content.
DetectMoves(old, new, dels, adds) ==
  LET OneSpan(xs) == \A k \in DOMAIN xs : xs[k][2] = xs[1][2]
      Extent(content, xs) == Span(Higher(Lines(content)[xs[1][1]].start, xs[1][2].start),
                                  Lower(Lines(content)[Last(xs)[1]].end, xs[1][2].end))
  IN  {[del |-> b.deleted[1][2], ins |-> b.inserted[1][2],
        source |-> Extent(old, b.deleted), target |-> Extent(new, b.inserted)] :
          b \in {c \in Blocks(old, new, dels, adds) : OneSpan(c.deleted) /\ OneSpan(c.inserted)}}

Deletions(diffs) == {d.old : d \in {x \in diffs : x.op = "Delete"}}
Insertions(diffs) == {d.new : d \in {x \in diffs : x.op = "Insert"}}

TotalBytes(spans) == Cardinality(UNION {s.start..(s.end - 1) : s \in spans})

\* should_skip_move_detection
SkipMoves(old, new, dels, adds) ==
  LET bytes == Higher(Len(old), Len(new))
  IN  \/ MoveThreshold = 0 \/ dels = {} \/ adds = {}
      \/ Cardinality(dels) + Cardinality(adds) > MoveMaxOps
      \/ bytes >= MoveMinFile /\ TotalBytes(dels) + TotalBytes(adds) >= (bytes * 3) \div 2

-----------------------------------------------------------------------------
(* Transformation *)

Before(a, b) ==
  \/ a.start < b.start
  \/ a.start = b.start /\ a.end < b.end
  \/ a.start = b.start /\ a.end = b.end /\ Rank(a.author) < Rank(b.author)
  \/ a.start = b.start /\ a.end = b.end /\ a.author = b.author /\ a.ts < b.ts

After(a, b) == Before(b, a)

\* Mutant: attributions beside the span are carried too.
Carried_All(a, jump) ==
  LET by == jump.target.start - jump.source.start
  IN  {Att(Higher(a.start, jump.source.start) + by, Lower(a.end, jump.source.end) + by,
           a.author, a.ts)}

\* Mutant: an attribution is not cut at the end of the span.
Carried_Uncut(a, jump) ==
  LET by == jump.target.start - jump.source.start
      start == Higher(a.start, jump.source.start)
  IN  IF start < Lower(a.end, jump.source.end)
      THEN {Att(start + by, a.end + by, a.author, a.ts)} ELSE {}

\* The part of an attribution inside a span, if any, moved to the span's target.
Carried(a, jump) ==
  LET by == jump.target.start - jump.source.start
      start == Higher(a.start, jump.source.start)
      end == Lower(a.end, jump.source.end)
  IN  IF start < end THEN {Att(start + by, end + by, a.author, a.ts)} ELSE {}

\* What attributions become where text is kept or moved, and the last of it.
Carry(atts, jumps) ==
  LET found == {x \in atts \X jumps : Carried(x[1], x[2]) # {}}
      Later(x, y) ==
        \/ x[2].source.start > y[2].source.start
        \/ x[2].source.start = y[2].source.start /\ x[2].target.start > y[2].target.start
        \/ x[2] = y[2] /\ After(x[1], y[1])
  IN  [atts |-> UNION {Carried(x[1], x[2]) : x \in found},
       newest |-> UNION {Carried(x[1], x[2]) : x \in First(found, Later)}]

\* find_attribution_for_insertion: the newest attribution at a position, else
\* the last one before those that end behind it, else the first that starts there.
NearestAttribution(atts, position) ==
  LET at == {a \in atts : Overlaps(a, position, position + 1)}
      behind == {a \in atts : \A b \in atts : b.end > position => Before(a, b)}
      Size(a) == a.end - a.start
      Newer(a, b) == \/ a.ts > b.ts
                     \/ a.ts = b.ts /\ Size(a) > Size(b)
                     \/ a.ts = b.ts /\ Size(a) = Size(b) /\ Before(a, b)
  IN  IF at # {} THEN First(at, Newer)
      ELSE IF behind # {} THEN First(behind, After)
      ELSE First({a \in atts : a.start >= position}, Before)

\* Mutant: only the stretch before the first mapped span is claimed.
Uncovered_First(span, mapped, author, ts) ==
  LET ends == {m.start : m \in mapped} \cup {span.end}
  IN  IF Min(ends) > span.start THEN {Att(span.start, Min(ends), author, ts)} ELSE {}

\* The stretches of a span that no mapped span covers, each claimed whole.
Uncovered(span, mapped, author, ts) ==
  LET free == {p \in span.start..(span.end - 1) : \A m \in mapped : ~Overlaps(m, p, p + 1)}
      firsts == {p \in free : p - 1 \notin free}
      ends == {p \in (span.start + 1)..span.end : p - 1 \in free /\ p \notin free}
  IN  {Att(x[1], x[2], author, ts) :
         x \in {y \in firsts \X ends : y[1] < y[2] /\ y[1]..(y[2] - 1) \subseteq free}}

\* Two moves of one deletion count as one if they agree in both spans, relative
\* to their deletion and their insertion (the insertion is not compared).
DistinctMoves(moves) ==
  LET Alike(m, n) ==
        /\ m.del = n.del /\ m.source = n.source
        /\ m.target.start - m.ins.start = n.target.start - n.ins.start
        /\ m.target.end - m.ins.start = n.target.end - n.ins.start
  IN  {m \in moves : \A n \in moves : Alike(n, m) => m.target.start <= n.target.start}

\* An update u has the contents, the diffs with their moves and substantive spans,
\* the attributions of the old content, and who takes the checkpoint, and when.
MovedOut(u, d) == {m \in DistinctMoves(u.moves) : m.del = d.old}
MovedIn(u, d) == {m.target : m \in {x \in u.moves : x.ins = d.new}}

\* A diff's own attribution: someone's, with the time that is theirs.
Owned(d, by) ==
  LET a == {Att(d.new.start, d.new.end, by.author, by.ts)}
  IN  [atts |-> a, newest |-> a]

\* The attribution of a diff inherits from the first of two sets that has a member.
Inherited(u, d, S, T) ==
  IF S # {} THEN Owned(d, CHOOSE a \in S : TRUE)
  ELSE IF T # {} THEN Owned(d, CHOOSE a \in T : TRUE)
  ELSE Owned(d, u)

\* A deletion takes along what was moved, or leaves an empty attribution.
Deleted(u, d) ==
  IF MovedOut(u, d) # {} THEN Carry(u.atts, MovedOut(u, d))
  ELSE IF u.ai \/ ~IsBlank(Text(u.old, d.old)) THEN Owned(d, u)
  ELSE [atts |-> {}, newest |-> {}]

\* An insertion is the author's, but for what was moved there and for whitespace
\* between kept tokens.
Inserted(u, d, newest, gap) ==
  LET nearest == NearestAttribution(u.atts, d.old.start)
      rest == Uncovered(d.new, MovedIn(u, d), u.author, u.ts)
  IN  IF MovedIn(u, d) # {} THEN [atts |-> rest, newest |-> First(rest, After)]
      ELSE IF \/ u.ai \/ NL \in ToSet(Text(u.new, d.new))
              \/ \E f \in u.fresh : Overlaps(f, d.new.start, d.new.end)
      THEN Owned(d, u)
      ELSE IF gap /\ IsBlank(Text(u.new, d.new)) THEN Inherited(u, d, nearest, newest)
      ELSE Inherited(u, d, newest, nearest)

\* What one diff adds; newest is what was added last, gap tells that a whitespace
\* deletion comes before.
Part(u, d, newest, gap) ==
  CASE d.op = "Equal" -> Carry(u.atts, {[source |-> d.old, target |-> d.new]})
    [] d.op = "Delete" -> Deleted(u, d)
    [] OTHER -> Inserted(u, d, newest, gap)

Sooner(d, e) == d.old.start + d.new.start < e.old.start + e.new.start

\* transform_attributions
Transform(u) ==
  LET order == Ordered(u.diffs, Sooner)
      Gap(k) == k > 1 /\ order[k - 1].op = "Delete" /\ IsBlank(Text(u.old, order[k - 1].old))
      walk[k \in 0..Len(order)] ==
        IF k = 0 THEN [atts |-> {}, newest |-> {}]
        ELSE LET s == walk[k - 1]
                 part == Part(u, order[k], s.newest, Gap(k))
             IN  [atts |-> s.atts \cup part.atts,
                  newest |-> IF part.newest = {} THEN s.newest ELSE part.newest]
  IN  walk[Len(order)].atts

\* Mutant: neighbours are joined whoever wrote them.
Joins_AnyAuthor(a, b) == a.start < a.end /\ b.start < b.end /\ b.start <= a.end

\* Neighbours of one author and time are joined.
Joins(a, b) ==
  /\ a.author = b.author /\ a.ts = b.ts
  /\ a.start < a.end /\ b.start < b.end /\ b.start <= a.end

\* merge_attributions: in order, each joined to what it follows or put behind it.
MergeAttributions(atts) ==
  LET sorted == Ordered(atts, Before)
      merged[k \in 0..Len(sorted)] ==
        IF k = 0 THEN [shut |-> {}, open |-> {}]
        ELSE LET s == merged[k - 1]
                 b == sorted[k]
             IN  IF \E a \in s.open : Joins(a, b)
                 THEN [shut |-> s.shut,
                       open |-> {Att(a.start, Higher(a.end, b.end), a.author, a.ts) : a \in s.open}]
                 ELSE [shut |-> s.shut \cup s.open, open |-> {b}]
  IN  merged[Len(sorted)].shut \cup merged[Len(sorted)].open

\* update_attributions_for_checkpoint: what an edit makes of the attributions,
\* with the diffs and moves it is based on, for every result of the diff.
UpdateAttributions(old, new, atts, author, ts, ai) ==
  {LET dels == Deletions(c.diffs)
       adds == Insertions(c.diffs)
       moves == IF ai \/ SkipMoves(old, new, dels, adds) THEN {}
                ELSE DetectMoves(old, new, dels, adds)
       u == [old |-> old, new |-> new, diffs |-> c.diffs, fresh |-> c.fresh, moves |-> moves,
             atts |-> atts, author |-> author, ts |-> ts, ai |-> ai]
   IN  [diffs |-> c.diffs, moves |-> moves, atts |-> MergeAttributions(Transform(u))] :
     c \in ComputeDiffs(old, new, ai)}

\* attribute_unattributed_ranges: every uncovered stretch becomes the author's.
FillGaps(content, atts, author, ts) ==
  atts \cup Uncovered(Span(0, Len(content)), {a \in atts : a.start < a.end}, author, ts)

-----------------------------------------------------------------------------
(* Lines *)

\* line_attributions_to_attributions
LinesToAttributions(lineAtts, content, ts) ==
  LET lines == Lines(content)
  IN  {Att(lines[l.first].start, lines[l.last].end, l.author, ts) :
         l \in {k \in lineAtts : {k.first, k.last} \subseteq DOMAIN lines}}

\* Mutant: what only touches the line counts.
Counts_Touching(a, content, line, ai) ==
  /\ a.start <= line.end /\ a.end >= line.start
  /\ \/ IsBlank(Text(content, line))
     \/ a.start = a.end
     \/ ai /\ IsAi(a.author)
     \/ ~IsBlank(Text(content, Span(Higher(a.start, line.start), Lower(a.end, line.end))))

\* An attribution has a say in a line if it covers a token of it, or marks a
\* deletion inside it; in an AI checkpoint an AI's whitespace counts too, in a
\* blank line everybody's.
Counts(a, content, line, ai) ==
  /\ Overlaps(a, line.start, line.end)
  /\ \/ IsBlank(Text(content, line))
     \/ a.start = a.end
     \/ ai /\ IsAi(a.author)
     \/ ~IsBlank(Text(content, Span(Higher(a.start, line.start), Lower(a.end, line.end))))

\* find_dominant_author_for_line_candidates: the newest of them, and the AI that a
\* newer human overrode.
DominantAuthor(content, line, atts, ai) ==
  LET candidates == {a \in atts : Counts(a, content, line, ai)}
      newest == {a \in candidates : \A b \in candidates : b.ts <= a.ts}
      lastAi == First({a \in candidates : IsAi(a.author)}, After)
      lastHuman == First({a \in candidates : ~IsAi(a.author)}, After)
  IN  IF candidates = {} THEN [author |-> Human, overrode |-> {}]
      ELSE [author |-> (CHOOSE a \in newest : a \in First(newest, Before)).author,
            overrode |-> {a.author : a \in {x \in lastAi : \E b \in lastHuman : b.ts > x.ts}}]

\* attributions_to_line_attributions_for_checkpoint: lines of one author joined,
\* a human's lines left out unless they override an AI.
AttributionsToLines(atts, content, ai) ==
  LET lines == Lines(content)
      who == [k \in DOMAIN lines |-> DominantAuthor(content, lines[k], atts, ai)]
      runs == {r \in (DOMAIN who) \X (DOMAIN who) :
                 /\ r[1] <= r[2]
                 /\ \A k \in r[1]..r[2] : who[k] = who[r[1]]
                 /\ r[1] = 1 \/ who[r[1] - 1] # who[r[1]]
                 /\ r[2] = Len(lines) \/ who[r[2] + 1] # who[r[1]]}
  IN  IF atts = {} THEN {}
      ELSE {l \in {[first |-> r[1], last |-> r[2], author |-> who[r[1]].author,
                    overrode |-> who[r[1]].overrode] : r \in runs} :
              l.author # Human \/ l.overrode # {}}
=============================================================================
