SPECIFICATION MCSpec

CONSTANTS
  a1 = a1
  a2 = a2
  Agents = {a1, a2}
  Human = human
  Base <- OneLine
  MaxLines = 3
  MaxDeletes = 1
  MaxEdits = 2
  MaxCommits = 3
  MaxQueue = 2

INVARIANTS
  AuthorsNamed
  NoteIsComplete
  UncommittedKept

\* Nobody has to write or commit, and the bounds are reached.
CHECK_DEADLOCK FALSE
