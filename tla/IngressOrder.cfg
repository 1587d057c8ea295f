SPECIFICATION BothSpec
CONSTANTS
  r1 = r1  r2 = r2  git = git  child = child  other = other
  f1 = f1  q1 = q1  q2 = q2  q3 = q3  x1 = x1  x2 = x2  g1 = g1  ingester = ingester  None = None
  Roots = {r1, r2}
  Conns = {git, child, other}
  RootOf <- Three
  RootConn <- ThreeRoot
  Script <- ThreeScript
  ReadOnly = {other}
  Listing = {other}
  Sequenced = {r1}
  Capacity = 2
  Stoppable = FALSE
  MaxBreaks = 1
  MaxErrors = 1
INVARIANTS TypeOK EndedByItsExit StampedInOnePlace
PROPERTIES ConnectionOrderKept SaveDuringEditSuppressed
CHECK_DEADLOCK FALSE
