SPECIFICATION Spec
CONSTANTS
  Procs = {p1, p2}
  Steady = p1
  Commands = {a, b}
  r1 = r1
  git = git
  child = child
  MaxLogins = 2
  MaxUses = 1
  MaxFaults = 1
INVARIANTS SignInsWork OverlaysMeet
PROPERTIES CallReturns OverlaysEnd PendingRootEnds ShutdownEndsThreads
CHECK_DEADLOCK FALSE
