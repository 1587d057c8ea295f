SPECIFICATION EditsSpec
CONSTANTS
  \* The limits of the source, for files of 32 KiB and more, are scaled to short
  \* contents, and three lines of a move to two.
  SP = "sp"  CR = "cr"  NL = "nl"
  Human = "human"
  KnownHumans = {"h_1"}
  AiIds = {"s_1"}
  Rank <- AuthorRank
  MoveThreshold = 2
  MoveMinFile = 10
  MoveMaxOps = 5
  LinePathBytes = 5
  LinePathLines = 3
  LinePathHuge = 8
  Symbols = {"a", "b", "c", "d", "x", "sp", "cr", "nl"}
  Contents <- Texts
  HeadContent <- ABCD
  Initials <- Records
  InitialTs = 1
  MinAfterAi = 2
  MaxCheckpoints = 3
  Files = {f1, f2}
  Calls = {c1}
  Grace = 1
  MaxClock = 2
  MaxQueue = 1
  MaxFaults = 1
INVARIANTS
  BytesAccounted
  BytesNameTheirAuthor
  ShellEditsReported
PROPERTIES
  KeptLinesKeepAuthor
CHECK_DEADLOCK FALSE
