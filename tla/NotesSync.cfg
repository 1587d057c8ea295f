SPECIFICATION FairSpec
CONSTANTS
  c1 = c1
  c2 = c2
  v1 = v1
  v2 = v2
  p = p
  q = q
  home = home
  acme = acme
  Commits = {c1}
  Contents = {v1, v2}
  Flushers = {p, q}
  Periodic = p
  Org <- HomeOnly
  Legacy = {}
  Shared = {c1}
  NoRow = NoRow
  BatchSize = 1
  MaxAttempts = 2
  MaxCacheRows = 0
  MaxWrites = 2
  MaxHolds = 1
  MaxFaults = 1
INVARIANTS TypeOK SyncedMatchesServer
PROPERTIES PendingNoteSettles
