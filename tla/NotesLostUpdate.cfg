SPECIFICATION Spec
CONSTANTS
  c1 = c1
  c2 = c2
  v1 = v1
  v2 = v2
  p = p
  q = q
  home = home
  acme = acme
  Commits = {c1}
  Contents = {v1, v2}
  Flushers = {p, q}
  Periodic = p
  Org <- HomeOnly
  Legacy = {}
  Shared = {}
  NoRow = NoRow
  BatchSize = 1
  MaxAttempts = 2
  MaxCacheRows = 0
  MaxWrites = 2
  MaxHolds = 0
  MaxFaults = 0
INVARIANT ChangedNoteQueued
