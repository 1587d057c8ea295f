SPECIFICATION Spec
CONSTANTS
  c1 = c1
  c2 = c2
  v1 = v1
  v2 = v2
  p = p
  q = q
  home = home
  acme = acme
  Commits = {c1, c2}
  Contents = {v1}
  Flushers = {p, q}
  Periodic = p
  Org <- TwoOrgs
  Legacy = {c1}
  Shared = {}
  NoRow = NoRow
  BatchSize = 2
  MaxAttempts = 2
  MaxCacheRows = 1
  MaxWrites = 1
  MaxHolds = 1
  MaxFaults = 1
INVARIANTS UploadedByOne
PROPERTIES NoHeldDequeue
