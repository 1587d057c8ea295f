SPECIFICATION Spec
CONSTANTS
  Shas = {s1, s2}
  Files = {f1, f2}
  Hashes = {h1, h2}
  Events = {good, bad, worse, invalid, huge}
  Bad = {bad, worse}
  Invalid = {invalid}
  Huge = {huge}
  Mixes = {{good, bad, worse}, {good, invalid, huge}}
  BatchLimit = 2
  MaxVersions = 2
  MaxTouches = 2
  MaxSwitches = 1
  MaxAttempts = 2
  SummaryFaults = 2
  ChangeFaults = 1
  TranscriptFaults = 3
  MetricFaults = 1
INVARIANTS NothingLost MetricsKept HeldUntilReleased
PROPERTIES GoodEventsDelivered
CHECK_DEADLOCK FALSE
