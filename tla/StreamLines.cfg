SPECIFICATION FairSpec
CONSTANTS
  session = session
  subagent = subagent
  traces = traces
  Files = {session, traces}
  SharedFiles = {traces}
  FastFiles = {session}
  Otel <- TraceOfSession
  Subagents <- SubagentOfSession
  FirstChoice = {FALSE}
  NoRow = NoRow
  NoTask = NoTask
  Batch = 1
  MaxRetries = 2
  MaxLines <- OneEach
  MaxRequests = 1
  MaxSwitches = 1
  MaxFaults = 1
INVARIANTS TypeOK SavedIsHandled HandledOnce BehindLooksStale
PROPERTIES AppendedIsHandled
