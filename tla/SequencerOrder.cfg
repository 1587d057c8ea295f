SPECIFICATION SituationsSpec
CONSTANTS
  f1 = f1  r1 = r1  r2 = r2  r3 = r3  q1 = q1  q2 = q2
  x1 = x1
  Families = {f1}
  Roots = {r1, r2, r3}
  Requests = {q1, q2}
  Files = {x1}
  Agents = {}
  Worker = Worker
  None = None
  Family <- OneFamily
  Sequenced = {r1, r2}
  Class <- PlainEdits
  Deliveries <- GitOrderOrNone
  MaxClock = 1
  EditTimeout = 1
  GcInterval = 5
  MaxPeriodicGc = 1
INVARIANTS TypeOK SlotsMatchEntries ExclusiveUntilSwept StartOrderRespected InflightCounted
PROPERTIES ReplaysQueue HandlerAnswered QueueDrains
