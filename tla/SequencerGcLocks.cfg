SPECIFICATION Spec
CONSTANTS
  f1 = f1  r1 = r1  r2 = r2  r3 = r3  q1 = q1  q2 = q2
  x1 = x1
  Families = {f1}
  Roots = {r1}
  Requests = {q1, q2}
  Files = {x1}
  Agents = {}
  Worker = Worker
  None = None
  Family <- OneFamily
  Sequenced <- AllRoots
  Class <- PlainEdits
  Deliveries <- GitOrder
  MaxClock = 1
  EditTimeout = 1
  GcInterval = 1
  MaxPeriodicGc = 0
PROPERTY
  SweepsOnlyIdleLocks
