SPECIFICATION CloudSpec
CONSTANTS
  r1 = r1  r2 = r2  r3 = r3  r4 = r4
  e1 = e1  e2 = e2  None = None  Founder = Founder
  Request <- MCRequest
  Traffic <- MCWithQueue
  Email = {e1, e2}
  EmailOf <- MCEmailOf
  Worker = {w1, w2}
  PoolMax = 2
  MaxErrors = 0
  MaxCrashes = 0
  Foreign = {f1}
  WorkerTask = {k1}
  MaxReceive = 2
  MaxStops = 0
INVARIANT MalformedIsDeleted
\* The clients' finite traffic ends.
CHECK_DEADLOCK FALSE
