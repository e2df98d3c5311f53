SPECIFICATION FairCloudSpec
CONSTANTS
  r1 = r1  r2 = r2  r3 = r3  r4 = r4
  e1 = e1  e2 = e2  None = None  Founder = Founder
  Request <- MCRequest
  Traffic <- MCTraffic
  Email = {e1, e2}
  EmailOf <- MCEmailOf
  Worker = {w1, w2}
  PoolMax = 2
  MaxErrors = 1
  MaxCrashes = 1
  Foreign = {f1}
  WorkerTask = {k1, k2}
  MaxReceive = 2
  MaxStops = 1
INVARIANT ResourcesAccounted
PROPERTY ImplementsAccounts
INVARIANT RowsOwned
PROPERTY EveryRequestAnswered
INVARIANT DeletedWasHandled
PROPERTY QueuedIsHandled
\* The clients' finite traffic ends; EveryRequestAnswered finds who is left waiting.
CHECK_DEADLOCK FALSE
