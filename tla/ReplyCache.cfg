CONSTANTS
  Thread = {t1, t2, t3}
  Xid = {x1, x2}
  MaxConns = 2
  maxEntries = 2
  maxAge = 0
  maxInFlight = 2
  MaxCalls = 4
  MaxTime = 1
SPECIFICATION Spec
SYMMETRY Interchangeable
INVARIANTS TypeOK QueueIsDone RepliesAreOwn InFlightExecutes
PROPERTIES ExecutedOnce
