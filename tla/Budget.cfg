CONSTANTS
  Proc = {p1, p2, p3}
  Nobody = Nobody
  Limit = 2
  MaxCharge = 2
  MaxCalls = 4
SPECIFICATION FairSpec
INVARIANTS ParkedHasReason ChargeBounded CancellationIsOwn
PROPERTIES FailureReachesParked AwaitReturns
