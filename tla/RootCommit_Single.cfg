SPECIFICATION FairSpec
CONSTANTS
  m1 = m1
  c1 = c1
  c2 = c2
  Mount = {m1}
  ReadOnly = {}
  Change = {c1, c2}
  MaxEpoch = 5
  MaxNonce = 3
  Retention = 1
  AllowUnconditionalRoot = TRUE
  Faults = {"crash", "read", "delete", "list", "lost", "unsupported"}
  Weight <- Alike
  MaxFaults = 2
INVARIANTS NoLostAck
PROPERTIES DivergesOnlyOnAnother ChangesCommitted DoubtSettled PruneEnds
