SPECIFICATION Spec
CONSTANTS
  m1 = m1
  m2 = m2
  c1 = c1
  c2 = c2
  Mount = {m1, m2}
  ReadOnly = {}
  Change = {c1, c2}
  MaxEpoch = 4
  MaxNonce = 2
  Retention = 1
  AllowUnconditionalRoot = FALSE
  Faults = {"crash", "read", "delete", "list", "put", "noETag", "lost", "refused", "late", "unsupported"}
  Weight <- Graded
  MaxFaults = 5
SYMMETRY Interchangeable
INVARIANTS RootLoadable NoLostAck PruneBelowRoot
PROPERTIES RootAdvances ImplementsDurableNamespace
