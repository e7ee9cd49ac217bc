SPECIFICATION Spec
CONSTANTS
  m1 = m1
  c1 = c1
  c2 = c2
  c3 = c3
  Mount = {m1}
  ReadOnly = {}
  Change = {c1, c2, c3}
  MaxEpoch = 5
  MaxNonce = 3
  Retention = 1
  AllowUnconditionalRoot = TRUE
  Faults = {"late", "unsupported"}
  Weight <- Alike
  MaxFaults = 2
INVARIANTS RootLoadable
