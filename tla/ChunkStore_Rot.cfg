SPECIFICATION Spec
CONSTANTS
  small = small
  large = large
  Chunk = {small, large}
  Size <- MCSize
  File = {f1, f2}
  Proc = {p1, p2}
  Nobody = nobody
  None = none
  Own = own
  Absent = absent
  Rot = rot
  Limits = {1, 2, 3}
  Attempts = 2
  Verify = TRUE
  RottenAtMount = TRUE
  MaxFaults = 0
SYMMETRY Symmetry
INVARIANTS ExistsIsRight
