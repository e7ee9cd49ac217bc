CONSTANTS
  Proc = {p1, p2}
  Callers <- MCCallers
  Modes <- MCModes
  Gids = {1, 2}
  Sizes = {1}
  MaxCalls = 3
SPECIFICATION Spec
SYMMETRY ThreadSymmetry
PROPERTIES DoneAsAllowed
