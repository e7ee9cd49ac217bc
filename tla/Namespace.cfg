CONSTANTS
  MaxName = 3
  MaxIno = 4
  Bounds <- MCBounds
SPECIFICATION Spec
INVARIANTS IsTree LinksCounted HandlesKeepTheirObject
PROPERTIES ListingsAreExact
