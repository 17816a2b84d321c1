\* Three threads issue ids while the clock jumps.
SPECIFICATION Spec
CONSTANTS
  Caller = {c1, c2, c3}
  MaxMs = 3
  MaxSeq = 4
PROPERTIES IdsGrow
