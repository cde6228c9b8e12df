\* Two keys; windows of two instants, blocks of four, a sweep when another two have passed.
CONSTANTS
  k1 = k1
  k2 = k2
  Keys = {k1, k2}
  Points = 2
  Duration = 2
  Block = 4
  SweepEvery = 1
  MaxTime = 6
  MaxAsked = 2
SYMMETRY Symmetry
SPECIFICATION Spec
INVARIANTS TypeOK UnderTwiceThePoints BlockedForCause
PROPERTIES BlockHolds
CHECK_DEADLOCK FALSE
