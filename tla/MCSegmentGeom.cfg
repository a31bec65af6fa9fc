CONSTANTS
  XCoords <- MCXCoords
  YCoords <- MCYCoords
  Deltas <- MCDeltas
SPECIFICATION Spec
\* Each call is a pure function that returns: nothing follows Evaluate.
CHECK_DEADLOCK FALSE
INVARIANTS
  IntersectsSegmentSound
  NearestIsFoot
  MoveCommutes
  ContainsImpliesIntersects
