CONSTANTS
  XCoords <- MCXCoordsLong
  YCoords <- MCYCoordsLong
  Deltas <- MCDeltas
SPECIFICATION Spec
\* Each call is a pure function that returns: nothing follows Evaluate.
CHECK_DEADLOCK FALSE
INVARIANT
  IntersectsSegmentComplete
