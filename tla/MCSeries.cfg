CONSTANTS
  QMaxItems <- MCQMaxItems
  QMaxDepth <- MCQMaxDepth
  WordBits <- MCWordBits
  Inputs <- MCInputs
  Options <- MCOptions
  Deltas <- MCDeltas
  DefaultMinPoints <- MCDefaultMinPoints
  MaxMoves <- MCMaxMoves
  Queries <- MCQueries
  Callers <- MCCallers
  DistToRect <- MCDistToRect
  DistToSegment <- MCDistToSegment
  NaN = NaN
SPECIFICATION Spec
\* A series is immutable and Move, its only operation, is cut at MaxMoves.
CHECK_DEADLOCK FALSE
INVARIANTS
  SweepIsCyclic
  MoveKeepsIndexBytes
  MoveSearchesShifted
  MoveNearestShifted
