CONSTANTS
  QMaxItems <- MCQMaxItems
  QMaxDepth <- MCQMaxDepth
  Inputs <- MCInputs
  Options <- MCOptionsLinear
  WordBits <- MCWordBits
  Callers <- MCCallers
  DistToRect <- MCDistToRect
  DistToSegment <- MCDistToSegment
  NaN = NaN
SPECIFICATION Spec
INVARIANTS
  NearestIsArgmin
