CONSTANTS
  QMaxItems <- MCQMaxItems
  QMaxDepth <- MCQMaxDepth
  Inputs <- MCInputs
  Options <- MCOptions
  WordBits <- MCWordBits
  Callers <- MCCallers
  DistToRect <- MCDistToRect
  DistToSegment <- MCDistToSegment
  NaN = NaN
SPECIFICATION FairSpec
INVARIANT
  NearestIsArgmin
PROPERTY
  TurnConsumesBytes
  NearestRefinesCall
