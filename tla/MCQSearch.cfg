CONSTANTS
  QMaxItems <- MCQMaxItems
  QMaxDepth <- MCQMaxDepth
  Inputs <- MCInputs
  Options <- MCOptions
  Queries <- MCQueries
  Limits <- MCLimits
  WordBits <- MCWordBits
SPECIFICATION Spec
INVARIANT
  SearchInTreeOrder
PROPERTY
  SearchRefinesIndex
