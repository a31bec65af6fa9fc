CONSTANTS
  QMaxItems <- MCQMaxItems
  QMaxDepth <- MCQMaxDepth
  Inputs <- MCInputs
  Options <- MCOptions
  WordBits <- MCWordBits
SPECIFICATION TreeSpec
\* buildIndex returns once the tree is compressed: a built series has no
\* further step in this model.
CHECK_DEADLOCK FALSE
INVARIANTS
  TreeTypeOK
  ItemsExactlyOnce
  ItemsContained
  ItemsAtLowestLevel
