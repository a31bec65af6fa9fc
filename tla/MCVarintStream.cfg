CONSTANTS
  WordBits <- MCWordBits
  Values <- MCValues
  MaxItems <- MCMaxItems
SPECIFICATION Spec
\* The writer stops at MaxItems and the reader at the end of the bytes.
CHECK_DEADLOCK FALSE
INVARIANTS
  ReadsWhatWasWritten
