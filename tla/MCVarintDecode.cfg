CONSTANTS
  WordBits <- MCWordBits
  Bytes <- MCBytes
SPECIFICATION Spec
\* A decode returns: nothing follows it.
CHECK_DEADLOCK FALSE
INVARIANT
  ReadUvarintIsUvarint
