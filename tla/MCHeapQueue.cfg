CONSTANTS
  Entries <- MCEntries
  MaxLen <- MCMaxLen
SPECIFICATION Spec
PROPERTY HeapRefinesPriorityQueue
