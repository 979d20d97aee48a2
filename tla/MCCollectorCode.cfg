\* Program cells, whose marks go stale, and the termination of a collection.
CONSTANTS
  MaxNumBlocks = 1
  MaxNumEnvironments = 2
  c1 = c1
  Code <- MCCode
SPECIFICATION FairSpec
INVARIANTS Precise
PROPERTIES CollectionEnds
\* exit(1) stops the program
CHECK_DEADLOCK FALSE
