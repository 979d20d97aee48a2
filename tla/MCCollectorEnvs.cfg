\* Chains of environments, and the refinement of ManagedHeap.
CONSTANTS
  MaxNumBlocks = 1
  MaxNumEnvironments = 3
  c1 = c1
  Code <- NoCode
SPECIFICATION Spec
INVARIANTS NoDangling
PROPERTIES HeapSpec
\* exit(1) stops the program
CHECK_DEADLOCK FALSE
