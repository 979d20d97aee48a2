\* Two blocks and two environments: closures in environments, cycles, nesting.
CONSTANTS
  MaxNumBlocks = 2
  MaxNumEnvironments = 2
  c1 = c1
  Code <- NoCode
SPECIFICATION Spec
INVARIANTS TypeOK CountsAgree NoDangling TouchesOnlyLive Precise ExitOnlyWhenFull
\* exit(1) stops the program
CHECK_DEADLOCK FALSE
