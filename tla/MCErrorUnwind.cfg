\* An error in the middle of an argument list.
CONSTANTS
  MaxStackDepth = 60
  KillIfError = TRUE
  RestoreCollects = FALSE
  WalkBound = 40
  Texts <- MCTexts
  Image <- MCImage
  Quoted <- MCQuoted
  Files <- MCFiles
  Scripts <- MCScripts
  Sources <- FailsInAFrame
SPECIFICATION Spec
INVARIANTS SaveRestoreBalanced
CHECK_DEADLOCK FALSE
