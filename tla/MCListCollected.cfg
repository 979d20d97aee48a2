\* A list made while the tables may be full.
CONSTANTS
  MaxStackDepth = 60
  KillIfError = TRUE
  RestoreCollects = TRUE
  WalkBound = 40
  Texts <- MCTexts
  Image <- MCImage
  Quoted <- MCQuoted
  Files <- MCFiles
  Scripts <- MCScripts
  Sources <- MakesAList
SPECIFICATION Spec
INVARIANTS NothingDangles
CHECK_DEADLOCK FALSE
