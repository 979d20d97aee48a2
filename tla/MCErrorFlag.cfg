\* The call of something that is not a procedure.
CONSTANTS
  MaxStackDepth = 60
  KillIfError = TRUE
  RestoreCollects = FALSE
  WalkBound = 40
  Texts <- MCTexts
  Image <- MCImage
  Quoted <- MCQuoted
  Files <- MCFiles
  Scripts <- MCScripts
  Sources <- NotAProcedure
SPECIFICATION Spec
INVARIANTS ErrorFlagReset
CHECK_DEADLOCK FALSE
