\* Every program of a small grammar, run alone.
CONSTANTS
  MaxStackDepth = 60
  KillIfError = TRUE
  RestoreCollects = FALSE
  WalkBound = 40
  Texts <- MCTexts
  Image <- MCImage
  Quoted <- MCQuoted
  Files <- MCFiles
  Scripts <- MCScripts
  Sources <- Grammar
SPECIFICATION Spec
INVARIANTS TypeOK FramesMatch NothingDangles ErrorsNeverBound ResultIsMeaning
\* the host stops asking
CHECK_DEADLOCK FALSE
