\* Chosen programs: closures, recursion, macros, nested evaluation, errors.
CONSTANTS
  MaxStackDepth = 45
  KillIfError = FALSE
  RestoreCollects = FALSE
  WalkBound = 40
  Texts <- MCTexts
  Image <- MCImage
  Quoted <- MCQuoted
  Files <- MCFiles
  Scripts <- MCScripts
  Sources <- Selected
SPECIFICATION FairSpec
INVARIANTS TypeOK FramesMatch NothingDangles ResultIsMeaning RegistersRestored StackNeverFull RestoredAsSaved
PROPERTIES Answers
\* the host stops asking
CHECK_DEADLOCK FALSE
