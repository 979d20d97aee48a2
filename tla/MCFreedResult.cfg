\* The evaluation of a text that is an atom.
CONSTANTS
  MaxStackDepth = 60
  KillIfError = TRUE
  RestoreCollects = FALSE
  WalkBound = 40
  Texts <- MCTexts
  Image <- MCImage
  Quoted <- MCQuoted
  Files <- MCFiles
  Scripts <- MCScripts
  Sources <- EvalOfAnAtom
SPECIFICATION Spec
INVARIANTS ResultIsAllocated
CHECK_DEADLOCK FALSE
