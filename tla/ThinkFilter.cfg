SPECIFICATION Spec
CONSTANTS
  Letter <- MC_Letter
  openTag <- MC_openTag
  closeTag <- MC_closeTag
  MaxText = 7
INVARIANTS
  TypeOK
  SplitIrrelevant
  NothingLost
CHECK_DEADLOCK FALSE
