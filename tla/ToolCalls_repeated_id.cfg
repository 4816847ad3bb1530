SPECIFICATION Spec
CONSTANTS
  Style <- MC_Repeating
  Position <- MC_Position
  NoIndex = NoIndex
  MaxCalls = 3
  MaxFragments = 4
INVARIANT
  OnlyFreshIdOpens
CHECK_DEADLOCK FALSE
