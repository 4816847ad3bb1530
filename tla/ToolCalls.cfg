SPECIFICATION Spec
CONSTANTS
  Style <- MC_Style
  Position <- MC_Position
  NoIndex = NoIndex
  MaxCalls = 3
  MaxFragments = 4
INVARIANTS
  CallsReassembled
  SnapshotsFrozen
  EventsRebuildCalls
CHECK_DEADLOCK FALSE
