SPECIFICATION FairSpec
CONSTANTS
  Station = {1, 2}
  Setting = {a, b}
  First = a
  Ui = {ui}
  Loop = loop
  None = None
  FullRead = FullRead
  Budget <- MCBudget
INVARIANTS TypeOK ProvenOnly DiskWasMemory WrittenThrough
PROPERTIES Drains
CHECK_DEADLOCK FALSE
