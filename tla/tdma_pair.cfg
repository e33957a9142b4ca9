SPECIFICATION FairSpec
CONSTANTS
  Station = {1, 2}
  Configured = {1}
  NSlots = 5
  MaxPerStation = 2
  Stale = 10
  SeqMod = 4
  None = None
  MaxLoss = 1
  MaxStalls = 1
  MaxRestarts = 1
  MaxResets = 1
INVARIANTS TypeOK NoCollision FairShares
PROPERTY AllStream
CHECK_DEADLOCK FALSE
