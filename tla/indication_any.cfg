SPECIFICATION IFairSpec
CONSTANTS
  StallAfter = 2
  Gap = 3
  MaxAttempts = 2
  Base = 1
  Cap = 3
  Boot = 4
  None = None
  MaxFaults = 2
  MinInterval = 1
  Heartbeat = 2
  MaxAge = 1
  Threshold = 1
  MaxBlock = 1
  MaxHold = 1
  MaxLosses = 1
  MaxRestarts = 1
INVARIANTS StreamTypeOK Bounded FreshWhenShown
PROPERTIES Spaced RecoveredOrIndicated DeadFeedShown LiveIsPresent
