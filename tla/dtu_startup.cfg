SPECIFICATION FairSpec
CONSTANTS
  Param <- MCParam
  Value <- MCValue
  Blank = ""
  Order <- MCOrder
  Wanted <- MCWanted
  WriteOnly = {"KEY"}
  Text = Text
  NoReply = NoReply
  EnterAttempts = 3
  ExitAttempts = 2
  Initial <- MCInitial
  Budget <- MCBudget
  MaxFailures = 1
INVARIANTS PipeWhenRunning AppliedOrReported WritesOnlyWhatDiffers
PROPERTIES ComesUp
CHECK_DEADLOCK FALSE
