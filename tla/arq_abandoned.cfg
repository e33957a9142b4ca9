SPECIFICATION Spec
CONSTANTS
  SeqMod = 4
  MaxAttempts = 2
  NoFrame = NoFrame
  NoSeq = NoSeq
  MaxTxn = 2
  MaxLoss = 2
  MaxRestarts = 0
  ChanCap = 2
  Undecodable = {}
  Timely = TRUE
INVARIANT NeverAssumedApplied
CHECK_DEADLOCK FALSE
