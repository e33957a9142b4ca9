SPECIFICATION FairSpec
CONSTANTS
  SeqMod = 3
  MaxAttempts = 2
  NoFrame = NoFrame
  NoSeq = NoSeq
  MaxTxn = 4
  MaxLoss = 2
  MaxRestarts = 1
  ChanCap = 3
  Undecodable = {2}
  Timely = FALSE
INVARIANTS AtMostOnceInOrder AckProvesHandling
PROPERTIES RefinesLink TransactionEnds
CHECK_DEADLOCK FALSE
