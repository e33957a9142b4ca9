SPECIFICATION FairSpec
CONSTANTS
  a1 = a1
  a2 = a2
  freq = freq
  gain = gain
  Station = {a1}
  Known = {a1}
  ReadOnly = {}
  Field = {freq, gain}
  Covered = {freq}
  Value = {0, 1}
  InactiveVfo = {}
  VersionMod = 3
  NoMirror = NoMirror
  NoSettings = NoSettings
  NoPush = NoPush
  NoFrame = NoFrame
  NoSeq = NoSeq
  NoCrc = NoCrc
  Factory <- FactoryTwo
  Requests = {"edit", "read"}
  Budget <- CalmBudget
  ChanCap = 3
  Timely = TRUE
  MaxAttempts = 3
  SeqMod = 4
PROPERTY Converges
CHECK_DEADLOCK FALSE
