SPECIFICATION MasterSpec
CONSTANTS
  a1 = a1
  a2 = a2
  freq = freq
  gain = gain
  Station = {a1}
  Known = {a1}
  ReadOnly = {}
  Field = {freq}
  Covered = {freq}
  Value = {0, 1}
  InactiveVfo = {}
  VersionMod = 3
  NoMirror = NoMirror
  NoSettings = NoSettings
  NoPush = NoPush
  NoFrame = NoFrame
  NoSeq = NoSeq
  NoCrc = NoCrc
  Factory <- FactoryOne
  Requests = {"edit", "read", "push", "revert"}
  Budget <- FaultsBudget
  ChanCap = 2
  Timely = FALSE
  MaxAttempts = 2
  SeqMod = 2
INVARIANTS MirrorWasHeld InflightIsSent
PROPERTIES WorkDrains RefinesDistributor
CHECK_DEADLOCK FALSE
