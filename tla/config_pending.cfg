SPECIFICATION Spec
CONSTANTS
  a1 = a1
  a2 = a2
  freq = freq
  gain = gain
  Station = {a1}
  Known = {a1}
  ReadOnly = {}
  Field = {freq}
  Covered = {freq}
  Value = {0, 1}
  InactiveVfo = {}
  VersionMod = 3
  NoMirror = NoMirror
  NoSettings = NoSettings
  NoPush = NoPush
  NoFrame = NoFrame
  NoSeq = NoSeq
  NoCrc = NoCrc
  Factory <- FactoryOne
  Requests = {"edit"}
  Budget <- LossBudget
  ChanCap = 2
  Timely = TRUE
  MaxAttempts = 2
  SeqMod = 3
INVARIANT PendingIsInFlight
CHECK_DEADLOCK FALSE
