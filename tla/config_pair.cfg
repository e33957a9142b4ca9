SPECIFICATION Spec
CONSTANTS
  a1 = a1
  a2 = a2
  freq = freq
  gain = gain
  Station = {a1, a2}
  Known = {a1, a2}
  ReadOnly = {}
  Field = {freq}
  Covered = {freq}
  Value = {0, 1, 2}
  InactiveVfo = {}
  VersionMod = 3
  NoMirror = NoMirror
  NoSettings = NoSettings
  NoPush = NoPush
  NoFrame = NoFrame
  NoSeq = NoSeq
  NoCrc = NoCrc
  Factory <- FactoryOne
  Requests = {"edit", "read"}
  Budget <- PairBudget
  ChanCap = 2
  Timely = TRUE
  MaxAttempts = 2
  SeqMod = 3
INVARIANTS MirrorWasHeld
CHECK_DEADLOCK FALSE
