SPECIFICATION Spec
CONSTANTS
  Field = {f, g}
  Value = {0, 1}
  Covered = {f}
  InactiveVfo = {}
  VersionMod = 3
  NoMirror = NoMirror
  NoSettings = NoSettings
  NoPush = NoPush
  NoCrc = NoCrc
  f = f
  g = g
INVARIANTS TypeOK Coherent MirrorWasProven OneAutoPush
PROPERTY LatchNeedsOperator
