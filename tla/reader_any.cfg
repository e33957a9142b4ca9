SPECIFICATION Spec
CONSTANTS
  MaxByte = 3
  Sync1 = 3
  Sync2 = 2
  OldVersion = {0}
  NoType = {2}
  AddrLen = 0
  CrcLen = 1
  MaxPayload = 2
  CrcOk <- MCCrcOk
  Lines <- MCLines
  MaxPieces = 3
INVARIANTS NoneLost Sound BufferBounded ChunkFree Conserved
\* The line comes to its end.
CHECK_DEADLOCK FALSE
