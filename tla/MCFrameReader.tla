--------------------------- MODULE MCFrameReader ---------------------------
(* A small alphabet for FrameReader, and the lines made of the pieces that  *)
(* matter: frames, damaged and foreign ones, false starts, stray bytes.     *)
EXTENDS FrameReader, SequencesExt

CONSTANT MaxPieces   \* bound: pieces on a line

\* A sum in place of the CRC; SYNC is 3, 2; VER/TYPE is 0 (old), 1 or 2 (no type).
MCCrcOk(s) == s[Len(s)] = FoldLeft(LAMBDA a, b : a + b, 0, Front(s)) % 4

Pieces == {
    <<3, 2, 1, 0, 1>>,          \* a frame
    <<3, 2, 1, 1, 3, 1>>,       \* one with the first byte of SYNC in it
    <<3, 2, 1, 2, 3, 2, 0>>,    \* one with SYNC in it
    <<3, 2, 1, 0, 2>>,          \* a damaged one
    <<3, 2, 0, 0, 0>>,          \* one of another version
    <<3, 2, 2, 0, 2>>,          \* one of no known type
    <<3, 2, 1, 3, 0, 0, 0, 0>>, \* one that is too large
    <<3, 2, 1, 3>>,             \* a false start
    <<0>>, <<2>>, <<3>> }

MCLines == {FlattenSeq(p) : p \in UNION {[1 .. n -> Pieces] : n \in 1 .. MaxPieces}}

=============================================================================
