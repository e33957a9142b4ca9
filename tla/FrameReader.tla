---------------------------- MODULE FrameReader ----------------------------
(***************************************************************************)
(* The resynchronising frame parser of both ends of the link (frame.py,    *)
(* FrameReader and decode), reading a byte carrier that keeps no frame     *)
(* boundaries: a read returns any number of the bytes under way.           *)
(*                                                                         *)
(* The bytes are those of a line that does not change.  The buffer grows   *)
(* at its end by what was read and shrinks at its start, so it is          *)
(* line[pos + 1 .. got], and a frame is named by where it starts.          *)
(***************************************************************************)
EXTENDS Integers, Sequences, FiniteSets

CONSTANTS
    MaxByte,         \* the largest value of a byte
    Sync1, Sync2,    \* SYNC
    OldVersion,      \* VER/TYPE bytes of another version
    NoType,          \* VER/TYPE bytes of this version that name no MsgType
    AddrLen,         \* DEST, SRC, SEQ
    CrcLen,
    MaxPayload,      \* MAX_PAYLOAD
    CrcOk(_),        \* of a body and the CRC after it: they agree
    Lines            \* bound: the byte strings a carrier may deliver

Byte == 0 .. MaxByte

ASSUME FormatAssumption ==
    /\ MaxByte \in Nat /\ AddrLen \in Nat /\ CrcLen \in Nat \ {0}
    /\ MaxPayload \in Nat /\ Sync1 # Sync2
    /\ Lines \subseteq Seq(Byte)

VARIABLES
    line, rssi,      \* the bytes, and rssi_appended; neither changes
    got,             \* bytes read
    pos,             \* bytes removed from the buffer
    pc,              \* "read", "parse" (in feed), "raised" (feed let an exception out)
    frames,          \* the frames found (those of a feed() that raises are lost with it)
    resync_discards, crc_failures, version_mismatches

fixed == <<line, rssi>>
counters == <<crc_failures, version_mismatches>>
vars == <<fixed, got, pos, pc, frames, resync_discards, counters>>

-----------------------------------------------------------------------------
(* The frame format.  n is the number of bytes there are. *)

HeaderLen == 4 + AddrLen
Overhead == HeaderLen + CrcLen

PayloadLen(i) == line[i + HeaderLen - 1]

Size(i) == Overhead + PayloadLen(i) + (IF rssi THEN 1 ELSE 0)

IsSync(i, n) == i + 1 <= n /\ line[i] = Sync1 /\ line[i + 1] = Sync2

Complete(i, n) == i + HeaderLen - 1 <= n /\ i + Size(i) - 1 <= n

\* What the CRC covers, and the CRC.
Body(i) == SubSeq(line, i + 2, i + Overhead + PayloadLen(i) - 1)

\* decode(): the first defect it meets.
Defect(i) ==
    CASE ~CrcOk(Body(i))             -> "crc"
      [] line[i + 2] \in OldVersion  -> "version"
      [] line[i + 2] \in NoType      -> "type"
      [] PayloadLen(i) > MaxPayload  -> "size"
      [] OTHER                       -> "none"

Valid(i, n) == IsSync(i, n) /\ Complete(i, n) /\ Defect(i) = "none"

-----------------------------------------------------------------------------
Init ==
    /\ line \in Lines /\ rssi \in BOOLEAN
    /\ got = 0 /\ pos = 0 /\ pc = "read" /\ frames = {}
    /\ resync_discards = 0 /\ crc_failures = 0 /\ version_mismatches = 0

\* feed() is called with what a read returned.
Feed ==
    /\ pc = "read"
    /\ got' \in got + 1 .. Len(line)
    /\ pc' = "parse"
    /\ UNCHANGED <<fixed, pos, frames, resync_discards, counters>>

-----------------------------------------------------------------------------
(* _next_frame(), one round of its loop *)

Starts == {i \in pos + 1 .. got : IsSync(i, got)}

\* Mutation: no byte is kept.
KeepNone == 0

\* Mutation: the buffer is kept.
KeepAll == got

Keep == 1

\* No sync word: all is dropped but the byte that may begin one.
NoSync ==
    /\ pc = "parse" /\ Starts = {}
    /\ pos' = IF got - pos > Keep THEN got - Keep ELSE pos
    /\ resync_discards' = resync_discards + (pos' - pos)
    /\ pc' = "read"
    /\ UNCHANGED <<fixed, got, frames, counters>>

\* Mutation: one discard is counted, however many bytes are dropped.
CountOnce(i) == 1

Skipped(i) == i - 1 - pos

\* A sync word further on: what is before it is dropped.
Skip ==
    /\ pc = "parse"
    /\ \E i \in Starts :
          /\ i > pos + 1 /\ \A j \in Starts : i <= j
          /\ pos' = i - 1
          /\ resync_discards' = resync_discards + Skipped(i)
    /\ UNCHANGED <<fixed, got, pc, frames, counters>>

AtSync == pc = "parse" /\ IsSync(pos + 1, got)

Wait ==
    /\ AtSync /\ ~Complete(pos + 1, got)
    /\ pc' = "read"
    /\ UNCHANGED <<fixed, got, pos, frames, resync_discards, counters>>

\* Mutation: the whole candidate is dropped.
WholeCandidate == Size(pos + 1)

Dropped == 1

Reject ==
    /\ AtSync /\ Complete(pos + 1, got) /\ Defect(pos + 1) \in {"crc", "version", "size"}
    /\ IF Defect(pos + 1) = "version"
       THEN version_mismatches' = version_mismatches + 1 /\ UNCHANGED crc_failures
       ELSE crc_failures' = crc_failures + 1 /\ UNCHANGED version_mismatches
    /\ resync_discards' = resync_discards + Dropped
    /\ pos' = pos + Dropped
    /\ UNCHANGED <<fixed, got, pc, frames>>

\* Mutation: the RSSI byte stays in the buffer.
WithoutRssi(i) == Overhead + PayloadLen(i)

\* Mutation: the byte after a frame is always taken for its RSSI.
AlwaysRssi(i) == Overhead + PayloadLen(i) + 1

Taken(i) == Size(i)

Extract ==
    /\ AtSync /\ Complete(pos + 1, got) /\ Defect(pos + 1) = "none"
    /\ frames' = frames \cup {pos + 1}
    /\ pos' = pos + Taken(pos + 1)
    /\ UNCHANGED <<fixed, got, pc, resync_discards, counters>>

\* MsgType() raises a ValueError, which is no FrameError: it leaves feed().
Raise ==
    /\ AtSync /\ Complete(pos + 1, got) /\ Defect(pos + 1) = "type"
    /\ pc' = "raised"
    /\ UNCHANGED <<fixed, got, pos, frames, resync_discards, counters>>

Next == Feed \/ NoSync \/ Skip \/ Wait \/ Reject \/ Extract \/ Raise

Spec == Init /\ [][Next]_vars

-----------------------------------------------------------------------------
(* Properties *)

TypeOK ==
    /\ line \in Seq(Byte) /\ rssi \in BOOLEAN
    /\ got \in 0 .. Len(line) /\ pos \in 0 .. got
    /\ pc \in {"read", "parse", "raised"}
    /\ frames \subseteq 1 .. pos
    /\ resync_discards \in Nat /\ crc_failures \in Nat /\ version_mismatches \in Nat

Span(i) == i .. i + Size(i) - 1

\* "Split, coalesced and garbage-prefixed byte streams are recovered without loss
\* of valid frames" (AT-3): a valid frame of the line, whole or still arriving, is
\* never passed over, unless it overlaps a frame that was found.
NoneLost ==
    \A i \in 1 .. pos : Valid(i, Len(line)) => \E f \in frames : i \in Span(f)

\* What is found is valid, lies in what was removed from the buffer, and no two of
\* it share a byte ("never partially interpreted", FR-11.5).
Sound ==
    /\ \A f \in frames : Valid(f, pos)
    /\ \A f, g \in frames : f # g => Span(f) \cap Span(g) = {}

\* Between two reads the buffer holds less than one frame of the largest size a
\* header can declare, whatever arrives.
BufferBounded == pc = "read" => got - pos <= Overhead + MaxByte

\* "Rejected bytes are counted" (frame.py:129): the bytes counted are, byte for byte,
\* those removed from the buffer that belong to no frame found.
Conserved ==
    resync_discards = Cardinality({i \in 1 .. pos : \A f \in frames : i \notin Span(f)})

-----------------------------------------------------------------------------
(* The reference for the parser: what a reader finds that has the first n bytes *)
(* from the start.  from[i] is what is found at byte i and after it.            *)

\* Here the reader waits for more, or has let an exception out.
Stuck(i, n) == IsSync(i, n) /\ (~Complete(i, n) \/ Defect(i) = "type")

Scan(from, i, n) ==
    IF i > n \/ Stuck(i, n) THEN {}
    ELSE IF Valid(i, n) THEN {i} \cup from[i + Size(i)]
    ELSE from[i + 1]

FramesFrom(n) == LET from[i \in 1 .. n + 1] == Scan(from, i, n) IN from

Whole(n) == FramesFrom(n)[1]

\* "accepts whatever a read returned - a partial frame, one frame, several coalesced
\* frames, or garbage" (frame.py:127): how the bytes are cut into reads makes no
\* difference to the frames found in them.  Not to those feed() returns: one that raises
\* at a frame of an unknown type loses what it found in the same read before it.
ChunkFree == pc # "parse" => frames = Whole(got)

-----------------------------------------------------------------------------
(* The inductive invariants behind them (FrameReaderProofs).                *)

IInv == TypeOK /\ NoneLost /\ Sound

\* Whatever arrives: the frames found and those the buffer will give are those of
\* the whole; between two reads it gives none.
OnCourse ==
    /\ \A n \in got .. Len(line) : Whole(n) = frames \cup FramesFrom(n)[pos + 1]
    /\ pc # "parse" => FramesFrom(got)[pos + 1] = {}
=============================================================================
