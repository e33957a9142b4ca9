-------------------------- MODULE FrameReaderProofs --------------------------
(* Theorems about the frame parser, for every line, alphabet, header layout  *)
(* and checksum.                                                             *)
EXTENDS FrameReader, SequenceTheorems, FiniteSetTheorems, WellFoundedInduction, TLAPS

-----------------------------------------------------------------------------
(* The format *)

LEMMA FormatFacts ==
    HeaderLen \in Nat /\ Overhead \in Nat /\ HeaderLen >= 4 /\ Overhead > HeaderLen
BY FormatAssumption DEF HeaderLen, Overhead

LEMMA LineFacts ==
    ASSUME TypeOK
    PROVE  /\ Len(line) \in Nat /\ got \in Nat /\ pos \in Nat /\ pos <= got /\ got <= Len(line)
           /\ \A i \in 1 .. Len(line) : line[i] \in 0 .. MaxByte
<1>1. line \in Seq(0 .. MaxByte) /\ got \in 0 .. Len(line) /\ pos \in 0 .. got
  BY DEF TypeOK, Byte
<1>2. Len(line) \in Nat
  BY <1>1
<1>3. \A i \in 1 .. Len(line) : line[i] \in 0 .. MaxByte
  <2> SUFFICES ASSUME NEW i \in 1 .. Len(line) PROVE line[i] \in 0 .. MaxByte
    OBVIOUS
  <2>. QED  BY <1>1, ElementOfSeq
<1>. QED  BY <1>1, <1>2, <1>3

\* The size of a frame whose header is on the line.
LEMMA SizeFacts ==
    ASSUME TypeOK, NEW i \in 1 .. Len(line), i + HeaderLen - 1 <= Len(line)
    PROVE  /\ Size(i) \in Nat /\ Size(i) >= Overhead
           /\ Size(i) <= Overhead + MaxByte + 1
<1>1. HeaderLen \in Nat /\ Overhead \in Nat /\ HeaderLen >= 4 /\ MaxByte \in Nat
  BY FormatFacts, FormatAssumption
<1>2. PayloadLen(i) \in 0 .. MaxByte
  BY <1>1, LineFacts DEF PayloadLen
<1>. QED  BY <1>1, <1>2 DEF Size

\* What a frame is does not change with the state of the reader.
LEMMA FormatFixed ==
    ASSUME UNCHANGED fixed, NEW i, NEW n
    PROVE  /\ Size(i)' = Size(i) /\ Span(i)' = Span(i)
           /\ Valid(i, n)' <=> Valid(i, n)
BY DEF fixed, Size, Span, Valid, IsSync, Complete, Defect, Body, PayloadLen

\* More bytes leave a frame as valid as it was.
LEMMA ValidGrows ==
    ASSUME TypeOK, NEW i \in Nat, NEW m \in Nat, NEW n \in Nat, m <= n, n <= Len(line),
           i >= 1, Valid(i, m)
    PROVE  Valid(i, n) /\ i + Size(i) - 1 <= m /\ Size(i) \in Nat /\ Size(i) > 4
<1>1. i + 1 <= m /\ i + HeaderLen - 1 <= m /\ i + Size(i) - 1 <= m
  BY DEF Valid, IsSync, Complete
<1>2. Size(i) \in Nat /\ Size(i) > 4
  BY <1>1, SizeFacts, FormatFacts, LineFacts
<1>3. IsSync(i, n) /\ Complete(i, n)
  BY <1>1, <1>2, FormatFacts DEF Valid, IsSync, Complete
<1>. QED  BY <1>1, <1>2, <1>3 DEF Valid

-----------------------------------------------------------------------------
(* The invariant *)

LEMMA InitIInv == Init => IInv
<1> SUFFICES ASSUME Init PROVE IInv
  OBVIOUS
<1>1. line \in Seq(Byte)
  BY FormatAssumption DEF Init
<1>2. TypeOK
  BY <1>1 DEF Init, TypeOK
<1>3. NoneLost /\ Sound
  BY DEF Init, NoneLost, Sound
<1>. QED  BY <1>2, <1>3 DEF IInv

\* A step that leaves the frames alone keeps the invariant if it removes no byte that
\* begins a valid frame.
LEMMA SameFrames ==
    ASSUME IInv, TypeOK', UNCHANGED <<fixed, frames>>, pos' >= pos,
           \A i \in pos + 1 .. pos' : ~Valid(i, Len(line))
    PROVE  IInv'
<1>1. TypeOK /\ NoneLost /\ Sound
  BY DEF IInv
<1>2. /\ pos \in Nat /\ pos' \in Nat /\ pos' <= Len(line) /\ Len(line) \in Nat
      /\ frames \subseteq 1 .. pos /\ line' = line
  BY <1>1 DEF TypeOK, fixed
<1>3. NoneLost'
  <2>1. ASSUME NEW i \in 1 .. pos', Valid(i, Len(line))
        PROVE  \E f \in frames : i \in Span(f)
    <3>1. i \in 1 .. pos
      BY <1>2, <2>1
    <3>. QED  BY <1>1, <2>1, <3>1 DEF NoneLost
  <2>2. \A i, n : Valid(i, n)' <=> Valid(i, n)
    BY FormatFixed
  <2>3. \A i : Span(i)' = Span(i)
    BY FormatFixed
  <2>. QED  BY <1>2, <2>1, <2>2, <2>3 DEF NoneLost
<1>4. Sound'
  <2>1. \A f \in frames : Valid(f, pos')
    BY <1>1, <1>2, ValidGrows DEF Sound
  <2>2. \A i, n : Valid(i, n)' <=> Valid(i, n)
    BY FormatFixed
  <2>3. \A i : Span(i)' = Span(i)
    BY FormatFixed
  <2>. QED  BY <1>1, <2>1, <2>2, <2>3 DEF Sound
<1>. QED  BY <1>3, <1>4 DEF IInv

LEMMA FeedIInv ==
    ASSUME IInv, Feed
    PROVE  IInv'
<1>1. TypeOK
  BY DEF IInv
<1>2. TypeOK'
  BY <1>1, LineFacts DEF Feed, fixed, counters, TypeOK
<1>3. UNCHANGED <<fixed, frames>> /\ pos' = pos /\ pos \in Nat
  BY <1>1, LineFacts DEF Feed
<1>. QED  BY <1>2, <1>3, SameFrames

LEMMA NoSyncIInv ==
    ASSUME IInv, NoSync
    PROVE  IInv'
<1>1. TypeOK
  BY DEF IInv
<1>2. got \in Nat /\ pos \in Nat /\ pos <= got /\ got <= Len(line) /\ Len(line) \in Nat
  BY <1>1, LineFacts
<1>3. pos' = (IF got - pos > 1 THEN got - 1 ELSE pos)
  BY DEF NoSync, Keep
<1>4. pos' \in Nat /\ pos' >= pos /\ pos' <= got /\ (pos' # pos => pos' = got - 1)
  BY <1>2, <1>3
<1>5. TypeOK'
  <2>1. /\ line' = line /\ rssi' = rssi /\ got' = got /\ frames' = frames /\ pc' = "read"
        /\ crc_failures' = crc_failures /\ version_mismatches' = version_mismatches
        /\ resync_discards' = resync_discards + (pos' - pos)
    BY DEF NoSync, fixed, counters
  <2>2. resync_discards' \in Nat
    <3>1. resync_discards \in Nat
      BY <1>1 DEF TypeOK
    <3>2. pos \in Nat /\ pos' \in Nat /\ pos' >= pos
      BY <1>2, <1>4
    <3>3. ASSUME NEW r \in Nat, NEW a \in Nat, NEW b \in Nat, b >= a
          PROVE  r + (b - a) \in Nat
      BY <3>3
    <3>4. resync_discards + (pos' - pos) \in Nat
      BY <3>1, <3>2, <3>3
    <3>. QED  BY <2>1, <3>4
  <2>3. frames' \subseteq 1 .. pos'
    <3>1. frames \subseteq 1 .. pos
      BY <1>1 DEF TypeOK
    <3>. QED  BY <1>2, <1>4, <2>1, <3>1
  <2>4. got' \in 0 .. Len(line') /\ pos' \in 0 .. got'
    BY <1>2, <1>4, <2>1
  <2>. QED  BY <1>1, <2>1, <2>2, <2>3, <2>4 DEF TypeOK
<1>6. ASSUME NEW i \in pos + 1 .. pos'
      PROVE  ~Valid(i, Len(line))
  <2>1. i \in pos + 1 .. got /\ i + 1 <= got
    BY <1>2, <1>4, <1>6
  <2>2. ~IsSync(i, got)
    BY <2>1 DEF NoSync, Starts
  <2>. QED  BY <1>2, <2>1, <2>2 DEF Valid, IsSync
<1>7. UNCHANGED <<fixed, frames>>
  BY DEF NoSync
<1>. QED  BY <1>4, <1>5, <1>6, <1>7, SameFrames

LEMMA SkipIInv ==
    ASSUME IInv, Skip
    PROVE  IInv'
<1>1. TypeOK
  BY DEF IInv
<1>2. got \in Nat /\ pos \in Nat /\ pos <= got /\ got <= Len(line) /\ Len(line) \in Nat
  BY <1>1, LineFacts
<1>3. PICK i \in Starts : /\ i > pos + 1 /\ \A j \in Starts : i <= j
                          /\ pos' = i - 1 /\ resync_discards' = resync_discards + Skipped(i)
  BY DEF Skip
<1>4. i \in pos + 1 .. got
  BY <1>3 DEF Starts
<1>5. pos' \in Nat /\ pos' >= pos /\ pos' < got
  BY <1>2, <1>3, <1>4
<1>6. TypeOK'
  <2>1. /\ line' = line /\ rssi' = rssi /\ got' = got /\ frames' = frames /\ pc' = pc
        /\ crc_failures' = crc_failures /\ version_mismatches' = version_mismatches
    BY DEF Skip, fixed, counters
  <2>2. resync_discards' \in Nat
    BY <1>1, <1>2, <1>3, <1>4 DEF TypeOK, Skipped
  <2>3. frames' \subseteq 1 .. pos'
    BY <1>1, <1>2, <1>5, <2>1 DEF TypeOK
  <2>. QED  BY <1>1, <1>2, <1>5, <2>1, <2>2, <2>3 DEF TypeOK
<1>7. ASSUME NEW j \in pos + 1 .. pos'
      PROVE  ~Valid(j, Len(line))
  <2>1. j \in pos + 1 .. got /\ j + 1 <= got /\ ~(i <= j)
    BY <1>2, <1>3, <1>4, <1>5, <1>7
  <2>2. ~IsSync(j, got)
    BY <1>3, <2>1 DEF Starts
  <2>. QED  BY <1>2, <2>1, <2>2 DEF Valid, IsSync
<1>8. UNCHANGED <<fixed, frames>>
  BY DEF Skip
<1>. QED  BY <1>5, <1>6, <1>7, <1>8, SameFrames

LEMMA StayIInv ==
    ASSUME IInv, Wait \/ Raise
    PROVE  IInv'
<1>1. TypeOK
  BY DEF IInv
<1>2. TypeOK'
  BY <1>1 DEF Wait, Raise, fixed, counters, TypeOK
<1>3. UNCHANGED <<fixed, frames>> /\ pos' = pos /\ pos \in Nat
  BY <1>1, LineFacts DEF Wait, Raise
<1>. QED  BY <1>2, <1>3, SameFrames

\* A complete candidate at the start of the buffer.
LEMMA CandidateFacts ==
    ASSUME TypeOK, AtSync, Complete(pos + 1, got)
    PROVE  /\ pos + 1 \in Nat /\ pos + 1 <= got /\ Size(pos + 1) \in Nat
           /\ Size(pos + 1) > 4 /\ pos + Size(pos + 1) <= got
<1>1. got \in Nat /\ pos \in Nat /\ pos <= got /\ got <= Len(line) /\ Len(line) \in Nat
  BY LineFacts
<1>2. /\ pos + 1 + 1 <= got /\ pos + 1 + HeaderLen - 1 <= got
      /\ pos + 1 + Size(pos + 1) - 1 <= got
  BY DEF AtSync, IsSync, Complete
<1>3. HeaderLen \in Nat /\ Overhead \in Nat /\ Overhead > 4
  BY FormatFacts
<1>4. pos + 1 \in 1 .. Len(line) /\ pos + 1 + HeaderLen - 1 <= Len(line)
  BY <1>1, <1>2, <1>3
<1>5. Size(pos + 1) \in Nat /\ Size(pos + 1) >= Overhead
  BY <1>4, SizeFacts
<1>. QED  BY <1>1, <1>2, <1>3, <1>5

LEMMA RejectIInv ==
    ASSUME IInv, Reject
    PROVE  IInv'
<1>1. TypeOK
  BY DEF IInv
<1>2. got \in Nat /\ pos \in Nat /\ pos <= got /\ got <= Len(line) /\ Len(line) \in Nat
  BY <1>1, LineFacts
<1>3. pos' = pos + 1 /\ pos + 1 <= got
  BY <1>1, CandidateFacts DEF Reject, Dropped
<1>4. TypeOK'
  <2>1. /\ line' = line /\ rssi' = rssi /\ got' = got /\ frames' = frames /\ pc' = pc
        /\ resync_discards' = resync_discards + 1
    BY DEF Reject, fixed, Dropped
  <2>2. /\ resync_discards' \in Nat /\ crc_failures' \in Nat /\ version_mismatches' \in Nat
    BY SMTT(60), <1>1, <2>1 DEF Reject, TypeOK
  <2>3. frames' \subseteq 1 .. pos'
    BY <1>1, <1>2, <1>3, <2>1 DEF TypeOK
  <2>. QED  BY <1>1, <1>2, <1>3, <2>1, <2>2, <2>3 DEF TypeOK
<1>5. ~Valid(pos + 1, Len(line))
  <2>1. Defect(pos + 1) # "none"
    BY DEF Reject
  <2>. QED  BY <2>1 DEF Valid
<1>6. \A i \in pos + 1 .. pos' : i = pos + 1
  BY <1>2, <1>3
<1>7. UNCHANGED <<fixed, frames>>
  BY DEF Reject
<1>8. pos' >= pos
  BY <1>2, <1>3
<1>. QED  BY <1>4, <1>5, <1>6, <1>7, <1>8, SameFrames

LEMMA ExtractIInv ==
    ASSUME IInv, Extract
    PROVE  IInv'
<1> DEFINE f == pos + 1
<1>1. TypeOK /\ NoneLost /\ Sound
  BY DEF IInv
<1>2. /\ got \in Nat /\ pos \in Nat /\ pos <= got /\ got <= Len(line) /\ Len(line) \in Nat
      /\ frames \subseteq 1 .. pos
  BY <1>1, LineFacts DEF TypeOK
<1>3. /\ f \in Nat /\ f >= 1 /\ Size(f) \in Nat /\ Size(f) > 4 /\ pos + Size(f) <= got
  BY <1>1, <1>2, CandidateFacts DEF Extract
<1>4. /\ line' = line /\ rssi' = rssi /\ got' = got /\ pc' = pc
      /\ frames' = frames \cup {f} /\ pos' = pos + Size(f)
      /\ resync_discards' = resync_discards
      /\ crc_failures' = crc_failures /\ version_mismatches' = version_mismatches
  BY DEF Extract, Taken, fixed, counters
<1>5. UNCHANGED fixed
  BY DEF Extract
<1>6. TypeOK'
  <2>1. frames' \subseteq 1 .. pos'
    BY <1>2, <1>3, <1>4
  <2>. QED  BY <1>1, <1>2, <1>3, <1>4, <2>1 DEF TypeOK
<1>7. Valid(f, pos')
  <2>1. IsSync(f, got) /\ Complete(f, got) /\ Defect(f) = "none"
    BY DEF Extract, AtSync
  <2>2. HeaderLen \in Nat /\ Overhead \in Nat /\ HeaderLen >= 4 /\ Overhead > HeaderLen
    BY FormatFacts
  <2>3. Size(f) >= Overhead
    <3>1. f \in 1 .. Len(line) /\ f + HeaderLen - 1 <= Len(line)
      BY <1>2, <1>3, <2>1, <2>2 DEF Complete
    <3>. QED  BY <1>1, <3>1, SizeFacts
  <2>4. f + 1 <= pos' /\ f + HeaderLen - 1 <= pos' /\ f + Size(f) - 1 <= pos'
    BY <1>2, <1>3, <1>4, <2>2, <2>3
  <2>. QED  BY <2>1, <2>4 DEF Valid, IsSync, Complete
<1>8. \A i, n : Valid(i, n)' <=> Valid(i, n)
  BY <1>5, FormatFixed
<1>9. \A i : Span(i)' = Span(i)
  BY <1>5, FormatFixed
<1>10. Span(f) = pos + 1 .. pos'
  BY <1>2, <1>3, <1>4 DEF Span
<1>11. NoneLost'
  <2>1. ASSUME NEW i \in 1 .. pos', Valid(i, Len(line))
        PROVE  \E g \in frames' : i \in Span(g)
    <3>1. CASE i \in 1 .. pos
      BY <1>1, <1>4, <2>1, <3>1 DEF NoneLost
    <3>2. CASE i \notin 1 .. pos
      <4>1. i \in pos + 1 .. pos'
        BY <1>2, <1>3, <1>4, <3>2
      <4>. QED  BY <1>4, <1>10, <4>1
    <3>. QED  BY <3>1, <3>2
  <2>. QED  BY <1>4, <1>8, <1>9, <2>1 DEF NoneLost
<1>12. Sound'
  <2>1. ASSUME NEW g \in frames
        PROVE  Valid(g, pos') /\ Span(g) \cap Span(f) = {}
    <3>1. g \in Nat /\ g >= 1 /\ Valid(g, pos)
      BY <1>1, <1>2 DEF Sound
    <3>2. pos' \in Nat /\ pos <= pos' /\ pos' <= Len(line) /\ pos <= Len(line)
      BY <1>2, <1>3, <1>4
    <3>3. Valid(g, pos') /\ g + Size(g) - 1 <= pos /\ Size(g) \in Nat
      BY <1>1, <1>2, <3>1, <3>2, ValidGrows
    <3>. QED  BY <1>2, <1>10, <3>1, <3>2, <3>3 DEF Span
  <2>2. \A g \in frames' : Valid(g, pos')
    BY <1>4, <1>7, <2>1
  <2>3. \A g, h \in frames' : g # h => Span(g) \cap Span(h) = {}
    BY <1>1, <1>4, <2>1 DEF Sound
  <2>. QED  BY <1>8, <1>9, <2>2, <2>3 DEF Sound
<1>. QED  BY <1>6, <1>11, <1>12 DEF IInv

LEMMA NextIInv == IInv /\ [Next]_vars => IInv'
<1> SUFFICES ASSUME IInv, [Next]_vars PROVE IInv'
  OBVIOUS
<1>1. CASE UNCHANGED vars
  <2>1. TypeOK' /\ UNCHANGED <<fixed, frames>> /\ pos' = pos
    BY <1>1 DEF vars, fixed, counters, IInv, TypeOK
  <2>2. pos \in Nat
    BY LineFacts DEF IInv
  <2>. QED  BY <2>1, <2>2, SameFrames
<1>. QED  BY <1>1, FeedIInv, NoSyncIInv, SkipIInv, StayIInv, RejectIInv, ExtractIInv DEF Next

\* Every reachable state of the reader is well typed: it never takes more than it has.
THEOREM TypeCorrect == Spec => []TypeOK
<1>. QED  BY InitIInv, NextIInv, PTL DEF Spec, IInv

\* No valid frame is passed over, however the bytes are cut into reads.
THEOREM NoneLostHolds == Spec => []NoneLost
<1>. QED  BY InitIInv, NextIInv, PTL DEF Spec, IInv

\* The frames found are valid and disjoint.
THEOREM SoundHolds == Spec => []Sound
<1>. QED  BY InitIInv, NextIInv, PTL DEF Spec, IInv

\* The buffer between two reads is bounded, for every line.
THEOREM BufferBoundedHolds == Spec => []BufferBounded
<1>1. Init => BufferBounded
  BY FormatAssumption, FormatFacts DEF Init, BufferBounded
<1>2. IInv /\ BufferBounded /\ [Next]_vars => BufferBounded'
  <2> SUFFICES ASSUME IInv, BufferBounded, [Next]_vars, pc' = "read"
               PROVE  got' - pos' <= Overhead + MaxByte
    BY DEF BufferBounded
  <2>1. /\ got \in Nat /\ pos \in Nat /\ pos <= got /\ got <= Len(line) /\ Len(line) \in Nat
        /\ MaxByte \in Nat /\ HeaderLen \in Nat /\ Overhead \in Nat /\ HeaderLen >= 4
        /\ Overhead > HeaderLen
    BY LineFacts, FormatFacts, FormatAssumption DEF IInv
  <2>2. CASE UNCHANGED vars
    BY <2>2 DEF vars, BufferBounded
  <2>3. CASE NoSync
    BY <2>1, <2>3 DEF NoSync, Keep
  <2>4. CASE Wait
    <3>1. got' = got /\ pos' = pos /\ ~Complete(pos + 1, got) /\ pos + 2 <= got
      BY <2>1, <2>4 DEF Wait, AtSync, IsSync
    <3>2. CASE pos + 1 + HeaderLen - 1 > got
      BY <2>1, <3>1, <3>2
    <3>3. CASE ~(pos + 1 + HeaderLen - 1 > got)
      <4>1. pos + 1 \in 1 .. Len(line) /\ pos + 1 + HeaderLen - 1 <= Len(line)
        BY <2>1, <3>3
      <4>2. Size(pos + 1) \in Nat /\ Size(pos + 1) <= Overhead + MaxByte + 1
        BY <4>1, SizeFacts DEF IInv
      <4>3. ~(pos + 1 + Size(pos + 1) - 1 <= got)
        BY <2>1, <3>1, <3>3 DEF Complete
      <4>. QED  BY <2>1, <3>1, <4>2, <4>3
    <3>. QED  BY <3>2, <3>3
  <2>5. CASE Feed \/ Skip \/ Reject \/ Extract \/ Raise
    BY <2>5 DEF Feed, Skip, Reject, Extract, Raise, AtSync
  <2>. QED  BY <2>2, <2>3, <2>4, <2>5 DEF Next
<1>. QED  BY <1>1, <1>2, InitIInv, NextIInv, PTL DEF Spec
-----------------------------------------------------------------------------
(* What is counted *)

Free == {i \in 1 .. pos : \A f \in frames : i \notin Span(f)}

LEMMA FreeFinite ==
    ASSUME TypeOK
    PROVE  IsFiniteSet(Free) /\ Cardinality(Free) \in Nat
<1>1. pos \in Nat
  BY LineFacts
<1>2. IsFiniteSet(1 .. pos) /\ Free \in SUBSET (1 .. pos)
  BY <1>1, FS_Interval DEF Free
<1>. QED  BY <1>2, FS_Subset, FS_CardinalityType

\* Bytes removed without a frame are free.
LEMMA FreeGrows ==
    ASSUME IInv, UNCHANGED <<fixed, frames>>, pos' \in Nat, pos' >= pos
    PROVE  Cardinality(Free') = Cardinality(Free) + (pos' - pos)
<1> DEFINE more == pos + 1 .. pos'
<1>1. TypeOK /\ Sound /\ pos \in Nat /\ Len(line) \in Nat /\ pos <= Len(line)
      /\ frames \subseteq 1 .. pos
  BY LineFacts DEF IInv, TypeOK
<1>2. \A i : Span(i)' = Span(i)
  BY FormatFixed
<1>3. ASSUME NEW f \in frames, NEW i \in more
      PROVE  i \notin Span(f)
  <2>1. f \in Nat /\ f >= 1 /\ Valid(f, pos)
    BY <1>1 DEF Sound
  <2>2. f + Size(f) - 1 <= pos /\ Size(f) \in Nat
    BY <1>1, <2>1, ValidGrows
  <2>. QED  BY <1>1, <2>1, <2>2 DEF Span
<1>4. Free' = Free \cup more
  <2>1. Free' = {i \in 1 .. pos' : \A f \in frames : i \notin Span(f)}
    BY <1>2 DEF Free
  <2>2. 1 .. pos' = (1 .. pos) \cup more
    BY <1>1
  <2>. QED  BY <1>3, <2>1, <2>2 DEF Free
<1>5. Free \cap more = {}
  BY <1>1 DEF Free
<1>6. IsFiniteSet(more) /\ Cardinality(more) = pos' - pos
  <2>1. pos + 1 \in Int /\ pos' \in Int
    BY <1>1
  <2>2. IsFiniteSet(more) /\ Cardinality(more) = IF pos + 1 > pos' THEN 0 ELSE pos' - (pos + 1) + 1
    BY <2>1, FS_Interval
  <2>. QED  BY <1>1, <2>2
<1>7. IsFiniteSet(Free) /\ Cardinality(Free) \in Nat
  BY <1>1, FreeFinite
<1>8. Cardinality(Free \cap more) = 0
  BY <1>5, FS_EmptySet
<1> HIDE DEF more
<1>9. Cardinality(Free \cup more) =
        Cardinality(Free) + Cardinality(more) - Cardinality(Free \cap more)
  BY <1>6, <1>7, FS_Union
<1>. QED  BY <1>1, <1>4, <1>6, <1>7, <1>8, <1>9

\* Those of a frame are not.
LEMMA FreeExtract ==
    ASSUME IInv, Extract
    PROVE  Free' = Free
<1> DEFINE f == pos + 1
<1>1. TypeOK /\ pos \in Nat
  BY LineFacts DEF IInv
<1>2. Size(f) \in Nat /\ frames' = frames \cup {f} /\ pos' = pos + Size(f)
  BY <1>1, CandidateFacts DEF Extract, Taken
<1>3. \A i : Span(i)' = Span(i)
  BY FormatFixed DEF Extract
<1>4. Span(f) = pos + 1 .. pos'
  BY <1>1, <1>2 DEF Span
<1>5. Free' = {i \in 1 .. pos' : \A g \in frames \cup {f} : i \notin Span(g)}
  BY <1>2, <1>3 DEF Free
<1>6. 1 .. pos' = (1 .. pos) \cup Span(f) /\ (1 .. pos) \cap Span(f) = {}
  BY <1>1, <1>2, <1>4
<1>. QED  BY <1>5, <1>6 DEF Free

\* Every byte that is removed and belongs to no frame is counted once.
THEOREM ConservedHolds == Spec => []Conserved
<1>1. Conserved <=> resync_discards = Cardinality(Free)
  BY DEF Conserved, Free
<1>2. Init => Conserved
  <2> SUFFICES ASSUME Init PROVE resync_discards = Cardinality(Free)
    BY <1>1
  <2>1. Free = {}
    BY DEF Init, Free
  <2>. QED  BY <2>1, FS_EmptySet DEF Init
<1>3. IInv /\ Conserved /\ [Next]_vars => Conserved'
  <2> SUFFICES ASSUME IInv, resync_discards = Cardinality(Free), [Next]_vars
               PROVE  resync_discards' = Cardinality(Free')
    BY <1>1 DEF Conserved, Free
  <2>1. TypeOK /\ TypeOK' /\ pos \in Nat /\ pos' \in Nat /\ got \in Nat
    <3>1. IInv'
      BY NextIInv
    <3>. QED  BY SMTT(60), <3>1, LineFacts DEF IInv, TypeOK
  <2>2. ASSUME UNCHANGED <<fixed, frames>>, pos' >= pos,
               resync_discards' = resync_discards + (pos' - pos)
        PROVE  resync_discards' = Cardinality(Free')
    BY <2>1, <2>2, FreeGrows
  <2>3. CASE Feed \/ Wait \/ Raise \/ UNCHANGED vars
    <3>1. UNCHANGED <<fixed, frames>> /\ pos' = pos /\ resync_discards' = resync_discards
      BY <2>3 DEF Feed, Wait, Raise, vars
    <3>2. resync_discards' = resync_discards + (pos' - pos)
      BY <2>1, <3>1 DEF TypeOK
    <3>. QED  BY <2>1, <2>2, <3>1, <3>2
  <2>4. CASE NoSync
    <3>1. UNCHANGED <<fixed, frames>> /\ pos' = (IF got - pos > 1 THEN got - 1 ELSE pos)
          /\ resync_discards' = resync_discards + (pos' - pos)
      BY <2>4 DEF NoSync, Keep
    <3>2. pos' >= pos
      BY <2>1, <3>1
    <3>. QED  BY <2>2, <3>1, <3>2
  <2>5. CASE Skip
    <3>1. PICK i \in Starts : i > pos + 1 /\ pos' = i - 1
                              /\ resync_discards' = resync_discards + Skipped(i)
      BY <2>5 DEF Skip
    <3>2. i \in pos + 1 .. got
      BY DEF Starts
    <3>3. pos' >= pos /\ Skipped(i) = pos' - pos
      BY <2>1, <3>1, <3>2 DEF Skipped
    <3>4. UNCHANGED <<fixed, frames>>
      BY <2>5 DEF Skip
    <3>. QED  BY <2>2, <3>1, <3>3, <3>4
  <2>6. CASE Reject
    <3>1. UNCHANGED <<fixed, frames>> /\ pos' = pos + 1
          /\ resync_discards' = resync_discards + 1
      BY <2>6 DEF Reject, Dropped
    <3>2. pos' >= pos /\ pos' - pos = 1
      BY <2>1, <3>1
    <3>. QED  BY <2>2, <3>1, <3>2
  <2>7. CASE Extract
    BY <2>7, FreeExtract DEF Extract
  <2>. QED  BY <2>3, <2>4, <2>5, <2>6, <2>7 DEF Next
<1>. QED  BY <1>2, <1>3, InitIInv, NextIInv, PTL DEF Spec
-----------------------------------------------------------------------------
(* The reference parser.  Its recursion is over data; induction on it is the *)
(* least-number principle for the set of counterexamples.                    *)

LEMMA Least ==
    ASSUME NEW S \in SUBSET Nat, S # {}
    PROVE  \E m \in S : \A k \in S : m <= k
<1>1. PICK m \in S : \A k \in S : <<k, m>> \notin OpToRel(<, Nat)
  BY WFMin, NatLessThanWellFounded, Zenon
<1>2. \A k \in S : ~(k < m)
  BY <1>1 DEF OpToRel
<1>. QED  BY <1>2

\* A set of naturals that has 0 and, below a bound, the successor of each member.
LEMMA Reaches ==
    ASSUME NEW n \in Nat, NEW S, 0 \in S,
           \A k \in 0 .. n - 1 : k \in S => k + 1 \in S
    PROVE  n \in S
<1> SUFFICES ASSUME n \notin S PROVE FALSE
  OBVIOUS
<1> DEFINE C == {k \in 0 .. n : k \notin S}
<1>1. C \in SUBSET Nat /\ C # {}
  OBVIOUS
<1>2. PICK m \in C : \A k \in C : m <= k
  BY <1>1, Least
<1>3. m # 0 /\ m \in 1 .. n /\ m - 1 \in 0 .. n - 1
  BY <1>2
<1>4. m - 1 \in S
  BY <1>2, <1>3
<1>5. (m - 1) + 1 = m
  BY <1>3
<1>. QED  BY <1>2, <1>3, <1>4, <1>5

\* Where the bytes of a candidate end.
LEMMA CompleteFacts ==
    ASSUME TypeOK, NEW n \in 0 .. Len(line), NEW i \in 1 .. n, Complete(i, n)
    PROVE  i + Size(i) \in i + 1 .. n + 1
<1>1. /\ HeaderLen \in Nat /\ Overhead \in Nat /\ HeaderLen >= 4 /\ Overhead > 4
      /\ Len(line) \in Nat
  BY FormatFacts, LineFacts
<1>2. i + HeaderLen - 1 <= n /\ i + Size(i) - 1 <= n
  BY DEF Complete
<1>3. i \in 1 .. Len(line) /\ i + HeaderLen - 1 <= Len(line)
  BY <1>1, <1>2
<1>4. Size(i) \in Nat /\ Size(i) >= Overhead
  BY <1>3, SizeFacts
<1>. QED  BY <1>1, <1>2, <1>4

\* What is found at i depends on what is found after i alone.
LEMMA ScanLocal ==
    ASSUME TypeOK, NEW n \in 0 .. Len(line), NEW i \in 1 .. n + 1, NEW g, NEW h,
           \A x \in i + 1 .. n + 1 : g[x] = h[x]
    PROVE  Scan(g, i, n) = Scan(h, i, n)
<1>1. n \in Nat
  BY LineFacts
<1>2. CASE i > n \/ Stuck(i, n)
  BY <1>2 DEF Scan
<1>3. CASE ~(i > n \/ Stuck(i, n))
  <2>1. i \in 1 .. n
    BY <1>1, <1>3
  <2>2. CASE Valid(i, n)
    <3>1. i + Size(i) \in i + 1 .. n + 1
      BY <2>1, <2>2, CompleteFacts DEF Valid
    <3>. QED  BY <1>3, <2>2, <3>1 DEF Scan
  <2>3. CASE ~Valid(i, n)
    <3>1. i + 1 \in i + 1 .. n + 1
      BY <1>1, <2>1
    <3>. QED  BY <1>3, <2>3, <3>1 DEF Scan
  <2>. QED  BY <2>2, <2>3
<1>. QED  BY <1>2, <1>3

\* The recursion defines a function.
LEMMA ScanDefined ==
    ASSUME TypeOK, NEW n \in 0 .. Len(line)
    PROVE  \E g : g = [i \in 1 .. n + 1 |-> Scan(g, i, n)]
<1> DEFINE Def(k) == \E g : g = [i \in n + 2 - k .. n + 1 |-> Scan(g, i, n)]
           S == {k \in 0 .. n + 1 : Def(k)}
<1>1. n \in Nat
  BY LineFacts
<1>2. 0 \in S
  <2> DEFINE g == [i \in {} |-> {}]
  <2>1. n + 2 - 0 .. n + 1 = {}
    BY <1>1
  <2>2. g = [i \in n + 2 - 0 .. n + 1 |-> Scan(g, i, n)]
    BY <2>1
  <2>3. Def(0)
    BY <2>2
  <2>. QED  BY <1>1, <2>3
<1>3. ASSUME NEW k \in 0 .. n, k \in S
      PROVE  k + 1 \in S
  <2> DEFINE j == n + 1 - k
  <2>1. j \in 1 .. n + 1 /\ n + 2 - k = j + 1 /\ n + 2 - (k + 1) = j
    BY <1>1
  <2>2. PICK g : g = [i \in j + 1 .. n + 1 |-> Scan(g, i, n)]
    BY <1>3, <2>1
  <2> DEFINE h == [i \in j .. n + 1 |-> IF i = j THEN Scan(g, j, n) ELSE g[i]]
  <2>3. \A i \in j + 1 .. n + 1 : g[i] = Scan(g, i, n)
    <3> SUFFICES ASSUME NEW i \in j + 1 .. n + 1 PROVE g[i] = Scan(g, i, n)
      OBVIOUS
    <3> DEFINE gg == [x \in j + 1 .. n + 1 |-> Scan(g, x, n)]
    <3>1. gg[i] = Scan(g, i, n)
      OBVIOUS
    <3>2. g = gg
      BY <2>2, Zenon
    <3>. QED  BY <3>1, <3>2, Zenon
  <2>4. \A i \in j + 1 .. n + 1 : h[i] = g[i]
    BY <1>1, <2>1
  <2>5. ASSUME NEW i \in j .. n + 1
        PROVE  h[i] = Scan(h, i, n)
    <3> HIDE DEF h
    <3>1. i \in 1 .. n + 1 /\ \A x \in i + 1 .. n + 1 : x \in j + 1 .. n + 1
      BY <1>1, <2>1
    <3>2. \A x \in i + 1 .. n + 1 : g[x] = h[x]
      BY <2>4, <3>1
    <3>3. Scan(g, i, n) = Scan(h, i, n)
      BY <3>1, <3>2, ScanLocal
    <3>4. CASE i = j
      BY <3>3, <3>4 DEF h
    <3>5. CASE i # j
      <4>1. i \in j + 1 .. n + 1
        BY <1>1, <2>1, <3>5
      <4>. QED  BY <2>3, <2>4, <3>3, <4>1
    <3>. QED  BY <3>4, <3>5
  <2>6. h = [i \in j .. n + 1 |-> h[i]]
    OBVIOUS
  <2> HIDE DEF h
  <2>7. h = [i \in j .. n + 1 |-> Scan(h, i, n)]
    BY <2>5, <2>6
  <2>8. Def(k + 1)
    BY <2>1, <2>7
  <2>. QED  BY <1>1, <2>8
<1> HIDE DEF S
<1>4. n + 1 \in S
  <2>1. \A k \in 0 .. (n + 1) - 1 : k \in S => k + 1 \in S
    BY <1>1, <1>3
  <2>2. n + 1 \in Nat
    BY <1>1
  <2>. QED  BY <1>2, <2>1, <2>2, Reaches
<1>5. Def(n + 1)
  BY <1>4 DEF S
<1>6. n + 2 - (n + 1) = 1
  BY <1>1
<1>. QED  BY <1>5, <1>6
LEMMA FramesFromEquation ==
    ASSUME TypeOK, NEW n \in 0 .. Len(line), NEW i \in 1 .. n + 1
    PROVE  FramesFrom(n)[i] = Scan(FramesFrom(n), i, n)
<1> DEFINE F == FramesFrom(n)
           G == [x \in 1 .. n + 1 |-> Scan(F, x, n)]
<1>1. \E g : g = [x \in 1 .. n + 1 |-> Scan(g, x, n)]
  BY ScanDefined
<1>2. F = CHOOSE g : g = [x \in 1 .. n + 1 |-> Scan(g, x, n)]
  BY DEF FramesFrom
<1>3. F = G
  BY <1>1, <1>2, Zenon
<1>4. G[i] = Scan(F, i, n)
  OBVIOUS
<1>. QED  BY <1>3, <1>4, Zenon

\* Nothing is found where there is no sync word.
LEMMA NoSyncNothing ==
    ASSUME TypeOK, NEW n \in 0 .. Len(line), NEW a \in 1 .. n + 1, NEW b \in a .. n + 1,
           \A j \in a .. b - 1 : ~IsSync(j, n)
    PROVE  FramesFrom(n)[a] = FramesFrom(n)[b]
<1> DEFINE F == FramesFrom(n)
           S == {d \in 0 .. b - a : F[b - d] = F[b]}
<1>1. n \in Nat /\ a \in Nat /\ b \in Nat /\ b - a \in Nat
  BY LineFacts
<1>2. 0 \in S
  BY <1>1
<1>3. ASSUME NEW d \in 0 .. (b - a) - 1, d \in S
      PROVE  d + 1 \in S
  <2> DEFINE i == b - (d + 1)
  <2>1. i \in a .. b - 1 /\ i + 1 = b - d /\ i \in 1 .. n + 1 /\ ~(i > n)
    BY <1>1
  <2>2. ~IsSync(i, n)
    BY <2>1
  <2>3. ~Stuck(i, n) /\ ~Valid(i, n)
    BY <2>2 DEF Stuck, Valid
  <2>4. F[i] = F[i + 1]
    BY <2>1, <2>3, FramesFromEquation DEF Scan
  <2>5. d + 1 \in 0 .. b - a
    BY <1>1
  <2>. QED  BY <1>3, <2>1, <2>4, <2>5
<1> HIDE DEF S
<1>4. b - a \in S
  BY <1>1, <1>2, <1>3, Reaches
<1>5. b - (b - a) = a
  BY <1>1
<1>. QED  BY <1>4, <1>5 DEF S

LEMMA FramesFromFixed ==
    ASSUME UNCHANGED fixed, NEW n
    PROVE  FramesFrom(n)' = FramesFrom(n)
BY DEF fixed, FramesFrom, Scan, Stuck, Size, Valid, IsSync, Complete, Defect, Body, PayloadLen

\* A candidate that is complete is so whatever arrives after it.
LEMMA CompleteGrows ==
    ASSUME TypeOK, AtSync, Complete(pos + 1, got), NEW n \in got .. Len(line)
    PROVE  /\ n \in 0 .. Len(line) /\ pos + 1 \in 1 .. n
           /\ IsSync(pos + 1, n) /\ Complete(pos + 1, n)
           /\ pos + 1 + Size(pos + 1) \in 1 .. n + 1
<1>1. got \in Nat /\ pos \in Nat /\ pos <= got /\ got <= Len(line) /\ Len(line) \in Nat
  BY LineFacts
<1>2. /\ pos + 1 <= got /\ Size(pos + 1) \in Nat /\ pos + Size(pos + 1) <= got
  BY CandidateFacts
<1>3. HeaderLen \in Nat
  BY FormatFacts
<1>. QED  BY SMTT(60), <1>1, <1>2, <1>3 DEF AtSync, IsSync, Complete
\* A step that drops bytes among which no read to come can find anything.
LEMMA OnCourseKept ==
    ASSUME IInv, OnCourse, UNCHANGED <<fixed, frames>>, got' \in got .. Len(line),
           \A n \in got' .. Len(line) :
               FramesFrom(n)[pos' + 1] = FramesFrom(n)[pos + 1],
           pc' # "parse" => FramesFrom(got')[pos' + 1] = {}
    PROVE  OnCourse'
<1>1. got \in Nat /\ got <= Len(line) /\ Len(line) \in Nat
  BY LineFacts DEF IInv
<1>2. \A n : FramesFrom(n)' = FramesFrom(n)
  BY FramesFromFixed
<1>3. line' = line
  BY DEF fixed
<1>4. ASSUME NEW n \in got' .. Len(line)
      PROVE  FramesFrom(n)[1] = frames \cup FramesFrom(n)[pos' + 1]
  BY <1>1, <1>4 DEF OnCourse, Whole
<1>5. \A n \in got' .. Len(line') :
         FramesFrom(n)'[1] = frames' \cup FramesFrom(n)'[pos' + 1]
  BY <1>2, <1>3, <1>4
<1>6. pc' # "parse" => (FramesFrom(got)')[pos' + 1] = {}
  <2>1. FramesFrom(got)' = FramesFrom(got')
    BY DEF fixed, FramesFrom, Scan, Stuck, Size, Valid, IsSync, Complete, Defect, Body,
           PayloadLen
  <2>. QED  BY <2>1
<1>. QED  BY <1>5, <1>6 DEF OnCourse, Whole

LEMMA InitOnCourse == Init => OnCourse
<1> SUFFICES ASSUME Init PROVE OnCourse
  OBVIOUS
<1>1. IInv /\ TypeOK
  BY InitIInv DEF IInv
<1>2. got = 0 /\ pos = 0 /\ frames = {} /\ Len(line) \in Nat
  BY <1>1, LineFacts DEF Init
<1>3. FramesFrom(0)[1] = {}
  <2>1. 0 \in 0 .. Len(line) /\ 1 \in 1 .. 0 + 1 /\ 1 > 0
    BY <1>2
  <2>2. FramesFrom(0)[1] = Scan(FramesFrom(0), 1, 0)
    BY <1>1, <2>1, FramesFromEquation
  <2>. QED  BY <2>1, <2>2 DEF Scan
<1>. QED  BY <1>2, <1>3 DEF OnCourse, Whole

LEMMA FeedOnCourse ==
    ASSUME IInv, OnCourse, Feed
    PROVE  OnCourse'
<1>1. UNCHANGED <<fixed, frames>> /\ pos' = pos /\ got' \in got + 1 .. Len(line) /\ pc' = "parse"
  BY DEF Feed
<1>2. got \in Nat /\ Len(line) \in Nat
  BY LineFacts DEF IInv
<1>3. got' \in got .. Len(line)
  BY <1>1, <1>2
<1>. QED  BY <1>1, <1>3, OnCourseKept

LEMMA NoSyncOnCourse ==
    ASSUME IInv, OnCourse, NoSync
    PROVE  OnCourse'
<1>1. /\ TypeOK /\ got \in Nat /\ pos \in Nat /\ pos <= got /\ got <= Len(line)
      /\ Len(line) \in Nat
  BY LineFacts DEF IInv
<1>2. /\ UNCHANGED <<fixed, frames>> /\ got' = got
      /\ pos' = (IF got - pos > 1 THEN got - 1 ELSE pos)
  BY DEF NoSync, Keep
<1>3. PICK p \in Nat : pos' = p /\ p >= pos /\ p <= got /\ p >= got - 1
                       /\ (p = pos \/ p = got - 1)
  <2> DEFINE q == IF got - pos > 1 THEN got - 1 ELSE pos
  <2>1. q \in Nat /\ q >= pos /\ q <= got /\ q >= got - 1 /\ (q = pos \/ q = got - 1)
    BY <1>1
  <2>2. pos' = q
    BY <1>2
  <2>. QED  BY <2>1, <2>2
<1>4. ASSUME NEW n \in got .. Len(line)
      PROVE  FramesFrom(n)[p + 1] = FramesFrom(n)[pos + 1]
  <2>1. n \in 0 .. Len(line) /\ pos + 1 \in 1 .. n + 1 /\ p + 1 \in pos + 1 .. n + 1
    BY <1>1, <1>3
  <2>2. ASSUME NEW j \in pos + 1 .. (p + 1) - 1
        PROVE  ~IsSync(j, n)
    <3>0. p # pos /\ p = got - 1
      BY <1>1, <1>3
    <3>1. j \in pos + 1 .. got /\ j + 1 <= got
      BY <1>1, <3>0
    <3>2. ~IsSync(j, got)
      BY <3>1 DEF NoSync, Starts
    <3>. QED  BY <3>1, <3>2 DEF IsSync
  <2>. QED  BY <1>1, <2>1, <2>2, NoSyncNothing
<1>5. FramesFrom(got)[p + 1] = {}
  <2>1. got \in 0 .. Len(line) /\ p + 1 \in 1 .. got + 1 /\ got + 1 \in p + 1 .. got + 1
    BY <1>1, <1>3
  <2>2. \A j \in p + 1 .. (got + 1) - 1 : ~IsSync(j, got)
    BY <1>1, <1>3 DEF IsSync
  <2>3. FramesFrom(got)[p + 1] = FramesFrom(got)[got + 1]
    BY <1>1, <2>1, <2>2, NoSyncNothing
  <2>4. got + 1 \in 1 .. got + 1 /\ got + 1 > got
    BY <1>1
  <2>5. FramesFrom(got)[got + 1] = {}
    BY <1>1, <2>1, <2>4, FramesFromEquation DEF Scan
  <2>. QED  BY <2>3, <2>5
<1>6. got' \in got .. Len(line)
  BY <1>1, <1>2
<1>. QED  BY <1>2, <1>3, <1>4, <1>5, <1>6, OnCourseKept

LEMMA SkipOnCourse ==
    ASSUME IInv, OnCourse, Skip
    PROVE  OnCourse'
<1>1. /\ TypeOK /\ got \in Nat /\ pos \in Nat /\ pos <= got /\ got <= Len(line)
      /\ Len(line) \in Nat
  BY LineFacts DEF IInv
<1>2. PICK i \in Starts : i > pos + 1 /\ (\A j \in Starts : i <= j) /\ pos' = i - 1
  BY DEF Skip
<1>3. i \in pos + 1 .. got /\ pos' + 1 = i
  BY <1>1, <1>2 DEF Starts
<1>4. UNCHANGED <<fixed, frames>> /\ got' = got /\ pc' = "parse"
  BY DEF Skip
<1>5. ASSUME NEW n \in got .. Len(line)
      PROVE  FramesFrom(n)[pos' + 1] = FramesFrom(n)[pos + 1]
  <2>1. n \in 0 .. Len(line) /\ pos + 1 \in 1 .. n + 1 /\ i \in pos + 1 .. n + 1
    BY <1>1, <1>3
  <2>2. ASSUME NEW j \in pos + 1 .. i - 1
        PROVE  ~IsSync(j, n)
    <3>1. j \in pos + 1 .. got /\ j + 1 <= got /\ ~(i <= j)
      BY <1>1, <1>3
    <3>2. ~IsSync(j, got)
      BY <1>2, <3>1 DEF Starts
    <3>. QED  BY <3>1, <3>2 DEF IsSync
  <2>3. FramesFrom(n)[pos + 1] = FramesFrom(n)[i]
    BY <1>1, <2>1, <2>2, NoSyncNothing
  <2>. QED  BY <1>3, <2>3
<1>6. got' \in got .. Len(line)
  BY <1>1, <1>4
<1>. QED  BY <1>4, <1>5, <1>6, OnCourseKept

LEMMA StayOnCourse ==
    ASSUME IInv, OnCourse, Wait \/ Raise
    PROVE  OnCourse'
<1>1. /\ TypeOK /\ got \in Nat /\ pos \in Nat /\ got <= Len(line) /\ Len(line) \in Nat
  BY LineFacts DEF IInv
<1>2. /\ UNCHANGED <<fixed, frames>> /\ got' = got /\ pos' = pos /\ IsSync(pos + 1, got)
      /\ ~Complete(pos + 1, got) \/ Defect(pos + 1) = "type"
  BY DEF Wait, Raise, AtSync
<1>3. FramesFrom(got)[pos + 1] = {}
  <2>1. got \in 0 .. Len(line) /\ pos + 1 \in 1 .. got + 1
    BY <1>1, <1>2 DEF IsSync
  <2>2. Stuck(pos + 1, got)
    BY <1>2 DEF Stuck
  <2>. QED  BY <1>1, <2>1, <2>2, FramesFromEquation DEF Scan
<1>4. got' \in got .. Len(line)
  BY <1>1, <1>2
<1>. QED  BY <1>2, <1>3, <1>4, OnCourseKept

LEMMA RejectOnCourse ==
    ASSUME IInv, OnCourse, Reject
    PROVE  OnCourse'
<1>1. /\ TypeOK /\ got \in Nat /\ pos \in Nat /\ got <= Len(line) /\ Len(line) \in Nat
  BY LineFacts DEF IInv
<1>2. /\ UNCHANGED <<fixed, frames>> /\ got' = got /\ pos' = pos + 1 /\ pc' = "parse"
      /\ AtSync /\ Complete(pos + 1, got) /\ Defect(pos + 1) \in {"crc", "version", "size"}
  BY DEF Reject, Dropped, AtSync
<1>3. ASSUME NEW n \in got .. Len(line)
      PROVE  FramesFrom(n)[pos' + 1] = FramesFrom(n)[pos + 1]
  <2>1. /\ n \in 0 .. Len(line) /\ pos + 1 \in 1 .. n /\ pos + 1 \in 1 .. n + 1
        /\ ~(pos + 1 > n) /\ Complete(pos + 1, n) /\ n \in Nat
    BY <1>1, <1>2, CompleteGrows
  <2>2. ~Stuck(pos + 1, n) /\ ~Valid(pos + 1, n)
    BY <1>2, <2>1 DEF Stuck, Valid
  <2>3. FramesFrom(n)[pos + 1] = FramesFrom(n)[(pos + 1) + 1]
    BY <1>1, <2>1, <2>2, FramesFromEquation DEF Scan
  <2>. QED  BY <1>2, <2>3
<1>4. got' \in got .. Len(line)
  BY <1>1, <1>2
<1>. QED  BY <1>2, <1>3, <1>4, OnCourseKept

LEMMA ExtractOnCourse ==
    ASSUME IInv, OnCourse, Extract
    PROVE  OnCourse'
<1> DEFINE f == pos + 1
<1>1. /\ TypeOK /\ got \in Nat /\ pos \in Nat /\ got <= Len(line) /\ Len(line) \in Nat
  BY LineFacts DEF IInv
<1>2. /\ UNCHANGED fixed /\ got' = got /\ pc' = "parse" /\ frames' = frames \cup {f}
      /\ pos' = pos + Size(f)
      /\ AtSync /\ Complete(f, got) /\ Defect(f) = "none"
  BY DEF Extract, Taken, AtSync
<1>3. \A n : FramesFrom(n)' = FramesFrom(n)
  BY <1>2, FramesFromFixed
<1>4. Size(f) \in Nat /\ pos' + 1 = f + Size(f)
  BY <1>1, <1>2, CandidateFacts
<1>5. ASSUME NEW n \in got .. Len(line)
      PROVE  FramesFrom(n)[1] = (frames \cup {f}) \cup FramesFrom(n)[pos' + 1]
  <2>1. /\ n \in 0 .. Len(line) /\ f \in 1 .. n /\ f \in 1 .. n + 1 /\ ~(f > n)
        /\ IsSync(f, n) /\ Complete(f, n)
    BY <1>1, <1>2, CompleteGrows
  <2>2. ~Stuck(f, n) /\ Valid(f, n)
    BY <1>2, <2>1 DEF Stuck, Valid
  <2>3. FramesFrom(n)[f] = {f} \cup FramesFrom(n)[f + Size(f)]
    BY <1>1, <2>1, <2>2, FramesFromEquation DEF Scan
  <2>4. FramesFrom(n)[1] = frames \cup FramesFrom(n)[f]
    BY DEF OnCourse, Whole
  <2>. QED  BY <1>4, <2>3, <2>4
<1>6. \A n \in got' .. Len(line') :
         FramesFrom(n)'[1] = frames' \cup FramesFrom(n)'[pos' + 1]
  BY <1>2, <1>3, <1>5 DEF fixed
<1>. QED  BY <1>2, <1>6 DEF OnCourse, Whole

\* However the bytes are cut into reads, the frames are those of one read of them all.
THEOREM ChunkFreeHolds == Spec => []ChunkFree
<1>1. IInv /\ OnCourse /\ [Next]_vars => OnCourse'
  <2> SUFFICES ASSUME IInv, OnCourse, [Next]_vars PROVE OnCourse'
    OBVIOUS
  <2>1. CASE UNCHANGED vars
    <3>1. UNCHANGED <<fixed, frames>> /\ got' = got /\ pos' = pos /\ pc' = pc
      BY <2>1 DEF vars
    <3>2. got' \in got .. Len(line)
      BY <3>1, LineFacts DEF IInv
    <3>. QED  BY <3>1, <3>2, OnCourseKept DEF OnCourse
  <2>. QED  BY <2>1, FeedOnCourse, NoSyncOnCourse, SkipOnCourse, StayOnCourse,
               RejectOnCourse, ExtractOnCourse DEF Next
<1>2. IInv /\ OnCourse => ChunkFree
  <2> SUFFICES ASSUME IInv, OnCourse, pc # "parse" PROVE frames = Whole(got)
    BY DEF ChunkFree
  <2>1. got \in got .. Len(line)
    BY LineFacts DEF IInv
  <2>. QED  BY <2>1 DEF OnCourse
<1>. QED  BY <1>1, <1>2, InitOnCourse, InitIInv, NextIInv, PTL DEF Spec
=============================================================================
