---------------------------- MODULE ConfigProofs ----------------------------
(***************************************************************************)
(* Theorems about the configuration path for every set of stations, fields,*)
(* values and bounds, with or without the Timely assumption: the mirror    *)
(* holds only what a station's KrakenSDR held, and the push remembered as  *)
(* in flight is the one on the air.  Each action has a lemma: it preserves *)
(* IInv.                                                                   *)
(***************************************************************************)
EXTENDS ConfigPath, TLAPS

-----------------------------------------------------------------------------
(* Lemmas about settings and pushes *)

LEMMA VersionFacts ==
    /\ 0 \in Version
    /\ \A v \in Version : NextVersion(v) \in Version
BY VersionModAssumption DEF Version, NextVersion

LEMMA RestrictType ==
    ASSUME NEW s \in Settings, NEW S, S \subseteq DOMAIN s
    PROVE  Restrict(s, S) \in Settings
<1>1. PICK T \in SUBSET Field : s \in [T -> Value]
  BY DEF Settings
<1>2. Restrict(s, S) \in [S -> Value] /\ S \in SUBSET Field
  BY <1>1 DEF Restrict
<1>. QED  BY <1>2 DEF Settings

LEMMA MergedType ==
    ASSUME NEW s \in Settings, NEW t \in Settings
    PROVE  Merged(s, t) \in Settings
<1>1. PICK S \in SUBSET Field : s \in [S -> Value]
  BY DEF Settings
<1>2. PICK T \in SUBSET Field : t \in [T -> Value]
  BY DEF Settings
<1>3. Merged(s, t) \in [S \cup T -> Value] /\ S \cup T \in SUBSET Field
  BY <1>1, <1>2 DEF Merged
<1>. QED  BY <1>3 DEF Settings

LEMMA CrcType ==
    ASSUME NEW s \in Settings, Complete(s)
    PROVE  Crc(s) \in CrcValue
<1>1. PICK S \in SUBSET Field : s \in [S -> Value]
  BY DEF Settings
<1>2. [x \in Covered |-> s[x]] \in [Covered -> Value]
  BY <1>1 DEF Complete
<1>. QED  BY <1>2 DEF Crc, Restrict, CrcValue

LEMMA FullPushFacts ==
    ASSUME NEW s \in Settings, NEW v \in Version, Complete(s)
    PROVE  /\ FullPush(s, v) \in Push
           /\ FullPush(s, v).kind = "full"
           /\ Sound(FullPush(s, v))
<1>1. Crc(s) \in CrcValue
  BY CrcType
<1>2. Restrict(s, DOMAIN s \ InactiveVfo) \in Settings
  BY RestrictType
<1>. QED  BY <1>1, <1>2 DEF FullPush, Push, Sound

LEMMA DeltaPushFacts ==
    ASSUME NEW m \in Mirror, NEW wish \in Settings, DeltaPossible(m, wish)
    PROVE  DeltaPush(m, wish) \in Push /\ Sound(DeltaPush(m, wish))
<1> DEFINE changes == Changes(m, wish)
           merged == Merged(m.settings, changes)
<1>1. changes \in Settings
  BY RestrictType DEF Changes
<1>2. merged \in Settings
  BY <1>1, MergedType DEF Mirror
<1>3. Complete(merged) /\ Crc(merged) \in CrcValue
  BY <1>2, CrcType DEF DeltaPossible
<1>4. NextVersion(m.version) \in Version
  BY VersionFacts DEF Mirror
<1> HIDE DEF changes, merged
<1>5. DeltaPush(m, wish) = [kind |-> "delta", version |-> NextVersion(m.version),
                               crc |-> Crc(merged), settings |-> merged,
                               changes |-> changes]
  BY DEF DeltaPush, changes, merged
<1>. QED  BY <1>1, <1>2, <1>3, <1>4, <1>5 DEF Push, Sound

-----------------------------------------------------------------------------
(* Lemmas about sequences *)

LEMMA TailFacts ==
    ASSUME NEW S, NEW q \in Seq(S), q # << >>
    PROVE  /\ Tail(q) \in Seq(S) /\ Head(q) \in S /\ Len(q) >= 1 /\ Head(q) = q[1]
           /\ \A i \in 1 .. Len(Tail(q)) : i + 1 \in 1 .. Len(q) /\ Tail(q)[i] = q[i + 1]
OBVIOUS

LEMMA AppendFacts ==
    ASSUME NEW S, NEW q \in Seq(S), NEW x \in S
    PROVE  /\ Append(q, x) \in Seq(S)
           /\ \A i \in 1 .. Len(Append(q, x)) :
                 \/ i \in 1 .. Len(q) /\ Append(q, x)[i] = q[i]
                 \/ Append(q, x)[i] = x
OBVIOUS

LEMMA SentFacts ==
    ASSUME NEW S, NEW q \in Seq(S), NEW x \in S
    PROVE  /\ Sent(q, x) \in Seq(S)
           /\ \A i \in 1 .. Len(Sent(q, x)) :
                 \/ i \in 1 .. Len(q) /\ Sent(q, x)[i] = q[i]
                 \/ Sent(q, x)[i] = x
<1>1. CASE Len(q) < ChanCap
  BY <1>1, AppendFacts DEF Sent
<1>2. CASE ~(Len(q) < ChanCap)
  BY <1>2 DEF Sent
<1>. QED  BY <1>1, <1>2

-----------------------------------------------------------------------------
(* Lemmas about the station record *)

RecordOK(s) == s \in StationRecord /\ (s.pending # NoPush => Sound(s.pending))

\* A record that becomes diverged has just issued a full push.
FullIfDiverged(s, t) ==
    t.state = "diverged" /\ t # s => t.pending # NoPush /\ t.pending.kind = "full"

LEMMA PreparedFacts ==
    ASSUME NEW s \in StationRecord, NEW push \in Push, Sound(push)
    PROVE  RecordOK(Prepared(s, push)) /\ Prepared(s, push).pending # NoPush
BY NoValueAssumption DEF Prepared, RecordOK, StationRecord, ConfigState

LEMMA MismatchedFacts ==
    ASSUME NEW s, RecordOK(s), NEW c \in Settings, NEW v \in Version, Complete(c)
    PROVE  RecordOK(Mismatched(s, c, v)) /\ FullIfDiverged(s, Mismatched(s, c, v))
<1>1. CASE s.latched
  BY <1>1 DEF Mismatched, AutoPushes, FullIfDiverged
<1>2. CASE ~s.latched /\ ~s.resynced
  <2>1. /\ FullPush(c, v) \in Push /\ FullPush(c, v).kind = "full"
        /\ Sound(FullPush(c, v))
    BY FullPushFacts
  <2>2. Mismatched(s, c, v) = Diverged(s, FullPush(c, v))
    BY <1>2 DEF Mismatched, AutoPushes
  <2>. QED
    BY <2>1, <2>2, NoValueAssumption
    DEF Diverged, RecordOK, StationRecord, FullIfDiverged, ConfigState
<1>3. CASE ~s.latched /\ s.resynced
  <2>1. Mismatched(s, c, v) = Latched(s)
    BY <1>3 DEF Mismatched, AutoPushes
  <2>. QED
    BY <2>1 DEF Latched, RecordOK, StationRecord, FullIfDiverged, ConfigState
<1>. QED  BY <1>1, <1>2, <1>3 DEF RecordOK, StationRecord

LEMMA BearingFacts ==
    ASSUME NEW s, RecordOK(s), NEW m \in Mirror \cup {NoMirror}, NEW c,
           ~BearingRaises(s, m)
    PROVE  RecordOK(BearingStation(s, m, c)) /\ FullIfDiverged(s, BearingStation(s, m, c))
<1>1. CASE m = NoMirror
  BY <1>1 DEF BearingStation, RecordOK, StationRecord, FullIfDiverged, ConfigState
<1>2. CASE m # NoMirror /\ s.pending # NoPush
  BY <1>2 DEF BearingStation, FullIfDiverged
<1>3. CASE m # NoMirror /\ s.pending = NoPush /\ c = Crc(m.settings)
  <2>1. BearingStation(s, m, c) = Verified(s)
    BY <1>3 DEF BearingStation
  <2>. QED
    BY <1>3, <2>1 DEF Verified, RecordOK, StationRecord, FullIfDiverged, ConfigState
<1>4. CASE m # NoMirror /\ s.pending = NoPush /\ c # Crc(m.settings)
  <2>1. BearingStation(s, m, c) = Mismatched(s, m.settings, m.version)
    BY <1>4 DEF BearingStation
  <2>2. m.settings \in Settings /\ m.version \in Version /\ Complete(m.settings)
    BY <1>4 DEF BearingRaises, Mirror
  <2>. QED  BY <2>1, <2>2, MismatchedFacts
<1>. QED  BY <1>1, <1>2, <1>3, <1>4

LEMMA AckFacts ==
    ASSUME NEW s, RecordOK(s), s.pending # NoPush, NEW c
    PROVE  RecordOK(AckStation(s, c, FALSE)) /\ FullIfDiverged(s, AckStation(s, c, FALSE))
<1>1. CASE Confirms(s.pending, c)
  <2>1. AckStation(s, c, FALSE) = Committed(s)
    BY <1>1 DEF AckStation
  <2> DEFINE kept == IF s.pending.kind = "full" THEN FALSE ELSE s.resynced
  <2>2. kept \in BOOLEAN
    BY DEF RecordOK, StationRecord
  <2>3. Committed(s) = [state |-> "in_sync", pending |-> NoPush,
                        resynced |-> kept, latched |-> s.latched]
    BY DEF Committed
  <2> HIDE DEF kept
  <2>. QED
    <3>1. Committed(s) \in StationRecord
      BY <2>2, <2>3 DEF RecordOK, StationRecord, ConfigState
    <3>2. Committed(s).state = "in_sync" /\ Committed(s).pending = NoPush
      BY <2>3
    <3>. QED  BY <2>1, <3>1, <3>2 DEF RecordOK, FullIfDiverged
<1>2. CASE ~Confirms(s.pending, c)
  <2>1. AckStation(s, c, FALSE) = Mismatched(s, s.pending.settings, s.pending.version)
    BY <1>2 DEF AckStation
  <2>2. /\ s.pending.settings \in Settings /\ s.pending.version \in Version
        /\ Complete(s.pending.settings)
    BY DEF RecordOK, StationRecord, Push, Sound
  <2>. QED  BY <2>1, <2>2, MismatchedFacts
<1>. QED  BY <1>1, <1>2

-----------------------------------------------------------------------------
(* The invariant *)

\* What the station's records amount to, and a step that shows it again.
LEMMA RecordsOK ==
    ASSUME IInv, NEW a \in Station
    PROVE  /\ RecordOK(st[a])
           /\ st[a].pending # NoPush => mirror[a] \in Mirror
           /\ mirror[a] \in Mirror \cup {NoMirror}
BY DEF IInv, TypeOK, PendingSound, RecordOK

LEMMA PacketFacts ==
    ASSUME NEW packet \in Packet
    PROVE  /\ packet.type \in {"ack", "bearing"} => packet.crc \in CrcValue \cup {NoCrc}
           /\ packet.type = "report" => packet.settings \in Settings
           /\ packet.type = "ack" => packet.seq \in SeqNo
BY DEF Packet

\* The first packet a station has on its way.
LEMMA ArrivalFacts ==
    ASSUME IInv, NEW a \in Station, NEW type, Arrives(a, type)
    PROVE  /\ Head(up[a]) \in Packet /\ Head(up[a]).type = type
           /\ PacketHeld(a, Head(up[a]))
           /\ up' \in [Station -> Seq(Packet)]
           /\ \A b \in Station : \A i \in 1 .. Len(up'[b]) :
                 \E j \in 1 .. Len(up[b]) : up'[b][i] = up[b][j]
<1>1. up[a] \in Seq(Packet) /\ up[a] # << >> /\ Head(up[a]).type = type
      /\ up' = [up EXCEPT ![a] = Tail(@)] /\ up \in [Station -> Seq(Packet)]
  BY DEF Arrives, IInv, TypeOK
<1>2. /\ Tail(up[a]) \in Seq(Packet) /\ Head(up[a]) \in Packet
      /\ Len(up[a]) >= 1 /\ Head(up[a]) = up[a][1] /\ Len(up[a]) \in Nat
      /\ \A i \in 1 .. Len(Tail(up[a])) :
            i + 1 \in 1 .. Len(up[a]) /\ Tail(up[a])[i] = up[a][i + 1]
  BY <1>1, TailFacts
<1>3. PacketHeld(a, up[a][1])
  <2>1. 1 \in 1 .. Len(up[a])
    BY <1>2
  <2>. QED  BY <2>1 DEF IInv, AnswersHeld
<1>4. ASSUME NEW b \in Station, NEW i \in 1 .. Len(up'[b])
      PROVE  \E j \in 1 .. Len(up[b]) : up'[b][i] = up[b][j]
  <2>1. CASE b = a
    BY <1>1, <1>2, <2>1
  <2>2. CASE b # a
    BY <1>1, <2>2
  <2>. QED  BY <2>1, <2>2
<1>. QED  BY <1>1, <1>2, <1>3, <1>4

\* held only grows; an answer is an old one or one that was held.
LEMMA AnswersNext ==
    ASSUME AnswersHeld,
           \A b \in Station : held[b] \subseteq held'[b],
           \A b \in Station : \A i \in 1 .. Len(up'[b]) :
              \/ \E j \in 1 .. Len(up[b]) : up'[b][i] = up[b][j]
              \/ PacketHeld(b, up[b][i])'
    PROVE  AnswersHeld'
<1> SUFFICES ASSUME NEW b \in Station, NEW i \in 1 .. Len(up'[b]),
                    NEW j \in 1 .. Len(up[b]), up'[b][i] = up[b][j]
             PROVE  PacketHeld(b, up[b][i])'
  BY DEF AnswersHeld
<1>1. PacketHeld(b, up[b][j])
  BY DEF AnswersHeld
<1>2. held[b] \subseteq held'[b]
  OBVIOUS
<1>. QED  BY <1>1, <1>2 DEF PacketHeld, WasHeld, CrcHeld

LEMMA AnswersSame ==
    ASSUME AnswersHeld, held' = held,
           \A b \in Station : \A i \in 1 .. Len(up'[b]) :
              \E j \in 1 .. Len(up[b]) : up'[b][i] = up[b][j]
    PROVE  AnswersHeld'
BY AnswersNext

LEMMA SpendFacts ==
    ASSUME IInv, NEW kind, Spend(kind)
    PROVE  spent' \in [BudgetKind -> Nat]
<1>1. spent \in [BudgetKind -> Nat] /\ spent' = [spent EXCEPT ![kind] = @ + 1]
  BY DEF IInv, TypeOK, Spend
<1>2. CASE kind \in BudgetKind
  BY <1>1, <1>2
<1>3. CASE kind \notin BudgetKind
  BY <1>1, <1>3
<1>. QED  BY <1>2, <1>3

LEMMA InitIInv == Init => IInv
<1> SUFFICES ASSUME Init PROVE IInv
  OBVIOUS
<1>0. Factory \in Settings /\ Crc(Factory) \in CrcValue /\ Seeded(Factory) \in Mirror
  BY ConfigAssumption, CrcType, VersionFacts DEF Seeded, Mirror
<1>1. SenderInit \in SenderRecord
  BY SeqModAssumption, MaxAttemptsAssumption DEF SenderInit, SenderRecord, SeqNo
<1>2. ASSUME NEW m PROVE StationInit(m) \in StationRecord /\ StationInit(m).pending = NoPush
  BY DEF StationInit, StationRecord, ConfigState
<1>3. TypeOK
  <2>1. sender \in [Station -> SenderRecord] /\ inflight \in [Station -> Push \cup {NoPush}]
    BY <1>1 DEF Init
  <2>2. outbox \in [Station -> Seq(Entry)] /\ down \in [Station -> Seq(Frame)]
        /\ up \in [Station -> Seq(Packet)]
    BY DEF Init
  <2>3. st \in [Station -> StationRecord] /\ mirror \in [Station -> Mirror \cup {NoMirror}]
    BY <1>0, <1>2 DEF Init
  <2>4. /\ desired \in [Station -> Settings \cup {NoSettings}]
        /\ lastSeq \in [Station -> SeqNo \cup {NoSeq}]
        /\ crc \in [Station -> CrcValue \cup {NoCrc}] /\ kset \in [Station -> Settings]
        /\ held \in [Station -> SUBSET CrcValue] /\ spent \in [BudgetKind -> Nat]
    BY <1>0 DEF Init
  <2>5. running \in BOOLEAN /\ writable \in [Station -> BOOLEAN]
    BY DEF Init
  <2>. QED  BY <2>1, <2>2, <2>3, <2>4, <2>5 DEF TypeOK
<1>4. StationHeld /\ AnswersHeld
  BY DEF Init, StationHeld, AnswersHeld, WasHeld, CrcHeld
<1>5. PendingSound
  BY <1>2 DEF Init, PendingSound
<1>6. OutboxMatches /\ InflightIsSent
  BY DEF Init, OutboxMatches, InflightIsSent
<1>7. MirrorWasHeld
  BY <1>0, NoValueAssumption DEF Init, MirrorWasHeld, WasHeld, Seeded
<1>. QED  BY <1>3, <1>4, <1>5, <1>6, <1>7 DEF IInv

-----------------------------------------------------------------------------
(* The medium and the operator *)

\* What a step must change to disturb a part of the invariant.
LEMMA Untouched ==
    ASSUME IInv
    PROVE  /\ UNCHANGED <<kset, crc, held>> => StationHeld'
           /\ UNCHANGED <<up, held>> => AnswersHeld'
           /\ UNCHANGED <<st, mirror>> => PendingSound'
           /\ UNCHANGED outbox => OutboxMatches'
           /\ UNCHANGED <<mirror, held>> => MirrorWasHeld'
           /\ UNCHANGED <<sender, inflight>> => InflightIsSent'
<1>1. ASSUME UNCHANGED <<kset, crc, held>> PROVE StationHeld'
  BY <1>1 DEF IInv, StationHeld, WasHeld, CrcHeld
<1>2. ASSUME UNCHANGED <<up, held>> PROVE AnswersHeld'
  BY <1>2 DEF IInv, AnswersHeld, PacketHeld, WasHeld, CrcHeld
<1>3. ASSUME UNCHANGED <<st, mirror>> PROVE PendingSound'
  BY <1>3 DEF IInv, PendingSound
<1>4. ASSUME UNCHANGED outbox PROVE OutboxMatches'
  BY <1>4 DEF IInv, OutboxMatches
<1>5. ASSUME UNCHANGED <<mirror, held>> PROVE MirrorWasHeld'
  BY <1>5 DEF IInv, MirrorWasHeld, WasHeld
<1>6. ASSUME UNCHANGED <<sender, inflight>> PROVE InflightIsSent'
  BY <1>6 DEF IInv, InflightIsSent
<1>. QED  BY <1>1, <1>2, <1>3, <1>4, <1>5, <1>6

LEMMA LoseFrameIInv ==
    ASSUME IInv, NEW a \in Station, LoseFrame(a)
    PROVE  IInv'
<1>1. /\ down[a] \in Seq(Frame) /\ down[a] # << >> /\ down \in [Station -> Seq(Frame)]
      /\ down' = [down EXCEPT ![a] = Tail(@)] /\ UNCHANGED <<masterVars, up, stationVars>>
  BY DEF LoseFrame, IInv, TypeOK
<1>2. down' \in [Station -> Seq(Frame)] /\ spent' \in [BudgetKind -> Nat]
  BY <1>1, TailFacts, SpendFacts DEF LoseFrame
<1>3. TypeOK'
  BY <1>1, <1>2 DEF IInv, TypeOK, masterVars, stationVars
<1>. QED  BY <1>1, <1>3, Untouched DEF IInv, masterVars, stationVars

LEMMA LoseAnswerIInv ==
    ASSUME IInv, NEW a \in Station, LoseAnswer(a)
    PROVE  IInv'
<1>1. /\ up[a] \in Seq(Packet) /\ up[a] # << >> /\ up \in [Station -> Seq(Packet)]
      /\ up' = [up EXCEPT ![a] = Tail(@)] /\ UNCHANGED <<masterVars, down, stationVars>>
  BY DEF LoseAnswer, IInv, TypeOK
<1>2. /\ Tail(up[a]) \in Seq(Packet)
      /\ \A i \in 1 .. Len(Tail(up[a])) :
            i + 1 \in 1 .. Len(up[a]) /\ Tail(up[a])[i] = up[a][i + 1]
  BY <1>1, TailFacts
<1>3. up' \in [Station -> Seq(Packet)] /\ spent' \in [BudgetKind -> Nat]
  BY <1>1, <1>2, SpendFacts DEF LoseAnswer
<1>4. ASSUME NEW b \in Station, NEW i \in 1 .. Len(up'[b])
      PROVE  \E j \in 1 .. Len(up[b]) : up'[b][i] = up[b][j]
  <2>1. CASE b = a
    BY <1>1, <1>2, <2>1
  <2>2. CASE b # a
    BY <1>1, <2>2
  <2>. QED  BY <2>1, <2>2
<1>5. AnswersHeld'
  BY <1>1, <1>4, AnswersSame DEF IInv, stationVars
<1>6. TypeOK'
  BY <1>1, <1>3 DEF IInv, TypeOK, masterVars, stationVars
<1>. QED  BY <1>1, <1>5, <1>6, Untouched DEF IInv, masterVars, stationVars

LEMMA EditIInv ==
    ASSUME IInv, NEW a \in Station, Edit(a)
    PROVE  IInv'
<1>1. PICK f \in Field, v \in Value : desired' = [desired EXCEPT ![a] = [x \in {f} |-> v]]
  BY DEF Edit
<1>2. [x \in {f} |-> v] \in [{f} -> Value] /\ {f} \in SUBSET Field
  OBVIOUS
<1>9. [x \in {f} |-> v] \in Settings
  BY <1>2 DEF Settings
<1>3. desired' \in [Station -> Settings \cup {NoSettings}]
  BY <1>1, <1>9 DEF IInv, TypeOK
<1>4. spent' \in [BudgetKind -> Nat]
  BY SpendFacts DEF Edit
<1>5. UNCHANGED <<sender, outbox, inflight, st, mirror, running, down, up, stationVars>>
  BY DEF Edit
<1>6. TypeOK'
  BY <1>3, <1>4, <1>5 DEF IInv, TypeOK, stationVars
<1>. QED  BY <1>5, <1>6, Untouched DEF IInv, stationVars

\* An entry that matches, queued in one outbox.
LEMMA QueuedFacts ==
    ASSUME IInv, NEW a \in Station, NEW type \in {"delta", "full", "req"},
           NEW push \in Push \cup {NoPush}, push # NoPush => type = push.kind,
           outbox' = [outbox EXCEPT ![a] = Queued(@, type, push)]
    PROVE  outbox' \in [Station -> Seq(Entry)] /\ OutboxMatches'
<1> DEFINE entry == [type |-> type, push |-> push]
           box == Append(outbox[a], entry)
<1>1. entry \in Entry /\ EntryMatches(entry)
  BY DEF Entry, EntryMatches
<1>2. outbox \in [Station -> Seq(Entry)] /\ outbox[a] \in Seq(Entry)
  BY DEF IInv, TypeOK
<1> HIDE DEF entry
<1>3. /\ box \in Seq(Entry)
      /\ \A i \in 1 .. Len(box) : \/ i \in 1 .. Len(outbox[a]) /\ box[i] = outbox[a][i]
                                  \/ box[i] = entry
  BY <1>1, <1>2, AppendFacts
<1>4. outbox' = [outbox EXCEPT ![a] = box]
  BY DEF Queued, entry
<1> HIDE DEF box
<1>5. \A i \in 1 .. Len(box) : EntryMatches(box[i])
  BY <1>1, <1>3 DEF IInv, OutboxMatches
<1>6. ASSUME NEW b \in Station, NEW i \in 1 .. Len(outbox'[b])
      PROVE  EntryMatches(outbox'[b][i])
  <2>1. CASE b = a
    BY <1>2, <1>4, <1>5, <2>1
  <2>2. CASE b # a
    BY <1>2, <1>4, <2>2 DEF IInv, OutboxMatches
  <2>. QED  BY <2>1, <2>2
<1>7. OutboxMatches'
  BY <1>6 DEF OutboxMatches, EntryMatches
<1>. QED  BY <1>2, <1>3, <1>4, <1>7

LEMMA FullReadIInv ==
    ASSUME IInv, NEW a \in Station, FullRead(a)
    PROVE  IInv'
<1>1. outbox' \in [Station -> Seq(Entry)] /\ OutboxMatches'
  BY QueuedFacts DEF FullRead
<1>2. spent' \in [BudgetKind -> Nat]
  BY SpendFacts DEF FullRead
<1>3. UNCHANGED <<sender, inflight, desired, st, mirror, running, down, up, stationVars>>
  BY DEF FullRead
<1>4. TypeOK'
  BY <1>1, <1>2, <1>3 DEF IInv, TypeOK, stationVars
<1>. QED  BY <1>1, <1>3, <1>4, Untouched DEF IInv, stationVars

\* push_full() of a baseline whose station keeps one.
LEMMA PushFullFacts ==
    ASSUME IInv, NEW a \in Station, NEW m \in Mirror \cup {NoMirror}, PushFull(a, m),
           m # NoMirror => mirror'[a] # NoMirror,
           \A b \in Station : mirror[b] # NoMirror => mirror'[b] # NoMirror
    PROVE  /\ st' \in [Station -> StationRecord] /\ PendingSound'
           /\ outbox' \in [Station -> Seq(Entry)] /\ OutboxMatches'
<1>0. st \in [Station -> StationRecord] /\ outbox \in [Station -> Seq(Entry)]
  BY DEF IInv, TypeOK
<1>1. CASE FullPossible(m)
  <2> DEFINE push == FullPush(m.settings, m.version)
  <2>1. /\ m # NoMirror /\ m.settings \in Settings /\ m.version \in Version
        /\ Complete(m.settings)
    BY <1>1 DEF FullPossible, Mirror
  <2>2. push \in Push /\ push.kind = "full" /\ Sound(push)
    BY <2>1, FullPushFacts
  <2>3. /\ st' = [st EXCEPT ![a] = Prepared(@, push)]
        /\ outbox' = [outbox EXCEPT ![a] = Queued(@, "full", push)]
    BY <1>1 DEF PushFull
  <2> HIDE DEF push
  <2>4. outbox' \in [Station -> Seq(Entry)] /\ OutboxMatches'
    BY <2>2, <2>3, QueuedFacts
  <2>5. RecordOK(Prepared(st[a], push))
    BY <1>0, <2>2, PreparedFacts
  <2>6. PendingSound'
    <3>1. ASSUME NEW b \in Station, st'[b].pending # NoPush
          PROVE  mirror'[b] # NoMirror /\ Sound(st'[b].pending)
      <4>1. CASE b = a
        BY <1>0, <2>1, <2>3, <2>5, <3>1, <4>1 DEF RecordOK
      <4>2. CASE b # a
        BY <1>0, <2>3, <3>1, <4>2 DEF IInv, PendingSound
      <4>. QED  BY <4>1, <4>2
    <3>. QED  BY <3>1 DEF PendingSound, Sound, Complete, Crc
  <2>. QED  BY <1>0, <2>3, <2>4, <2>5, <2>6 DEF RecordOK
<1>2. CASE ~FullPossible(m)
  BY <1>0, <1>2 DEF PushFull, IInv, PendingSound, OutboxMatches
<1>. QED  BY <1>1, <1>2

LEMMA PushHeldIInv ==
    ASSUME IInv, NEW a \in Station, PushHeld(a)
    PROVE  IInv'
<1>1. UNCHANGED <<sender, inflight, desired, mirror, running, down, up, stationVars>>
  BY DEF PushHeld
<1>2. mirror[a] \in Mirror \cup {NoMirror} /\ PushFull(a, mirror[a])
  BY RecordsOK DEF PushHeld
<1>3. /\ st' \in [Station -> StationRecord] /\ PendingSound'
      /\ outbox' \in [Station -> Seq(Entry)] /\ OutboxMatches'
  BY <1>1, <1>2, PushFullFacts
<1>4. spent' \in [BudgetKind -> Nat]
  BY SpendFacts DEF PushHeld
<1>5. TypeOK'
  BY <1>1, <1>3, <1>4 DEF IInv, TypeOK, stationVars
<1>. QED  BY <1>1, <1>3, <1>5, Untouched DEF IInv, stationVars

LEMMA RevertIInv ==
    ASSUME IInv, NEW a \in Station, Revert(a)
    PROVE  IInv'
<1>1. UNCHANGED <<sender, inflight, desired, running, down, up, stationVars>>
  BY DEF Revert
<1>2. /\ mirror[a] \in Mirror /\ mirror[a].previous # NoSettings
      /\ mirror' = [mirror EXCEPT ![a] = Reverted(@)]
      /\ mirror \in [Station -> Mirror \cup {NoMirror}]
  BY RecordsOK DEF Revert, Revertible, IInv, TypeOK
<1>3. Reverted(mirror[a]) \in Mirror
  BY <1>2, VersionFacts DEF Reverted, Mirror
<1>4. /\ mirror' \in [Station -> Mirror \cup {NoMirror}]
      /\ mirror'[a] = Reverted(mirror[a]) /\ mirror'[a] \in Mirror
      /\ \A b \in Station : b # a => mirror'[b] = mirror[b]
  BY <1>2, <1>3
<1>5. \A b \in Station : mirror'[b] = NoMirror => mirror[b] = NoMirror
  BY <1>4, NoValueAssumption
<1>6. /\ st' \in [Station -> StationRecord] /\ PendingSound'
      /\ outbox' \in [Station -> Seq(Entry)] /\ OutboxMatches'
  BY <1>4, <1>5, PushFullFacts DEF Revert
<1>7. spent' \in [BudgetKind -> Nat]
  BY SpendFacts DEF Revert
<1>8. TypeOK'
  BY <1>1, <1>4, <1>6, <1>7 DEF IInv, TypeOK, stationVars
<1>9. MirrorWasHeld'
  <2>1. WasHeld(a, mirror[a].previous)
    BY <1>2, NoValueAssumption DEF IInv, MirrorWasHeld
  <2>2. ASSUME NEW b \in Station, mirror'[b] # NoMirror
        PROVE  /\ WasHeld(b, mirror'[b].settings)
               /\ mirror'[b].previous # NoSettings => WasHeld(b, mirror'[b].previous)
    <3>1. CASE b = a
      BY <1>4, <2>1, <3>1 DEF Reverted
    <3>2. CASE b # a
      BY <1>4, <2>2, <3>2 DEF IInv, MirrorWasHeld
    <3>. QED  BY <3>1, <3>2
  <2>. QED  BY <1>1, <2>2 DEF MirrorWasHeld, WasHeld, stationVars
<1>. QED  BY <1>1, <1>6, <1>8, <1>9, Untouched DEF IInv, stationVars

-----------------------------------------------------------------------------
(* The master's loop *)

LEMMA BroadcastFacts ==
    ASSUME IInv, NEW frame \in Frame
    PROVE  Broadcast(frame) \in [Station -> Seq(Frame)]
<1>1. ASSUME NEW b \in Station PROVE Sent(down[b], frame) \in Seq(Frame)
  BY SentFacts DEF IInv, TypeOK
<1>. QED  BY <1>1 DEF Broadcast

LEMMA RetransmitIInv ==
    ASSUME IInv, NEW a \in Station, Retransmit(a)
    PROVE  IInv'
<1>1. /\ sender' = [sender EXCEPT ![a] = Retried(@)] /\ sender[a].pending # NoFrame
      /\ ~(sender[a].attempts >= MaxAttempts) /\ down' = Broadcast(sender[a].pending)
      /\ UNCHANGED <<outbox, inflight, desired, st, mirror, running, up, stationVars, spent>>
  BY DEF Retransmit, TimeoutDue, Busy, Exhausts
<1>2. sender \in [Station -> SenderRecord]
  BY DEF IInv, TypeOK
<1>3. sender[a].pending \in Frame /\ sender[a].attempts + 1 \in 0 .. MaxAttempts
  BY <1>1, <1>2, MaxAttemptsAssumption DEF SenderRecord
<1>4. Retried(sender[a]) \in SenderRecord
  BY <1>2, <1>3 DEF Retried, SenderRecord
<1>5. down' \in [Station -> Seq(Frame)] /\ sender' \in [Station -> SenderRecord]
  BY <1>1, <1>2, <1>3, <1>4, BroadcastFacts
<1>6. \A b \in Station : sender'[b].pending = sender[b].pending
  BY <1>1, <1>2 DEF Retried
<1>7. TypeOK'
  BY <1>1, <1>5 DEF IInv, TypeOK, stationVars
<1>8. InflightIsSent'
  BY <1>1, <1>6 DEF IInv, InflightIsSent, Busy
<1>. QED  BY <1>1, <1>7, <1>8, Untouched DEF IInv, stationVars

\* The outbox as it is served: typed, matching, and a push just authored is sound.
LEMMA BoxFacts ==
    ASSUME IInv, NEW a \in Station
    PROVE  /\ OutboxAuthored(a) \in Seq(Entry)
           /\ \A i \in 1 .. Len(OutboxAuthored(a)) : EntryMatches(OutboxAuthored(a)[i])
           /\ Authors(a) => /\ mirror[a] # NoMirror
                            /\ Head(OutboxAuthored(a)).push \in Push
                            /\ Sound(Head(OutboxAuthored(a)).push)
<1>1. outbox[a] \in Seq(Entry) /\ \A i \in 1 .. Len(outbox[a]) : EntryMatches(outbox[a][i])
  BY DEF IInv, TypeOK, OutboxMatches
<1>2. CASE Authors(a)
  <2> DEFINE push == DeltaPush(mirror[a], desired[a])
             entry == [type |-> "delta", push |-> push]
  <2>1. /\ desired[a] \in Settings /\ mirror[a] \in Mirror /\ mirror[a] # NoMirror
        /\ DeltaPossible(mirror[a], desired[a])
    BY <1>2 DEF Authors, Authoring, DeltaPossible, IInv, TypeOK
  <2>2. push \in Push /\ Sound(push)
    BY <2>1, DeltaPushFacts
  <2>3. push.kind = "delta"
    BY DEF DeltaPush
  <2>4. OutboxAuthored(a) = Append(<< >>, entry)
    BY <1>2 DEF OutboxAuthored, Queued
  <2> HIDE DEF push
  <2>5. entry \in Entry /\ EntryMatches(entry) /\ entry.push = push
    BY <2>2, <2>3 DEF Entry, EntryMatches
  <2> HIDE DEF entry
  <2>6. OutboxAuthored(a) = <<entry>>
    BY <2>4
  <2>7. <<entry>> \in Seq(Entry) /\ Len(<<entry>>) = 1 /\ <<entry>>[1] = entry
        /\ Head(<<entry>>) = entry
    BY <2>5
  <2>. QED  BY <2>1, <2>2, <2>5, <2>6, <2>7
<1>3. CASE ~Authors(a)
  BY <1>1, <1>3 DEF OutboxAuthored
<1>. QED  BY <1>2, <1>3

LEMMA FrameFacts ==
    ASSUME IInv, NEW a \in Station, NEW entry \in Entry
    PROVE  /\ FrameOf(a, entry) \in Frame /\ FrameOf(a, entry).type = entry.type
           /\ FrameOf(a, entry).dest = a
           /\ entry.push # NoPush => FrameOf(a, entry).changes = entry.push.changes
<1> DEFINE changes == IF entry.push = NoPush THEN NoChanges ELSE entry.push.changes
<1>1. NoChanges \in [{} -> Value] /\ {} \in SUBSET Field
  BY DEF NoChanges
<1>2. NoChanges \in Settings
  BY <1>1 DEF Settings
<1>3. changes \in Settings
  BY <1>2 DEF Entry, Push
<1>4. sender[a].seq \in SeqNo
  BY DEF IInv, TypeOK, SenderRecord
<1>5. FrameOf(a, entry) = [seq |-> sender[a].seq, type |-> entry.type, dest |-> a,
                           changes |-> changes]
  BY DEF FrameOf
<1>6. entry.push # NoPush => changes = entry.push.changes
  OBVIOUS
<1> HIDE DEF changes
<1>. QED  BY <1>3, <1>4, <1>5, <1>6 DEF Frame, Entry

\* Either nothing is left to send, or the first entry of the box is.
LEMMA ServiceIInv ==
    ASSUME IInv, NEW a \in Station, Service(a)
    PROVE  IInv'
<1> DEFINE box == OutboxAuthored(a)
           idle == IF Busy(sender[a]) THEN Abandoned(sender[a]) ELSE sender[a]
<1>1. UNCHANGED <<mirror, running, up, stationVars, spent>>
  BY DEF Service
<1>2. /\ box \in Seq(Entry) /\ \A i \in 1 .. Len(box) : EntryMatches(box[i])
      /\ Authors(a) => /\ mirror[a] # NoMirror
                       /\ Head(box).push \in Push /\ Sound(Head(box).push)
  BY BoxFacts
<1>3. /\ sender \in [Station -> SenderRecord] /\ st \in [Station -> StationRecord]
      /\ outbox \in [Station -> Seq(Entry)] /\ down \in [Station -> Seq(Frame)]
      /\ inflight \in [Station -> Push \cup {NoPush}]
      /\ desired \in [Station -> Settings \cup {NoSettings}]
  BY DEF IInv, TypeOK
<1>4. idle \in SenderRecord /\ idle.seq = sender[a].seq /\ idle.pending = NoFrame
  BY <1>3 DEF Abandoned, SenderRecord, Busy
<1>5. desired' \in [Station -> Settings \cup {NoSettings}]
  <2>1. desired' = [desired EXCEPT ![a] = IF Authoring(a) THEN NoSettings ELSE @]
    BY DEF Service
  <2>2. (IF Authoring(a) THEN NoSettings ELSE desired[a]) \in Settings \cup {NoSettings}
    BY <1>3
  <2>. QED  BY <1>3, <2>1, <2>2
<1>6. st' \in [Station -> StationRecord] /\ PendingSound'
  <2>1. CASE Authors(a)
    <3>1. st' = [st EXCEPT ![a] = Prepared(@, Head(box).push)]
      BY <2>1 DEF Service
    <3> HIDE DEF box
    <3>2. RecordOK(Prepared(st[a], Head(box).push))
      BY <1>2, <1>3, <2>1, PreparedFacts
    <3>3. ASSUME NEW b \in Station, st'[b].pending # NoPush
          PROVE  mirror[b] # NoMirror /\ Sound(st'[b].pending)
      <4>1. CASE b = a
        BY <1>2, <1>3, <2>1, <3>1, <3>2, <3>3, <4>1 DEF RecordOK
      <4>2. CASE b # a
        BY <1>3, <3>1, <3>3, <4>2 DEF IInv, PendingSound
      <4>. QED  BY <4>1, <4>2
    <3>4. PendingSound'
      BY <1>1, <3>3 DEF PendingSound, Sound, Complete, Crc
    <3>. QED  BY <1>3, <3>1, <3>2, <3>4 DEF RecordOK
  <2>2. CASE ~Authors(a)
    <3>1. st' = st
      BY <2>2 DEF Service
    <3>. QED  BY <1>1, <1>3, <3>1 DEF IInv, PendingSound
  <2>. QED  BY <2>1, <2>2
<1>7. /\ sender' \in [Station -> SenderRecord] /\ outbox' \in [Station -> Seq(Entry)]
      /\ down' \in [Station -> Seq(Frame)] /\ inflight' \in [Station -> Push \cup {NoPush}]
      /\ OutboxMatches' /\ InflightIsSent'
  <2>1. CASE box = << >>
    <3>1. /\ sender' = [sender EXCEPT ![a] = idle] /\ inflight' = [inflight EXCEPT ![a] = NoPush]
          /\ outbox' = outbox /\ down' = down
      BY <2>1 DEF Service
    <3> HIDE DEF idle
    <3>2. InflightIsSent'
      BY <1>3, <3>1 DEF IInv, InflightIsSent, Busy
    <3>. QED  BY <1>3, <1>4, <3>1, <3>2 DEF IInv, OutboxMatches
  <2>2. CASE box # << >>
    <3> DEFINE entry == Head(box)
               frame == FrameOf(a, entry)
    <3>1. /\ sender' = [sender EXCEPT ![a] = Started(idle, frame)]
          /\ inflight' = [inflight EXCEPT ![a] = entry.push]
          /\ outbox' = [outbox EXCEPT ![a] = Tail(box)] /\ down' = Broadcast(frame)
      BY <2>2 DEF Service
    <3> HIDE DEF idle, box
    <3>2. /\ Tail(box) \in Seq(Entry) /\ entry \in Entry /\ Len(box) >= 1 /\ entry = box[1]
          /\ \A i \in 1 .. Len(Tail(box)) : i + 1 \in 1 .. Len(box) /\ Tail(box)[i] = box[i + 1]
      BY <1>2, <2>2, TailFacts
    <3>3. 1 \in 1 .. Len(box)
      BY <1>2, <3>2
    <3>4. EntryMatches(entry) /\ \A i \in 1 .. Len(Tail(box)) : EntryMatches(Tail(box)[i])
      BY <1>2, <3>2, <3>3
    <3> HIDE DEF entry
    <3>5. /\ frame \in Frame /\ frame.type = entry.type /\ frame.dest = a
          /\ entry.push # NoPush => frame.changes = entry.push.changes
      BY <3>2, FrameFacts
    <3> HIDE DEF frame
    <3>6. Started(idle, frame) \in SenderRecord /\ Started(idle, frame).pending = frame
      BY <1>4, <3>5, MaxAttemptsAssumption DEF Started, SenderRecord
    <3>7. entry.push \in Push \cup {NoPush}
      BY <3>2 DEF Entry
    <3>8. OutboxMatches'
      <4>1. ASSUME NEW b \in Station, NEW i \in 1 .. Len(outbox'[b])
            PROVE  EntryMatches(outbox'[b][i])
        <5>1. CASE b = a
          BY <1>3, <3>1, <3>4, <5>1
        <5>2. CASE b # a
          BY <1>3, <3>1, <5>2 DEF IInv, OutboxMatches
        <5>. QED  BY <5>1, <5>2
      <4>. QED  BY <4>1 DEF OutboxMatches, EntryMatches
    <3>9. InflightIsSent'
      <4>1. ASSUME NEW b \in Station, inflight'[b] # NoPush
            PROVE  /\ sender'[b].pending # NoFrame
                   /\ sender'[b].pending.type = inflight'[b].kind
                   /\ sender'[b].pending.changes = inflight'[b].changes
                   /\ sender'[b].pending.dest = b
        <5>1. CASE b = a
          <6>1. inflight'[b] = entry.push /\ sender'[b].pending = frame
            BY <1>3, <3>1, <3>6, <5>1
          <6>. QED
            BY <3>4, <3>5, <4>1, <5>1, <6>1, NoFrameAssumption DEF EntryMatches
        <5>2. CASE b # a
          BY <1>3, <3>1, <4>1, <5>2 DEF IInv, InflightIsSent, Busy
        <5>. QED  BY <5>1, <5>2
      <4>. QED  BY <4>1 DEF InflightIsSent, Busy
    <3>10. down' \in [Station -> Seq(Frame)]
      BY <3>1, <3>5, BroadcastFacts
    <3>. QED  BY <1>3, <3>1, <3>2, <3>6, <3>7, <3>8, <3>9, <3>10
  <2>. QED  BY <2>1, <2>2
<1> HIDE DEF box, idle
<1>8. TypeOK'
  BY <1>1, <1>5, <1>6, <1>7 DEF IInv, TypeOK, stationVars
<1>. QED  BY <1>1, <1>6, <1>7, <1>8, Untouched DEF IInv, stationVars

\* A bearing, or an ACK with nothing pending, is observed.
LEMMA ObserveFacts ==
    ASSUME IInv, NEW a \in Station, NEW c, Observe(a, c), mirror' = mirror
    PROVE  /\ st' \in [Station -> StationRecord] /\ PendingSound' /\ running' \in BOOLEAN
           /\ FullIfDiverged(st[a], st'[a])
<1>0. st \in [Station -> StationRecord] /\ RecordOK(st[a])
      /\ mirror[a] \in Mirror \cup {NoMirror}
  BY RecordsOK DEF IInv, TypeOK
<1>1. CASE BearingRaises(st[a], mirror[a])
  <2>1. st' = st /\ running' = FALSE
    BY <1>1 DEF Observe
  <2>. QED  BY <1>0, <2>1 DEF IInv, PendingSound, FullIfDiverged
<1>2. CASE ~BearingRaises(st[a], mirror[a])
  <2> DEFINE t == BearingStation(st[a], mirror[a], c)
  <2>1. st' = [st EXCEPT ![a] = t] /\ running' = running
    BY <1>2 DEF Observe
  <2>2. RecordOK(t) /\ FullIfDiverged(st[a], t)
    BY <1>0, <1>2, BearingFacts
  <2>3. t.pending # NoPush => mirror[a] # NoMirror \/ t.pending = st[a].pending
    BY DEF BearingStation
  <2> HIDE DEF t
  <2>4. ASSUME NEW b \in Station, st'[b].pending # NoPush
        PROVE  mirror[b] # NoMirror /\ Sound(st'[b].pending)
    <3>1. CASE b = a
      BY <1>0, <2>1, <2>2, <2>3, <2>4, <3>1 DEF RecordOK, IInv, PendingSound
    <3>2. CASE b # a
      BY <1>0, <2>1, <2>4, <3>2 DEF IInv, PendingSound
    <3>. QED  BY <3>1, <3>2
  <2>5. PendingSound'
    BY <2>4 DEF PendingSound, Sound, Complete, Crc
  <2>6. running' \in BOOLEAN
    BY <2>1 DEF IInv, TypeOK
  <2>. QED  BY <1>0, <2>1, <2>2, <2>5, <2>6 DEF RecordOK
<1>. QED  BY <1>1, <1>2

LEMMA OnBearingIInv ==
    ASSUME IInv, NEW a \in Station, OnBearing(a)
    PROVE  IInv'
<1>1. UNCHANGED <<sender, outbox, inflight, desired, mirror, down, stationVars, spent>>
  BY DEF OnBearing
<1>2. up' \in [Station -> Seq(Packet)]
      /\ \A b \in Station : \A i \in 1 .. Len(up'[b]) :
            \E j \in 1 .. Len(up[b]) : up'[b][i] = up[b][j]
  BY ArrivalFacts DEF OnBearing
<1>3. st' \in [Station -> StationRecord] /\ PendingSound' /\ running' \in BOOLEAN
  BY <1>1, ObserveFacts DEF OnBearing
<1>4. AnswersHeld'
  BY <1>1, <1>2, AnswersSame DEF IInv, stationVars
<1>5. TypeOK'
  BY <1>1, <1>2, <1>3 DEF IInv, TypeOK, stationVars
<1>. QED  BY <1>1, <1>3, <1>4, <1>5, Untouched DEF IInv, stationVars

\* The outbox after an ACK keeps its type: a diverged station has a full push.
LEMMA AfterAckFacts ==
    ASSUME IInv, NEW a \in Station, outbox' = [outbox EXCEPT ![a] = OutboxAfterAck(a)],
           st' \in [Station -> StationRecord], FullIfDiverged(st[a], st'[a])
    PROVE  outbox' \in [Station -> Seq(Entry)] /\ OutboxMatches'
<1>1. CASE st'[a].state = "diverged" /\ st'[a] # st[a]
  <2>1. outbox' = [outbox EXCEPT ![a] = Queued(@, "full", st'[a].pending)]
    BY <1>1 DEF OutboxAfterAck
  <2>2. st'[a].pending \in Push \cup {NoPush} /\ st'[a].pending.kind = "full"
    BY <1>1 DEF FullIfDiverged, StationRecord
  <2>. QED  BY <2>1, <2>2, QueuedFacts
<1>2. CASE ~(st'[a].state = "diverged" /\ st'[a] # st[a])
  <2>1. outbox' = [outbox EXCEPT ![a] = outbox[a]] /\ outbox \in [Station -> Seq(Entry)]
    BY <1>2 DEF OutboxAfterAck, IInv, TypeOK
  <2>2. outbox' = outbox
    BY <2>1
  <2>. QED  BY <2>1, <2>2 DEF IInv, OutboxMatches
<1>. QED  BY <1>1, <1>2

\* The CRC that confirms a push is one its station's KrakenSDR really had.
LEMMA ConfirmedHeld ==
    ASSUME IInv, NEW a \in Station, st[a].pending # NoPush, NEW c, CrcHeld(a, c),
           Confirms(st[a].pending, c)
    PROVE  WasHeld(a, st[a].pending.settings)
<1>1. st[a].pending \in Push /\ Sound(st[a].pending)
  BY DEF IInv, TypeOK, StationRecord, PendingSound
<1>2. c = Crc(st[a].pending.settings) /\ c # NoCrc
  BY <1>1, ConfigAssumption DEF Confirms, Sound, Push
<1>. QED  BY <1>2 DEF WasHeld, CrcHeld

\* An ACK judged against a pending push: confirmed, or a mismatch.
LEMMA JudgedFacts ==
    ASSUME IInv, NEW a \in Station, st[a].pending # NoPush, NEW c, CrcHeld(a, c),
           st' = [st EXCEPT ![a] = AckStation(@, c, FALSE)],
           mirror' = [mirror EXCEPT ![a] = AckMirror(st[a], @, c, FALSE)],
           held' = held
    PROVE  /\ st' \in [Station -> StationRecord] /\ PendingSound'
           /\ FullIfDiverged(st[a], st'[a])
           /\ mirror' \in [Station -> Mirror \cup {NoMirror}] /\ MirrorWasHeld'
<1> DEFINE t == AckStation(st[a], c, FALSE)
           m == AckMirror(st[a], mirror[a], c, FALSE)
<1>0. /\ st \in [Station -> StationRecord] /\ RecordOK(st[a]) /\ mirror[a] \in Mirror
      /\ mirror \in [Station -> Mirror \cup {NoMirror}] /\ st[a].pending \in Push
      /\ mirror[a] # NoMirror
  BY RecordsOK, NoValueAssumption DEF IInv, TypeOK, StationRecord
<1>1. RecordOK(t) /\ FullIfDiverged(st[a], t)
  BY <1>0, AckFacts
<1>2. /\ m \in Mirror /\ WasHeld(a, m.settings)
      /\ m.previous # NoSettings => WasHeld(a, m.previous)
  <2>1. /\ WasHeld(a, mirror[a].settings)
        /\ mirror[a].previous # NoSettings => WasHeld(a, mirror[a].previous)
    BY <1>0 DEF IInv, MirrorWasHeld
  <2>2. CASE Confirms(st[a].pending, c)
    <3>1. m = Accepted(mirror[a], st[a].pending.settings, st[a].pending.version)
      BY <2>2 DEF AckMirror
    <3>2. WasHeld(a, st[a].pending.settings)
      BY <2>2, ConfirmedHeld
    <3>3. /\ st[a].pending.settings \in Settings /\ st[a].pending.version \in Version
          /\ mirror[a].settings \in Settings /\ mirror[a].version \in Version
      BY <1>0 DEF Mirror, Push
    <3> HIDE DEF m
    <3>4. /\ m.settings = st[a].pending.settings /\ m.previous = mirror[a].settings
          /\ m \in Mirror
      BY <3>1, <3>3 DEF Accepted, Mirror
    <3>. QED  BY <2>1, <3>2, <3>4
  <2>3. CASE ~Confirms(st[a].pending, c)
    <3>1. m = mirror[a]
      BY <2>3 DEF AckMirror
    <3>. QED  BY <1>0, <2>1, <3>1
  <2>. QED  BY <2>2, <2>3
<1>3. st' = [st EXCEPT ![a] = t] /\ mirror' = [mirror EXCEPT ![a] = m]
  OBVIOUS
<1> HIDE DEF t, m
<1>4. m # NoMirror
  BY <1>2, NoValueAssumption
<1>5. PendingSound'
  <2>1. ASSUME NEW b \in Station, st'[b].pending # NoPush
        PROVE  mirror'[b] # NoMirror /\ Sound(st'[b].pending)
    <3>1. CASE b = a
      BY <1>0, <1>1, <1>3, <1>4, <2>1, <3>1 DEF RecordOK
    <3>2. CASE b # a
      BY <1>0, <1>3, <2>1, <3>2 DEF IInv, PendingSound
    <3>. QED  BY <3>1, <3>2
  <2>. QED  BY <2>1 DEF PendingSound, Sound, Complete, Crc
<1>6. MirrorWasHeld'
  <2>1. ASSUME NEW b \in Station, mirror'[b] # NoMirror
        PROVE  /\ WasHeld(b, mirror'[b].settings)
               /\ mirror'[b].previous # NoSettings => WasHeld(b, mirror'[b].previous)
    <3>1. CASE b = a
      BY <1>0, <1>2, <1>3, <3>1
    <3>2. CASE b # a
      BY <1>0, <1>3, <2>1, <3>2 DEF IInv, MirrorWasHeld
    <3>. QED  BY <3>1, <3>2
  <2>. QED  BY <2>1 DEF MirrorWasHeld, WasHeld
<1>. QED  BY <1>0, <1>1, <1>2, <1>3, <1>5, <1>6 DEF RecordOK

LEMMA OnAckIInv ==
    ASSUME IInv, NEW a \in Station, OnAck(a)
    PROVE  IInv'
<1> DEFINE ack == Head(up[a])
<1>1. UNCHANGED <<desired, down, stationVars, spent>>
  BY DEF OnAck
<1>2. /\ up' \in [Station -> Seq(Packet)] /\ CrcHeld(a, ack.crc)
      /\ \A b \in Station : \A i \in 1 .. Len(up'[b]) :
            \E j \in 1 .. Len(up[b]) : up'[b][i] = up[b][j]
  <2>1. Arrives(a, "ack")
    BY DEF OnAck
  <2>. QED  BY SMTT(60), <2>1, ArrivalFacts DEF PacketHeld
<1>3. AnswersHeld'
  BY <1>1, <1>2, AnswersSame DEF IInv, stationVars
<1>4. /\ sender \in [Station -> SenderRecord] /\ inflight \in [Station -> Push \cup {NoPush}]
      /\ st \in [Station -> StationRecord] /\ outbox \in [Station -> Seq(Entry)]
      /\ mirror \in [Station -> Mirror \cup {NoMirror}] /\ running \in BOOLEAN
  BY DEF IInv, TypeOK
<1>5. /\ sender' \in [Station -> SenderRecord] /\ inflight' \in [Station -> Push \cup {NoPush}]
      /\ InflightIsSent' /\ st' \in [Station -> StationRecord] /\ PendingSound'
      /\ mirror' \in [Station -> Mirror \cup {NoMirror}] /\ MirrorWasHeld'
      /\ running' \in BOOLEAN /\ outbox' \in [Station -> Seq(Entry)] /\ OutboxMatches'
  <2>1. CASE ~AckMatches(sender[a], ack.seq)
    <3>1. UNCHANGED <<sender, inflight, outbox, st, mirror, running>>
      BY <2>1 DEF OnAck
    <3>. QED
      BY <1>1, <1>4, <3>1 DEF IInv, InflightIsSent, PendingSound, MirrorWasHeld, WasHeld,
         OutboxMatches, stationVars
  <2>2. CASE AckMatches(sender[a], ack.seq)
    <3>1. /\ sender' = [sender EXCEPT ![a] = Completed(@)]
          /\ inflight' = [inflight EXCEPT ![a] = NoPush]
          /\ outbox' = [outbox EXCEPT ![a] = OutboxAfterAck(a)]
      BY <2>2 DEF OnAck
    <3>2. Completed(sender[a]) \in SenderRecord
      BY <1>4, SeqModAssumption DEF Completed, SenderRecord, NextSeq, SeqNo
    <3>3. sender' \in [Station -> SenderRecord] /\ inflight' \in [Station -> Push \cup {NoPush}]
      BY <1>4, <3>1, <3>2
    <3>4. InflightIsSent'
      BY <1>4, <3>1 DEF IInv, InflightIsSent, Busy
    <3>5. /\ st' \in [Station -> StationRecord] /\ PendingSound'
          /\ FullIfDiverged(st[a], st'[a])
          /\ mirror' \in [Station -> Mirror \cup {NoMirror}] /\ MirrorWasHeld'
          /\ running' \in BOOLEAN
      <4>1. CASE inflight[a] = NoPush
        <5>1. UNCHANGED <<st, mirror, running>>
          BY <2>2, <4>1 DEF OnAck
        <5>. QED
          BY <1>1, <1>4, <5>1 DEF IInv, PendingSound, MirrorWasHeld, WasHeld, FullIfDiverged,
             stationVars
      <4>2. CASE inflight[a] # NoPush /\ st[a].pending = NoPush
        <5>1. Observe(a, ack.crc) /\ mirror' = mirror
          BY <2>2, <4>2 DEF OnAck
        <5>2. MirrorWasHeld'
          BY <1>1, <5>1 DEF IInv, MirrorWasHeld, WasHeld, stationVars
        <5>. QED  BY <1>4, <5>1, <5>2, ObserveFacts
      <4>3. CASE inflight[a] # NoPush /\ st[a].pending # NoPush
        <5>1. /\ st' = [st EXCEPT ![a] = AckStation(@, ack.crc, FALSE)]
              /\ mirror' = [mirror EXCEPT ![a] = AckMirror(st[a], @, ack.crc, FALSE)]
              /\ running' = running
          BY <2>2, <4>3 DEF OnAck
        <5>2. held' = held
          BY <1>1 DEF stationVars
        <5> HIDE DEF ack
        <5>. QED  BY <1>2, <1>4, <4>3, <5>1, <5>2, JudgedFacts
      <4>. QED  BY <4>1, <4>2, <4>3
    <3>6. outbox' \in [Station -> Seq(Entry)] /\ OutboxMatches'
      BY <3>1, <3>5, AfterAckFacts
    <3>. QED  BY <3>3, <3>4, <3>5, <3>6
  <2>. QED  BY <2>1, <2>2
<1>6. TypeOK'
  BY <1>1, <1>2, <1>5 DEF IInv, TypeOK, stationVars
<1>. QED  BY <1>1, <1>3, <1>5, <1>6, Untouched DEF IInv, stationVars

LEMMA OnReportIInv ==
    ASSUME IInv, NEW a \in Station, OnReport(a)
    PROVE  IInv'
<1> DEFINE s == Head(up[a]).settings
           m == IF mirror[a] = NoMirror THEN Seeded(s)
                ELSE Accepted(mirror[a], s, mirror[a].version)
<1>1. /\ UNCHANGED <<sender, outbox, inflight, desired, running, down, stationVars, spent>>
      /\ mirror' = [mirror EXCEPT ![a] = m] /\ st' = [st EXCEPT ![a] = Reported(@)]
  BY DEF OnReport
<1>2. /\ up' \in [Station -> Seq(Packet)] /\ s \in Settings /\ WasHeld(a, s)
      /\ \A b \in Station : \A i \in 1 .. Len(up'[b]) :
            \E j \in 1 .. Len(up[b]) : up'[b][i] = up[b][j]
  <2>1. Arrives(a, "report")
    BY DEF OnReport
  <2>. QED  BY <2>1, ArrivalFacts, PacketFacts DEF PacketHeld
<1>3. AnswersHeld'
  BY <1>1, <1>2, AnswersSame DEF IInv, stationVars
<1>4. /\ mirror \in [Station -> Mirror \cup {NoMirror}] /\ st \in [Station -> StationRecord]
  BY DEF IInv, TypeOK
<1> HIDE DEF s
<1>5. /\ m \in Mirror /\ WasHeld(a, m.settings)
      /\ m.previous # NoSettings => WasHeld(a, m.previous)
  <2>1. CASE mirror[a] = NoMirror
    BY <1>2, <2>1, VersionFacts DEF Seeded, Mirror
  <2>2. CASE mirror[a] # NoMirror
    <3>1. mirror[a] \in Mirror /\ WasHeld(a, mirror[a].settings)
      BY <1>4, <2>2 DEF IInv, MirrorWasHeld
    <3>. QED  BY <1>2, <2>2, <3>1 DEF Accepted, Mirror
  <2>. QED  BY <2>1, <2>2
<1> HIDE DEF m
<1>6. m # NoMirror
  BY <1>5, NoValueAssumption
<1>7. /\ Reported(st[a]) \in StationRecord /\ Reported(st[a]).pending = st[a].pending
  BY <1>4 DEF Reported, StationRecord, ConfigState
<1>8. PendingSound'
  <2>1. ASSUME NEW b \in Station, st'[b].pending # NoPush
        PROVE  mirror'[b] # NoMirror /\ Sound(st'[b].pending)
    <3>1. CASE b = a
      BY <1>1, <1>4, <1>6, <1>7, <2>1, <3>1 DEF IInv, PendingSound
    <3>2. CASE b # a
      BY <1>1, <1>4, <2>1, <3>2 DEF IInv, PendingSound
    <3>. QED  BY <3>1, <3>2
  <2>. QED  BY <2>1 DEF PendingSound, Sound, Complete, Crc
<1>9. MirrorWasHeld'
  <2>1. ASSUME NEW b \in Station, mirror'[b] # NoMirror
        PROVE  /\ WasHeld(b, mirror'[b].settings)
               /\ mirror'[b].previous # NoSettings => WasHeld(b, mirror'[b].previous)
    <3>1. CASE b = a
      BY <1>1, <1>4, <1>5, <3>1
    <3>2. CASE b # a
      BY <1>1, <1>4, <2>1, <3>2 DEF IInv, MirrorWasHeld
    <3>. QED  BY <3>1, <3>2
  <2>. QED  BY <1>1, <2>1 DEF MirrorWasHeld, WasHeld, stationVars
<1>10. TypeOK'
  BY <1>1, <1>2, <1>4, <1>5, <1>7 DEF IInv, TypeOK, stationVars
<1>. QED  BY <1>1, <1>3, <1>8, <1>9, <1>10, Untouched DEF IInv, stationVars

LEMMA MasterRestartIInv ==
    ASSUME IInv, MasterRestart
    PROVE  IInv'
<1>1. UNCHANGED <<mirror, down, up, stationVars>>
  BY DEF MasterRestart
<1>2. ASSUME NEW m PROVE StationInit(m) \in StationRecord /\ StationInit(m).pending = NoPush
  BY DEF StationInit, StationRecord, ConfigState
<1>3. SenderInit \in SenderRecord
  BY SeqModAssumption, MaxAttemptsAssumption DEF SenderInit, SenderRecord, SeqNo
<1>4. /\ sender' \in [Station -> SenderRecord] /\ st' \in [Station -> StationRecord]
      /\ inflight' \in [Station -> Push \cup {NoPush}]
      /\ desired' \in [Station -> Settings \cup {NoSettings}]
  BY <1>2, <1>3 DEF MasterRestart
<1>5. outbox' \in [Station -> Seq(Entry)]
  BY DEF MasterRestart
<1>6. running' \in BOOLEAN /\ spent' \in [BudgetKind -> Nat]
  BY SpendFacts DEF MasterRestart
<1>7. TypeOK'
  BY <1>1, <1>4, <1>5, <1>6 DEF IInv, TypeOK, stationVars
<1>8. OutboxMatches' /\ InflightIsSent'
  BY DEF MasterRestart, OutboxMatches, InflightIsSent
<1>9. PendingSound'
  BY <1>2 DEF MasterRestart, PendingSound
<1>. QED  BY <1>1, <1>7, <1>8, <1>9, Untouched DEF IInv, stationVars

-----------------------------------------------------------------------------
(* The stations *)

\* The first frame a station has on its way.
LEMMA ReachesFacts ==
    ASSUME IInv, NEW b \in Station, NEW type, Reaches(b, type)
    PROVE  Head(down[b]) \in Frame /\ down' \in [Station -> Seq(Frame)]
<1>1. /\ down[b] \in Seq(Frame) /\ down[b] # << >> /\ down' = [down EXCEPT ![b] = Tail(@)]
      /\ down \in [Station -> Seq(Frame)]
  BY DEF Reaches, IInv, TypeOK
<1>2. Tail(down[b]) \in Seq(Frame) /\ Head(down[b]) \in Frame
  BY <1>1, TailFacts
<1>. QED  BY <1>1, <1>2

\* The KrakenSDR comes to hold s.
LEMMA HoldsFacts ==
    ASSUME IInv, NEW b \in Station, NEW s \in Settings, Holds(b, s)
    PROVE  /\ kset' \in [Station -> Settings] /\ held' \in [Station -> SUBSET CrcValue]
           /\ kset'[b] = s /\ \A c \in Station : c # b => kset'[c] = kset[c]
           /\ \A c \in Station : held[c] \subseteq held'[c]
           /\ Complete(s) => Crc(s) \in held'[b]
<1> DEFINE h == IF Complete(s) THEN held[b] \cup {Crc(s)} ELSE held[b]
<1>1. /\ kset \in [Station -> Settings] /\ held \in [Station -> SUBSET CrcValue]
      /\ kset' = [kset EXCEPT ![b] = s] /\ held' = [held EXCEPT ![b] = h]
  BY DEF Holds, IInv, TypeOK
<1>2. h \in SUBSET CrcValue /\ held[b] \subseteq h /\ (Complete(s) => Crc(s) \in h)
  BY <1>1, CrcType
<1> HIDE DEF h
<1>. QED  BY <1>1, <1>2

\* A station's step that keeps the master and only adds to what was held.
LEMMA StationStep ==
    ASSUME IInv, \A c \in Station : held[c] \subseteq held'[c],
           UNCHANGED masterVars, TypeOK', StationHeld', AnswersHeld'
    PROVE  IInv'
<1>1. MirrorWasHeld'
  BY DEF IInv, MirrorWasHeld, WasHeld, masterVars
<1>. QED
  BY <1>1 DEF IInv, PendingSound, OutboxMatches, InflightIsSent, masterVars

\* A packet that is sent says what its station holds or held.
LEMMA AnsweredFacts ==
    ASSUME IInv, NEW b \in Station, NEW packet \in Packet, Answered(b, packet),
           \A c \in Station : held[c] \subseteq held'[c],
           IF packet.type = "report"
           THEN Complete(packet.settings) => Crc(packet.settings) \in held'[b]
           ELSE packet.crc \in held'[b] \cup {NoCrc}
    PROVE  up' \in [Station -> Seq(Packet)] /\ AnswersHeld'
<1>1. /\ up \in [Station -> Seq(Packet)] /\ up[b] \in Seq(Packet)
      /\ up' = [up EXCEPT ![b] = Sent(@, packet)]
  BY DEF Answered, IInv, TypeOK
<1>2. /\ Sent(up[b], packet) \in Seq(Packet)
      /\ \A i \in 1 .. Len(Sent(up[b], packet)) :
            \/ i \in 1 .. Len(up[b]) /\ Sent(up[b], packet)[i] = up[b][i]
            \/ Sent(up[b], packet)[i] = packet
  BY <1>1, SentFacts
<1>3. ASSUME NEW c \in Station, NEW i \in 1 .. Len(up'[c])
      PROVE  \/ \E j \in 1 .. Len(up[c]) : up'[c][i] = up[c][j]
             \/ PacketHeld(c, up[c][i])'
  <2>1. CASE c = b
    <3>1. up'[c] = Sent(up[b], packet)
      BY <1>1, <2>1
    <3>2. CASE up'[c][i] = packet
      BY <2>1, <3>2 DEF PacketHeld, WasHeld, CrcHeld
    <3>. QED  BY <1>2, <2>1, <3>1, <3>2
  <2>2. CASE c # b
    BY <1>1, <2>2
  <2>. QED  BY <2>1, <2>2
<1>4. AnswersHeld'
  BY <1>3, AnswersNext DEF IInv
<1>. QED  BY <1>1, <1>2, <1>4

LEMMA CrcReadFacts ==
    ASSUME IInv, NEW b \in Station, NEW s \in Settings
    PROVE  /\ CrcAfterRead(b, s) \in CrcValue \cup {NoCrc}
           /\ CrcAfterRead(b, s) \in held[b] \cup {NoCrc}
              \/ (Complete(s) /\ CrcAfterRead(b, s) = Crc(s))
BY CrcType DEF CrcAfterRead, IInv, TypeOK, StationHeld, CrcHeld

\* apply_delta() leaves settings and a CRC that were held.
LEMMA ApplyFacts ==
    ASSUME IInv, NEW b \in Station, NEW changes \in Settings, ApplyDelta(b, changes)
    PROVE  /\ kset' \in [Station -> Settings] /\ held' \in [Station -> SUBSET CrcValue]
           /\ crc' \in [Station -> CrcValue \cup {NoCrc}] /\ spent' \in [BudgetKind -> Nat]
           /\ \A c \in Station : held[c] \subseteq held'[c]
           /\ StationHeld'
<1> DEFINE merged == Merged(kset[b], changes)
<1>0. /\ kset \in [Station -> Settings] /\ held \in [Station -> SUBSET CrcValue]
      /\ crc \in [Station -> CrcValue \cup {NoCrc}] /\ spent \in [BudgetKind -> Nat]
      /\ kset[b] \in Settings
  BY DEF IInv, TypeOK
<1>1. merged \in Settings
  BY <1>0, MergedType
<1>2. CASE UNCHANGED <<crc, kset, held, spent>>
  BY <1>0, <1>2 DEF IInv, StationHeld, WasHeld, CrcHeld
<1>3. ASSUME NEW s \in Settings, Holds(b, s), spent' \in [BudgetKind -> Nat],
             \/ crc' = crc
             \/ s = merged /\ crc' = [crc EXCEPT ![b] = CrcAfterRead(b, merged)]
      PROVE  /\ kset' \in [Station -> Settings] /\ held' \in [Station -> SUBSET CrcValue]
             /\ crc' \in [Station -> CrcValue \cup {NoCrc}]
             /\ \A c \in Station : held[c] \subseteq held'[c]
             /\ StationHeld'
  <2> HIDE DEF merged
  <2>1. /\ kset' \in [Station -> Settings] /\ held' \in [Station -> SUBSET CrcValue]
        /\ kset'[b] = s /\ \A c \in Station : c # b => kset'[c] = kset[c]
        /\ \A c \in Station : held[c] \subseteq held'[c]
        /\ Complete(s) => Crc(s) \in held'[b]
    BY <1>3, HoldsFacts
  <2>2. /\ CrcAfterRead(b, merged) \in CrcValue \cup {NoCrc}
        /\ CrcAfterRead(b, merged) \in held[b] \cup {NoCrc}
           \/ (Complete(merged) /\ CrcAfterRead(b, merged) = Crc(merged))
    BY <1>1, CrcReadFacts
  <2>3. crc' \in [Station -> CrcValue \cup {NoCrc}]
    BY <1>0, <1>3, <2>2
  <2>4. ASSUME NEW c \in Station
        PROVE  /\ Complete(kset'[c]) => Crc(kset'[c]) \in held'[c]
               /\ crc'[c] \in held'[c] \cup {NoCrc}
    <3>0. /\ Complete(kset[c]) => Crc(kset[c]) \in held[c]
          /\ crc[c] \in held[c] \cup {NoCrc}
      BY DEF IInv, StationHeld, WasHeld, CrcHeld
    <3>1. CASE c = b
      BY <1>0, <1>3, <2>1, <2>2, <3>0, <3>1
    <3>2. CASE c # b
      BY <1>0, <1>3, <2>1, <3>0, <3>2
    <3>. QED  BY <3>1, <3>2
  <2>5. StationHeld'
    BY <2>4 DEF StationHeld, WasHeld, CrcHeld
  <2>. QED  BY <2>1, <2>3, <2>5
<1>4. CASE Spend("down") /\ Holds(b, kset[b]) /\ crc' = crc
  BY <1>0, <1>3, <1>4, SpendFacts
<1>5. CASE Spend("down") /\ Holds(b, merged) /\ crc' = crc
  BY <1>1, <1>3, <1>5, SpendFacts
<1>6. CASE /\ Holds(b, merged) /\ spent' = spent
           /\ crc' = [crc EXCEPT ![b] = CrcAfterRead(b, merged)]
  BY <1>0, <1>1, <1>3, <1>6
<1>. QED  BY <1>2, <1>4, <1>5, <1>6 DEF ApplyDelta

LEMMA OnParamDeltaIInv ==
    ASSUME IInv, NEW b \in Station, OnParamDelta(b)
    PROVE  IInv'
<1> DEFINE frame == Head(down[b])
           answer == [type |-> "ack", seq |-> frame.seq, crc |-> crc'[b]]
<1>1. Answered(b, answer) /\ UNCHANGED <<masterVars, writable>>
  BY DEF OnParamDelta
<1>2. frame \in Frame /\ down' \in [Station -> Seq(Frame)]
  BY ReachesFacts DEF OnParamDelta
<1>3. frame.seq \in SeqNo /\ frame.changes \in Settings
  BY <1>2 DEF Frame
<1>4. lastSeq' \in [Station -> SeqNo \cup {NoSeq}]
  <2>1. lastSeq' = [lastSeq EXCEPT ![b] = frame.seq] \/ lastSeq' = lastSeq
    BY DEF OnParamDelta
  <2>. QED  BY <1>3, <2>1 DEF IInv, TypeOK
<1>5. /\ kset' \in [Station -> Settings] /\ held' \in [Station -> SUBSET CrcValue]
      /\ crc' \in [Station -> CrcValue \cup {NoCrc}] /\ spent' \in [BudgetKind -> Nat]
      /\ \A c \in Station : held[c] \subseteq held'[c]
      /\ StationHeld'
  <2>1. CASE ApplyDelta(b, frame.changes)
    BY <1>3, <2>1, ApplyFacts
  <2>2. CASE UNCHANGED <<lastSeq, crc, kset, held, spent>>
    BY <2>2 DEF IInv, TypeOK, StationHeld, WasHeld, CrcHeld
  <2>. QED  BY <2>1, <2>2 DEF OnParamDelta
<1>6. answer \in Packet /\ answer.type = "ack" /\ answer.crc = crc'[b]
  BY <1>3, <1>5 DEF Packet
<1>7. crc'[b] \in held'[b] \cup {NoCrc}
  BY <1>5 DEF StationHeld, CrcHeld
<1> HIDE DEF answer
<1>8. up' \in [Station -> Seq(Packet)] /\ AnswersHeld'
  BY <1>1, <1>5, <1>6, <1>7, AnsweredFacts
<1>9. TypeOK'
  BY <1>1, <1>2, <1>4, <1>5, <1>8 DEF IInv, TypeOK, masterVars
<1>. QED  BY <1>1, <1>5, <1>8, <1>9, StationStep

LEMMA OnParamReqIInv ==
    ASSUME IInv, NEW b \in Station, OnParamReq(b)
    PROVE  IInv'
<1>1. UNCHANGED <<masterVars, lastSeq, writable, kset, held>>
  BY DEF OnParamReq
<1>2. down' \in [Station -> Seq(Frame)]
  BY ReachesFacts DEF OnParamReq
<1>3. /\ kset[b] \in Settings /\ (Complete(kset[b]) => Crc(kset[b]) \in held[b])
      /\ crc \in [Station -> CrcValue \cup {NoCrc}] /\ spent \in [BudgetKind -> Nat]
  BY DEF IInv, TypeOK, StationHeld, WasHeld
<1>4. PICK s \in {kset[b], NoChanges} : Answered(b, [type |-> "report", settings |-> s])
  BY DEF OnParamReq
<1>5. NoChanges \in [{} -> Value] /\ {} \in SUBSET Field
  BY DEF NoChanges
<1>6. NoChanges \in Settings /\ ~Complete(NoChanges)
  BY <1>5, ConfigAssumption DEF Settings, Complete
<1>7. s \in Settings /\ (Complete(s) => Crc(s) \in held'[b])
  BY <1>1, <1>3, <1>4, <1>6
<1> DEFINE answer == [type |-> "report", settings |-> s]
<1>8. answer \in Packet /\ answer.type = "report" /\ answer.settings = s
  BY <1>7 DEF Packet
<1> HIDE DEF answer
<1>9. up' \in [Station -> Seq(Packet)] /\ AnswersHeld'
  BY <1>1, <1>4, <1>7, <1>8, AnsweredFacts DEF answer
<1>10. crc' \in [Station -> CrcValue \cup {NoCrc}] /\ spent' \in [BudgetKind -> Nat]
  <2>1. CASE crc' = [crc EXCEPT ![b] = CrcAfterRead(b, kset[b])] /\ spent' = spent
    BY <1>3, <2>1, CrcReadFacts
  <2>2. CASE crc' = crc /\ Spend("down")
    BY <1>3, <2>2, SpendFacts
  <2>. QED  BY <2>1, <2>2 DEF OnParamReq
<1>11. StationHeld'
  <2>1. ASSUME NEW c \in Station
        PROVE  /\ Complete(kset[c]) => Crc(kset[c]) \in held[c]
               /\ crc'[c] \in held[c] \cup {NoCrc}
    <3>1. /\ Complete(kset[c]) => Crc(kset[c]) \in held[c]
          /\ crc[c] \in held[c] \cup {NoCrc}
      BY DEF IInv, StationHeld, WasHeld, CrcHeld
    <3>2. crc'[c] \in {crc[c], CrcAfterRead(c, kset[c])}
      BY <1>3 DEF OnParamReq
    <3>. QED  BY <3>1, <3>2 DEF CrcAfterRead
  <2>. QED  BY <1>1, <2>1 DEF StationHeld, WasHeld, CrcHeld
<1>12. TypeOK'
  BY <1>1, <1>2, <1>9, <1>10 DEF IInv, TypeOK, masterVars
<1>. QED  BY <1>1, <1>9, <1>11, <1>12, StationStep

LEMMA OnParamFullIInv ==
    ASSUME IInv, NEW b \in Station, OnParamFull(b)
    PROVE  IInv'
<1>1. down' \in [Station -> Seq(Frame)] /\ UNCHANGED <<masterVars, up, stationVars, spent>>
  BY ReachesFacts DEF OnParamFull
<1>2. TypeOK'
  BY <1>1 DEF IInv, TypeOK, masterVars, stationVars
<1>. QED  BY <1>1, <1>2, StationStep, Untouched DEF IInv, stationVars

LEMMA SendBearingIInv ==
    ASSUME IInv, NEW b \in Station, SendBearing(b)
    PROVE  IInv'
<1> DEFINE packet == [type |-> "bearing", crc |-> crc[b]]
<1>1. UNCHANGED <<masterVars, down, stationVars, spent>> /\ Answered(b, packet)
  BY DEF SendBearing, Answered, Sent
<1>2. crc[b] \in CrcValue \cup {NoCrc} /\ crc[b] \in held[b] \cup {NoCrc}
  BY DEF IInv, TypeOK, StationHeld, CrcHeld
<1>3. packet \in Packet /\ packet.type = "bearing" /\ packet.crc = crc[b]
  BY <1>2 DEF Packet
<1> HIDE DEF packet
<1>4. held' = held
  BY <1>1 DEF stationVars
<1>5. up' \in [Station -> Seq(Packet)] /\ AnswersHeld'
  BY <1>1, <1>2, <1>3, <1>4, AnsweredFacts
<1>6. TypeOK'
  BY <1>1, <1>5 DEF IInv, TypeOK, masterVars, stationVars
<1>7. StationHeld'
  BY <1>1 DEF IInv, StationHeld, WasHeld, CrcHeld, stationVars
<1>. QED  BY <1>1, <1>4, <1>5, <1>6, <1>7, StationStep

LEMMA LocalChangeIInv ==
    ASSUME IInv, NEW b \in Station, LocalChange(b)
    PROVE  IInv'
<1>1. /\ spent' \in [BudgetKind -> Nat]
      /\ UNCHANGED <<masterVars, down, up, lastSeq, writable, crc>>
  BY SpendFacts DEF LocalChange
<1>2. PICK f \in Field, v \in Value : Holds(b, [kset[b] EXCEPT ![f] = v])
  BY DEF LocalChange
<1> DEFINE s == [kset[b] EXCEPT ![f] = v]
<1>3. s \in Settings
  <2>1. PICK S \in SUBSET Field : kset[b] \in [S -> Value]
    BY DEF IInv, TypeOK, Settings
  <2>2. s \in [S -> Value]
    BY <2>1
  <2>. QED  BY <2>2 DEF Settings
<1> HIDE DEF s
<1>4. /\ kset' \in [Station -> Settings] /\ held' \in [Station -> SUBSET CrcValue]
      /\ kset'[b] = s /\ \A c \in Station : c # b => kset'[c] = kset[c]
      /\ \A c \in Station : held[c] \subseteq held'[c]
      /\ Complete(s) => Crc(s) \in held'[b]
  BY <1>2, <1>3, HoldsFacts DEF s
<1>5. TypeOK'
  BY <1>1, <1>4 DEF IInv, TypeOK, masterVars
<1>6. StationHeld'
  <2>1. ASSUME NEW c \in Station
        PROVE  /\ Complete(kset'[c]) => Crc(kset'[c]) \in held'[c]
               /\ crc'[c] \in held'[c] \cup {NoCrc}
    <3>1. /\ Complete(kset[c]) => Crc(kset[c]) \in held[c]
          /\ crc[c] \in held[c] \cup {NoCrc}
      BY DEF IInv, StationHeld, WasHeld, CrcHeld
    <3>. QED  BY <1>1, <1>4, <3>1
  <2>. QED  BY <2>1 DEF StationHeld, WasHeld, CrcHeld
<1>7. AnswersHeld'
  BY <1>1, <1>4, AnswersNext DEF IInv
<1>. QED  BY <1>1, <1>4, <1>5, <1>6, <1>7, StationStep

LEMMA StationRestartIInv ==
    ASSUME IInv, NEW b \in Station, StationRestart(b)
    PROVE  IInv'
<1>1. /\ spent' \in [BudgetKind -> Nat] /\ UNCHANGED <<masterVars, down, up, kset, held>>
      /\ lastSeq' = [lastSeq EXCEPT ![b] = NoSeq]
  BY SpendFacts DEF StationRestart
<1>2. PICK c \in {IF Complete(kset[b]) THEN Crc(kset[b]) ELSE NoCrc, NoCrc} :
          crc' = [crc EXCEPT ![b] = c]
  BY DEF StationRestart
<1>3. c \in CrcValue \cup {NoCrc} /\ c \in held[b] \cup {NoCrc}
  BY <1>2, CrcType DEF IInv, TypeOK, StationHeld, WasHeld
<1>4. writable' \in [Station -> BOOLEAN]
  <2>1. \E w \in BOOLEAN : writable' = [writable EXCEPT ![b] = w]
    BY DEF StationRestart
  <2>2. writable \in [Station -> BOOLEAN]
    BY DEF IInv, TypeOK
  <2>. QED  BY <2>1, <2>2
<1>5. crc' \in [Station -> CrcValue \cup {NoCrc}] /\ lastSeq' \in [Station -> SeqNo \cup {NoSeq}]
  BY <1>1, <1>2, <1>3 DEF IInv, TypeOK
<1>6. TypeOK'
  BY <1>1, <1>4, <1>5 DEF IInv, TypeOK, masterVars
<1>7. StationHeld'
  <2>1. crc \in [Station -> CrcValue \cup {NoCrc}]
    BY DEF IInv, TypeOK
  <2>. QED  BY <1>1, <1>2, <1>3, <2>1 DEF IInv, StationHeld, WasHeld, CrcHeld
<1>8. AnswersHeld'
  BY <1>1 DEF IInv, AnswersHeld, PacketHeld, WasHeld, CrcHeld
<1>. QED  BY <1>1, <1>6, <1>7, <1>8, StationStep

-----------------------------------------------------------------------------
(* What Distributor does to one station, as a relation between its record  *)
(* and entry before (s, m) and after (t, n)                                *)

Pushes(s, m, t, n) ==
    \/ \E wish \in Settings : /\ DeltaPossible(m, wish)
                              /\ t = Prepared(s, DeltaPush(m, wish)) /\ n = m
    \/ FullPossible(m) /\ t = Prepared(s, FullPush(m.settings, m.version)) /\ n = m
    \/ /\ Revertible(m) /\ n = Reverted(m)
       /\ t = IF FullPossible(n) THEN Prepared(s, FullPush(n.settings, n.version)) ELSE s
Reads(s, m, t, n) ==
    \E r \in Settings : /\ t = Reported(s)
                        /\ n = IF m = NoMirror THEN Seeded(r) ELSE Accepted(m, r, m.version)
Acks(s, m, t, n) ==
    /\ s.pending # NoPush
    /\ \E c \in CrcValue \cup {NoCrc}, fails \in BOOLEAN :
          t = AckStation(s, c, fails) /\ n = AckMirror(s, m, c, fails)
Observes(s, m, t, n) ==
    /\ ~BearingRaises(s, m) /\ n = m
    /\ \E c \in CrcValue \cup {NoCrc} : t = BearingStation(s, m, c)
Restarts(s, m, t, n) == t = StationInit(m) /\ n = m

Moves(s, m, t, n) == \/ Pushes(s, m, t, n) \/ Reads(s, m, t, n) \/ Acks(s, m, t, n)
                     \/ Observes(s, m, t, n) \/ Restarts(s, m, t, n)

\* The operators of the instance are those of this module.
LEMMA SameSettings ==
    ASSUME NEW b \in Station
    PROVE  /\ Dist(b)!Settings = Settings
           /\ Dist(b)!Observed = CrcValue \cup {NoCrc}
           /\ Dist(b)!Mirror = Mirror
           /\ \A s : Dist(b)!Crc(s) = Crc(s) /\ (Dist(b)!Complete(s) <=> Complete(s))
<1>1. \A s, S : Dist(b)!Restrict(s, S) = Restrict(s, S)
  BY DEF Dist!Restrict, Restrict
<1>2. Dist(b)!Settings = Settings /\ Dist(b)!CrcValue = CrcValue
  BY DEF Dist!Settings, Settings, Dist!CrcValue, CrcValue
<1>3. \A s : Dist(b)!Crc(s) = Crc(s) /\ (Dist(b)!Complete(s) <=> Complete(s))
  BY <1>1 DEF Dist!Crc, Crc, Dist!Complete, Complete
<1>4. Dist(b)!Mirror = Mirror
  BY <1>2 DEF Dist!Mirror, Mirror, Dist!Version, Version
<1>. QED  BY <1>2, <1>3, <1>4 DEF Dist!Observed

LEMMA SamePushes ==
    ASSUME NEW b \in Station
    PROVE  /\ \A m, wish : /\ Dist(b)!DeltaPossible(m, wish) <=> DeltaPossible(m, wish)
                           /\ Dist(b)!DeltaPush(m, wish) = DeltaPush(m, wish)
           /\ \A s, v : Dist(b)!FullPush(s, v) = FullPush(s, v)
           /\ \A m : Dist(b)!FullPossible(m) <=> FullPossible(m)
<1>1. \A s, S : Dist(b)!Restrict(s, S) = Restrict(s, S)
  BY DEF Dist!Restrict, Restrict
<1>2. \A m, wish : Dist(b)!Changes(m, wish) = Changes(m, wish)
  BY <1>1 DEF Dist!Changes, Changes
<1>3. \A s, r : Dist(b)!Merged(s, r) = Merged(s, r)
  BY DEF Dist!Merged, Merged
<1>4. \A v : Dist(b)!NextVersion(v) = NextVersion(v)
  BY DEF Dist!NextVersion, NextVersion
<1>5. \A m, wish : /\ Dist(b)!DeltaPossible(m, wish) <=> DeltaPossible(m, wish)
                   /\ Dist(b)!DeltaPush(m, wish) = DeltaPush(m, wish)
  BY <1>2, <1>3, <1>4, SameSettings
  DEF Dist!DeltaPossible, DeltaPossible, Dist!DeltaPush, DeltaPush
<1>6. \A s, v : Dist(b)!FullPush(s, v) = FullPush(s, v)
  BY <1>1, SameSettings DEF Dist!FullPush, FullPush
<1>7. \A m : Dist(b)!FullPossible(m) <=> FullPossible(m)
  BY SameSettings DEF Dist!FullPossible, FullPossible
<1>. QED  BY <1>5, <1>6, <1>7

LEMMA SameRecords ==
    ASSUME NEW b \in Station
    PROVE  /\ \A s, push : Dist(b)!Prepared(s, push) = Prepared(s, push)
           /\ \A m : /\ Dist(b)!Revertible(m) <=> Revertible(m)
                     /\ Dist(b)!Reverted(m) = Reverted(m)
                     /\ Dist(b)!StationInit(m) = StationInit(m)
           /\ \A s : Dist(b)!Reported(s) = Reported(s) /\ Dist(b)!Seeded(s) = Seeded(s)
           /\ \A m, s, v : Dist(b)!Accepted(m, s, v) = Accepted(m, s, v)
BY DEF Dist!Prepared, Prepared, Dist!Revertible, Revertible, Dist!Reverted, Reverted,
       Dist!StationInit, StationInit, Dist!Reported, Reported, Dist!Seeded, Seeded,
       Dist!Accepted, Accepted

LEMMA SameJudgements ==
    ASSUME NEW b \in Station
    PROVE  /\ \A s, c, fails : Dist(b)!AckStation(s, c, fails) = AckStation(s, c, fails)
           /\ \A s, m, c, fails : Dist(b)!AckMirror(s, m, c, fails) = AckMirror(s, m, c, fails)
           /\ \A s, m : Dist(b)!BearingRaises(s, m) <=> BearingRaises(s, m)
           /\ \A s, m, c : Dist(b)!BearingStation(s, m, c) = BearingStation(s, m, c)
<1>1. \A s, push : Dist(b)!Diverged(s, push) = Diverged(s, push)
  BY DEF Dist!Diverged, Diverged
<1>2. \A s : /\ Dist(b)!Latched(s) = Latched(s) /\ Dist(b)!KrakenDown(s) = KrakenDown(s)
             /\ Dist(b)!Committed(s) = Committed(s) /\ Dist(b)!Verified(s) = Verified(s)
             /\ Dist(b)!AutoPushes(s) <=> AutoPushes(s)
  BY DEF Dist!Latched, Latched, Dist!KrakenDown, KrakenDown, Dist!Committed, Committed,
         Dist!Verified, Verified, Dist!AutoPushes, AutoPushes
<1>3. \A s, r, v : Dist(b)!Mismatched(s, r, v) = Mismatched(s, r, v)
  BY <1>1, <1>2, SamePushes DEF Dist!Mismatched, Mismatched
<1>4. \A push, c : Dist(b)!Confirms(push, c) <=> Confirms(push, c)
  BY DEF Dist!Confirms, Confirms
<1>5. \A s, c, fails : Dist(b)!AckStation(s, c, fails) = AckStation(s, c, fails)
  BY <1>2, <1>3, <1>4 DEF Dist!AckStation, AckStation
<1>6. \A s, m, c, fails : Dist(b)!AckMirror(s, m, c, fails) = AckMirror(s, m, c, fails)
  BY <1>4, SameRecords DEF Dist!AckMirror, AckMirror
<1>7. \A s, m : Dist(b)!BearingRaises(s, m) <=> BearingRaises(s, m)
  BY SameSettings DEF Dist!BearingRaises, BearingRaises
<1>8. \A s, m, c : Dist(b)!BearingStation(s, m, c) = BearingStation(s, m, c)
  BY <1>2, <1>3, SameSettings DEF Dist!BearingStation, BearingStation
<1>. QED  BY <1>5, <1>6, <1>7, <1>8

LEMMA MovesRefine ==
    ASSUME NEW b \in Station, Moves(st[b], mirror[b], st'[b], mirror'[b])
    PROVE  Dist(b)!DistNext
<1>1. CASE Pushes(st[b], mirror[b], st'[b], mirror'[b])
  <2>1. Dist(b)!OperatorPush
    BY <1>1, SameSettings, SamePushes, SameRecords
    DEF Pushes, Dist!OperatorPush, Dist!PrepareDelta, Dist!PrepareFullPush, Dist!Revert
  <2>. QED  BY <2>1 DEF Dist!DistNext
<1>2. CASE Reads(st[b], mirror[b], st'[b], mirror'[b])
  <2>1. Dist(b)!FullRead
    BY <1>2, SameSettings, SameRecords DEF Reads, Dist!FullRead, Dist!FullReport
  <2>. QED  BY <2>1 DEF Dist!DistNext
<1>3. CASE Acks(st[b], mirror[b], st'[b], mirror'[b])
  <2>1. PICK c \in CrcValue \cup {NoCrc}, fails \in BOOLEAN :
            /\ st[b].pending # NoPush
            /\ st'[b] = AckStation(st[b], c, fails)
            /\ mirror'[b] = AckMirror(st[b], mirror[b], c, fails)
    BY <1>3 DEF Acks
  <2>2. Dist(b)!OnAck(c, fails)
    BY <2>1, SameJudgements DEF Dist!OnAck
  <2>. QED  BY <2>2, SameSettings DEF Dist!DistNext
<1>4. CASE Observes(st[b], mirror[b], st'[b], mirror'[b])
  <2>1. PICK c \in CrcValue \cup {NoCrc} :
            /\ ~BearingRaises(st[b], mirror[b]) /\ mirror'[b] = mirror[b]
            /\ st'[b] = BearingStation(st[b], mirror[b], c)
    BY <1>4 DEF Observes
  <2>2. Dist(b)!ObserveBearing(c)
    BY <2>1, SameJudgements DEF Dist!ObserveBearing
  <2>. QED  BY <2>2, SameSettings DEF Dist!DistNext
<1>5. CASE Restarts(st[b], mirror[b], st'[b], mirror'[b])
  <2>1. Dist(b)!Restart
    BY <1>5, SameRecords DEF Restarts, Dist!Restart
  <2>. QED  BY <2>1 DEF Dist!DistNext
<1>. QED  BY <1>1, <1>2, <1>3, <1>4, <1>5 DEF Moves

\* A step changes the records of one station, or of none, or restarts them all.
Kept(b) == st'[b] = st[b] /\ mirror'[b] = mirror[b]
Moved(b) == Kept(b) \/ Moves(st[b], mirror[b], st'[b], mirror'[b])

LEMMA OthersKept ==
    ASSUME IInv, NEW a \in Station, NEW b \in Station, b # a,
           st' = st \/ \E s : st' = [st EXCEPT ![a] = s],
           mirror' = mirror \/ \E m : mirror' = [mirror EXCEPT ![a] = m]
    PROVE  Kept(b)
BY DEF Kept, IInv, TypeOK

LEMMA PushFullMoves ==
    ASSUME IInv, NEW a \in Station, NEW b \in Station, PushFull(a, mirror'[a]),
           mirror' = mirror \/ (Revertible(mirror[a])
                              /\ mirror' = [mirror EXCEPT ![a] = Reverted(@)])
    PROVE  Moved(b)
<1> DEFINE m == mirror'[a]
<1>0. st \in [Station -> StationRecord] /\ mirror \in [Station -> Mirror \cup {NoMirror}]
  BY DEF IInv, TypeOK
<1>1. CASE b # a
  BY <1>1, OthersKept DEF PushFull, Moved
<1>2. CASE b = a
  <2>1. st'[a] = IF FullPossible(m) THEN Prepared(st[a], FullPush(m.settings, m.version))
                 ELSE st[a]
    BY <1>0 DEF PushFull
  <2>2. CASE mirror' = mirror
    BY <1>2, <2>1, <2>2 DEF Moved, Kept, Moves, Pushes
  <2>3. CASE /\ Revertible(mirror[a])
             /\ mirror' = [mirror EXCEPT ![a] = Reverted(@)]
    <3>1. m = Reverted(mirror[a])
      BY <1>0, <2>3
    <3>. QED  BY <1>2, <2>1, <2>3, <3>1 DEF Moved, Moves, Pushes
  <2>. QED  BY <2>2, <2>3
<1>. QED  BY <1>1, <1>2

LEMMA ServiceMoves ==
    ASSUME IInv, NEW a \in Station, NEW b \in Station, Service(a)
    PROVE  Moved(b)
<1>0. st \in [Station -> StationRecord] /\ mirror' = mirror
  BY DEF IInv, TypeOK, Service
<1>1. CASE b # a
  BY <1>0, <1>1, OthersKept DEF Service, Moved
<1>2. CASE b = a /\ ~Authors(a)
  BY <1>0, <1>2 DEF Service, Moved, Kept
<1>3. CASE b = a /\ Authors(a)
  <2> DEFINE push == DeltaPush(mirror[a], desired[a])
             entry == [type |-> "delta", push |-> push]
  <2>1. desired[a] \in Settings /\ DeltaPossible(mirror[a], desired[a])
    BY <1>3 DEF Authors, Authoring, IInv, TypeOK
  <2>2. OutboxAuthored(a) = Append(<< >>, entry)
    BY <1>3 DEF OutboxAuthored, Queued
  <2> HIDE DEF entry
  <2>3. Head(OutboxAuthored(a)) = entry
    <3>1. Append(<< >>, entry) = <<entry>> /\ Head(<<entry>>) = entry
      OBVIOUS
    <3>. QED  BY <2>2, <3>1
  <2>4. Head(OutboxAuthored(a)).push = push
    BY <2>3 DEF entry
  <2>5. st'[a] = Prepared(st[a], push)
    BY <1>0, <1>3, <2>4 DEF Service
  <2>. QED  BY <1>0, <1>3, <2>1, <2>5 DEF Moved, Moves, Pushes
<1>. QED  BY <1>1, <1>2, <1>3

LEMMA ObserveMoves ==
    ASSUME IInv, NEW a \in Station, NEW b \in Station, NEW c \in CrcValue \cup {NoCrc},
           Observe(a, c), mirror' = mirror
    PROVE  Moved(b)
<1>0. st \in [Station -> StationRecord]
  BY DEF IInv, TypeOK
<1>1. CASE b # a
  BY <1>1, OthersKept DEF Observe, Moved
<1>2. CASE b = a /\ BearingRaises(st[a], mirror[a])
  BY <1>2 DEF Observe, Moved, Kept
<1>3. CASE b = a /\ ~BearingRaises(st[a], mirror[a])
  <2>1. st'[a] = BearingStation(st[a], mirror[a], c)
    BY <1>0, <1>3 DEF Observe
  <2>. QED  BY <1>3, <2>1 DEF Moved, Moves, Observes
<1>. QED  BY <1>1, <1>2, <1>3

LEMMA ReceiveMoves ==
    ASSUME IInv, NEW a \in Station, NEW b \in Station, MasterReceive(a)
    PROVE  Moved(b)
<1>0. st \in [Station -> StationRecord] /\ mirror \in [Station -> Mirror \cup {NoMirror}]
  BY DEF IInv, TypeOK
<1>1. CASE OnBearing(a)
  <2>1. Head(up[a]).crc \in CrcValue \cup {NoCrc}
    BY <1>1, ArrivalFacts, PacketFacts DEF OnBearing
  <2>. QED  BY <1>1, <2>1, ObserveMoves DEF OnBearing
<1>2. CASE OnAck(a)
  <2> DEFINE c == Head(up[a]).crc
  <2>1. c \in CrcValue \cup {NoCrc}
    BY <1>2, ArrivalFacts, PacketFacts DEF OnAck
  <2>2. \/ UNCHANGED <<st, mirror>>
        \/ Observe(a, c) /\ mirror' = mirror
        \/ /\ st[a].pending # NoPush
           /\ st' = [st EXCEPT ![a] = AckStation(@, c, FALSE)]
           /\ mirror' = [mirror EXCEPT ![a] = AckMirror(st[a], @, c, FALSE)]
    BY <1>2 DEF OnAck
  <2> HIDE DEF c
  <2>3. CASE UNCHANGED <<st, mirror>>
    BY <2>3 DEF Moved, Kept
  <2>4. CASE Observe(a, c) /\ mirror' = mirror
    BY <2>1, <2>4, ObserveMoves
  <2>5. CASE /\ st[a].pending # NoPush
             /\ st' = [st EXCEPT ![a] = AckStation(@, c, FALSE)]
             /\ mirror' = [mirror EXCEPT ![a] = AckMirror(st[a], @, c, FALSE)]
    <3>1. CASE b # a
      BY <2>5, <3>1, OthersKept DEF Moved
    <3>2. CASE b = a
      <4>1. /\ st'[a] = AckStation(st[a], c, FALSE)
            /\ mirror'[a] = AckMirror(st[a], mirror[a], c, FALSE)
        BY <1>0, <2>5
      <4>. QED  BY <2>1, <2>5, <3>2, <4>1 DEF Moved, Moves, Acks
    <3>. QED  BY <3>1, <3>2
  <2>. QED  BY <2>2, <2>3, <2>4, <2>5
<1>3. CASE OnReport(a)
  <2> DEFINE r == Head(up[a]).settings
             m == IF mirror[a] = NoMirror THEN Seeded(r)
                  ELSE Accepted(mirror[a], r, mirror[a].version)
  <2>1. r \in Settings
    BY <1>3, ArrivalFacts, PacketFacts DEF OnReport
  <2>2. st' = [st EXCEPT ![a] = Reported(@)] /\ mirror' = [mirror EXCEPT ![a] = m]
    BY <1>3 DEF OnReport
  <2> HIDE DEF r
  <2>3. CASE b # a
    BY <2>2, <2>3, OthersKept DEF Moved
  <2>4. CASE b = a
    <3>1. st'[a] = Reported(st[a]) /\ mirror'[a] = m
      BY <1>0, <2>2
    <3>. QED  BY <2>1, <2>4, <3>1 DEF Moved, Moves, Reads
  <2>. QED  BY <2>3, <2>4
<1>. QED  BY <1>1, <1>2, <1>3 DEF MasterReceive

LEMMA StepMoves ==
    ASSUME IInv, [Next]_vars, NEW b \in Station
    PROVE  Moved(b)
<1>1. ASSUME UNCHANGED <<st, mirror>> PROVE Moved(b)
  BY <1>1 DEF Moved, Kept
<1>2. ASSUME NEW a \in Station, Edit(a) \/ FullRead(a) \/ Retransmit(a)
      PROVE  Moved(b)
  BY <1>1, <1>2 DEF Edit, FullRead, Retransmit
<1>3. ASSUME NEW a \in Station, PushHeld(a) PROVE Moved(b)
  <2>1. mirror' = mirror /\ PushFull(a, mirror'[a])
    BY <1>3 DEF PushHeld
  <2>. QED  BY <2>1, PushFullMoves
<1>4. ASSUME NEW a \in Station, Revert(a) PROVE Moved(b)
  BY <1>4, PushFullMoves DEF Revert
<1>5. ASSUME NEW a \in Station, StationReceive(a) \/ SendBearing(a) \/ LocalChange(a)
                                \/ StationRestart(a) \/ LoseFrame(a) \/ LoseAnswer(a)
      PROVE  Moved(b)
  <2>1. UNCHANGED masterVars
    BY <1>5 DEF StationReceive, OnParamDelta, OnParamReq, OnParamFull, SendBearing,
                LocalChange, StationRestart, LoseFrame, LoseAnswer
  <2>. QED  BY <1>1, <2>1 DEF masterVars
<1>6. CASE MasterRestart
  BY <1>6 DEF MasterRestart, Moved, Moves, Restarts
<1>7. CASE UNCHANGED vars
  BY <1>1, <1>7 DEF vars, masterVars
<1>. QED
  BY <1>2, <1>3, <1>4, <1>5, <1>6, <1>7, ServiceMoves, ReceiveMoves
  DEF Next, Operator, MasterTick

-----------------------------------------------------------------------------
(* Such a step keeps a station's record coherent, and its latch             *)

\* The state shown fits the rest of the record, for a station with an entry.
Shown(s) ==
    /\ s.state # "unknown"
    /\ s.state = "pending" => s.pending # NoPush
    /\ s.state = "diverged" => /\ s.pending # NoPush /\ s.pending.kind = "full"
                               /\ s.resynced /\ ~s.latched
    /\ s.state = "latched" => s.latched /\ s.pending = NoPush
    /\ s.state = "kraken_down" => s.pending = NoPush

\* And for any (Coherent of Distributor).
CoherentRecord(s, m) == IF m = NoMirror THEN s.state = "unknown" /\ s.pending = NoPush
                                        ELSE Shown(s)

LEMMA ShownMismatched ==
    ASSUME NEW s, RecordOK(s), Shown(s), NEW r \in Settings, NEW v \in Version, Complete(r)
    PROVE  Shown(Mismatched(s, r, v))
<1>1. FullPush(r, v) \in Push /\ FullPush(r, v).kind = "full"
  BY FullPushFacts
<1>2. FullPush(r, v) # NoPush
  BY <1>1, NoValueAssumption
<1>3. CASE s.latched
  BY <1>3 DEF Mismatched, AutoPushes
<1>4. CASE ~s.latched /\ ~s.resynced
  <2>1. Mismatched(s, r, v) = Diverged(s, FullPush(r, v))
    BY <1>4 DEF Mismatched, AutoPushes
  <2>. QED  BY <1>1, <1>2, <1>4, <2>1 DEF Diverged, Shown
<1>5. CASE ~s.latched /\ s.resynced
  <2>1. Mismatched(s, r, v) = Latched(s)
    BY <1>5 DEF Mismatched, AutoPushes
  <2>. QED  BY <2>1 DEF Latched, Shown
<1>. QED  BY <1>3, <1>4, <1>5 DEF RecordOK, StationRecord

LEMMA CoherentMoves ==
    ASSUME NEW s, RecordOK(s), NEW m \in Mirror \cup {NoMirror}, NEW t,
           NEW n \in Mirror \cup {NoMirror}, CoherentRecord(s, m), Moves(s, m, t, n)
    PROVE  CoherentRecord(t, n)
<1>1. CASE Pushes(s, m, t, n)
  <2>1. ASSUME NEW push, push # NoPush PROVE Shown(Prepared(s, push))
    BY <2>1 DEF Prepared, Shown
  <2>2. CASE \E wish \in Settings : /\ DeltaPossible(m, wish)
                                    /\ t = Prepared(s, DeltaPush(m, wish)) /\ n = m
    <3>1. PICK wish \in Settings : /\ DeltaPossible(m, wish)
                                   /\ t = Prepared(s, DeltaPush(m, wish)) /\ n = m
      BY <2>2
    <3>2. m \in Mirror /\ m # NoMirror
      BY <3>1 DEF DeltaPossible
    <3>3. DeltaPush(m, wish) # NoPush
      BY <3>1, <3>2, DeltaPushFacts, NoValueAssumption
    <3>. QED  BY <2>1, <3>1, <3>2, <3>3 DEF CoherentRecord
  <2>3. ASSUME NEW k \in Mirror \cup {NoMirror}, FullPossible(k)
        PROVE  Shown(Prepared(s, FullPush(k.settings, k.version)))
    <3>1. /\ k # NoMirror /\ k.settings \in Settings /\ k.version \in Version
          /\ Complete(k.settings)
      BY <2>3 DEF FullPossible, Mirror
    <3>2. FullPush(k.settings, k.version) # NoPush
      BY <3>1, FullPushFacts, NoValueAssumption
    <3>. QED  BY <2>1, <3>2
  <2>4. CASE FullPossible(m) /\ t = Prepared(s, FullPush(m.settings, m.version)) /\ n = m
    BY <2>3, <2>4 DEF CoherentRecord, FullPossible
  <2>5. CASE /\ Revertible(m) /\ n = Reverted(m)
             /\ t = IF FullPossible(n) THEN Prepared(s, FullPush(n.settings, n.version))
                    ELSE s
    <3>1. m \in Mirror /\ m # NoMirror /\ m.previous \in Settings
      BY <2>5 DEF Revertible, Mirror
    <3>2. Reverted(m) \in Mirror
      BY <3>1, VersionFacts DEF Reverted, Mirror
    <3>3. n # NoMirror
      BY <2>5, <3>2, NoValueAssumption
    <3>. QED  BY <2>3, <2>5, <3>1, <3>3 DEF CoherentRecord
  <2>. QED  BY <1>1, <2>2, <2>4, <2>5 DEF Pushes
<1>2. CASE Reads(s, m, t, n)
  <2>1. PICK r \in Settings : /\ t = Reported(s)
                              /\ n = IF m = NoMirror THEN Seeded(r)
                                     ELSE Accepted(m, r, m.version)
    BY <1>2 DEF Reads
  <2>2. n # NoMirror
    <3>1. CASE m = NoMirror
      <4>1. Seeded(r) \in Mirror
        BY VersionFacts DEF Seeded, Mirror
      <4>. QED  BY <2>1, <3>1, <4>1, NoValueAssumption
    <3>2. CASE m # NoMirror
      <4>1. Accepted(m, r, m.version) \in Mirror
        BY <3>2 DEF Accepted, Mirror
      <4>. QED  BY <2>1, <3>2, <4>1, NoValueAssumption
    <3>. QED  BY <3>1, <3>2
  <2>3. Shown(t)
    BY <2>1 DEF Reported, Shown
  <2>. QED  BY <2>2, <2>3 DEF CoherentRecord
<1>3. CASE Acks(s, m, t, n)
  <2>1. PICK c \in CrcValue \cup {NoCrc}, fails \in BOOLEAN :
            t = AckStation(s, c, fails) /\ n = AckMirror(s, m, c, fails)
    BY <1>3 DEF Acks
  <2>2. /\ s.pending # NoPush /\ m # NoMirror /\ m \in Mirror /\ Shown(s)
        /\ s.pending \in Push /\ Sound(s.pending)
    BY <1>3 DEF Acks, CoherentRecord, RecordOK, StationRecord
  <2>3. n # NoMirror
    <3>1. Accepted(m, s.pending.settings, s.pending.version) \in Mirror
      BY <2>2 DEF Accepted, Mirror, Push
    <3>. QED  BY <2>1, <2>2, <3>1, NoValueAssumption DEF AckMirror
  <2>4. Shown(t)
    <3>1. Shown(KrakenDown(s)) /\ Shown(Committed(s))
      BY DEF Shown, KrakenDown, Committed
    <3>2. Shown(Mismatched(s, s.pending.settings, s.pending.version))
      BY <2>2, ShownMismatched DEF Push, Sound
    <3>. QED  BY <2>1, <3>1, <3>2 DEF AckStation
  <2>. QED  BY <2>3, <2>4 DEF CoherentRecord
<1>4. CASE Observes(s, m, t, n)
  <2>1. PICK c \in CrcValue \cup {NoCrc} : t = BearingStation(s, m, c)
    BY <1>4 DEF Observes
  <2>2. ~BearingRaises(s, m) /\ n = m
    BY <1>4 DEF Observes
  <2>3. CASE m = NoMirror
    BY <2>1, <2>2, <2>3 DEF CoherentRecord, BearingStation
  <2>4. CASE m # NoMirror
    <3>1. Shown(s) /\ m \in Mirror
      BY <2>4 DEF CoherentRecord
    <3>2. Shown(Verified(s))
      BY <3>1 DEF Verified, Shown
    <3>3. s.pending = NoPush => Shown(Mismatched(s, m.settings, m.version))
      BY <2>2, <2>4, <3>1, ShownMismatched DEF BearingRaises, Mirror
    <3>4. \/ t = s \/ t = Verified(s)
          \/ s.pending = NoPush /\ t = Mismatched(s, m.settings, m.version)
      BY <2>1, <2>4 DEF BearingStation
    <3>. QED  BY <2>2, <2>4, <3>1, <3>2, <3>3, <3>4 DEF CoherentRecord
  <2>. QED  BY <2>3, <2>4
<1>5. CASE Restarts(s, m, t, n)
  BY <1>5 DEF Restarts, StationInit, CoherentRecord, Shown
<1>. QED  BY <1>1, <1>2, <1>3, <1>4, <1>5 DEF Moves

LEMMA LatchMoves ==
    ASSUME NEW s, NEW m, NEW t, NEW n, Moves(s, m, t, n), s.latched, ~t.latched
    PROVE  Reads(s, m, t, n) \/ Restarts(s, m, t, n)
<1>1. \A r, v : Mismatched(s, r, v) = s
  BY DEF Mismatched, AutoPushes
<1>2. CASE Pushes(s, m, t, n)
  BY <1>2 DEF Pushes, Prepared
<1>3. CASE Acks(s, m, t, n)
  <2>1. PICK c \in CrcValue \cup {NoCrc}, fails \in BOOLEAN : t = AckStation(s, c, fails)
    BY <1>3 DEF Acks
  <2>2. t \in {KrakenDown(s), Committed(s), s}
    BY <1>1, <2>1 DEF AckStation
  <2>3. KrakenDown(s).latched = s.latched /\ Committed(s).latched = s.latched
    BY DEF KrakenDown, Committed
  <2>. QED  BY <2>2, <2>3
<1>4. CASE Observes(s, m, t, n)
  <2>1. PICK c \in CrcValue \cup {NoCrc} : t = BearingStation(s, m, c)
    BY <1>4 DEF Observes
  <2>. QED  BY <1>1, <2>1 DEF BearingStation, Verified
<1>. QED  BY <1>2, <1>3, <1>4 DEF Moves

-----------------------------------------------------------------------------
(* The theorems *)

LEMMA NextIInv == IInv /\ [Next]_vars => IInv'
<1> SUFFICES ASSUME IInv, [Next]_vars PROVE IInv'
  OBVIOUS
<1>1. CASE Operator
  BY <1>1, EditIInv, FullReadIInv, PushHeldIInv, RevertIInv DEF Operator
<1>2. CASE \E a \in Station : MasterTick(a) \/ MasterReceive(a)
  BY <1>2, RetransmitIInv, ServiceIInv, OnBearingIInv, OnAckIInv, OnReportIInv
  DEF MasterTick, MasterReceive
<1>3. CASE \E b \in Station : StationReceive(b) \/ SendBearing(b) \/ LocalChange(b)
                              \/ StationRestart(b)
  BY <1>3, OnParamDeltaIInv, OnParamReqIInv, OnParamFullIInv, SendBearingIInv,
     LocalChangeIInv, StationRestartIInv
  DEF StationReceive
<1>4. CASE \E a \in Station : LoseFrame(a) \/ LoseAnswer(a)
  BY <1>4, LoseFrameIInv, LoseAnswerIInv
<1>5. CASE MasterRestart
  BY <1>5, MasterRestartIInv
<1>6. CASE UNCHANGED vars
  <2>1. TypeOK'
    BY <1>6 DEF IInv, TypeOK, vars, masterVars, stationVars
  <2>. QED  BY <1>6, <2>1, Untouched DEF IInv, vars, masterVars, stationVars
<1>. QED  BY <1>1, <1>2, <1>3, <1>4, <1>5, <1>6 DEF Next

\* Every queue, record and cached value of master, medium and stations keeps its type.
THEOREM TypeCorrect == Spec => []TypeOK
<1>1. IInv => TypeOK
  BY DEF IInv
<1>. QED  BY <1>1, InitIInv, NextIInv, PTL DEF Spec

\* Whatever is lost, late, abandoned, overheard, restarted or unreadable, the mirror
\* and the snapshot of every station hold a configuration its KrakenSDR really held.
THEOREM MirrorWasHeldHolds == Spec => []MirrorWasHeld
<1>1. IInv => MirrorWasHeld
  BY DEF IInv
<1>. QED  BY <1>1, InitIInv, NextIInv, PTL DEF Spec

\* On every path through the master's handlers, the push remembered as in flight is
\* the one the sender's frame carries, to that station.
THEOREM InflightIsSentHolds == Spec => []InflightIsSent
<1>1. IInv => InflightIsSent
  BY DEF IInv
<1>. QED  BY <1>1, InitIInv, NextIInv, PTL DEF Spec

\* Every station's record and mirror entry only change as Distributor lets them:
\* the queues, the link, the other stations and the restarts are an environment of it.
THEOREM RefinesDistributorHolds == Spec => RefinesDistributor
<1>1. Init => \A a \in Station : Dist(a)!DistInit
  <2> SUFFICES ASSUME Init, NEW a \in Station PROVE Dist(a)!DistInit
    OBVIOUS
  <2>1. mirror[a] \in Mirror \cup {NoMirror}
    BY InitIInv DEF IInv, TypeOK
  <2>2. st[a] = StationInit(mirror[a])
    BY DEF Init
  <2>. QED  BY <2>1, <2>2, SameSettings, SameRecords DEF Dist!DistInit
<1>2. IInv /\ [Next]_vars =>
        [\A a \in Station : [Dist(a)!DistNext]_(Dist(a)!distVars)]_<<st, mirror>>
  <2> SUFFICES ASSUME IInv, [Next]_vars, NEW a \in Station
               PROVE  [Dist(a)!DistNext]_(Dist(a)!distVars)
    OBVIOUS
  <2>1. CASE Kept(a)
    BY <2>1 DEF Kept, Dist!distVars
  <2>2. CASE Moves(st[a], mirror[a], st'[a], mirror'[a])
    BY <2>2, MovesRefine
  <2>. QED  BY <2>1, <2>2, StepMoves DEF Moved
<1>. QED  BY <1>1, <1>2, InitIInv, NextIInv, PTL DEF Spec, RefinesDistributor

\* Hence what the operator is shown of any station agrees with what the master will
\* do with its next ACK or bearing (Coherent of Distributor), however the messages of
\* several stations, the operator and the restarts fall together.
THEOREM CoherentHolds == Spec => [](\A a \in Station : Dist(a)!Coherent)
<1> DEFINE Inv == IInv /\ \A a \in Station : CoherentRecord(st[a], mirror[a])
<1>1. Init => Inv
  <2> SUFFICES ASSUME Init, NEW a \in Station PROVE CoherentRecord(st[a], mirror[a])
    BY InitIInv
  <2>1. st[a] = StationInit(mirror[a])
    BY DEF Init
  <2>. QED  BY <2>1 DEF StationInit, CoherentRecord, Shown
<1>2. Inv /\ [Next]_vars => Inv'
  <2> SUFFICES ASSUME Inv, [Next]_vars, NEW a \in Station
               PROVE  CoherentRecord(st'[a], mirror'[a])
    BY NextIInv DEF CoherentRecord, Shown
  <2>1. RecordOK(st[a]) /\ mirror[a] \in Mirror \cup {NoMirror}
    BY RecordsOK
  <2>2. mirror'[a] \in Mirror \cup {NoMirror}
    BY NextIInv DEF IInv, TypeOK
  <2>3. CASE Kept(a)
    BY <2>3 DEF Kept
  <2>4. CASE Moves(st[a], mirror[a], st'[a], mirror'[a])
    BY <2>1, <2>2, <2>4, CoherentMoves
  <2>. QED  BY <2>3, <2>4, StepMoves DEF Moved
<1>3. Inv => \A a \in Station : Dist(a)!Coherent
  BY DEF CoherentRecord, Shown, Dist!Coherent
<1>. QED  BY <1>1, <1>2, <1>3, PTL DEF Spec

\* And no ACK, bearing, push or other station clears a station's latched divergence:
\* it takes the operator's full read of it, or a restart of the master.
THEOREM LatchNeedsOperatorHolds ==
    ASSUME NEW a \in Station
    PROVE  Spec => Dist(a)!LatchNeedsOperator
<1>1. IInv /\ [Next]_vars =>
        [st[a].latched /\ ~st[a]'.latched => Dist(a)!FullRead \/ Dist(a)!Restart]_(Dist(a)!distVars)
  <2> SUFFICES ASSUME IInv, [Next]_vars, st[a].latched, ~st'[a].latched
               PROVE  Dist(a)!FullRead \/ Dist(a)!Restart
    OBVIOUS
  <2>1. Moves(st[a], mirror[a], st'[a], mirror'[a])
    BY StepMoves DEF Moved, Kept
  <2>2. CASE Reads(st[a], mirror[a], st'[a], mirror'[a])
    BY <2>2, SameSettings, SameRecords DEF Reads, Dist!FullRead, Dist!FullReport
  <2>3. CASE Restarts(st[a], mirror[a], st'[a], mirror'[a])
    BY <2>3, SameRecords DEF Restarts, Dist!Restart
  <2>. QED  BY <2>1, <2>2, <2>3, LatchMoves
<1>. QED  BY <1>1, InitIInv, NextIInv, PTL DEF Spec, Dist!LatchNeedsOperator
=============================================================================
