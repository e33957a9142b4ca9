-------------------------- MODULE ParamDistProofs --------------------------
(***************************************************************************)
(* What the distributor and the mirror guarantee for every set of fields,  *)
(* values and CRC coverage and for every environment: the state shown      *)
(* agrees with the pending push and the flags, the mirror holds only what  *)
(* the station reported, and a divergence episode has one automatic push.  *)
(***************************************************************************)
EXTENDS ParamDist, TLAPS

-----------------------------------------------------------------------------
(* Lemmas about settings and pushes *)

LEMMA VersionFacts ==
    /\ 0 \in Version
    /\ \A v \in Version : NextVersion(v) \in Version
BY VersionModAssumption DEF Version, NextVersion

LEMMA RestrictType ==
    ASSUME NEW s \in Settings, NEW S, S \subseteq DOMAIN s
    PROVE  Restrict(s, S) \in Settings
<1>1. PICK T \in SUBSET Field : s \in [T -> Value]
  BY DEF Settings
<1>2. Restrict(s, S) \in [S -> Value] /\ S \in SUBSET Field
  BY <1>1 DEF Restrict
<1>. QED  BY <1>2 DEF Settings

LEMMA MergedType ==
    ASSUME NEW s \in Settings, NEW t \in Settings
    PROVE  Merged(s, t) \in Settings
<1>1. PICK S \in SUBSET Field : s \in [S -> Value]
  BY DEF Settings
<1>2. PICK T \in SUBSET Field : t \in [T -> Value]
  BY DEF Settings
<1>3. Merged(s, t) \in [S \cup T -> Value] /\ S \cup T \in SUBSET Field
  BY <1>1, <1>2 DEF Merged
<1>. QED  BY <1>3 DEF Settings

LEMMA CrcType ==
    ASSUME NEW s \in Settings, Complete(s)
    PROVE  Crc(s) \in CrcValue
<1>1. PICK S \in SUBSET Field : s \in [S -> Value]
  BY DEF Settings
<1>2. [x \in Covered |-> s[x]] \in [Covered -> Value]
  BY <1>1 DEF Complete
<1>. QED  BY <1>2 DEF Crc, Restrict, CrcValue

LEMMA FullPushFacts ==
    ASSUME NEW s \in Settings, NEW v \in Version, Complete(s)
    PROVE  /\ FullPush(s, v) \in Push
           /\ FullPush(s, v).kind = "full"
           /\ Sound(FullPush(s, v))
<1>1. Crc(s) \in CrcValue
  BY CrcType
<1>2. Restrict(s, DOMAIN s \ InactiveVfo) \in Settings
  BY RestrictType
<1>. QED  BY <1>1, <1>2 DEF FullPush, Push, Sound

LEMMA DeltaPushFacts ==
    ASSUME NEW m \in Mirror, NEW desired \in Settings, DeltaPossible(m, desired)
    PROVE  DeltaPush(m, desired) \in Push /\ Sound(DeltaPush(m, desired))
<1> DEFINE changes == Changes(m, desired)
           merged == Merged(m.settings, changes)
<1>1. changes \in Settings
  BY RestrictType DEF Changes
<1>2. merged \in Settings
  BY <1>1, MergedType DEF Mirror
<1>3. Complete(merged) /\ Crc(merged) \in CrcValue
  BY <1>2, CrcType DEF DeltaPossible
<1>4. NextVersion(m.version) \in Version
  BY VersionFacts DEF Mirror
<1> HIDE DEF changes, merged
<1>5. DeltaPush(m, desired) = [kind |-> "delta", version |-> NextVersion(m.version),
                               crc |-> Crc(merged), settings |-> merged,
                               changes |-> changes]
  BY DEF DeltaPush, changes, merged
<1>. QED  BY <1>1, <1>2, <1>3, <1>4, <1>5 DEF Push, Sound

-----------------------------------------------------------------------------
(* Lemmas about the station record *)

StationType(s) == /\ s.state \in ConfigState
                  /\ s.pending = NoPush \/ s.pending \in Push
                  /\ s.resynced \in BOOLEAN /\ s.latched \in BOOLEAN

\* Coherent, for a station with a baseline.
StationOK(s) ==
    /\ StationType(s)
    /\ s.pending # NoPush => Sound(s.pending)
    /\ s.state # "unknown"
    /\ s.state = "pending" => s.pending # NoPush
    /\ s.state = "diverged" => /\ s.pending # NoPush /\ s.pending.kind = "full"
                               /\ s.resynced /\ ~s.latched
    /\ s.state = "latched" => s.latched /\ s.pending = NoPush
    /\ s.state = "kraken_down" => s.pending = NoPush

\* How autos follows the mark, when the station was not confirmed.
MarkOK(s, t) == /\ s.resynced => t.resynced
                /\ t.state = "diverged" /\ t # s => ~s.resynced /\ t.resynced

LEMMA PreparedFacts ==
    ASSUME NEW s, StationType(s), NEW push \in Push, Sound(push)
    PROVE  StationOK(Prepared(s, push))
BY NoValueAssumption DEF Prepared, StationOK, StationType, ConfigState

LEMMA MismatchedFacts ==
    ASSUME NEW s, StationOK(s), NEW c \in Settings, NEW v \in Version, Complete(c)
    PROVE  /\ StationOK(Mismatched(s, c, v))
           /\ MarkOK(s, Mismatched(s, c, v))
<1>1. CASE s.latched
  <2>1. Mismatched(s, c, v) = s
    BY <1>1 DEF Mismatched, AutoPushes
  <2>. QED  BY <2>1 DEF MarkOK
<1>2. CASE ~s.latched /\ ~s.resynced
  <2>1. /\ FullPush(c, v) \in Push /\ FullPush(c, v).kind = "full"
        /\ Sound(FullPush(c, v))
    BY FullPushFacts
  <2>2. Mismatched(s, c, v) = Diverged(s, FullPush(c, v))
    BY <1>2 DEF Mismatched, AutoPushes
  <2>. QED
    BY <1>2, <2>1, <2>2, NoValueAssumption
    DEF Diverged, StationOK, StationType, MarkOK, ConfigState
<1>3. CASE ~s.latched /\ s.resynced
  <2>1. Mismatched(s, c, v) = Latched(s)
    BY <1>3 DEF Mismatched, AutoPushes
  <2>. QED
    BY <2>1 DEF Latched, StationOK, StationType, MarkOK, ConfigState
<1>. QED  BY <1>1, <1>2, <1>3

-----------------------------------------------------------------------------
(* The invariant *)

LEMMA InitIInv == Init => IInv
BY DEF Init, DistInit, IInv, TypeOK, Coherent, PendingSound, AutoMarked, MirrorWasProven,
       StationInit, ConfigState

\* With a baseline, the invariant says this.
LEMMA KnownStation ==
    ASSUME mirror # NoMirror, IInv
    PROVE  /\ StationOK(st) /\ mirror \in Mirror /\ proven \subseteq Observed
           /\ AutoMarked /\ MirrorWasProven
BY DEF IInv, TypeOK, Coherent, PendingSound, StationOK, StationType

\* A step that leaves a baseline has this to show.
LEMMA KnownStationNext ==
    ASSUME StationOK(st'), mirror' \in Mirror, proven' \subseteq Observed,
           AutoMarked', MirrorWasProven'
    PROVE  IInv'
<1>1. mirror' # NoMirror
  BY NoValueAssumption
<1>2. autos' \in Nat
  BY DEF AutoMarked
<1>. QED
  BY <1>1, <1>2 DEF IInv, TypeOK, Coherent, PendingSound, StationOK, StationType

LEMMA AcceptedFacts ==
    ASSUME NEW m \in Mirror, NEW s \in Settings, NEW v \in Version
    PROVE  /\ Accepted(m, s, v) \in Mirror
           /\ Accepted(m, s, v).settings = s /\ Accepted(m, s, v).previous = m.settings
BY DEF Accepted, Mirror

\* What the ghost of automatic pushes does in a step that follows MarkOK.
LEMMA AutoMarkedNext ==
    ASSUME AutoMarked, NEW confirmed \in BOOLEAN, autos' = AutosAfter(confirmed),
           ~confirmed => MarkOK(st, st')
    PROVE  AutoMarked'
BY DEF AutoMarked, AutosAfter, MarkOK

LEMMA NextIInv == IInv /\ [Next]_vars => IInv'
<1> SUFFICES ASSUME IInv, [Next]_vars PROVE IInv'
  OBVIOUS
<1>1. CASE PrepareDelta /\ UNCHANGED <<proven, autos>>
  <2>1. PICK desired \in Settings :
            /\ DeltaPossible(mirror, desired)
            /\ st' = Prepared(st, DeltaPush(mirror, desired))
            /\ UNCHANGED <<mirror, proven, autos>>
    BY <1>1 DEF PrepareDelta
  <2>2. /\ StationOK(st) /\ mirror \in Mirror /\ proven \subseteq Observed
        /\ AutoMarked /\ MirrorWasProven
    BY <2>1, KnownStation DEF DeltaPossible
  <2>3. StationOK(st')
    BY <2>1, <2>2, DeltaPushFacts, PreparedFacts DEF StationOK
  <2>4. AutoMarked' /\ MirrorWasProven'
    BY <2>1, <2>2 DEF Prepared, AutoMarked, MirrorWasProven, HasProof
  <2>. QED  BY <2>1, <2>2, <2>3, <2>4, KnownStationNext
<1>2. CASE PrepareFullPush /\ UNCHANGED <<proven, autos>>
  <2>1. /\ mirror # NoMirror /\ Complete(mirror.settings)
        /\ st' = Prepared(st, FullPush(mirror.settings, mirror.version))
        /\ UNCHANGED <<mirror, proven, autos>>
    BY <1>2 DEF PrepareFullPush, FullPossible
  <2>2. /\ StationOK(st) /\ mirror \in Mirror /\ proven \subseteq Observed
        /\ AutoMarked /\ MirrorWasProven
    BY <2>1, KnownStation
  <2>3. StationOK(st')
    BY <2>1, <2>2, FullPushFacts, PreparedFacts DEF StationOK, Mirror
  <2>4. AutoMarked' /\ MirrorWasProven'
    BY <2>1, <2>2 DEF Prepared, AutoMarked, MirrorWasProven, HasProof
  <2>. QED  BY <2>1, <2>2, <2>3, <2>4, KnownStationNext
<1>3. CASE Revert /\ UNCHANGED <<proven, autos>>
  <2>1. /\ mirror # NoMirror /\ mirror.previous # NoSettings
        /\ mirror' = Reverted(mirror)
        /\ UNCHANGED <<proven, autos>>
    BY <1>3 DEF Revert, Revertible
  <2>2. /\ StationOK(st) /\ mirror \in Mirror /\ proven \subseteq Observed
        /\ AutoMarked /\ MirrorWasProven
    BY <2>1, KnownStation
  <2>3. /\ mirror' \in Mirror
        /\ mirror'.settings = mirror.previous /\ mirror'.previous = NoSettings
    BY <2>1, <2>2, VersionFacts DEF Reverted, Mirror
  <2>4. \/ st' = st
        \/ /\ FullPossible(mirror')
           /\ st' = Prepared(st, FullPush(mirror'.settings, mirror'.version))
    BY <1>3 DEF Revert
  <2>5. StationOK(st')
    <3>1. CASE st' = st
      BY <2>2, <3>1
    <3>2. CASE FullPossible(mirror')
               /\ st' = Prepared(st, FullPush(mirror'.settings, mirror'.version))
      <4>1. mirror'.settings \in Settings /\ mirror'.version \in Version
        BY <2>3 DEF Mirror
      <4>2. Complete(mirror'.settings)
        BY <3>2 DEF FullPossible
      <4>. QED  BY <2>2, <3>2, <4>1, <4>2, FullPushFacts, PreparedFacts DEF StationOK
    <3>. QED  BY <2>4, <3>1, <3>2
  <2>6. AutoMarked'
    BY <2>1, <2>2, <2>4 DEF Prepared, AutoMarked
  <2>7. MirrorWasProven'
    BY <2>1, <2>2, <2>3 DEF MirrorWasProven, HasProof
  <2>. QED  BY <2>1, <2>2, <2>3, <2>5, <2>6, <2>7, KnownStationNext
<1>4. CASE Report
  <2>1. PICK s \in Settings :
            /\ mirror' = IF mirror = NoMirror THEN Seeded(s)
                         ELSE Accepted(mirror, s, mirror.version)
            /\ st' = Reported(st)
            /\ proven' = proven \cup ProvenBy(s)
            /\ autos' = 0
    BY <1>4 DEF Report, FullReport
  <2>2. /\ StationType(st) /\ (st.pending # NoPush => Sound(st.pending))
        /\ proven \subseteq Observed
    BY DEF IInv, TypeOK, PendingSound, StationType
  <2>3. StationOK(st')
    BY <2>1, <2>2 DEF Reported, StationOK, StationType, ConfigState
  <2>4. proven' \subseteq Observed
    BY <2>1, <2>2, CrcType DEF ProvenBy, Observed
  <2>5. mirror' \in Mirror /\ MirrorWasProven'
    <3>1. CASE mirror = NoMirror
      BY <2>1, <3>1, VersionFacts
      DEF Seeded, Mirror, MirrorWasProven, HasProof, ProvenBy
    <3>2. CASE mirror # NoMirror
      <4>1. mirror \in Mirror /\ MirrorWasProven
        BY <3>2, KnownStation
      <4>2. /\ mirror' \in Mirror /\ mirror'.settings = s
            /\ mirror'.previous = mirror.settings
        BY <2>1, <3>2, <4>1, AcceptedFacts DEF Mirror
      <4>. QED  BY <2>1, <3>2, <4>1, <4>2 DEF MirrorWasProven, HasProof, ProvenBy
    <3>. QED  BY <3>1, <3>2
  <2>. QED  BY <2>1, <2>3, <2>4, <2>5, KnownStationNext DEF AutoMarked
<1>5. CASE Ack
  <2>1. PICK crc \in Observed, down \in BOOLEAN :
            /\ st' = AckStation(st, crc, down)
            /\ mirror' = AckMirror(st, mirror, crc, down)
            /\ proven' = proven \cup {crc}
            /\ autos' = AutosAfter(~down /\ crc = st.pending.crc)
    BY <1>5 DEF Ack, OnAck
  <2>2. st.pending # NoPush /\ mirror # NoMirror
    BY <1>5 DEF Ack, OnAck, IInv, Coherent
  <2>3. /\ StationOK(st) /\ mirror \in Mirror /\ proven \subseteq Observed
        /\ AutoMarked /\ MirrorWasProven
    BY <2>2, KnownStation
  <2>4. /\ st.pending \in Push /\ Sound(st.pending)
        /\ st.pending.settings \in Settings /\ st.pending.version \in Version
        /\ Complete(st.pending.settings)
    BY <2>2, <2>3 DEF StationOK, StationType, Push, Sound
  <2>5. CASE down
    <3>1. st' = KrakenDown(st) /\ mirror' = mirror
      BY <2>1, <2>5 DEF AckStation, AckMirror
    <3>2. StationOK(st') /\ MarkOK(st, st')
      BY <2>3, <3>1 DEF KrakenDown, StationOK, StationType, MarkOK, ConfigState
    <3>3. AutoMarked' /\ MirrorWasProven'
      BY <2>1, <2>3, <2>5, <3>1, <3>2, AutoMarkedNext DEF MirrorWasProven, HasProof
    <3>. QED  BY <2>1, <2>3, <3>1, <3>2, <3>3, KnownStationNext
  <2>6. CASE ~down /\ crc = st.pending.crc
    <3>1. /\ st' = Committed(st)
          /\ mirror' = Accepted(mirror, st.pending.settings, st.pending.version)
      BY <2>1, <2>6 DEF AckStation, AckMirror, Confirms
    <3>2. StationOK(st')
      BY <2>3, <3>1 DEF Committed, StationOK, StationType, ConfigState
    <3>3. /\ mirror' \in Mirror /\ mirror'.settings = st.pending.settings
          /\ mirror'.previous = mirror.settings
      BY <2>3, <2>4, <3>1, AcceptedFacts
    <3>4. MirrorWasProven'
      BY <2>1, <2>2, <2>3, <2>4, <2>6, <3>3 DEF MirrorWasProven, HasProof, Sound
    <3>5. AutoMarked'
      BY <2>1, <2>6 DEF AutosAfter, AutoMarked
    <3>. QED  BY <2>1, <2>3, <3>2, <3>3, <3>4, <3>5, KnownStationNext
  <2>7. CASE ~down /\ crc # st.pending.crc
    <3>1. /\ st' = Mismatched(st, st.pending.settings, st.pending.version)
          /\ mirror' = mirror
      BY <2>1, <2>7 DEF AckStation, AckMirror, Confirms
    <3>2. StationOK(st') /\ MarkOK(st, st')
      BY <2>3, <2>4, <3>1, MismatchedFacts
    <3>3. AutoMarked' /\ MirrorWasProven'
      BY <2>1, <2>3, <2>7, <3>1, <3>2, AutoMarkedNext DEF MirrorWasProven, HasProof
    <3>. QED  BY <2>1, <2>3, <3>1, <3>2, <3>3, KnownStationNext
  <2>. QED  BY <2>5, <2>6, <2>7
<1>6. CASE Bearing
  <2>1. PICK crc \in Observed :
            /\ ObserveBearing(crc)
            /\ proven' = proven \cup {crc}
            /\ autos' = AutosAfter(mirror # NoMirror /\ st.pending = NoPush
                                   /\ crc = Crc(mirror.settings))
    BY <1>6 DEF Bearing
  <2>2. /\ st' = BearingStation(st, mirror, crc) /\ mirror' = mirror
        /\ proven' = proven \cup {crc}
        /\ autos' = AutosAfter(mirror # NoMirror /\ st.pending = NoPush
                               /\ crc = Crc(mirror.settings))
    BY <2>1 DEF ObserveBearing
  <2>3. CASE mirror = NoMirror
    <3>1. /\ st' = [state |-> "unknown", pending |-> st.pending,
                    resynced |-> st.resynced, latched |-> st.latched]
          /\ st.state = "unknown" /\ st.pending = NoPush
      BY <2>2, <2>3 DEF BearingStation, IInv, Coherent
    <3>2. autos' = autos
      BY <2>2, <2>3, <3>1 DEF AutosAfter
    <3>. QED
      BY <2>2, <2>3, <3>1, <3>2
      DEF IInv, TypeOK, Coherent, PendingSound, AutoMarked, MirrorWasProven
  <2>4. CASE mirror # NoMirror
    <3>1. /\ StationOK(st) /\ mirror \in Mirror /\ proven \subseteq Observed
          /\ AutoMarked /\ MirrorWasProven
      BY <2>4, KnownStation
    <3>2. MirrorWasProven' /\ proven' \subseteq Observed
      BY <2>2, <3>1 DEF MirrorWasProven, HasProof
    <3>3. CASE st.pending # NoPush
      <4>1. st' = st
        BY <2>2, <2>4, <3>3 DEF BearingStation
      <4>2. autos' = autos
        BY <2>2, <3>3, <4>1 DEF AutosAfter
      <4>. QED  BY <2>2, <3>1, <3>2, <4>1, <4>2, KnownStationNext DEF AutoMarked
    <3>4. CASE st.pending = NoPush /\ crc = Crc(mirror.settings)
      <4>1. st' = Verified(st)
        BY <2>2, <2>4, <3>4 DEF BearingStation
      <4>2. StationOK(st')
        BY <3>1, <4>1 DEF Verified, StationOK, StationType, ConfigState
      <4>3. AutoMarked'
        BY <2>2, <2>4, <3>4 DEF AutosAfter, AutoMarked
      <4>. QED  BY <2>2, <3>1, <3>2, <4>2, <4>3, KnownStationNext
    <3>5. CASE st.pending = NoPush /\ crc # Crc(mirror.settings)
      <4>1. st' = Mismatched(st, mirror.settings, mirror.version)
        BY <2>2, <2>4, <3>5 DEF BearingStation
      <4>2. Complete(mirror.settings)
        BY <2>1, <2>4, <3>5 DEF ObserveBearing, BearingRaises
      <4>3. StationOK(st') /\ MarkOK(st, st')
        BY <3>1, <4>1, <4>2, MismatchedFacts DEF Mirror
      <4>4. AutoMarked'
        BY <2>2, <3>1, <3>5, <4>3, AutoMarkedNext
      <4>. QED  BY <2>2, <3>1, <3>2, <4>3, <4>4, KnownStationNext
    <3>. QED  BY <3>3, <3>4, <3>5
  <2>. QED  BY <2>3, <2>4
<1>7. CASE Reboot
  <2>1. st' = StationInit(mirror) /\ autos' = 0 /\ UNCHANGED <<mirror, proven>>
    BY <1>7 DEF Reboot, Restart
  <2>. QED
    BY <2>1 DEF StationInit, IInv, TypeOK, Coherent, PendingSound, AutoMarked,
                MirrorWasProven, HasProof, ConfigState
<1>8. CASE UNCHANGED vars
  BY <1>8 DEF vars, IInv, TypeOK, Coherent, PendingSound, AutoMarked, MirrorWasProven,
              HasProof
<1>. QED
  BY <1>1, <1>2, <1>3, <1>4, <1>5, <1>6, <1>7, <1>8 DEF Next, ByOperator, OperatorPush

-----------------------------------------------------------------------------
(* Theorems *)

LEMMA InvariantHolds == Spec => []IInv
BY InitIInv, NextIInv, PTL DEF Spec

\* Every station record, mirror and set of reported CRCs keeps its type.
THEOREM TypeCorrect == Spec => []TypeOK
<1>1. IInv => TypeOK
  BY DEF IInv
<1>. QED  BY <1>1, InvariantHolds, PTL

\* The state shown to the operator never contradicts the pending push and the
\* flags that decide what the next ACK or bearing does.
THEOREM CoherentHolds == Spec => []Coherent
<1>1. IInv => Coherent
  BY DEF IInv
<1>. QED  BY <1>1, InvariantHolds, PTL

\* The mirror and the revert snapshot hold only what the station reported.
THEOREM MirrorWasProvenHolds == Spec => []MirrorWasProven
<1>1. IInv => MirrorWasProven
  BY DEF IInv
<1>. QED  BY <1>1, InvariantHolds, PTL

\* A divergence episode has at most one automatic full push.
THEOREM OneAutoPushHolds == Spec => []OneAutoPush
<1>1. IInv => OneAutoPush
  BY DEF IInv, AutoMarked, OneAutoPush
<1>. QED  BY <1>1, InvariantHolds, PTL

-----------------------------------------------------------------------------
(* ParamDist adds nothing but history to what Distributor does.             *)

LEMMA HistoryOnly == [Next]_vars => [DistNext]_distVars
<1> SUFFICES ASSUME [Next]_vars PROVE [DistNext]_distVars
  OBVIOUS
<1>1. CASE ByOperator \/ Report \/ Reboot
  BY <1>1 DEF ByOperator, Report, Reboot, FullRead, DistNext
<1>2. CASE Ack \/ Bearing
  BY <1>2 DEF Ack, Bearing, DistNext
<1>3. CASE UNCHANGED vars
  BY <1>3 DEF vars, distVars
<1>. QED  BY <1>1, <1>2, <1>3 DEF Next

LEMMA LatchOfDistributor == DistSpec => LatchNeedsOperator
<1>1. ASSUME [DistNext]_distVars, st.latched, ~st'.latched
      PROVE  FullRead \/ Restart
  <2>1. \A c, v : Mismatched(st, c, v) = st
    BY <1>1 DEF Mismatched, AutoPushes
  <2>2. CASE OperatorPush
    BY <1>1, <2>2 DEF OperatorPush, PrepareDelta, PrepareFullPush, Revert, Prepared
  <2>3. CASE \E crc \in Observed, down \in BOOLEAN : OnAck(crc, down)
    <3>1. PICK crc \in Observed, down \in BOOLEAN : st' = AckStation(st, crc, down)
      BY <2>3 DEF OnAck
    <3>2. \/ st' = KrakenDown(st) \/ st' = Committed(st)
          \/ st' = Mismatched(st, st.pending.settings, st.pending.version)
      BY <3>1 DEF AckStation
    <3>3. KrakenDown(st).latched = st.latched /\ Committed(st).latched = st.latched
      BY DEF KrakenDown, Committed
    <3>. QED  BY <1>1, <2>1, <3>2, <3>3
  <2>4. CASE \E crc \in Observed : ObserveBearing(crc)
    <3>1. PICK crc \in Observed : st' = BearingStation(st, mirror, crc)
      BY <2>4 DEF ObserveBearing
    <3>2. \/ st'.latched = st.latched \/ st' = Verified(st)
          \/ st' = Mismatched(st, mirror.settings, mirror.version)
      BY <3>1 DEF BearingStation
    <3>. QED  BY <1>1, <2>1, <3>2 DEF Verified
  <2>5. CASE UNCHANGED distVars
    BY <1>1, <2>5 DEF distVars
  <2>. QED  BY <1>1, <2>2, <2>3, <2>4, <2>5 DEF DistNext
<1>2. [DistNext]_distVars => [st.latched /\ ~st'.latched => FullRead \/ Restart]_distVars
  BY <1>1
<1>. QED  BY <1>2, PTL DEF DistSpec, LatchNeedsOperator

LEMMA ParamDistRefines == Spec => DistSpec
<1>1. Init => DistInit
  BY DEF Init
<1>. QED  BY <1>1, HistoryOnly, PTL DEF Spec, DistSpec

\* A latch survives every ACK, bearing and push; only a full read or a restart
\* clears it.
THEOREM LatchNeedsOperatorHolds == Spec => LatchNeedsOperator
BY LatchOfDistributor, ParamDistRefines
=============================================================================
