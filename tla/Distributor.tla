---------------------------- MODULE Distributor -----------------------------
(***************************************************************************)
(* The ParameterDistributor's record and the ConfigMirror's entry of one   *)
(* station, and the operations that change them.  ParamDist lets them      *)
(* happen in any order, with any content, any number of times, and adds    *)
(* the history its properties speak of; ConfigPath, with the queues, the   *)
(* medium and the stations around it, is shown to do nothing else to any   *)
(* station's record and entry (its RefinesDistributor).                    *)
(*                                                                         *)
(* Stations share nothing in the two classes but the mirror's file, which  *)
(* is replaced atomically at every mutation, so one station is enough.     *)
(* The mirror is persisted, the _Station record is not.                    *)
(***************************************************************************)
EXTENDS ParamOps

CONSTANT NoCrc  \* the CRC a station reports before it could read its settings

Observed == CrcValue \cup {NoCrc}

VARIABLES
    st,      \* the distributor's _Station record
    mirror   \* the mirror's StationMirror, or NoMirror

distVars == <<st, mirror>>

\* The master starts over whatever mirror file it finds.
DistInit ==
    /\ mirror \in Mirror \cup {NoMirror}
    /\ st = StationInit(mirror)

-----------------------------------------------------------------------------
(* The operator *)

PrepareDelta ==
    \E desired \in Settings :
        /\ DeltaPossible(mirror, desired)
        /\ st' = Prepared(st, DeltaPush(mirror, desired))
        /\ UNCHANGED mirror

PrepareFullPush ==
    /\ FullPossible(mirror)
    /\ st' = Prepared(st, FullPush(mirror.settings, mirror.version))
    /\ UNCHANGED mirror

\* Master.revert(): the mirror goes back first, then the result is pushed.  A
\* snapshot without a CRC is restored and the push of it raises.
Revert ==
    /\ Revertible(mirror)
    /\ mirror' = Reverted(mirror)
    /\ st' = IF FullPossible(mirror')
             THEN Prepared(st, FullPush(mirror'.settings, mirror'.version))
             ELSE st

-----------------------------------------------------------------------------
(* What arrives from the station *)

FullReport(s) ==
    /\ mirror' = IF mirror = NoMirror THEN Seeded(s)
                 ELSE Accepted(mirror, s, mirror.version)
    /\ st' = Reported(st)

OnAck(crc, down) ==
    /\ st.pending # NoPush
    /\ st' = AckStation(st, crc, down)
    /\ mirror' = AckMirror(st, mirror, crc, down)

\* observe_bearing(): from a BEARING, or from an ACK when nothing is pending.
ObserveBearing(crc) ==
    /\ ~BearingRaises(st, mirror)
    /\ st' = BearingStation(st, mirror, crc)
    /\ UNCHANGED mirror

\* The station does not know that the master restarted, the file survives.
Restart ==
    /\ st' = StationInit(mirror)
    /\ UNCHANGED mirror

-----------------------------------------------------------------------------
OperatorPush == PrepareDelta \/ PrepareFullPush \/ Revert
FullRead == \E s \in Settings : FullReport(s)

DistNext ==
    \/ OperatorPush \/ FullRead \/ Restart
    \/ \E crc \in Observed, down \in BOOLEAN : OnAck(crc, down)
    \/ \E crc \in Observed : ObserveBearing(crc)

DistSpec == DistInit /\ [][DistNext]_distVars

-----------------------------------------------------------------------------
(* Properties *)

\* The state the UI shows never contradicts the fields that decide what happens
\* next (_Station): a divergence in progress has its automatic push pending and
\* marked, a latched or down station has nothing pending, an unknown one has no
\* baseline, and the latch is never set before the automatic push was.
Coherent ==
    /\ st.state = "unknown" <=> mirror = NoMirror
    /\ st.state = "unknown" => st.pending = NoPush
    /\ st.state = "pending" => st.pending # NoPush
    /\ st.state = "diverged" => /\ st.pending # NoPush /\ st.pending.kind = "full"
                                /\ st.resynced /\ ~st.latched
    /\ st.state = "latched" => st.latched /\ st.pending = NoPush
    /\ st.state = "kraken_down" => st.pending = NoPush

\* Neither an ACK, a bearing nor a push clears a latched divergence: it takes
\* the operator's full read (or a restart, which forgets it).
LatchNeedsOperator ==
    [][st.latched /\ ~st'.latched => FullRead \/ Restart]_distVars
=============================================================================
