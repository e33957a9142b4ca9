----------------------------- MODULE ParamDist ------------------------------
(***************************************************************************)
(* The Distributor of one station against an environment that may do       *)
(* anything: the operator edits, pushes, reverts and reads back at any     *)
(* moment, and ACKs, bearings and reports arrive with any content at any   *)
(* moment, in any order and any number of times.  Two history variables    *)
(* record what the properties are about.                                   *)
(***************************************************************************)
EXTENDS Distributor

VARIABLES
    proven,  \* ghost: the CRCs the station has reported it holds
    autos    \* ghost: automatic full pushes since the station was last
             \* confirmed to hold what was expected, or last read by the operator

vars == <<st, mirror, proven, autos>>

\* Nobody has heard of the station yet.
Init ==
    /\ DistInit
    /\ mirror = NoMirror
    /\ proven = {}
    /\ autos = 0

-----------------------------------------------------------------------------
ByOperator == OperatorPush /\ UNCHANGED <<proven, autos>>

ProvenBy(s) == IF Complete(s) THEN {Crc(s)} ELSE {}

Report ==
    \E s \in Settings :
        /\ FullReport(s)
        /\ proven' = proven \cup ProvenBy(s)
        /\ autos' = 0

\* Only the issue of an automatic push enters or renews the state "diverged".
AutosAfter(confirmed) ==
    IF confirmed THEN 0
    ELSE IF st'.state = "diverged" /\ st' # st THEN autos + 1 ELSE autos

Ack ==
    \E crc \in Observed, down \in BOOLEAN :
        /\ OnAck(crc, down)
        /\ proven' = proven \cup {crc}
        /\ autos' = AutosAfter(~down /\ crc = st.pending.crc)

Bearing ==
    \E crc \in Observed :
        /\ ObserveBearing(crc)
        /\ proven' = proven \cup {crc}
        /\ autos' = AutosAfter(mirror # NoMirror /\ st.pending = NoPush
                               /\ crc = Crc(mirror.settings))

Reboot ==
    /\ Restart
    /\ autos' = 0
    /\ UNCHANGED proven

-----------------------------------------------------------------------------
Next == ByOperator \/ Report \/ Ack \/ Bearing \/ Reboot

Spec == Init /\ [][Next]_vars

-----------------------------------------------------------------------------
(* Properties, besides those of Distributor *)

TypeOK ==
    /\ st.state \in ConfigState
    /\ st.pending = NoPush \/ st.pending \in Push
    /\ st.resynced \in BOOLEAN /\ st.latched \in BOOLEAN
    /\ mirror = NoMirror \/ mirror \in Mirror
    /\ proven \subseteq Observed
    /\ autos \in Nat

\* The mirror, and the snapshot a revert restores, only ever hold what the
\* station itself reported it held, however pushes are overwritten, crossed
\* with the ACKs of others, or reverted (on_ack, "end-to-end content proof").
HasProof(s) == Complete(s) => Crc(s) \in proven
MirrorWasProven ==
    mirror # NoMirror =>
        /\ HasProof(mirror.settings)
        /\ mirror.previous # NoSettings => HasProof(mirror.previous)

\* One divergence episode causes at most one automatic full push, whatever is
\* pushed, latched or observed in between (FR-7.7, FR-8.7).
OneAutoPush == autos <= 1

-----------------------------------------------------------------------------
(* The inductive invariant behind the safety properties (ParamDistProofs).  *)

\* A pending push expects the CRC of the settings it will commit.
PendingSound == st.pending # NoPush => Sound(st.pending)

\* An automatic push leaves its mark until the episode is over.
AutoMarked == autos = 0 \/ (autos = 1 /\ st.resynced)

IInv == TypeOK /\ Coherent /\ PendingSound /\ AutoMarked /\ MirrorWasProven
=============================================================================
