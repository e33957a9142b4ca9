------------------------------ MODULE ParamOps ------------------------------
(***************************************************************************)
(* One station's entry in the master's ParameterDistributor                *)
(* (management_pi/.../param_dist.py) and ConfigMirror (mirror.py), as pure *)
(* operators on the _Station record and the StationMirror record.          *)
(*                                                                         *)
(* A settings dictionary is a function on a subset of Field.  canonical_crc*)
(* is the restriction to the covered fields: two settings have the same    *)
(* CRC exactly when they agree there (CRC-16 collisions are left out), and *)
(* a dictionary that lacks a covered field has none (KeyError).            *)
(***************************************************************************)
EXTENDS Naturals, Functions

CONSTANTS
    Field,       \* the registry's fields
    Value,       \* the values a field may have
    Covered,     \* the fields canonical_crc covers
    InactiveVfo, \* fields of VFO slots at or above active_vfos
    VersionMod,  \* config_version is 0 .. VersionMod-1 (256 in the code)
    NoMirror,    \* the mirror has no entry for the station
    NoSettings,  \* no previous snapshot
    NoPush       \* no pending push

ASSUME FieldAssumption == Covered \subseteq Field /\ InactiveVfo \subseteq Field
ASSUME VersionModAssumption == VersionMod \in Nat \ {0}

Settings == UNION {[S -> Value] : S \in SUBSET Field}
Complete(s) == Covered \subseteq DOMAIN s
Crc(s) == Restrict(s, Covered)
CrcValue == [Covered -> Value]

\* What the mirror keeps of a station (StationMirror), and a push handed to the
\* transport (PendingPush); changes stands for its payload.
Version == 0 .. VersionMod - 1
Mirror == [settings : Settings, version : Version,
           previous : Settings \cup {NoSettings}, previousVersion : Version]
Push == [kind : {"delta", "full"}, version : Version, crc : CrcValue,
         settings : Settings, changes : Settings]

ASSUME NoValueAssumption ==
    NoSettings \notin Settings /\ NoMirror \notin Mirror /\ NoPush \notin Push

ConfigState == {"unknown", "in_sync", "pending", "diverged", "latched", "kraken_down"}

-----------------------------------------------------------------------------
(* mirror.py *)

Seeded(s) == [settings |-> s, version |-> 0,
              previous |-> NoSettings, previousVersion |-> 0]

\* accept(): the settings in force become the previous known-good snapshot.
Accepted(m, s, v) == [settings |-> s, version |-> v,
                      previous |-> m.settings, previousVersion |-> m.version]

\* revert(): the snapshot is used up.
Revertible(m) == m # NoMirror /\ m.previous # NoSettings
Reverted(m) == [settings |-> m.previous, version |-> m.previousVersion,
                previous |-> NoSettings, previousVersion |-> 0]

-----------------------------------------------------------------------------
(* param_dist.py: pushes *)

\* Mutation: "& 0xFF" left out.
NextVersionNoWrap(v) == v + 1

NextVersion(v) == (v + 1) % VersionMod

Changes(m, desired) ==
    Restrict(desired, {f \in DOMAIN desired : f \notin DOMAIN m.settings
                                              \/ desired[f] # m.settings[f]})

Merged(base, changes) ==
    [f \in DOMAIN base \cup DOMAIN changes |->
        IF f \in DOMAIN changes THEN changes[f] ELSE base[f]]

\* prepare_delta() yields a push only for a known station, a real change and a
\* configuration whose CRC can be computed.
DeltaPossible(m, desired) ==
    /\ m # NoMirror
    /\ DOMAIN Changes(m, desired) # {}
    /\ Complete(Merged(m.settings, Changes(m, desired)))

DeltaPush(m, desired) ==
    LET changes == Changes(m, desired)
        merged == Merged(m.settings, changes)
    IN  [kind |-> "delta", version |-> NextVersion(m.version), crc |-> Crc(merged),
         settings |-> merged, changes |-> changes]

\* encode_full() leaves out the inactive VFO slots, the CRC does not.
FullPush(s, v) ==
    [kind |-> "full", version |-> v, crc |-> Crc(s), settings |-> s,
     changes |-> Restrict(s, DOMAIN s \ InactiveVfo)]

FullPossible(m) == m # NoMirror /\ Complete(m.settings)

-----------------------------------------------------------------------------
(* param_dist.py: the station record *)

StationInit(m) == [state |-> IF m = NoMirror THEN "unknown" ELSE "in_sync",
                   pending |-> NoPush, resynced |-> FALSE, latched |-> FALSE]

\* prepare_delta() and prepare_full_push() replace whatever was pending.
Prepared(st, push) == [state |-> "pending", pending |-> push,
                       resynced |-> st.resynced, latched |-> st.latched]

\* on_full_report(): the pending push, if any, stays.
Reported(st) == [state |-> "in_sync", pending |-> st.pending,
                 resynced |-> FALSE, latched |-> FALSE]

\* Mutations: the one automatic push is not remembered; the push that failed
\* outlives the latch.
DivergedUnmarked(st, push) == [state |-> "diverged", pending |-> push,
                               resynced |-> FALSE, latched |-> st.latched]
LatchedKeepsPush(st) == [state |-> "latched", pending |-> st.pending,
                         resynced |-> st.resynced, latched |-> TRUE]

\* _on_mismatch(): the first of an episode starts the automatic full push, the
\* second latches, and a latched station is left as it is.
Diverged(st, push) == [state |-> "diverged", pending |-> push,
                       resynced |-> TRUE, latched |-> st.latched]
Latched(st) == [state |-> "latched", pending |-> NoPush,
                resynced |-> st.resynced, latched |-> TRUE]
AutoPushes(st) == ~st.latched /\ ~st.resynced

Mismatched(st, s, v) ==
    CASE st.latched     -> st
      [] AutoPushes(st) -> Diverged(st, FullPush(s, v))
      [] OTHER          -> Latched(st)

\* Mutations: any ACK commits; a commit clears the latch.
AnyCrcConfirms(push, crc) == TRUE
CommittedUnlatches(st) == [state |-> "in_sync", pending |-> NoPush,
                           resynced |-> FALSE, latched |-> FALSE]

\* on_ack() with a push pending: read-back unavailable, commit, or mismatch.
KrakenDown(st) == [state |-> "kraken_down", pending |-> NoPush,
                   resynced |-> st.resynced, latched |-> st.latched]
Confirms(push, crc) == crc = push.crc
Committed(st) == [state |-> "in_sync", pending |-> NoPush,
                  resynced |-> IF st.pending.kind = "full" THEN FALSE ELSE st.resynced,
                  latched |-> st.latched]

AckStation(st, crc, down) ==
    CASE down                      -> KrakenDown(st)
      [] ~down /\ Confirms(st.pending, crc) -> Committed(st)
      [] OTHER -> Mismatched(st, st.pending.settings, st.pending.version)
AckMirror(st, m, crc, down) ==
    IF ~down /\ Confirms(st.pending, crc)
    THEN Accepted(m, st.pending.settings, st.pending.version)
    ELSE m

\* observe_bearing(), also reached from on_ack() with nothing pending.
Verified(st) == IF st.latched THEN st
                ELSE [state |-> "in_sync", pending |-> st.pending,
                      resynced |-> FALSE, latched |-> FALSE]
BearingStation(st, m, crc) ==
    CASE m = NoMirror -> [state |-> "unknown", pending |-> st.pending,
                          resynced |-> st.resynced, latched |-> st.latched]
      [] m # NoMirror /\ st.pending # NoPush -> st
      [] m # NoMirror /\ st.pending = NoPush /\ crc = Crc(m.settings) -> Verified(st)
      [] OTHER -> Mismatched(st, m.settings, m.version)

\* canonical_crc() of the mirror raises: the mirror holds an incomplete report.
BearingRaises(st, m) == m # NoMirror /\ st.pending = NoPush /\ ~Complete(m.settings)

\* For the invariants: a push expects the CRC of the settings it will commit.
Sound(push) == Complete(push.settings) /\ push.crc = Crc(push.settings)
=============================================================================
