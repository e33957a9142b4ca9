----------------------------- MODULE Indication -----------------------------
(***************************************************************************)
(* From a station's feed to what the master shows of the station: the      *)
(* supervised feed (Feed), the latest measurement and its age              *)
(* (doa_source.py, pipeline.py), the free-running stream of bearings       *)
(* (agent.py), and the master's loop, which takes the time, receives and   *)
(* judges the staleness of the stream (master.py step, health.py).         *)
(*                                                                         *)
(* A round of the agent takes its time at its start and sends at its end;  *)
(* reading the feed, or `systemctl restart`, may hold it up in between.    *)
(* The master's page is served by threads of their own, which go by the    *)
(* time of its last round, also when the loop has ended with an exception. *)
(***************************************************************************)
EXTENDS Feed

CONSTANTS
    MinInterval,    \* 1 / max_rate_hz
    Heartbeat,      \* heartbeat_s
    MaxAge,         \* max_age_ms
    Threshold,      \* staleness_threshold_s
    MaxBlock,       \* bound: ticks a round of the agent is held up
    MaxHold,        \* bound: ticks between two rounds of the master
    MaxLosses,      \* bound: bearings lost
    MaxRestarts     \* bound: restarts of the agent or the master

ASSUME StreamAssumption ==
    /\ MinInterval \in Nat /\ Heartbeat \in Nat /\ MaxAge \in Nat /\ Threshold \in Nat
    /\ MaxBlock \in Nat /\ MaxHold \in Nat /\ MaxLosses \in Nat /\ MaxRestarts \in Nat

VARIABLES
    \* the station
    csv,        \* the KrakenSDR's file: "empty", "new" or "seen", an emitted line
    age,        \* ticks since the pipeline's measurement was read, or None
    fresh,      \* _last_measurement is not _last_sent
    idle,       \* ticks since the last transmission, or None
    pc,         \* the round: "idle" or, fed and supervised, "send"
    behind,     \* ticks since the round began
    \* the master
    alive,      \* its loop runs
    inbox,      \* the last bearing not yet received: "none", "data" or "no_data"
    lag,        \* ticks since _now_s was set
    heard,      \* last_bearing: "none", "data" or "no_data"
    silent,     \* _now_s - _last_s, or None
    \* ghosts
    waiting, seen,  \* ticks since the data in inbox, in heard, was measured, or None
    losses, restarts

stationVars == <<csv, age, fresh, idle, pc, behind>>
linkVars == <<inbox, waiting>>
masterVars == <<alive, lag, heard, silent, seen>>
allVars == <<vars, stationVars, linkVars, masterVars, losses, restarts>>

AgeCap == MaxAge + MaxBlock + 1
IdleCap == MinInterval + Heartbeat + MaxBlock
SeenCap == MaxAge + MaxBlock + MaxHold + Threshold + MaxHold + 1

IInit ==
    /\ Init
    /\ csv = "empty" /\ age = None /\ fresh = FALSE /\ idle = None
    /\ pc = "idle" /\ behind = 0
    /\ alive = TRUE /\ inbox = "none" /\ waiting = None /\ lag = 0
    /\ heard = "none" /\ silent = None /\ seen = None
    /\ losses = 0 /\ restarts = 0

-----------------------------------------------------------------------------
IFault == Fault /\ UNCHANGED <<stationVars, linkVars, masterVars, losses, restarts>>

\* A working KrakenSDR writes a line, leaves it for the moment, or empties the file.
ITick ==
    /\ pc = "send" => behind < MaxBlock
    /\ alive => lag < MaxHold
    /\ Tick
    /\ csv' \in IF kraken = "up" THEN {csv, "new", "empty"} ELSE {csv}
    /\ age' = Elapsed(age, AgeCap) /\ idle' = Elapsed(idle, IdleCap)
    /\ behind' = IF pc = "send" THEN behind + 1 ELSE 0
    /\ lag' = IF alive THEN lag + 1 ELSE 0
    /\ waiting' = Elapsed(waiting, SeenCap) /\ seen' = Elapsed(seen, SeenCap)
    /\ UNCHANGED <<fresh, pc, alive, inbox, heard, silent, losses, restarts>>

-----------------------------------------------------------------------------
(* The agent's round *)

\* _ingest() and update(): a line with another timestamp is a measurement; the
\* pipeline keeps the one it has when the bearing is out of range.
Ingest ==
    IF wait = 0 /\ Answers /\ csv = "new"
    THEN csv' = "seen" /\ fresh' = TRUE /\ age' \in {0, age}
    ELSE UNCHANGED <<csv, fresh, age>>

Begin ==
    /\ pc = "idle" /\ pc' = "send"
    /\ Round
    /\ Ingest
    /\ UNCHANGED <<idle, behind, linkVars, masterVars, losses, restarts>>

\* Mutation: only a new measurement is sent.
NoHeartbeat == FALSE

HeartbeatDue == idle - behind >= Heartbeat

\* _maybe_stream()
Due == \/ idle = None
       \/ idle - behind >= MinInterval /\ (fresh \/ HeartbeatDue)

\* Mutation: the age of the measurement is not looked at.
NeverStale == age = None

\* build(): the age is that at the start of the round.
Stale == age = None \/ age - behind > MaxAge

Report == IF Stale THEN "no_data" ELSE "data"

\* Nothing of what comes after the master's loop has ended is ever received.
Deliver ==
    IF alive
    THEN inbox' = Report /\ waiting' = IF Stale THEN None ELSE age
    ELSE UNCHANGED linkVars

Send ==
    /\ pc = "send" /\ pc' = "idle" /\ behind' = 0
    /\ IF Due
       THEN /\ idle' = behind /\ fresh' = FALSE
            /\ \/ Deliver /\ UNCHANGED losses
               \/ losses < MaxLosses /\ losses' = losses + 1 /\ UNCHANGED linkVars
       ELSE UNCHANGED <<idle, fresh, linkVars, losses>>
    /\ UNCHANGED <<vars, csv, age, masterVars, restarts>>

-----------------------------------------------------------------------------
(* The master's loop *)

\* Mutation: a round without a bearing leaves the time of the last one.
SinceFrozen == silent

\* snapshot() at _now_s: the time since the last bearing was received.
Since == IF silent = None THEN None ELSE Min2(silent + lag, Threshold + 1)

\* step(): _now_s is set, then what has come is received and recorded.
MasterRound ==
    /\ alive
    /\ lag' = 0
    /\ IF inbox = "none"
       THEN silent' = Since /\ UNCHANGED <<heard, seen>>
       ELSE heard' = inbox /\ silent' = 0 /\ seen' = waiting
    /\ inbox' = "none" /\ waiting' = None
    /\ UNCHANGED <<vars, stationVars, alive, losses, restarts>>

\* An exception ends the loop's thread; the page is served on.
MasterDies ==
    /\ alive /\ alive' = FALSE
    /\ lag' = 0 /\ inbox' = "none" /\ waiting' = None /\ seen' = None
    /\ UNCHANGED <<vars, stationVars, heard, silent, losses, restarts>>

-----------------------------------------------------------------------------
\* The supervisor forgets its record, and the restarts of the outage with it.
AgentRestart ==
    /\ restarts < MaxRestarts /\ restarts' = restarts + 1
    /\ available' = FALSE /\ wait' = 0 /\ delay' = 0
    /\ quiet' = None /\ since' = None /\ attempts' = 0 /\ exhausted' = FALSE
    /\ lives' = IF available THEN 1 ELSE lives + 1
    /\ UNCHANGED <<fired, last>>
    /\ csv' = (IF csv = "seen" THEN "new" ELSE csv)
    /\ age' = None /\ fresh' = FALSE /\ idle' = None /\ pc' = "idle" /\ behind' = 0
    /\ UNCHANGED <<krakenVars, faults, linkVars, masterVars, losses>>

MasterRestart ==
    /\ restarts < MaxRestarts /\ restarts' = restarts + 1
    /\ alive' = TRUE /\ inbox' = "none" /\ waiting' = None /\ lag' = 0
    /\ heard' = "none" /\ silent' = None /\ seen' = None
    /\ UNCHANGED <<vars, stationVars, losses>>

INext ==
    \/ IFault \/ ITick
    \/ Begin \/ Send \/ AgentRestart
    \/ MasterRound \/ MasterDies \/ MasterRestart

ISpec == IInit /\ [][INext]_allVars

\* Time passes, the agent's loop runs and so does the master's unless it has ended.
IFairSpec ==
    /\ ISpec /\ WF_allVars(ITick)
    /\ WF_allVars(Begin) /\ WF_allVars(Send) /\ WF_allVars(MasterRound)

-----------------------------------------------------------------------------
(* Properties *)

\* The colour of the station: HealthEvaluator._state()
Red == silent = None \/ silent > Threshold

StationOK ==
    /\ csv \in {"empty", "new", "seen"} /\ age \in 0 .. AgeCap \cup {None}
    /\ fresh \in BOOLEAN /\ idle \in 0 .. IdleCap \cup {None}
    /\ pc \in {"idle", "send"} /\ behind \in 0 .. MaxBlock

MasterOK ==
    /\ alive \in BOOLEAN
    /\ inbox \in {"none", "data", "no_data"} /\ waiting \in 0 .. SeenCap \cup {None}
    /\ lag \in 0 .. MaxHold
    /\ heard \in {"none", "data", "no_data"} /\ silent \in 0 .. Threshold + 1 \cup {None}
    /\ seen \in 0 .. SeenCap \cup {None}
    /\ losses \in 0 .. MaxLosses /\ restarts \in 0 .. MaxRestarts

StreamTypeOK == TypeOK /\ StationOK /\ MasterOK

\* "A stale value shall never be presented as current" (FR-22.3): while the master's
\* loop runs, a bearing shown as data of a station that is not red was read from the
\* KrakenSDR no longer ago than max_age, the time a round of the agent may be held up,
\* the staleness threshold and two rounds of the master together: one before the
\* bearing is received, one before its silence is noticed.
FreshWhenShown ==
    alive /\ ~Red /\ heard = "data" =>
        seen # None /\ seen <= MaxAge + MaxBlock + MaxHold + Threshold + MaxHold

\* "Absence of data shall be represented explicitly" (FR-22.3): when the KrakenSDR
\* stays stopped or wedged, the station is in the end shown without data, for good,
\* or the master's loop has ended.
DeadFeedShown ==
    <>[](kraken # "up") => <>[](heard = "no_data") \/ <>[]~alive

\* "Bounded recovery (reopen feed, restart DSP)", and "a fault that survives its
\* budget shall be indicated, not silently retried" (FR-5.5): once the faults are
\* over, a KrakenSDR that had stopped works and its feed is back, or the supervisor
\* has given it up and the station is in the end shown without data, for good, or the
\* master's loop has ended.  It is not restarted for ever while it boots, nor left
\* waiting by the source's back-off when it is up again.  Two things it does not say,
\* because they are not so: that a wedged KrakenSDR is recovered (it serves its old
\* file, which counts as a sign of life, so the third case is for good), and that one
\* given up is shown RED (its heartbeats keep it GREEN).  That the wedged one, too, is
\* shown without data is DeadFeedShown.
RecoveredOrIndicated ==
    \/ <>[](kraken = "up" /\ available)
    \/ <>[](kraken = "stopped" /\ exhausted) /\ (<>[](heard = "no_data") \/ <>[]~alive)
    \/ <>[](kraken = "wedged")

\* "With a heartbeat so a live station with no signal still shows as present"
\* (agent.py:5): with or without signal, a live station keeps coming back from red,
\* as long as the master's loop runs.
LiveIsPresent == <>[]alive => []<>~Red

-----------------------------------------------------------------------------
(* The inductive invariant behind FreshWhenShown (FeedProofs). *)

\* Data on its way was fresh when it was sent, since the master's last round.
InboxInv ==
    alive /\ inbox = "data" => waiting # None /\ waiting <= MaxAge + MaxBlock + lag

\* What is shown was fresh when it came, and has aged no more than the silence since.
ShownInv ==
    alive /\ ~Red /\ heard = "data" =>
        seen # None /\ seen <= MaxAge + MaxBlock + MaxHold + silent + lag

StreamInv == IInv /\ StationOK /\ MasterOK /\ InboxInv /\ ShownInv
=============================================================================
