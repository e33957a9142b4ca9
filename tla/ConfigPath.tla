----------------------------- MODULE ConfigPath -----------------------------
(***************************************************************************)
(* The configuration path end to end: the operator's requests, the master  *)
(* (master.py: one StopAndWaitSender, outbox and queued edit per station,  *)
(* over the distributor and the mirror of ParamOps), the DTU medium, and   *)
(* the stations (agent.py, settings_client.py) in front of their KrakenSDR.*)
(*                                                                         *)
(* The master's DTU is heard by every station; a station is heard only by  *)
(* the master.  The medium keeps the order of one transmitter, loses whole *)
(* packets and does not corrupt or duplicate them.  A PARAM_REPORT is one  *)
(* packet here (its fragments are not modelled), and the master's step() is*)
(* taken apart into its handlers, which is how the frames of several ticks *)
(* interleave with the service of several stations.                        *)
(***************************************************************************)
EXTENDS ArqOps, ParamOps, Sequences, FiniteSets

CONSTANTS
    Station,      \* HH-Link addresses
    Known,        \* stations the persisted mirror has an entry for at the start
    ReadOnly,     \* stations whose KrakenSDR offers no write route
    NoCrc,        \* the CRC of a station that has not read its settings yet
    Factory,      \* the settings every KrakenSDR starts with
    Requests,     \* kinds of request the operator makes: a subset of RequestKind
    Budget,       \* bounds: how many requests, losses, local changes, failed
                  \* accesses to the KrakenSDR and restarts happen
    ChanCap,      \* bound: packets in the air in one direction; one more is lost
    Timely        \* TRUE: a timeout is seen only when no frame and no answer is
                  \* still under way; FALSE: packets may be slower than that

RequestKind == {"edit", "read", "push", "revert"}
BudgetKind == {"request", "loss", "local", "down", "restart"}
ASSUME ConfigAssumption ==
    /\ Known \subseteq Station /\ ReadOnly \subseteq Station
    /\ Factory \in Settings /\ Complete(Factory)
    /\ Requests \subseteq RequestKind
    /\ Budget \in [BudgetKind -> Nat]
    /\ ChanCap \in Nat /\ Timely \in BOOLEAN
    /\ NoCrc \notin CrcValue /\ Covered # {}

VARIABLES
    \* the master, by station
    sender,    \* StopAndWaitSender
    outbox,    \* queued (type, push) pairs
    inflight,  \* the push of the frame being sent, NoPush for a request
    desired,   \* the queued edit, NoSettings if none
    st,        \* the distributor's _Station record
    mirror,    \* the persisted StationMirror
    running,   \* the thread that calls step() is alive
    \* the medium
    down,      \* by station: frames on their way to it
    up,        \* by station: packets on their way from it to the master
    \* the stations
    lastSeq,   \* DedupReceiver: last sequence number accepted from the master
    writable,  \* the settings client found a write route when it started
    crc,       \* the settings client's cached CRC
    kset,      \* external: the settings the KrakenSDR holds
    held,      \* ghost: the CRCs of all the settings kset has held
    spent      \* how much of the budget is used

masterVars == <<sender, outbox, inflight, desired, st, mirror, running>>
stationVars == <<lastSeq, writable, crc, kset, held>>
vars == <<masterVars, down, up, stationVars, spent>>

Entry == [type : {"delta", "full", "req"}, push : Push \cup {NoPush}]
Frame == [seq : SeqNo, type : {"delta", "full", "req"}, dest : Station, changes : Settings]
Packet == [type : {"ack"}, seq : SeqNo, crc : CrcValue \cup {NoCrc}]
          \cup [type : {"bearing"}, crc : CrcValue \cup {NoCrc}]
          \cup [type : {"report"}, settings : Settings]
SenderRecord == [seq : SeqNo, pending : Frame \cup {NoFrame}, attempts : 0 .. MaxAttempts]
StationRecord == [state : ConfigState, pending : Push \cup {NoPush},
                  resynced : BOOLEAN, latched : BOOLEAN]
ASSUME NoFrameAssumption == NoFrame \notin Frame

Spend(kind) == /\ spent[kind] < Budget[kind]
               /\ spent' = [spent EXCEPT ![kind] = @ + 1]

NoChanges == [f \in {} |-> 0]

Init ==
    /\ sender = [a \in Station |-> SenderInit]
    /\ outbox = [a \in Station |-> << >>]
    /\ inflight = [a \in Station |-> NoPush]
    /\ desired = [a \in Station |-> NoSettings]
    /\ mirror = [a \in Station |-> IF a \in Known THEN Seeded(Factory) ELSE NoMirror]
    /\ st = [a \in Station |-> StationInit(mirror[a])]
    /\ running = TRUE
    /\ down = [a \in Station |-> << >>]
    /\ up = [a \in Station |-> << >>]
    /\ lastSeq = [a \in Station |-> NoSeq]
    /\ writable = [a \in Station |-> a \notin ReadOnly]
    /\ crc = [a \in Station |-> Crc(Factory)]
    /\ kset = [a \in Station |-> Factory]
    /\ held = [a \in Station |-> {Crc(Factory)}]
    /\ spent = [k \in BudgetKind |-> 0]

-----------------------------------------------------------------------------
(* The medium *)

Sent(chan, packet) == IF Len(chan) < ChanCap THEN Append(chan, packet) ELSE chan
Broadcast(frame) == [b \in Station |-> Sent(down[b], frame)]

LoseFrame(a) ==
    /\ down[a] # << >>
    /\ Spend("loss")
    /\ down' = [down EXCEPT ![a] = Tail(@)]
    /\ UNCHANGED <<masterVars, up, stationVars>>

LoseAnswer(a) ==
    /\ up[a] # << >>
    /\ Spend("loss")
    /\ up' = [up EXCEPT ![a] = Tail(@)]
    /\ UNCHANGED <<masterVars, down, stationVars>>

-----------------------------------------------------------------------------
(* The operator (ui.py; the requests act at once, on the UI's thread) *)

Queued(box, type, push) == Append(box, [type |-> type, push |-> push])

\* queue_delta(): one field; an edit not yet authored is replaced.
Edit(a) ==
    /\ "edit" \in Requests /\ Spend("request")
    /\ \E f \in Field, v \in Value : desired' = [desired EXCEPT ![a] = [x \in {f} |-> v]]
    /\ UNCHANGED <<sender, outbox, inflight, st, mirror, running, down, up, stationVars>>

FullRead(a) ==
    /\ "read" \in Requests /\ Spend("request")
    /\ outbox' = [outbox EXCEPT ![a] = Queued(@, "req", NoPush)]
    /\ UNCHANGED <<sender, inflight, desired, st, mirror, running, down, up, stationVars>>

\* push_full() of the mirror m: nothing without a baseline, an error reported to
\* the browser without a CRC.
PushFull(a, m) ==
    IF FullPossible(m)
    THEN LET push == FullPush(m.settings, m.version)
         IN  /\ st' = [st EXCEPT ![a] = Prepared(@, push)]
             /\ outbox' = [outbox EXCEPT ![a] = Queued(@, "full", push)]
    ELSE UNCHANGED <<st, outbox>>

PushHeld(a) ==
    /\ "push" \in Requests /\ Spend("request")
    /\ PushFull(a, mirror[a])
    /\ UNCHANGED <<sender, inflight, desired, mirror, running, down, up, stationVars>>

\* Mutation: the push is made before the mirror goes back.
RevertPushedFirst(a) ==
    /\ "revert" \in Requests /\ Spend("request")
    /\ Revertible(mirror[a])
    /\ PushFull(a, mirror[a])
    /\ mirror' = [mirror EXCEPT ![a] = Reverted(@)]
    /\ UNCHANGED <<sender, inflight, desired, running, down, up, stationVars>>

Revert(a) ==
    /\ "revert" \in Requests /\ Spend("request")
    /\ Revertible(mirror[a])
    /\ mirror' = [mirror EXCEPT ![a] = Reverted(@)]
    /\ PushFull(a, mirror'[a])
    /\ UNCHANGED <<sender, inflight, desired, running, down, up, stationVars>>

-----------------------------------------------------------------------------
(* The master's loop: _service_arq for one station *)

\* What is still under way for a timeout not to be due.
Answers(a) == {i \in 1 .. Len(up[a]) : up[a][i].type # "bearing"}
TimeoutDue(a) ==
    /\ Busy(sender[a])
    /\ Timely => down[a] = << >> /\ Answers(a) = {}

Retransmit(a) ==
    /\ running /\ TimeoutDue(a) /\ ~Exhausts(sender[a])
    /\ sender' = [sender EXCEPT ![a] = Retried(@)]
    /\ down' = Broadcast(sender[a].pending)
    /\ UNCHANGED <<outbox, inflight, desired, st, mirror, running, up, stationVars, spent>>

\* The outbox after _author_delta: a queued edit is turned into a push against
\* the mirror as it is now, when nothing else waits.
Authoring(a) == desired[a] # NoSettings /\ outbox[a] = << >>
Authors(a) == Authoring(a) /\ DeltaPossible(mirror[a], desired[a])
OutboxAuthored(a) ==
    IF Authors(a) THEN Queued(<< >>, "delta", DeltaPush(mirror[a], desired[a]))
                  ELSE outbox[a]

\* Mutation: the frame is built from the distributor's push, not the entry's.
FrameOfPending(a, entry) ==
    [seq |-> sender[a].seq, type |-> entry.type, dest |-> a,
     changes |-> IF st[a].pending = NoPush THEN NoChanges ELSE st[a].pending.changes]

FrameOf(a, entry) ==
    [seq |-> sender[a].seq, type |-> entry.type, dest |-> a,
     changes |-> IF entry.push = NoPush THEN NoChanges ELSE entry.push.changes]

\* The sender is idle, or gives up now: author, then send the next entry.
Service(a) ==
    LET idle == IF Busy(sender[a]) THEN Abandoned(sender[a]) ELSE sender[a]
        box == OutboxAuthored(a)
    IN  /\ running
        /\ \/ TimeoutDue(a) /\ Exhausts(sender[a])
           \/ ~Busy(sender[a]) /\ (Authoring(a) \/ outbox[a] # << >>)
        /\ desired' = [desired EXCEPT ![a] = IF Authoring(a) THEN NoSettings ELSE @]
        /\ st' = IF Authors(a) THEN [st EXCEPT ![a] = Prepared(@, Head(box).push)] ELSE st
        /\ IF box = << >>
           THEN /\ sender' = [sender EXCEPT ![a] = idle]
                /\ inflight' = [inflight EXCEPT ![a] = NoPush]
                /\ UNCHANGED <<outbox, down>>
           ELSE /\ sender' = [sender EXCEPT ![a] = Started(idle, FrameOf(a, Head(box)))]
                /\ inflight' = [inflight EXCEPT ![a] = Head(box).push]
                /\ outbox' = [outbox EXCEPT ![a] = Tail(box)]
                /\ down' = Broadcast(FrameOf(a, Head(box)))
        /\ UNCHANGED <<mirror, running, up, stationVars, spent>>

-----------------------------------------------------------------------------
(* The master's loop: _receive, one frame *)

Arrives(a, type) ==
    /\ running /\ up[a] # << >> /\ Head(up[a]).type = type
    /\ up' = [up EXCEPT ![a] = Tail(@)]

\* observe_bearing(); an exception ends the thread, nothing catches it.
Observe(a, observed) ==
    IF BearingRaises(st[a], mirror[a])
    THEN running' = FALSE /\ UNCHANGED st
    ELSE /\ st' = [st EXCEPT ![a] = BearingStation(@, mirror[a], observed)]
         /\ UNCHANGED running

\* The automatic push that observe_bearing() returns here is dropped.
OnBearing(a) ==
    /\ Arrives(a, "bearing")
    /\ Observe(a, Head(up[a]).crc)
    /\ UNCHANGED <<sender, outbox, inflight, desired, mirror, down, stationVars, spent>>

\* The outbox after an ACK: an automatic push the distributor has just issued.
OutboxAfterAck(a) ==
    IF st'[a].state = "diverged" /\ st'[a] # st[a]
    THEN Queued(outbox[a], "full", st'[a].pending)
    ELSE outbox[a]

\* _on_ack(): the ACK ends the transaction; its CRC is judged against whatever
\* push is pending now.  make_ack() is never given a status.
OnAck(a) ==
    /\ Arrives(a, "ack")
    /\ LET ack == Head(up[a])
       IN  IF ~AckMatches(sender[a], ack.seq)
           THEN UNCHANGED <<sender, inflight, outbox, st, mirror, running>>
           ELSE /\ sender' = [sender EXCEPT ![a] = Completed(@)]
                /\ inflight' = [inflight EXCEPT ![a] = NoPush]
                /\ CASE inflight[a] = NoPush -> UNCHANGED <<st, mirror, running>>
                     [] inflight[a] # NoPush /\ st[a].pending = NoPush ->
                           Observe(a, ack.crc) /\ UNCHANGED mirror
                     [] OTHER ->
                        /\ st' = [st EXCEPT ![a] = AckStation(@, ack.crc, FALSE)]
                        /\ mirror' = [mirror EXCEPT ![a] =
                                         AckMirror(st[a], @, ack.crc, FALSE)]
                        /\ UNCHANGED running
                /\ outbox' = [outbox EXCEPT ![a] = OutboxAfterAck(a)]
    /\ UNCHANGED <<desired, down, stationVars, spent>>

OnReport(a) ==
    /\ Arrives(a, "report")
    /\ LET s == Head(up[a]).settings
       IN  mirror' = [mirror EXCEPT ![a] = IF @ = NoMirror THEN Seeded(s)
                                           ELSE Accepted(@, s, @.version)]
    /\ st' = [st EXCEPT ![a] = Reported(@)]
    /\ UNCHANGED <<sender, outbox, inflight, desired, running, down, stationVars, spent>>

MasterRestart ==
    /\ Spend("restart")
    /\ sender' = [a \in Station |-> SenderInit]
    /\ outbox' = [a \in Station |-> << >>]
    /\ inflight' = [a \in Station |-> NoPush]
    /\ desired' = [a \in Station |-> NoSettings]
    /\ st' = [a \in Station |-> StationInit(mirror[a])]
    /\ running' = TRUE
    /\ UNCHANGED <<mirror, down, up, stationVars>>

-----------------------------------------------------------------------------
(* A station: _dispatch, one frame *)

Holds(b, s) == /\ kset' = [kset EXCEPT ![b] = s]
               /\ held' = [held EXCEPT ![b] = IF Complete(s) THEN @ \cup {Crc(s)} ELSE @]

CrcAfterRead(b, s) == IF Complete(s) THEN Crc(s) ELSE crc[b]

Reaches(b, type) ==
    /\ down[b] # << >> /\ Head(down[b]).type = type
    /\ down' = [down EXCEPT ![b] = Tail(@)]

Answered(b, packet) == up' = [up EXCEPT ![b] = Sent(@, packet)]

\* apply_delta(): rejected without a write route; otherwise merged, written and
\* read back, unless the KrakenSDR can not be reached before the write or, on an
\* HTTP route, after it: then it holds the change and the cached CRC is stale.
ApplyDelta(b, changes) ==
    LET merged == Merged(kset[b], changes)
    IN  \/ /\ ~writable[b]
           /\ UNCHANGED <<crc, kset, held, spent>>
        \/ /\ writable[b] /\ Spend("down")
           /\ Holds(b, kset[b]) \/ Holds(b, merged)
           /\ UNCHANGED crc
        \/ /\ writable[b]
           /\ Holds(b, merged)
           /\ crc' = [crc EXCEPT ![b] = CrcAfterRead(b, merged)]
           /\ UNCHANGED spent

\* _on_param_delta(): whatever became of it, a delta is acknowledged with the
\* cached CRC.  Neither the frame's destination nor a status is looked at.
OnParamDelta(b) ==
    /\ Reaches(b, "delta")
    /\ LET frame == Head(down[b])
       IN  /\ IF IsNew(lastSeq[b], frame.seq)
              THEN /\ lastSeq' = [lastSeq EXCEPT ![b] = frame.seq]
                   /\ ApplyDelta(b, frame.changes)
              ELSE UNCHANGED <<lastSeq, crc, kset, held, spent>>
           /\ Answered(b, [type |-> "ack", seq |-> frame.seq, crc |-> crc'[b]])
    /\ UNCHANGED <<masterVars, writable>>

\* _on_param_req(): reports, but does not acknowledge; empty if it can not read.
OnParamReq(b) ==
    /\ Reaches(b, "req")
    /\ \/ /\ crc' = [crc EXCEPT ![b] = CrcAfterRead(b, kset[b])]
          /\ Answered(b, [type |-> "report", settings |-> kset[b]])
          /\ UNCHANGED spent
       \/ /\ Spend("down")
          /\ Answered(b, [type |-> "report", settings |-> NoChanges])
          /\ UNCHANGED crc
    /\ UNCHANGED <<masterVars, lastSeq, writable, kset, held>>

\* _dispatch() has no branch for PARAM_FULL.
OnParamFull(b) ==
    /\ Reaches(b, "full")
    /\ UNCHANGED <<masterVars, up, stationVars, spent>>

\* A BEARING carries the cached CRC (bound: one of them in the air per station).
SendBearing(b) ==
    /\ Len(up[b]) < ChanCap
    /\ \A i \in 1 .. Len(up[b]) : up[b][i].type # "bearing"
    /\ up' = [up EXCEPT ![b] = Append(@, [type |-> "bearing", crc |-> crc[b]])]
    /\ UNCHANGED <<masterVars, down, stationVars, spent>>

\* The KrakenSDR's own UI changes a setting.
LocalChange(b) ==
    /\ Spend("local")
    /\ \E f \in Field, v \in Value :
          /\ kset[b][f] # v
          /\ Holds(b, [kset[b] EXCEPT ![f] = v])
    /\ UNCHANGED <<masterVars, down, up, lastSeq, writable, crc>>

\* The settings client looks for a write route once, when it starts; if it can
\* not read the settings then, it never writes and reports no CRC.
StationRestart(b) ==
    /\ Spend("restart")
    /\ lastSeq' = [lastSeq EXCEPT ![b] = NoSeq]
    /\ \/ /\ writable' = [writable EXCEPT ![b] = b \notin ReadOnly]
          /\ crc' = [crc EXCEPT ![b] = IF Complete(kset[b]) THEN Crc(kset[b]) ELSE NoCrc]
       \/ /\ writable' = [writable EXCEPT ![b] = FALSE]
          /\ crc' = [crc EXCEPT ![b] = NoCrc]
    /\ UNCHANGED <<masterVars, down, up, kset, held>>

-----------------------------------------------------------------------------
Operator == \E a \in Station : Edit(a) \/ FullRead(a) \/ PushHeld(a) \/ Revert(a)
MasterTick(a) == Retransmit(a) \/ Service(a)
MasterReceive(a) == OnBearing(a) \/ OnAck(a) \/ OnReport(a)
StationReceive(b) == OnParamDelta(b) \/ OnParamReq(b) \/ OnParamFull(b)

Next ==
    \/ Operator
    \/ \E a \in Station : MasterTick(a) \/ MasterReceive(a)
    \/ \E b \in Station : StationReceive(b) \/ SendBearing(b) \/ LocalChange(b)
                          \/ StationRestart(b)
    \/ \E a \in Station : LoseFrame(a) \/ LoseAnswer(a)
    \/ MasterRestart

Spec == Init /\ [][Next]_vars

\* Both loops run for ever (management cli.py run_server, agent.py run_forever),
\* unless an exception ends the master's.
MasterFairness ==
    \A a \in Station : WF_vars(MasterTick(a)) /\ WF_vars(MasterReceive(a))
StationFairness ==
    \A b \in Station : WF_vars(StationReceive(b)) /\ WF_vars(SendBearing(b))

MasterSpec == Spec /\ MasterFairness  \* the stations may all be off
FairSpec == MasterSpec /\ StationFairness

-----------------------------------------------------------------------------
(* Properties *)

TypeOK ==
    /\ sender \in [Station -> SenderRecord]
    /\ outbox \in [Station -> Seq(Entry)]
    /\ inflight \in [Station -> Push \cup {NoPush}]
    /\ desired \in [Station -> Settings \cup {NoSettings}]
    /\ st \in [Station -> StationRecord]
    /\ mirror \in [Station -> Mirror \cup {NoMirror}]
    /\ running \in BOOLEAN
    /\ down \in [Station -> Seq(Frame)] /\ up \in [Station -> Seq(Packet)]
    /\ lastSeq \in [Station -> SeqNo \cup {NoSeq}]
    /\ writable \in [Station -> BOOLEAN]
    /\ crc \in [Station -> CrcValue \cup {NoCrc}]
    /\ kset \in [Station -> Settings]
    /\ held \in [Station -> SUBSET CrcValue]
    /\ spent \in [BudgetKind -> Nat]

\* End to end: the mirror and the snapshot a revert restores only ever hold a
\* configuration the station's KrakenSDR really held at some time, whatever is
\* lost, late, abandoned, restarted, overheard by another station or unreadable.
WasHeld(a, s) == Complete(s) => Crc(s) \in held[a]
MirrorWasHeld ==
    \A a \in Station : mirror[a] # NoMirror =>
        /\ WasHeld(a, mirror[a].settings)
        /\ mirror[a].previous # NoSettings => WasHeld(a, mirror[a].previous)

\* The push remembered as in flight is the one the sender's frame carries, on
\* every path (sent, acknowledged, exhausted): an ACK is never judged as that of
\* a push when it was a request's, or the other way round.
InflightIsSent ==
    \A a \in Station :
        inflight[a] # NoPush =>
            /\ Busy(sender[a])
            /\ sender[a].pending.type = inflight[a].kind
            /\ sender[a].pending.changes = inflight[a].changes
            /\ sender[a].pending.dest = a

\* Whatever happens to the frames and their answers, to every station's record and
\* mirror entry only what Distributor allows is done: queues, retransmissions, an
\* authored edit, a crossing answer, another station or a restart never make the two
\* change apart, or with the settings of another push.
Dist(a) == INSTANCE Distributor WITH st <- st[a], mirror <- mirror[a]
RefinesDistributor ==
    /\ \A a \in Station : Dist(a)!DistInit
    /\ [][\A a \in Station : [Dist(a)!DistNext]_(Dist(a)!distVars)]_<<st, mirror>>

\* Whatever the operator hands to the master leaves it again, even when nothing
\* ever answers: no dead station blocks its edit, its outbox or its sender.
Idle(a) == ~Busy(sender[a]) /\ outbox[a] = << >> /\ desired[a] = NoSettings
WorkDrains == \A a \in Station : ~Idle(a) ~> Idle(a) \/ ~running

\* With one station, edits and full reads only, and fewer losses than attempts,
\* master and station end up in sync on what the KrakenSDR holds.
Agrees(a) == /\ st[a].state = "in_sync" /\ st[a].pending = NoPush
             /\ Crc(mirror[a].settings) = Crc(kset[a])
Converges == <>[](\A a \in Station : Agrees(a))

-----------------------------------------------------------------------------
(* What the repository says of the path and the code does not do            *)

PushWaits(a) == \/ inflight[a] # NoPush
                \/ \E i \in 1 .. Len(outbox[a]) : outbox[a][i].push # NoPush

\* ConfigState.PENDING: "a push is in flight, not yet confirmed".
PendingIsInFlight == \A a \in Station : st[a].state = "pending" => PushWaits(a)

-----------------------------------------------------------------------------
(* The inductive invariant behind the safety properties (ConfigProofs).     *)

\* What the KrakenSDR holds, its cached CRC and what it answers was once held.
CrcHeld(a, c) == c \in held[a] \cup {NoCrc}
StationHeld == \A a \in Station : WasHeld(a, kset[a]) /\ CrcHeld(a, crc[a])
PacketHeld(a, packet) == IF packet.type = "report" THEN WasHeld(a, packet.settings)
                                                   ELSE CrcHeld(a, packet.crc)
AnswersHeld == \A a \in Station : \A i \in 1 .. Len(up[a]) : PacketHeld(a, up[a][i])

\* A pending push expects the CRC of the settings it will commit, over a baseline.
PendingSound == \A a \in Station :
    st[a].pending # NoPush => mirror[a] # NoMirror /\ Sound(st[a].pending)

\* An entry of the outbox is of the kind of its push.
EntryMatches(entry) == entry.push # NoPush => entry.type = entry.push.kind
OutboxMatches == \A a \in Station : \A i \in 1 .. Len(outbox[a]) : EntryMatches(outbox[a][i])

IInv == TypeOK /\ StationHeld /\ AnswersHeld /\ PendingSound /\ OutboxMatches
          /\ MirrorWasHeld /\ InflightIsSent
=============================================================================
