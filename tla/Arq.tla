-------------------------------- MODULE Arq ---------------------------------
(***************************************************************************)
(* One stop-and-wait configuration exchange between the master and one     *)
(* station over the DTU link: the master's StopAndWaitSender               *)
(* (arq.py, driven by Master._service_arq and Master._on_ack), the         *)
(* station's DedupReceiver (arq.py, driven by KrakenProxy._on_param_delta) *)
(* and a medium that keeps order, loses whole packets and may delay them   *)
(* past the retransmission timeout.  The n-th transaction carries the      *)
(* payload n.  A payload may be one the station cannot decode (a field id  *)
(* its registry does not know), or one that apply_delta refuses: nothing   *)
(* is written, and the agent acknowledges it all the same.                 *)
(*                                                                         *)
(* Either program may restart: the sender's and the receiver's memories    *)
(* are volatile, packets in the air survive.                               *)
(***************************************************************************)
EXTENDS ArqOps, Sequences

CONSTANTS
    MaxTxn,       \* bound: transactions the operator starts
    MaxLoss,      \* bound: packets the medium loses
    MaxRestarts,  \* bound: restarts of either program
    ChanCap,      \* bound: packets in the air in each direction; one more is
                  \* lost, as in a DTU whose buffer is full
    Undecodable,  \* transactions whose payload the station cannot decode
    Timely        \* TRUE: a timeout is observed only when neither the frame
                  \* nor an ACK of it is still under way (round trip below
                  \* timeout_ms); FALSE: packets may arrive after the timeout

ASSUME BoundsAssumption ==
    /\ MaxTxn \in Nat /\ MaxLoss \in Nat /\ MaxRestarts \in Nat /\ ChanCap \in Nat
    /\ Timely \in BOOLEAN
    /\ Undecodable \subseteq Nat

Frame == [seq : SeqNo, txn : Nat]
ASSUME NoFrameAssumption == NoFrame \notin Frame
Sender == [seq : SeqNo, pending : Frame \cup {NoFrame}, attempts : 0 .. MaxAttempts]

VARIABLES
    sender,    \* the master's StopAndWaitSender for this station
    started,   \* number of transactions started so far
    acked,     \* transactions the master was told succeeded (TxEvent: ACK)
    failed,    \* transactions the master gave up (TxEvent.EXHAUSTED)
    lastSeq,   \* the station's DedupReceiver: last sequence number accepted
    applied,   \* payloads apply_delta applied, in order, since the station started
    refused,   \* ghost: those it did not apply (read-only, or an OSError); the
               \* agent takes no notice of what it returns
    lastTxn,   \* ghost: the transaction lastSeq was taken from, 0 if none
    down,      \* frames on their way to the station
    up,        \* ACKs on their way to the master; txn is a ghost: an ACK
               \* carries only the sequence number
    losses, restarts

masterVars == <<sender, started, acked, failed>>
stationVars == <<lastSeq, applied, refused, lastTxn>>
vars == <<masterVars, stationVars, down, up, losses, restarts>>

Link == INSTANCE ReliableLink WITH open <- Busy(sender)

Init ==
    /\ sender = SenderInit
    /\ started = 0
    /\ acked = {}
    /\ failed = {}
    /\ lastSeq = NoSeq
    /\ applied = << >>
    /\ refused = {}
    /\ lastTxn = 0
    /\ down = << >>
    /\ up = << >>
    /\ losses = 0
    /\ restarts = 0

\* Carrier.send(): a full medium loses the packet; the caller is not told.
Sent(chan, packet) == IF Len(chan) < ChanCap THEN Append(chan, packet) ELSE chan

-----------------------------------------------------------------------------
(* The master *)

\* _service_arq: the sender is idle and an entry of the outbox is sent.
Start ==
    /\ ~Busy(sender)
    /\ started < MaxTxn
    /\ LET frame == [seq |-> sender.seq, txn |-> started + 1]
       IN  /\ sender' = Started(sender, frame)
           /\ down' = Sent(down, frame)
    /\ started' = started + 1
    /\ UNCHANGED <<acked, failed, stationVars, up, losses, restarts>>

InTransit(chan) == \E i \in 1 .. Len(chan) : chan[i].txn = started

TimeoutObserved ==
    /\ Busy(sender)
    /\ Timely => ~InTransit(down) /\ ~InTransit(up)

\* _service_arq: the deadline passed and attempts remain.
Retransmit ==
    /\ TimeoutObserved
    /\ ~Exhausts(sender)
    /\ sender' = Retried(sender)
    /\ down' = Sent(down, sender.pending)
    /\ UNCHANGED <<started, acked, failed, stationVars, up, losses, restarts>>

\* _service_arq: the deadline passed and the attempts are used up.
Exhaust ==
    /\ TimeoutObserved
    /\ Exhausts(sender)
    /\ sender' = Abandoned(sender)
    /\ failed' = failed \cup {started}
    /\ UNCHANGED <<started, acked, stationVars, down, up, losses, restarts>>

\* _on_ack: a matching ACK ends the transaction, any other is ignored.
OnAck ==
    /\ up # << >>
    /\ up' = Tail(up)
    /\ \/ /\ AckMatches(sender, Head(up).seq)
          /\ sender' = Completed(sender)
          /\ acked' = acked \cup {started}
       \/ /\ ~AckMatches(sender, Head(up).seq)
          /\ UNCHANGED <<sender, acked>>
    /\ UNCHANGED <<started, failed, stationVars, down, losses, restarts>>

MasterRestart ==
    /\ restarts < MaxRestarts
    /\ sender' = SenderInit
    /\ restarts' = restarts + 1
    /\ UNCHANGED <<started, acked, failed, stationVars, down, up, losses>>

-----------------------------------------------------------------------------
(* The station *)

\* apply_delta: the delta is applied, or refused, as it may be at any time: the
\* KrakenSDR has no write route, does not answer, or its file can not be written.
ApplyDelta(txn) ==
    \/ applied' = Append(applied, txn) /\ UNCHANGED refused
    \/ refused' = refused \cup {txn} /\ UNCHANGED applied

\* _on_param_delta.  The sequence number is recorded before the payload is
\* decoded, and a payload that cannot be decoded is neither applied nor
\* acknowledged; one that was refused is acknowledged like one that was applied,
\* and a duplicate whatever became of the original.
Receive ==
    /\ down # << >>
    /\ LET frame == Head(down)
       IN  \/ /\ IsNew(lastSeq, frame.seq)
              /\ lastSeq' = frame.seq
              /\ lastTxn' = frame.txn
              /\ IF frame.txn \in Undecodable
                 THEN UNCHANGED <<applied, refused, up>>
                 ELSE ApplyDelta(frame.txn) /\ up' = Sent(up, frame)
           \/ /\ ~IsNew(lastSeq, frame.seq)
              /\ up' = Sent(up, frame)
              /\ UNCHANGED stationVars
    /\ down' = Tail(down)
    /\ UNCHANGED <<masterVars, losses, restarts>>

StationRestart ==
    /\ restarts < MaxRestarts
    /\ lastSeq' = NoSeq
    /\ applied' = << >>
    /\ refused' = {}
    /\ lastTxn' = 0
    /\ restarts' = restarts + 1
    /\ UNCHANGED <<masterVars, down, up, losses>>

-----------------------------------------------------------------------------
(* The medium: a packet is lost whole; FIFO, so losing it when it reaches   *)
(* the head is as good as losing it earlier.                                *)

LoseFrame ==
    /\ down # << >> /\ losses < MaxLoss
    /\ down' = Tail(down)
    /\ losses' = losses + 1
    /\ UNCHANGED <<masterVars, stationVars, up, restarts>>

LoseAck ==
    /\ up # << >> /\ losses < MaxLoss
    /\ up' = Tail(up)
    /\ losses' = losses + 1
    /\ UNCHANGED <<masterVars, stationVars, down, restarts>>

-----------------------------------------------------------------------------
Master == Start \/ Retransmit \/ Exhaust \/ OnAck \/ MasterRestart
Station == Receive \/ StationRestart
Medium == LoseFrame \/ LoseAck
Next == Master \/ Station \/ Medium

Spec == Init /\ [][Next]_vars

\* The master's loop runs for ever (management cli.py run_server, every 10 ms),
\* so an ACK that has arrived is handled and a deadline that has passed is
\* seen.  Nothing is assumed of the station, which may be off, nor does
\* anything oblige the operator to start a transaction, the medium to lose
\* one, or a program to restart.
Fairness == WF_vars(OnAck) /\ WF_vars(Retransmit \/ Exhaust)

FairSpec == Spec /\ Fairness

-----------------------------------------------------------------------------
(* Properties *)

TypeOK ==
    /\ sender \in Sender
    /\ started \in Nat
    /\ acked \subseteq Nat
    /\ failed \subseteq Nat
    /\ lastSeq \in SeqNo \cup {NoSeq}
    /\ applied \in Seq(Nat)
    /\ refused \subseteq Nat
    /\ lastTxn \in Nat
    /\ down \in Seq(Frame)
    /\ up \in Seq(Frame)
    /\ losses \in Nat
    /\ restarts \in Nat

AppliedSet == {applied[i] : i \in 1 .. Len(applied)}
Undisturbed == failed = {} /\ restarts = 0

\* Whatever is lost, delayed, abandoned or restarted, the station applies the
\* master's transactions in the order they were started and none of them twice
\* in one life (DedupReceiver, FR-10.7).
AtMostOnceInOrder ==
    \A i, j \in 1 .. Len(applied) : i < j => applied[i] < applied[j]

\* What became of a transaction at the station: applied, refused by apply_delta,
\* or not decoded.
Handled == AppliedSet \cup refused \cup Undecodable

\* As long as no transaction was abandoned and neither program restarted, an ACK
\* proves that the station has handled that very transaction, however many packets
\* were lost or late: it never stands for another one, or for one that did not
\* arrive (arq.py: "sequence + ACK + retransmit is sufficient").  Whether the delta
\* was applied is not in it; that is told by the CRC it carries (MirrorWasHeld).
AckProvesHandling == Undisturbed => acked \subseteq Handled

\* The same promise without the proviso on abandoned transactions: the FSD says
\* of one that "the change stays unconfirmed and pending, never silently assumed
\* applied".  A refused delta is left out of it.
NeverAssumedApplied == restarts = 0 => acked \subseteq Handled

\* An open transaction always ends, acknowledged or abandoned: the station's
\* slot in the master's outbox can not be blocked for ever by a dead peer.
TransactionEnds == Busy(sender) ~> ~Busy(sender)

\* The exchange implements the abstract link.
RefinesLink == Link!Spec

-----------------------------------------------------------------------------
(* The inductive invariants behind the safety properties (ArqProofs).       *)

\* The newest transaction whose outcome is known.
Done == IF Busy(sender) THEN started - 1 ELSE started

\* The open transaction is the newest one, and everything that belongs to it
\* carries the sender's current sequence number.
OpenInv ==
    Busy(sender) =>
        /\ started >= 1
        /\ sender.pending.seq = sender.seq /\ sender.pending.txn = started
        /\ lastTxn = started => lastSeq = sender.seq
        /\ \A i \in 1 .. Len(down) : down[i].txn = started => down[i].seq = sender.seq

\* The medium holds only transactions the station has not got past, and those
\* of the one it recorded last carry the sequence number it recorded.
PendingInv ==
    /\ lastTxn <= started
    /\ lastTxn = 0 => lastSeq = NoSeq
    /\ \A i \in 1 .. Len(down) :
          /\ down[i].txn \in 1 .. started
          /\ lastTxn <= down[i].txn
          /\ down[i].txn = lastTxn => down[i].seq = lastSeq

\* The medium keeps order, and a transaction has one sequence number.
FifoInv ==
    \A i, j \in 1 .. Len(down) :
        /\ i < j => down[i].txn <= down[j].txn
        /\ down[i].txn = down[j].txn => down[i].seq = down[j].seq

AppliedInv ==
    /\ \A i \in 1 .. Len(applied) : applied[i] \in 1 .. lastTxn
    /\ refused \subseteq 1 .. lastTxn

OrderInv == OpenInv /\ PendingInv /\ FifoInv /\ AppliedInv /\ AtMostOnceInOrder

\* While nothing is abandoned or restarted: what is known to the master is what
\* it was told, and the station handled all it recorded;
ConfirmedInv ==
    /\ acked = 1 .. Done
    /\ 1 .. lastTxn \subseteq Handled

\* master and station are never more than one transaction apart, and when the
\* station is behind, the open transaction's number is not the one it recorded;
CloseInv ==
    /\ Done <= lastTxn
    /\ lastTxn = Done /\ lastTxn > 0 => NextSeq(lastSeq) = sender.seq

\* and the ACKs in the air are in order and of the last two transactions, those
\* of the previous one with a number the open one does not have.
AckInv ==
    /\ \A i \in 1 .. Len(up) :
          /\ Done <= up[i].txn /\ up[i].txn <= lastTxn
          /\ up[i].txn = Done => NextSeq(up[i].seq) = sender.seq
          /\ Busy(sender) /\ up[i].txn = started => up[i].seq = sender.seq
    /\ \A i, j \in 1 .. Len(up) : i < j => up[i].txn <= up[j].txn

UndisturbedInv == Undisturbed => ConfirmedInv /\ CloseInv /\ AckInv
=============================================================================
