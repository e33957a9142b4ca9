----------------------------- MODULE ArqProofs ------------------------------
(***************************************************************************)
(* What the stop-and-wait exchange guarantees for every sequence space of  *)
(* at least two numbers, every retry budget and every bound: types,        *)
(* at-most-once delivery in order, and that an ACK proves that the station *)
(* has handled the transaction it ends, as long as nothing was abandoned   *)
(* and nobody restarted.                                                   *)
(***************************************************************************)
EXTENDS Arq, Integers, TLAPS

-----------------------------------------------------------------------------
(* Lemmas about the sequence numbers and the medium *)

LEMMA NextSeqFacts ==
    ASSUME NEW n \in SeqNo
    PROVE  NextSeq(n) \in SeqNo /\ NextSeq(n) # n
<1>1. CASE n + 1 < SeqMod
  <2>1. (n + 1) % SeqMod = n + 1
    BY <1>1, SeqModAssumption DEF SeqNo
  <2>. QED  BY <2>1, <1>1, SeqModAssumption DEF SeqNo, NextSeq
<1>2. CASE n + 1 = SeqMod
  <2>1. (n + 1) % SeqMod = 0
    BY <1>2, SeqModAssumption DEF SeqNo
  <2>. QED  BY <2>1, <1>2, SeqModAssumption DEF SeqNo, NextSeq
<1>. QED  BY <1>1, <1>2, SeqModAssumption DEF SeqNo

LEMMA SentType ==
    ASSUME NEW chan \in Seq(Frame), NEW packet \in Frame
    PROVE  Sent(chan, packet) \in Seq(Frame)
BY DEF Sent

\* A packet found in the medium after a send was there before, at the same
\* place, or is the packet just sent, behind all the others.
LEMMA SentElements ==
    ASSUME NEW chan \in Seq(Frame), NEW packet \in Frame
    PROVE  /\ Len(Sent(chan, packet)) \in Len(chan) .. Len(chan) + 1
           /\ \A i \in 1 .. Len(Sent(chan, packet)) :
                 IF i <= Len(chan) THEN Sent(chan, packet)[i] = chan[i]
                                   ELSE Sent(chan, packet)[i] = packet
BY DEF Sent

-----------------------------------------------------------------------------
(* Types *)

\* Frame and SeqNo stay opaque in the steps below; these are the facts used.
LEMMA FrameFacts ==
    /\ 0 \in SeqNo
    /\ \A f \in Frame : f.seq \in SeqNo /\ f.txn \in Nat
    /\ \A n \in SeqNo, t \in Nat : [seq |-> n, txn |-> t] \in Frame
    /\ NoSeq \notin SeqNo
BY SeqModAssumption, NoSeqAssumption DEF Frame, SeqNo

LEMMA SenderType ==
    ASSUME NEW s \in Sender
    PROVE  /\ s.pending \in Frame \cup {NoFrame} /\ s.seq \in SeqNo
           /\ \A f \in Frame : Started(s, f) \in Sender
           /\ ~Exhausts(s) => Retried(s) \in Sender
           /\ Completed(s) \in Sender
           /\ Abandoned(s) \in Sender
BY NextSeqFacts, MaxAttemptsAssumption
   DEF Sender, Started, Exhausts, Retried, Completed, Abandoned

LEMMA InitTypeOK == Init => TypeOK
BY FrameFacts, MaxAttemptsAssumption DEF Init, TypeOK, SenderInit, Sender

LEMMA NextTypeOK == TypeOK /\ [Next]_vars => TypeOK'
<1> SUFFICES ASSUME TypeOK, [Next]_vars PROVE TypeOK'
  OBVIOUS
<1> USE DEF TypeOK
<1>1. CASE Start
  <2> DEFINE frame == [seq |-> sender.seq, txn |-> started + 1]
  <2>1. frame \in Frame
    BY FrameFacts, SenderType
  <2>2. down' \in Seq(Frame)
    BY <1>1, <2>1, SentType DEF Start
  <2>3. sender' \in Sender
    BY <1>1, <2>1, SenderType DEF Start
  <2>. QED  BY <1>1, <2>2, <2>3 DEF Start, stationVars
<1>2. CASE Retransmit
  <2>1. sender.pending \in Frame
    BY <1>2, SenderType DEF Retransmit, TimeoutObserved, Busy
  <2>2. down' \in Seq(Frame)
    BY <1>2, <2>1, SentType DEF Retransmit
  <2>3. sender' \in Sender
    BY <1>2, SenderType DEF Retransmit
  <2>. QED  BY <1>2, <2>2, <2>3 DEF Retransmit, stationVars
<1>3. CASE Exhaust
  BY <1>3, SenderType DEF Exhaust, stationVars
<1>4. CASE OnAck
  <2>1. up' \in Seq(Frame)
    BY <1>4 DEF OnAck
  <2>2. sender' \in Sender /\ acked' \subseteq Nat
    BY <1>4, SenderType DEF OnAck
  <2>. QED  BY <1>4, <2>1, <2>2 DEF OnAck, stationVars
<1>5. CASE MasterRestart
  <2>1. sender' \in Sender
    BY <1>5, FrameFacts, MaxAttemptsAssumption DEF MasterRestart, SenderInit, Sender
  <2>. QED  BY <1>5, <2>1 DEF MasterRestart, stationVars
<1>6. CASE Receive
  <2>1. Head(down) \in Frame /\ down' \in Seq(Frame)
    BY <1>6 DEF Receive
  <2>2. Sent(up, Head(down)) \in Seq(Frame)
    BY <2>1, SentType
  <2>3. up' \in Seq(Frame)
    BY <1>6, <2>2 DEF Receive
  <2>4. lastSeq' \in SeqNo \cup {NoSeq} /\ lastTxn' \in Nat
    BY <1>6, <2>1, FrameFacts DEF Receive, stationVars
  <2>5. applied' \in Seq(Nat) /\ refused' \subseteq Nat
    <3>1. Append(applied, Head(down).txn) \in Seq(Nat) /\ Head(down).txn \in Nat
      BY <2>1, FrameFacts
    <3>. QED  BY <1>6, <3>1 DEF Receive, ApplyDelta, stationVars
  <2>. QED  BY <1>6, <2>1, <2>3, <2>4, <2>5 DEF Receive, masterVars
<1>7. CASE StationRestart
  BY <1>7 DEF StationRestart, masterVars
<1>8. CASE LoseFrame
  BY <1>8 DEF LoseFrame, masterVars, stationVars
<1>9. CASE LoseAck
  BY <1>9 DEF LoseAck, masterVars, stationVars
<1>10. CASE UNCHANGED vars
  BY <1>10 DEF vars, masterVars, stationVars
<1>. QED
  BY <1>1, <1>2, <1>3, <1>4, <1>5, <1>6, <1>7, <1>8, <1>9, <1>10
  DEF Next, Master, Station, Medium

\* Every variable keeps its type: in particular a sequence number never leaves
\* 0 .. SeqMod-1 and a frame is never transmitted more than MaxAttempts times.
THEOREM TypeCorrect == Spec => []TypeOK
BY InitTypeOK, NextTypeOK, PTL DEF Spec

-----------------------------------------------------------------------------
(* Order *)

LEMMA InitOrderInv == Init => OrderInv
BY DEF Init, OrderInv, OpenInv, PendingInv, FifoInv, AppliedInv, AtMostOnceInOrder,
       Busy, SenderInit

\* A frame of the newest transaction joins the medium behind all the others.
LEMMA SendOrderInv ==
    ASSUME TypeOK, OrderInv, NEW packet \in Frame,
           Start \/ Retransmit,
           packet.seq = sender.seq, packet.txn = started',
           sender'.pending = packet, sender'.seq = sender.seq,
           started' \in Nat, started' >= 1, started <= started',
           lastTxn = started' => lastSeq = sender.seq,
           \A i \in 1 .. Len(down) : down[i].txn = started' => down[i].seq = sender.seq,
           down' = Sent(down, packet),
           UNCHANGED <<lastSeq, lastTxn, applied, refused>>
    PROVE  OrderInv'
<1>1. /\ Len(down) \in Nat
      /\ Len(down') \in Len(down) .. Len(down) + 1
      /\ \A i \in 1 .. Len(down') : IF i <= Len(down) THEN down'[i] = down[i]
                                    ELSE down'[i] = packet
  BY SentElements DEF TypeOK
<1>2. \A i \in 1 .. Len(down) : down[i].txn \in Nat
  BY FrameFacts DEF TypeOK
<1>3. OpenInv'
  BY <1>1 DEF OpenInv, Busy
<1>4. PendingInv'
  <2>1. ASSUME NEW k \in 1 .. Len(down')
        PROVE  /\ down'[k].txn \in 1 .. started'
               /\ lastTxn <= down'[k].txn
               /\ down'[k].txn = lastTxn => down'[k].seq = lastSeq
    <3>1. CASE k <= Len(down)
      BY SMTT(60), <1>1, <1>2, <3>1 DEF OrderInv, PendingInv, TypeOK
    <3>2. CASE ~(k <= Len(down))
      BY <1>1, <3>2 DEF OrderInv, PendingInv, TypeOK
    <3>. QED  BY <3>1, <3>2
  <2>2. lastTxn <= started' /\ (lastTxn = 0 => lastSeq = NoSeq)
    BY DEF OrderInv, PendingInv, TypeOK
  <2>. QED  BY <2>1, <2>2 DEF PendingInv
<1>5. FifoInv'
  <2>1. \A k \in 1 .. Len(down) : /\ down[k].txn <= packet.txn
                                  /\ down[k].txn = packet.txn => down[k].seq = packet.seq
    BY <1>2 DEF OrderInv, PendingInv, TypeOK
  <2>2. SUFFICES ASSUME NEW i \in 1 .. Len(down'), NEW j \in 1 .. Len(down')
                 PROVE  /\ i < j => down'[i].txn <= down'[j].txn
                        /\ down'[i].txn = down'[j].txn => down'[i].seq = down'[j].seq
    BY DEF FifoInv
  <2>3. CASE i <= Len(down) /\ j <= Len(down)
    BY <1>1, <2>3 DEF OrderInv, FifoInv
  <2>4. CASE i <= Len(down) /\ j = Len(down) + 1
    <3>1. i \in 1 .. Len(down) /\ down'[i] = down[i] /\ down'[j] = packet
      BY <1>1, <2>4
    <3>2. /\ down'[i].txn = down[i].txn /\ down'[j].txn = packet.txn
          /\ down'[i].seq = down[i].seq /\ down'[j].seq = packet.seq
      BY <3>1
    <3>3. /\ down[i].txn <= packet.txn
          /\ down[i].txn = packet.txn => down[i].seq = packet.seq
      BY <3>1, <2>1
    <3>. QED  BY <3>2, <3>3
  <2>5. CASE i = Len(down) + 1 /\ j <= Len(down)
    BY <1>1, <2>1, <2>5
  <2>6. CASE i = Len(down) + 1 /\ j = Len(down) + 1
    BY <2>6
  <2>. QED  BY <1>1, <2>3, <2>4, <2>5, <2>6
<1>6. AppliedInv' /\ AtMostOnceInOrder'
  BY DEF OrderInv, AppliedInv, AtMostOnceInOrder
<1>. QED  BY <1>3, <1>4, <1>5, <1>6 DEF OrderInv

LEMMA StartOrderInv == TypeOK /\ OrderInv /\ Start => OrderInv'
<1> SUFFICES ASSUME TypeOK, OrderInv, Start PROVE OrderInv'
  OBVIOUS
<1> DEFINE packet == [seq |-> sender.seq, txn |-> started + 1]
<1>1. packet \in Frame
  BY FrameFacts, SenderType DEF TypeOK
<1>2. /\ packet.seq = sender.seq /\ packet.txn = started'
      /\ sender'.pending = packet /\ sender'.seq = sender.seq
      /\ started' = started + 1
      /\ down' = Sent(down, packet)
      /\ UNCHANGED <<lastSeq, lastTxn, applied, refused>>
  BY DEF Start, Started, stationVars
<1>3. /\ lastTxn # started'
      /\ \A i \in 1 .. Len(down) : down[i].txn # started'
  BY <1>2 DEF OrderInv, PendingInv, TypeOK
<1> HIDE DEF packet
<1>. QED  BY <1>1, <1>2, <1>3, SendOrderInv DEF TypeOK

LEMMA RetransmitOrderInv == TypeOK /\ OrderInv /\ Retransmit => OrderInv'
<1> SUFFICES ASSUME TypeOK, OrderInv, Retransmit PROVE OrderInv'
  OBVIOUS
<1>1. OpenInv /\ Busy(sender)
  BY DEF OrderInv, Retransmit, TimeoutObserved
<1>2. /\ sender.pending \in Frame
      /\ sender'.pending = sender.pending /\ sender'.seq = sender.seq
      /\ down' = Sent(down, sender.pending)
      /\ UNCHANGED <<started, lastSeq, lastTxn, applied, refused>>
  BY <1>1, SenderType DEF TypeOK, Busy, Retransmit, Retried, stationVars
<1>3. /\ started >= 1
      /\ sender.pending.seq = sender.seq /\ sender.pending.txn = started'
      /\ lastTxn = started' => lastSeq = sender.seq
      /\ \A i \in 1 .. Len(down) : down[i].txn = started' => down[i].seq = sender.seq
  BY <1>1, <1>2 DEF OpenInv
<1>4. started' \in Nat /\ started' >= 1 /\ started <= started'
  BY <1>2, <1>3 DEF TypeOK
<1>5. /\ sender'.pending = sender.pending /\ sender'.seq = sender.seq
      /\ down' = Sent(down, sender.pending)
      /\ UNCHANGED <<lastSeq, lastTxn, applied, refused>>
  BY <1>2
<1> DEFINE packet == sender.pending
<1>6. packet \in Frame /\ packet.seq = sender.seq /\ packet.txn = started'
      /\ sender'.pending = packet /\ down' = Sent(down, packet)
  BY <1>2, <1>3
<1> HIDE DEF packet
<1>. QED  BY <1>3, <1>4, <1>5, <1>6, SendOrderInv

\* The oldest frame leaves the medium.
LEMMA TailFacts ==
    ASSUME TypeOK, down # << >>, down' = Tail(down)
    PROVE  /\ Head(down) = down[1] /\ 1 \in 1 .. Len(down) /\ down[1] \in Frame
           /\ \A i \in 1 .. Len(down') : /\ i \in Nat /\ i + 1 \in 1 .. Len(down)
                                         /\ down'[i] = down[i + 1]
BY DEF TypeOK

LEMMA TailFifo ==
    ASSUME TypeOK, FifoInv, down # << >>, down' = Tail(down)
    PROVE  FifoInv'
<1>1. \A i, j \in 1 .. Len(down') : i < j => i + 1 < j + 1
  BY TailFacts
<1>. QED  BY <1>1, TailFacts DEF FifoInv

LEMMA ReceiveOrderInv == TypeOK /\ OrderInv /\ Receive => OrderInv'
<1> SUFFICES ASSUME TypeOK, OrderInv, Receive PROVE OrderInv'
  OBVIOUS
<1>1. down # << >> /\ down' = Tail(down) /\ UNCHANGED <<sender, started>>
  BY DEF Receive, masterVars
<1>2. FifoInv'
  BY <1>1, TailFifo DEF OrderInv
<1>3. /\ down[1].txn \in 1 .. started /\ lastTxn <= down[1].txn
      /\ down[1].txn = lastTxn => down[1].seq = lastSeq
      /\ lastTxn \in Nat /\ started \in Nat
  BY <1>1, TailFacts DEF OrderInv, PendingInv, TypeOK
<1>4. CASE IsNew(lastSeq, Head(down).seq)
  <2>1. lastSeq' = down[1].seq /\ lastTxn' = down[1].txn /\ lastTxn < lastTxn'
    BY <1>1, <1>3, <1>4, TailFacts DEF Receive, IsNew
  <2>2. /\ applied' = applied \/ applied' = Append(applied, lastTxn')
        /\ refused' = refused \/ refused' = refused \cup {lastTxn'}
    BY <1>1, <1>4, <2>1, TailFacts DEF Receive, ApplyDelta, IsNew
  <2>3. lastTxn' \in 1 .. started
    BY <1>3, <2>1
  <2>4. AppliedInv' /\ AtMostOnceInOrder'
    <3>1. refused' \subseteq 1 .. lastTxn'
      <4>1. refused \subseteq 1 .. lastTxn
        BY DEF OrderInv, AppliedInv
      <4>2. 1 .. lastTxn \subseteq 1 .. lastTxn' /\ lastTxn' \in 1 .. lastTxn'
        BY <1>3, <2>1, <2>3
      <4>. QED  BY <2>2, <4>1, <4>2
    <3>2. CASE applied' = applied
      <4>1. \A i \in 1 .. Len(applied) : applied[i] \in 1 .. lastTxn'
        BY SMTT(60), <2>1, <2>3, <1>3 DEF OrderInv, AppliedInv, TypeOK
      <4>. QED  BY <3>2, <3>1, <4>1 DEF OrderInv, AppliedInv, AtMostOnceInOrder
    <3>3. CASE applied' = Append(applied, lastTxn')
      <4>1. \A i \in 1 .. Len(applied) : applied[i] \in 1 .. lastTxn
        BY DEF OrderInv, AppliedInv
      <4>2. /\ Len(applied) \in Nat /\ Len(applied') = Len(applied) + 1
            /\ \A i \in 1 .. Len(applied') :
                  IF i <= Len(applied) THEN applied'[i] = applied[i]
                                       ELSE i = Len(applied) + 1 /\ applied'[i] = lastTxn'
        BY <3>3, <2>3 DEF TypeOK
      <4>3. AppliedInv'
        <5>1. \A i \in 1 .. Len(applied') : applied'[i] \in 1 .. lastTxn'
          BY SMTT(60), <4>1, <4>2, <2>1, <2>3, <1>3
        <5>. QED  BY <3>1, <5>1 DEF AppliedInv
      <4>4. AtMostOnceInOrder'
        <5>1. \A i \in 1 .. Len(applied) : applied[i] < lastTxn'
          BY <4>1, <2>1, <2>3, <1>3
        <5>2. SUFFICES ASSUME NEW i \in 1 .. Len(applied'), NEW j \in 1 .. Len(applied'), i < j
                       PROVE  applied'[i] < applied'[j]
          BY DEF AtMostOnceInOrder
        <5>3. CASE j <= Len(applied)
          BY <4>2, <5>2, <5>3 DEF OrderInv, AtMostOnceInOrder
        <5>4. CASE j = Len(applied) + 1
          BY <4>2, <5>1, <5>2, <5>4
        <5>. QED  BY <4>2, <5>3, <5>4
      <4>. QED  BY <4>3, <4>4
    <3>. QED  BY <3>2, <3>3, <2>2
  <2>5. PendingInv'
    <3>1. \A i \in 1 .. Len(down') : /\ down[1].txn <= down'[i].txn
                                     /\ down[1].txn = down'[i].txn => down[1].seq = down'[i].seq
      BY <1>1, TailFacts DEF OrderInv, FifoInv
    <3>2. \A i \in 1 .. Len(down') : down'[i].txn \in 1 .. started
      BY <1>1, TailFacts DEF OrderInv, PendingInv
    <3>3. lastTxn' <= started'
      BY <1>1, <2>3, <1>3
    <3>4. \A i \in 1 .. Len(down') : /\ lastTxn' <= down'[i].txn
                                     /\ down'[i].txn = lastTxn' => down'[i].seq = lastSeq'
      BY <2>1, <3>1
    <3>5. \A i \in 1 .. Len(down') : down'[i].txn \in 1 .. started'
      BY <1>1, <3>2
    <3>6. lastTxn' # 0
      BY <2>3
    <3>. QED  BY <3>3, <3>4, <3>5, <3>6 DEF PendingInv
  <2>6. OpenInv'
    BY <1>1, <2>1, TailFacts DEF OrderInv, OpenInv
  <2>. QED  BY <1>2, <2>4, <2>5, <2>6 DEF OrderInv
<1>5. CASE ~IsNew(lastSeq, Head(down).seq)
  <2>1. UNCHANGED <<lastSeq, lastTxn, applied, refused>>
    BY <1>5 DEF Receive, stationVars
  <2>2. OpenInv' /\ PendingInv'
    BY <1>1, <2>1, TailFacts DEF OrderInv, OpenInv, PendingInv
  <2>3. AppliedInv' /\ AtMostOnceInOrder'
    BY <2>1 DEF OrderInv, AppliedInv, AtMostOnceInOrder
  <2>. QED  BY <1>2, <2>2, <2>3 DEF OrderInv
<1>. QED  BY <1>4, <1>5

LEMMA NextOrderInv == TypeOK /\ OrderInv /\ [Next]_vars => OrderInv'
<1> SUFFICES ASSUME TypeOK, OrderInv, [Next]_vars PROVE OrderInv'
  OBVIOUS
<1> USE DEF OrderInv, OpenInv, PendingInv, FifoInv, AppliedInv, AtMostOnceInOrder
<1>1. CASE Start \/ Retransmit
  BY <1>1, StartOrderInv, RetransmitOrderInv
<1>2. CASE Exhaust
  BY <1>2 DEF Exhaust, Abandoned, Busy, stationVars
<1>3. CASE OnAck
  <2>1. UNCHANGED <<started, lastSeq, lastTxn, applied, refused, down>>
    BY <1>3 DEF OnAck, stationVars
  <2>2. sender' = sender \/ ~Busy(sender')
    BY <1>3 DEF OnAck, Completed, Busy
  <2>. QED  BY <2>1, <2>2
<1>4. CASE MasterRestart
  BY <1>4 DEF MasterRestart, SenderInit, Busy, stationVars
<1>5. CASE Receive
  BY <1>5, ReceiveOrderInv
<1>6. CASE StationRestart
  <2>1. /\ \A i \in 1 .. Len(down) : down[i].txn # 0 /\ 0 <= down[i].txn
        /\ started \in Nat
    BY SMTT(60) DEF TypeOK
  <2>2. lastSeq' = NoSeq /\ lastTxn' = 0 /\ applied' = << >> /\ refused' = {}
        /\ UNCHANGED <<sender, started, down>>
    BY <1>6 DEF StationRestart, masterVars
  <2>. QED
    BY <2>1, <2>2
<1>7. CASE LoseFrame
  <2>1. down # << >> /\ down' = Tail(down)
        /\ UNCHANGED <<sender, started, lastSeq, lastTxn, applied, refused>>
    BY <1>7 DEF LoseFrame, masterVars, stationVars
  <2>2. FifoInv'
    BY <2>1, TailFifo
  <2>. QED
    BY <2>1, <2>2, TailFacts
<1>8. CASE LoseAck
  BY <1>8 DEF LoseAck, masterVars, stationVars
<1>9. CASE UNCHANGED vars
  BY <1>9 DEF vars, masterVars, stationVars
<1>. QED
  BY <1>1, <1>2, <1>3, <1>4, <1>5, <1>6, <1>7, <1>8, <1>9
  DEF Next, Master, Station, Medium

\* The station never applies a transaction twice or out of order in one life,
\* whatever the medium loses or delays and whoever else restarts.
THEOREM AtMostOnceInOrderHolds == Spec => []AtMostOnceInOrder
<1>1. OrderInv => AtMostOnceInOrder
  BY DEF OrderInv
<1>. QED
  BY <1>1, InitTypeOK, NextTypeOK, InitOrderInv, NextOrderInv, PTL DEF Spec

-----------------------------------------------------------------------------
(* An ACK proves that the station has handled the transaction *)

LEMMA InitUndisturbedInv == Init => UndisturbedInv
BY DEF Init, UndisturbedInv, ConfirmedInv, CloseInv, AckInv, Done, Busy, SenderInit

\* An ACK joins the others: it is of the transaction the station recorded last
\* and carries the number the station recorded.
LEMMA SendAckInv ==
    ASSUME TypeOK, NEW packet \in Frame,
           AckInv, lastTxn <= lastTxn',
           UNCHANGED <<sender, started>>,
           packet.txn = lastTxn', Done <= lastTxn', lastTxn' <= started,
           lastTxn' = Done => NextSeq(packet.seq) = sender.seq,
           Busy(sender) /\ lastTxn' = started => packet.seq = sender.seq,
           up' = Sent(up, packet), lastTxn' \in Nat
    PROVE  AckInv'
<1>1. /\ Len(up) \in Nat
      /\ Len(up') \in Len(up) .. Len(up) + 1
      /\ \A k \in 1 .. Len(up') : IF k <= Len(up) THEN up'[k] = up[k]
                                   ELSE up'[k] = packet
  BY SMTT(60), SentElements DEF TypeOK
<1>2. Done' = Done /\ Busy(sender)' = Busy(sender) /\ Done \in Int /\ lastTxn \in Nat
  BY DEF Done, Busy, TypeOK
<1>3. \A k \in 1 .. Len(up) : up[k].txn \in Nat
  BY FrameFacts DEF TypeOK
<1>4. \A i \in 1 .. Len(up') :
          /\ Done <= up'[i].txn /\ up'[i].txn <= lastTxn'
          /\ up'[i].txn = Done => NextSeq(up'[i].seq) = sender.seq
          /\ Busy(sender) /\ up'[i].txn = started => up'[i].seq = sender.seq
  <2>1. ASSUME NEW k \in 1 .. Len(up')
        PROVE  /\ Done <= up'[k].txn /\ up'[k].txn <= lastTxn'
               /\ up'[k].txn = Done => NextSeq(up'[k].seq) = sender.seq
               /\ Busy(sender) /\ up'[k].txn = started => up'[k].seq = sender.seq
    <3>1. CASE k <= Len(up)
      BY <1>1, <1>2, <1>3, <3>1 DEF AckInv
    <3>2. CASE ~(k <= Len(up))
      BY <1>1, <3>2
    <3>. QED  BY <3>1, <3>2
  <2>. QED  BY <2>1
<1>5. \A i, j \in 1 .. Len(up') : i < j => up'[i].txn <= up'[j].txn
  <2>1. ASSUME NEW k \in 1 .. Len(up'), NEW m \in 1 .. Len(up'), k < m
        PROVE  up'[k].txn <= up'[m].txn
    <3>1. CASE m <= Len(up)
      BY <1>1, <2>1, <3>1 DEF AckInv
    <3>2. CASE ~(m <= Len(up))
      <4>1. k <= Len(up) /\ k \in 1 .. Len(up)
        BY <1>1, <2>1, <3>2
      <4>. QED  BY <1>1, <1>4, <2>1, <3>2
    <3>. QED  BY <3>1, <3>2
  <2>. QED  BY <2>1
<1>. QED  BY <1>2, <1>4, <1>5 DEF AckInv

\* An ACK that matches the open transaction is of that transaction, and the
\* station has recorded it.
LEMMA MatchingAck ==
    ASSUME TypeOK, OrderInv, CloseInv, AckInv, up # << >>, AckMatches(sender, Head(up).seq)
    PROVE  lastTxn = started /\ up[1].txn = started
<1>1. /\ up[1] \in Frame /\ 1 \in 1 .. Len(up) /\ Head(up) = up[1]
  BY DEF TypeOK
<1>2. /\ started \in Nat /\ lastTxn \in Nat /\ lastTxn <= started
      /\ up[1].seq \in SeqNo /\ up[1].txn \in Nat
  BY <1>1, FrameFacts DEF TypeOK, OrderInv, PendingInv
<1>3. Busy(sender) /\ up[1].seq = sender.seq /\ Done = started - 1
  BY <1>1 DEF AckMatches, Busy, OrderInv, OpenInv, Done
<1>4. up[1].txn # Done
  <2>1. up[1].txn = Done => NextSeq(up[1].seq) = sender.seq
    BY <1>1 DEF AckInv
  <2>. QED  BY <2>1, <1>2, <1>3, NextSeqFacts
<1>. QED  BY <1>1, <1>2, <1>3, <1>4 DEF AckInv

LEMMA OnAckUndisturbedInv ==
    TypeOK /\ OrderInv /\ UndisturbedInv /\ OnAck => UndisturbedInv'
<1> SUFFICES ASSUME TypeOK, OrderInv, OnAck, Undisturbed, ConfirmedInv, CloseInv, AckInv
             PROVE  ConfirmedInv' /\ CloseInv' /\ AckInv'
  BY DEF UndisturbedInv, Undisturbed, OnAck
<1> DEFINE ack == up[1]
<1>1. /\ ack \in Frame /\ 1 \in 1 .. Len(up) /\ Head(up) = ack
      /\ \A i \in 1 .. Len(up') : /\ i \in Nat /\ i + 1 \in 1 .. Len(up)
                                  /\ up'[i] = up[i + 1]
  BY DEF OnAck, TypeOK
<1>2. UNCHANGED <<started, lastSeq, lastTxn>> /\ Handled' = Handled
  BY DEF OnAck, stationVars, Handled, AppliedSet
<1>3. /\ started \in Nat /\ lastTxn \in Nat /\ lastTxn <= started
      /\ sender.seq \in SeqNo /\ ack.seq \in SeqNo /\ ack.txn \in Nat
      /\ \A i \in 1 .. Len(up) : up[i].txn \in Nat
  BY <1>1, SenderType, FrameFacts DEF TypeOK, OrderInv, PendingInv
<1>4. \A i, j \in 1 .. Len(up') : i < j => up'[i].txn <= up'[j].txn
  <2>1. ASSUME NEW k \in 1 .. Len(up'), NEW m \in 1 .. Len(up'), k < m
        PROVE  up'[k].txn <= up'[m].txn
    <3>1. k + 1 < m + 1
      BY <1>1, <2>1
    <3>. QED  BY <1>1, <2>1, <3>1 DEF AckInv
  <2>. QED  BY <2>1
<1>5. CASE ~AckMatches(sender, ack.seq)
  <2>1. UNCHANGED <<sender, acked>>
    BY <1>1, <1>5 DEF OnAck
  <2>2. Done' = Done
    BY <1>2, <2>1 DEF Done
  <2>3. ConfirmedInv' /\ CloseInv'
    BY <1>2, <2>1, <2>2 DEF ConfirmedInv, CloseInv
  <2>4. AckInv'
    BY SMTT(60), <1>1, <1>2, <1>4, <2>1, <2>2 DEF AckInv
  <2>. QED  BY <2>3, <2>4
<1>6. CASE AckMatches(sender, ack.seq)
  <2>1. Busy(sender) /\ ack.seq = sender.seq /\ Done = started - 1
    BY <1>6 DEF AckMatches, Busy, OrderInv, OpenInv, Done
  <2>3. lastTxn = started /\ ack.txn = started
    BY <1>1, <1>6, MatchingAck DEF OnAck
  <2>4. lastSeq = sender.seq
    BY <2>1, <2>3 DEF OrderInv, OpenInv
  <2>5. /\ ~Busy(sender') /\ sender'.seq = NextSeq(sender.seq)
        /\ acked' = acked \cup {started}
    BY <1>1, <1>6 DEF OnAck, Completed, Busy
  <2>6. Done' = started /\ Busy(sender)' = FALSE
    BY <1>2, <2>5 DEF Done, Busy
  <2>7. ConfirmedInv'
    <3>1. started >= 1
      BY <2>1 DEF OrderInv, OpenInv
    <3>2. 1 .. started = (1 .. started - 1) \cup {started}
      BY <1>3, <3>1
    <3>. QED  BY <1>2, <2>1, <2>5, <2>6, <3>2 DEF ConfirmedInv
  <2>8. CloseInv'
    BY <1>2, <1>3, <2>3, <2>4, <2>5, <2>6 DEF CloseInv
  <2>9. AckInv'
    <3>1. ASSUME NEW k \in 1 .. Len(up')
          PROVE  up'[k].txn = started /\ up'[k].seq = sender.seq
      <4>1. k + 1 \in 1 .. Len(up) /\ up'[k] = up[k + 1] /\ 1 < k + 1
        BY <1>1, <3>1
      <4>2. up[1].txn <= up[k + 1].txn /\ up[k + 1].txn <= lastTxn
        BY <1>1, <4>1 DEF AckInv
      <4>3. up[k + 1].txn = started
        BY <1>3, <2>3, <4>1, <4>2
      <4>4. up[k + 1].seq = sender.seq
        BY <2>1, <4>1, <4>3 DEF AckInv
      <4>. QED  BY <4>1, <4>3, <4>4
    <3>. QED  BY <1>2, <1>3, <1>4, <2>3, <2>5, <2>6, <3>1 DEF AckInv
  <2>. QED  BY <2>7, <2>8, <2>9
<1>. QED  BY <1>5, <1>6

LEMMA ReceiveUndisturbedInv ==
    TypeOK /\ OrderInv /\ UndisturbedInv /\ Receive => UndisturbedInv'
<1> SUFFICES ASSUME TypeOK, OrderInv, Receive, Undisturbed, ConfirmedInv, CloseInv, AckInv
             PROVE  ConfirmedInv' /\ CloseInv' /\ AckInv'
  BY DEF UndisturbedInv, Undisturbed, Receive, masterVars
<1> DEFINE frame == down[1]
<1>1. frame \in Frame /\ 1 \in 1 .. Len(down) /\ Head(down) = frame
  BY DEF Receive, TypeOK
<1>2. UNCHANGED <<sender, started, acked>> /\ Done' = Done
      /\ Busy(sender)' = Busy(sender)
  BY DEF Receive, masterVars, Done, Busy
<1>3. /\ started \in Nat /\ lastTxn \in Nat /\ lastTxn <= started
      /\ sender.seq \in SeqNo /\ frame.seq \in SeqNo /\ frame.txn \in Nat
  BY <1>1, SenderType, FrameFacts DEF TypeOK, OrderInv, PendingInv
<1>4. /\ frame.txn \in 1 .. started /\ lastTxn <= frame.txn
      /\ frame.txn = lastTxn => frame.seq = lastSeq
      /\ lastTxn = 0 => lastSeq = NoSeq
  BY <1>1 DEF OrderInv, PendingInv
<1>5. Busy(sender) /\ frame.txn = started => frame.seq = sender.seq
  BY <1>1 DEF OrderInv, OpenInv
<1>6. Done <= lastTxn /\ (lastTxn = Done /\ lastTxn > 0 => NextSeq(lastSeq) = sender.seq)
  BY DEF CloseInv
<1>7. Done = started \/ (Done = started - 1 /\ Busy(sender))
  BY DEF Done
<1>8. frame.txn > lastTxn => /\ Busy(sender) /\ frame.txn = started
                             /\ Done = started - 1 /\ lastTxn = Done
                             /\ frame.seq = sender.seq
  BY <1>3, <1>4, <1>5, <1>6, <1>7
<1>9. CASE IsNew(lastSeq, frame.seq)
  <2>1. /\ lastSeq' = frame.seq /\ lastTxn' = frame.txn
        /\ \/ frame.txn \in Undecodable /\ UNCHANGED <<applied, refused, up>>
           \/ ApplyDelta(frame.txn) /\ up' = Sent(up, frame)
    BY <1>1, <1>9 DEF Receive, IsNew
  <2>2. frame.txn > lastTxn
    BY <1>3, <1>4, <1>9 DEF IsNew
  <2>3. Handled \subseteq Handled' /\ frame.txn \in Handled'
    <3>1. CASE UNCHANGED <<applied, refused>> /\ frame.txn \in Undecodable
      BY <3>1 DEF Handled, AppliedSet
    <3>2. CASE refused' = refused \cup {frame.txn} /\ UNCHANGED applied
      BY <3>2 DEF Handled, AppliedSet
    <3>3. CASE applied' = Append(applied, frame.txn) /\ UNCHANGED refused
      <4>1. /\ Len(applied') = Len(applied) + 1 /\ Len(applied) \in Nat
            /\ applied'[Len(applied) + 1] = frame.txn
            /\ \A i \in 1 .. Len(applied) : applied'[i] = applied[i]
        BY <3>3, <1>3 DEF TypeOK
      <4>2. /\ Len(applied) + 1 \in 1 .. Len(applied')
            /\ \A i \in 1 .. Len(applied) : i \in 1 .. Len(applied')
        BY <4>1
      <4>3. AppliedSet \subseteq AppliedSet' /\ frame.txn \in AppliedSet'
        BY <4>1, <4>2 DEF AppliedSet
      <4>. QED  BY <3>3, <4>3 DEF Handled
    <3>. QED  BY <2>1, <3>1, <3>3, <3>2 DEF ApplyDelta
  <2>4. ConfirmedInv'
    <3>1. 1 .. lastTxn' = (1 .. lastTxn) \cup {frame.txn}
      BY <1>3, <1>8, <2>1, <2>2
    <3>. QED  BY <1>2, <2>3, <3>1 DEF ConfirmedInv
  <2>5. CloseInv'
    BY <1>2, <1>3, <1>8, <2>1, <2>2 DEF CloseInv
  <2>6. AckInv'
    <3>1. CASE UNCHANGED up
      BY SMTT(60), <1>2, <1>3, <1>8, <2>1, <2>2, <3>1, FrameFacts DEF AckInv, TypeOK
    <3>2. CASE up' = Sent(up, frame)
      BY <1>1, <1>2, <1>3, <1>8, <2>1, <2>2, <3>2, SendAckInv
    <3>. QED  BY <2>1, <3>1, <3>2
  <2>. QED  BY <2>4, <2>5, <2>6
<1>10. CASE ~IsNew(lastSeq, frame.seq)
  <2>1. UNCHANGED <<lastSeq, lastTxn, applied, refused>> /\ up' = Sent(up, frame)
    BY <1>1, <1>10 DEF Receive, stationVars
  <2>2. frame.seq = lastSeq
    BY <1>10 DEF IsNew
  <2>3. lastTxn > 0
    BY <1>3, <1>4, <2>2, FrameFacts
  <2>4. frame.txn = lastTxn
    BY <1>3, <1>4, <1>6, <1>8, <2>2, <2>3, NextSeqFacts
  <2>5. ConfirmedInv' /\ CloseInv'
    BY <1>2, <2>1 DEF ConfirmedInv, CloseInv, Handled, AppliedSet
  <2>6. AckInv'
    BY <1>1, <1>2, <1>3, <1>4, <1>5, <1>6, <2>1, <2>2, <2>3, <2>4, SendAckInv
  <2>. QED  BY <2>5, <2>6
<1>. QED  BY <1>9, <1>10

LEMMA NextUndisturbedInv ==
    TypeOK /\ OrderInv /\ UndisturbedInv /\ [Next]_vars => UndisturbedInv'
<1> SUFFICES ASSUME TypeOK, OrderInv, UndisturbedInv, [Next]_vars, Undisturbed'
             PROVE  UndisturbedInv'
  BY DEF UndisturbedInv
<1>1. CASE Start
  <2>1. /\ ~Busy(sender) /\ started' = started + 1 /\ sender'.seq = sender.seq
        /\ UNCHANGED <<acked, failed, lastSeq, applied, refused, lastTxn, up, restarts>>
    BY <1>1 DEF Start, Started, stationVars
  <2>2. Busy(sender)' = TRUE
    <3>1. [seq |-> sender.seq, txn |-> started + 1] \in Frame
      BY SenderType, FrameFacts DEF TypeOK
    <3>. QED  BY <1>1, <3>1, NoFrameAssumption DEF Start, Started, Busy
  <2>3. Done' = started /\ Done = started /\ started \in Nat /\ lastTxn \in Nat
        /\ lastTxn <= started
    BY <2>1, <2>2 DEF Done, TypeOK, OrderInv, PendingInv
  <2>4. ConfirmedInv /\ CloseInv /\ AckInv
    BY <2>1 DEF UndisturbedInv, Undisturbed
  <2>5. ConfirmedInv' /\ CloseInv'
    BY <2>1, <2>3, <2>4 DEF ConfirmedInv, CloseInv, Handled, AppliedSet
  <2>6. AckInv'
    <3>1. \A i \in 1 .. Len(up) : up[i].txn # started'
      BY <2>1, <2>3, <2>4, FrameFacts DEF AckInv, TypeOK
    <3>. QED  BY <2>1, <2>3, <2>4, <3>1 DEF AckInv
  <2>. QED  BY <2>5, <2>6 DEF UndisturbedInv
<1>2. CASE Retransmit
  <2>1. /\ Busy(sender) /\ Busy(sender') /\ sender'.seq = sender.seq
        /\ UNCHANGED <<started, acked, failed, lastSeq, applied, refused, lastTxn, up,
                       restarts>>
    BY <1>2 DEF Retransmit, Retried, TimeoutObserved, Busy, stationVars
  <2>. QED  BY <2>1 DEF UndisturbedInv, Undisturbed, ConfirmedInv, CloseInv, AckInv, Done,
                        Handled, AppliedSet
<1>3. CASE Exhaust
  BY <1>3 DEF Exhaust, Undisturbed
<1>4. CASE OnAck
  BY <1>4, OnAckUndisturbedInv
<1>5. CASE MasterRestart \/ StationRestart
  BY <1>5 DEF MasterRestart, StationRestart, Undisturbed, TypeOK
<1>6. CASE Receive
  BY <1>6, ReceiveUndisturbedInv
<1>7. CASE LoseFrame
  BY <1>7 DEF LoseFrame, masterVars, stationVars, UndisturbedInv, Undisturbed,
              ConfirmedInv, CloseInv, AckInv, Done, Handled, AppliedSet
<1>8. CASE LoseAck
  <2>1. /\ UNCHANGED <<sender, started, acked, failed, lastSeq, applied, refused, lastTxn,
                       restarts>>
        /\ \A i \in 1 .. Len(up') : /\ i \in Nat /\ i + 1 \in 1 .. Len(up)
                                    /\ up'[i] = up[i + 1]
    BY <1>8 DEF LoseAck, masterVars, stationVars, TypeOK
  <2>2. \A i, j \in 1 .. Len(up') : i < j => i + 1 < j + 1
    BY <2>1
  <2>3. ConfirmedInv /\ CloseInv /\ AckInv /\ Undisturbed
    BY <2>1 DEF UndisturbedInv, Undisturbed
  <2>4. ConfirmedInv' /\ CloseInv'
    BY <2>1, <2>3 DEF ConfirmedInv, CloseInv, Done, Handled, AppliedSet
  <2>5. AckInv'
    BY <2>1, <2>2, <2>3 DEF AckInv, Done
  <2>. QED  BY <2>4, <2>5 DEF UndisturbedInv
<1>9. CASE UNCHANGED vars
  BY <1>9 DEF vars, masterVars, stationVars, UndisturbedInv, Undisturbed,
              ConfirmedInv, CloseInv, AckInv, Done, Handled, AppliedSet
<1>. QED
  BY <1>1, <1>2, <1>3, <1>4, <1>5, <1>6, <1>7, <1>8, <1>9
  DEF Next, Master, Station, Medium

\* Until a transaction is abandoned or a program restarts, whatever the master
\* was told succeeded has reached the station, which applied it, refused it or could
\* not decode it: an ACK never stands for another transaction.
THEOREM AckProvesHandlingHolds == Spec => []AckProvesHandling
<1>1. TypeOK /\ OrderInv /\ UndisturbedInv => AckProvesHandling
  <2> SUFFICES ASSUME TypeOK, OrderInv, UndisturbedInv, Undisturbed
               PROVE  acked \subseteq Handled
    BY DEF AckProvesHandling
  <2>1. acked = 1 .. Done /\ 1 .. lastTxn \subseteq Handled
        /\ Done <= lastTxn
    BY DEF UndisturbedInv, ConfirmedInv, CloseInv
  <2>2. lastTxn \in Nat /\ Done \in Int
    BY DEF TypeOK, Done
  <2>. QED  BY <2>1, <2>2
<1>. QED
  BY <1>1, InitTypeOK, NextTypeOK, InitOrderInv, NextOrderInv, InitUndisturbedInv,
     NextUndisturbedInv, PTL DEF Spec

-----------------------------------------------------------------------------
(* The exchange implements the abstract link *)

LEMMA InitRefines == Init => Link!Init
BY DEF Init, Link!Init, Busy, SenderInit

LEMMA NextRefines ==
    TypeOK /\ OrderInv /\ UndisturbedInv /\ [Next]_vars => [Link!Next]_(Link!linkVars)
<1> SUFFICES ASSUME TypeOK, OrderInv, UndisturbedInv, [Next]_vars
             PROVE  Link!Next \/ UNCHANGED Link!linkVars
  OBVIOUS
<1> USE DEF Link!Next, Link!linkVars
<1>1. CASE Start
  <2>1. Busy(sender)' = TRUE
    <3>1. [seq |-> sender.seq, txn |-> started + 1] \in Frame
      BY SenderType, FrameFacts DEF TypeOK
    <3>. QED  BY <1>1, <3>1, NoFrameAssumption DEF Start, Started, Busy
  <2>2. Link!Open
    BY <1>1, <2>1 DEF Start, stationVars, Link!Open
  <2>. QED  BY <2>2
<1>2. CASE Retransmit
  BY <1>2 DEF Retransmit, TimeoutObserved, Retried, Busy, stationVars
<1>3. CASE Exhaust
  <2>1. Link!Abandon
    BY <1>3 DEF Exhaust, TimeoutObserved, Abandoned, Busy, stationVars, Link!Abandon
  <2>. QED  BY <2>1
<1>4. CASE OnAck
  <2>1. UNCHANGED <<started, failed, applied, refused, restarts>> /\ up # << >>
    BY <1>4 DEF OnAck, stationVars
  <2>2. CASE ~AckMatches(sender, Head(up).seq)
    BY <1>4, <2>1, <2>2 DEF OnAck, Busy
  <2>3. CASE AckMatches(sender, Head(up).seq)
    <3>1. /\ Busy(sender) /\ Busy(sender)' = FALSE
          /\ acked' = acked \cup {started}
      BY <1>4, <2>3 DEF OnAck, AckMatches, Completed, Busy
    <3>2. ASSUME Undisturbed
          PROVE  started \in Handled
      <4>1. ConfirmedInv /\ CloseInv /\ AckInv
        BY <3>2 DEF UndisturbedInv
      <4>2. lastTxn = started
        BY <2>1, <2>3, <4>1, MatchingAck
      <4>3. started \in 1 .. lastTxn
        BY <3>1, <4>2 DEF OrderInv, OpenInv, TypeOK
      <4>. QED  BY <4>1, <4>3 DEF ConfirmedInv
    <3>3. Link!Confirm
      BY <2>1, <3>1, <3>2
      DEF Link!Confirm, Link!Undisturbed, Link!AppliedSet, Undisturbed, Handled, AppliedSet
    <3>. QED  BY <3>3
  <2>. QED  BY <2>2, <2>3
<1>5. CASE MasterRestart
  <2>1. Link!SenderRestart
    BY <1>5 DEF MasterRestart, SenderInit, Busy, stationVars, Link!SenderRestart
  <2>. QED  BY <2>1
<1>6. CASE Receive
  <2>1. UNCHANGED <<sender, started, acked, failed, restarts>>
    BY <1>6 DEF Receive, masterVars
  <2>2. CASE UNCHANGED <<applied, refused>>
    BY <2>1, <2>2 DEF Busy
  <2>3. CASE ~UNCHANGED <<applied, refused>>
    <3>1. /\ Head(down) = down[1] /\ 1 \in 1 .. Len(down) /\ down[1] \in Frame
      BY <1>6 DEF Receive, TypeOK
    <3>2. IsNew(lastSeq, down[1].seq) /\ ApplyDelta(down[1].txn)
      BY <1>6, <2>3, <3>1 DEF Receive, stationVars
    <3>3. /\ down[1].txn \in 1 .. started /\ lastTxn < down[1].txn
          /\ lastTxn \in Nat
      BY <3>1, <3>2 DEF IsNew, OrderInv, PendingInv, TypeOK
    <3>4. down[1].txn \in Link!Ahead
      <4>1. \A u \in 1 .. lastTxn : u < down[1].txn
        BY <3>3
      <4>2. Link!AppliedSet \cup refused \subseteq 1 .. lastTxn
        BY DEF OrderInv, AppliedInv, Link!AppliedSet
      <4>. QED  BY <3>3, <4>1, <4>2 DEF Link!Ahead
    <3>5. Link!Apply \/ Link!Refuse
      BY <2>1, <3>2, <3>4 DEF ApplyDelta, Link!Apply, Link!Refuse, Busy
    <3>. QED  BY <3>5
  <2>. QED  BY <2>2, <2>3
<1>7. CASE StationRestart
  <2>1. Link!ReceiverRestart
    BY <1>7 DEF StationRestart, masterVars, Busy, Link!ReceiverRestart
  <2>. QED  BY <2>1
<1>8. CASE LoseFrame \/ LoseAck
  BY <1>8 DEF LoseFrame, LoseAck, masterVars, stationVars, Busy
<1>9. CASE UNCHANGED vars
  BY <1>9 DEF vars, masterVars, stationVars, Busy
<1>. QED
  BY <1>1, <1>2, <1>3, <1>4, <1>5, <1>6, <1>7, <1>8, <1>9
  DEF Next, Master, Station, Medium

\* Every behaviour of the exchange is one the abstract link allows: at most one
\* open transaction, each applied or refused at most once and in order, and no
\* confirmation of an undisturbed transaction before the station has handled it.
THEOREM ImplementsLink == Spec => RefinesLink
BY InitTypeOK, NextTypeOK, InitOrderInv, NextOrderInv, InitUndisturbedInv,
   NextUndisturbedInv, InitRefines, NextRefines, PTL DEF Spec, RefinesLink, Link!Spec

=============================================================================
