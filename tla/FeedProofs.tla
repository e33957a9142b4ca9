----------------------------- MODULE FeedProofs -----------------------------
(* Theorems about the supervised feed, for every policy, back-off and boot  *)
(* time, and about what the master shows of a station, for every threshold  *)
(* and bound.                                                               *)
EXTENDS Indication, TLAPS

-----------------------------------------------------------------------------
(* The supervised feed *)

LEMMA MinGapFacts ==
    MinGap \in Nat /\ MinGap <= StallAfter /\ MinGap <= Gap
BY PolicyAssumption DEF MinGap

LEMMA ElapsedFacts ==
    ASSUME NEW limit \in Nat, NEW n \in 0 .. limit \cup {None}
    PROVE  /\ Elapsed(n, limit) \in 0 .. limit \cup {None}
           /\ Elapsed(n, limit) = None <=> n = None
           /\ n # None => /\ Elapsed(n, limit) >= n
                          /\ Elapsed(n, limit) = n + 1 \/ (n = limit /\ Elapsed(n, limit) = n)
BY PolicyAssumption DEF Elapsed

LEMMA NextDelayType ==
    ASSUME NEW d \in 0 .. Cap
    PROVE  NextDelay(d) \in 0 .. Cap
BY PolicyAssumption DEF NextDelay, Min2

\* The restarts that the past lives of the agent had leave for.
LEMMA Budget ==
    /\ \A n \in Nat \ {0} : MaxAttempts * (n - 1) \in Nat
    /\ \A n \in Nat \ {0} : MaxAttempts * n = MaxAttempts * (n - 1) + MaxAttempts
    /\ MaxAttempts * (1 - 1) = 0
BY PolicyAssumption

LEMMA InitIInv == Init => IInv
<1> SUFFICES ASSUME Init PROVE IInv
  OBVIOUS
<1>1. /\ StallAfter \in Nat /\ Gap \in Nat /\ MaxAttempts \in Nat \ {0} /\ Boot \in Nat
      /\ Cap \in Nat /\ MaxFaults \in Nat /\ MinGap \in Nat
  BY PolicyAssumption, MinGapFacts
<1>2. TypeOK
  <2>1. kraken \in {"up", "stopped", "wedged", "booting"} /\ boot \in 0 .. Boot
    BY <1>1 DEF Init
  <2>2. available \in BOOLEAN
    BY DEF Init
  <2>3. /\ quiet \in 0 .. StallAfter \cup {None} /\ since \in 0 .. Gap \cup {None}
        /\ last \in 0 .. MinGap \cup {None}
    BY DEF Init
  <2>4. /\ attempts \in 0 .. MaxAttempts /\ fired \in Nat /\ lives \in Nat \ {0} /\ faults \in 0 .. MaxFaults
        /\ wait \in 0 .. Cap /\ delay \in 0 .. Cap
    BY <1>1 DEF Init
  <2>5. exhausted \in BOOLEAN
    BY DEF Init
  <2>. QED  BY <2>1, <2>2, <2>3, <2>4, <2>5 DEF TypeOK
<1>3. OutageInv /\ LastInv
  BY <1>1, Budget DEF Init, OutageInv, LastInv
<1>. QED  BY <1>2, <1>3 DEF IInv

LEMMA FaultIInv ==
    ASSUME IInv, Fault
    PROVE  IInv'
<1>1. TypeOK'
  BY PolicyAssumption DEF IInv, TypeOK, Fault, sourceVars, supervisorVars
<1>2. OutageInv' /\ LastInv'
  BY DEF IInv, OutageInv, LastInv, Fault, sourceVars, supervisorVars, Min2, MinGap
<1>. QED  BY <1>1, <1>2 DEF IInv

LEMMA TickIInv ==
    ASSUME IInv, Tick
    PROVE  IInv'
<1>1. TypeOK /\ OutageInv /\ LastInv
  BY DEF IInv
<1>2. /\ quiet' = Elapsed(quiet, StallAfter) /\ since' = Elapsed(since, Gap)
      /\ last' = Elapsed(last, MinGap)
      /\ attempts' = attempts /\ exhausted' = exhausted /\ fired' = fired
      /\ lives' = lives /\ available' = available
  BY DEF Tick
<1>3. /\ quiet \in 0 .. StallAfter \cup {None} /\ since \in 0 .. Gap \cup {None}
      /\ last \in 0 .. MinGap \cup {None}
  BY <1>1 DEF TypeOK
<1>4. StallAfter \in Nat /\ Gap \in Nat /\ MinGap \in Nat
  BY PolicyAssumption, MinGapFacts
<1>5. /\ quiet' \in 0 .. StallAfter \cup {None} /\ (quiet' = None <=> quiet = None)
      /\ quiet # None => quiet' >= quiet /\ quiet' <= quiet + 1
  BY <1>2, <1>3, <1>4, ElapsedFacts
<1>6. /\ since' \in 0 .. Gap \cup {None} /\ (since' = None <=> since = None)
      /\ since # None => since' >= since /\ since' <= since + 1
  BY <1>2, <1>3, <1>4, ElapsedFacts
<1>7. /\ last' \in 0 .. MinGap \cup {None} /\ (last' = None <=> last = None)
      /\ last # None => last' = last + 1 \/ (last = MinGap /\ last' = last)
  BY <1>2, <1>3, <1>4, ElapsedFacts
<1>8. TypeOK'
  <2>1. boot' \in 0 .. Boot /\ wait' \in 0 .. Cap
    BY <1>1, PolicyAssumption DEF TypeOK, Tick, Left
  <2>2. kraken' \in {"up", "stopped", "wedged", "booting"}
    BY <1>1 DEF TypeOK, Tick
  <2>. QED  BY <1>1, <1>5, <1>6, <1>7, <2>1, <2>2 DEF TypeOK, Tick
<1>9. OutageInv'
  BY <1>1, <1>2 DEF OutageInv
<1>10. ASSUME last' # None, NEW n, NEW m, n \in Nat, m \in Nat, m <= n + 1,
              last >= Min2(n, MinGap)
       PROVE  last' >= Min2(m, MinGap)
  BY <1>3, <1>4, <1>7, <1>10, PolicyAssumption DEF Min2
<1>11. LastInv'
  <2>1. ASSUME since' # None
        PROVE  quiet' # None /\ last' # None /\ last' >= Min2(since', MinGap)
    <3>1. since # None /\ quiet # None /\ last # None /\ last >= Min2(since, MinGap)
      BY <1>1, <1>6, <2>1 DEF LastInv
    <3>2. quiet' # None /\ last' # None /\ since \in Nat /\ since' \in Nat /\ since' <= since + 1
      BY <1>3, <1>5, <1>6, <1>7, <2>1, <3>1
    <3>. QED  BY <1>10, <3>1, <3>2
  <2>2. ASSUME last' # None, since' = None, quiet' # None
        PROVE  last' >= Min2(quiet', MinGap)
    <3>1. quiet # None /\ last >= Min2(quiet, MinGap)
      BY <1>1, <1>5, <1>6, <1>7, <2>2 DEF LastInv
    <3>2. quiet \in Nat /\ quiet' \in Nat /\ quiet' <= quiet + 1
      BY <1>3, <1>5, <2>2, <3>1
    <3>. QED  BY <1>10, <2>2, <3>1, <3>2
  <2>3. MinGap' = MinGap
    BY DEF MinGap
  <2>. QED  BY <2>1, <2>2, <2>3 DEF LastInv, Min2
<1>. QED  BY <1>8, <1>9, <1>11 DEF IInv

\* A round either finds the feed alive and clears the record, or adds to it.
LEMMA PumpType ==
    ASSUME TypeOK, Pump
    PROVE  available' \in BOOLEAN /\ wait' \in 0 .. Cap /\ delay' \in 0 .. Cap
<1>1. CASE wait > 0
  BY <1>1 DEF Pump, TypeOK, sourceVars
<1>2. CASE ~(wait > 0)
  <2>1. NextDelay(delay) \in 0 .. Cap
    BY NextDelayType DEF TypeOK
  <2>2. Answers \in BOOLEAN
    BY DEF Answers
  <2>3. available' = Answers /\ delay' = (IF Answers THEN 0 ELSE NextDelay(delay))
        /\ wait' = (IF Answers THEN 1 ELSE NextDelay(delay))
    BY <1>2 DEF Pump
  <2>. QED  BY <2>1, <2>2, <2>3, PolicyAssumption
<1>. QED  BY <1>1, <1>2

LEMMA RoundIInv ==
    ASSUME IInv, Round
    PROVE  IInv' /\ (fired' > fired => last = None \/ last >= MinGap)
<1>1. TypeOK /\ OutageInv /\ LastInv
  BY DEF IInv
<1>2. available' \in BOOLEAN /\ wait' \in 0 .. Cap /\ delay' \in 0 .. Cap
  BY <1>1, PumpType DEF Round
<1>3. /\ MinGap \in Nat /\ MinGap <= StallAfter /\ MinGap <= Gap /\ MinGap' = MinGap
      /\ StallAfter \in Nat \ {0} /\ Gap \in Nat /\ MaxAttempts \in Nat \ {0}
      /\ MaxFaults \in Nat /\ Boot \in Nat /\ None \notin Int
  BY MinGapFacts, PolicyAssumption DEF MinGap
<1>4. /\ attempts \in 0 .. MaxAttempts /\ fired \in Nat /\ lives \in Nat \ {0}
      /\ fired <= MaxAttempts * (lives - 1) + attempts
      /\ quiet \in 0 .. StallAfter \cup {None} /\ since \in 0 .. Gap \cup {None}
      /\ last \in 0 .. MinGap \cup {None} /\ faults \in 0 .. MaxFaults
      /\ exhausted <=> attempts >= MaxAttempts
  BY <1>1 DEF TypeOK, OutageInv
<1>5. CASE available'
  <2>1. /\ quiet' = 0 /\ since' = None /\ attempts' = 0 /\ exhausted' = FALSE
        /\ last' = last /\ faults' = faults /\ kraken' = kraken /\ boot' = boot
    BY <1>5 DEF Round, NoteAlive, krakenVars
  <2>2. fired' = 0 /\ lives' \in Nat \ {0}
    <3>1. CASE ~available
      BY <1>5, <3>1 DEF Round
    <3>2. CASE available
      <4>1. fired = 0 /\ attempts = 0
        BY <1>1, <3>2 DEF OutageInv
      <4>. QED  BY <1>4, <1>5, <2>1, <3>2, <4>1 DEF Round
    <3>. QED  BY <3>1, <3>2
  <2>3. TypeOK'
    <3>1. /\ quiet' \in 0 .. StallAfter \cup {None} /\ since' \in 0 .. Gap \cup {None}
          /\ attempts' \in 0 .. MaxAttempts /\ fired' \in Nat /\ lives' \in Nat \ {0}
      BY <1>3, <2>1, <2>2
    <3>3. exhausted' \in BOOLEAN
      BY <2>1
    <3>2. /\ kraken' \in {"up", "stopped", "wedged", "booting"} /\ boot' \in 0 .. Boot
          /\ last' \in 0 .. MinGap \cup {None} /\ faults' \in 0 .. MaxFaults
      BY <1>1, <1>4, <2>1 DEF TypeOK
    <3>. QED  BY <1>2, <1>3, <3>1, <3>2, <3>3 DEF TypeOK
  <2>4. OutageInv'
    <3>1. MaxAttempts * (lives' - 1) \in Nat
      BY <2>2, Budget
    <3>2. fired' <= MaxAttempts * (lives' - 1) + attempts'
      BY <2>1, <2>2, <3>1
    <3>3. ~exhausted' /\ ~(attempts' >= MaxAttempts)
      BY <1>3, <2>1
    <3>. QED  BY <2>1, <2>2, <3>2, <3>3 DEF OutageInv
  <2>5. LastInv'
    BY <1>3, <1>4, <2>1 DEF LastInv, Min2
  <2>. QED  BY <1>4, <2>1, <2>2, <2>3, <2>4, <2>5 DEF IInv
<1>6. CASE ~available' /\ quiet = None
  <2>1. /\ quiet' = 0 /\ since' = since /\ attempts' = attempts
        /\ exhausted' = exhausted
        /\ last' = last /\ faults' = faults /\ kraken' = kraken /\ boot' = boot
    BY <1>6 DEF Round, Watch, Baseline, krakenVars
  <2>2. fired' = fired /\ lives' = lives
    BY <1>4, <1>6, <2>1 DEF Round
  <2>3. TypeOK'
    BY <1>1, <1>2, <1>3, <2>1, <2>2 DEF TypeOK
  <2>4. since = None
    BY <1>1, <1>6 DEF LastInv
  <2>5. OutageInv'
    BY <1>1, <1>6, <2>1, <2>2 DEF OutageInv
  <2>6. LastInv'
    BY <1>3, <1>4, <2>1, <2>4 DEF LastInv, Min2
  <2>. QED  BY <2>2, <2>3, <2>5, <2>6, <1>4 DEF IInv
<1>7. CASE ~available' /\ quiet # None /\ Stalled /\ Rested
  <2>1. /\ attempts' = attempts + 1 /\ since' = 0 /\ last' = 0
        /\ exhausted' = Spends(attempts + 1) /\ quiet' = quiet
        /\ \/ kraken' = "booting" /\ boot' = Boot /\ faults' = faults
           \/ faults < MaxFaults /\ faults' = faults + 1 /\ kraken' = kraken /\ boot' = boot
    BY <1>7 DEF Round, Watch, Attempt, krakenVars
  <2>2. ~exhausted /\ quiet >= StallAfter /\ (since = None \/ since >= Gap)
    BY <1>7 DEF Stalled, Rested
  <2>3. attempts' \in 0 .. MaxAttempts /\ (exhausted' <=> attempts' >= MaxAttempts)
    <3>1. attempts \in Nat /\ ~(attempts >= MaxAttempts)
      BY <1>4, <2>2
    <3>2. exhausted' <=> attempts + 1 >= MaxAttempts
      BY <2>1 DEF Spends
    <3>. QED  BY <1>3, <2>1, <3>1, <3>2
  <2>4. fired' = fired + 1 /\ lives' = lives
    BY <1>4, <1>7, <2>1 DEF Round
  <2>5. exhausted' \in BOOLEAN
    BY <2>1 DEF Spends
  <2>6. /\ kraken' \in {"up", "stopped", "wedged", "booting"} /\ boot' \in 0 .. Boot
        /\ faults' \in 0 .. MaxFaults
    BY <1>1, <1>3, <1>4, <2>1 DEF TypeOK
  <2>7. TypeOK'
    BY <1>1, <1>2, <1>3, <1>4, <2>1, <2>3, <2>4, <2>5, <2>6 DEF TypeOK
  <2>8. last = None \/ last >= MinGap
    BY <1>1, <1>3, <1>4, <1>7, <2>2 DEF LastInv, Min2
  <2>9. LastInv'
    BY <1>3, <1>7, <2>1 DEF LastInv, Min2
  <2>10. OutageInv'
    <3>1. MaxAttempts * (lives - 1) \in Nat /\ attempts \in Nat
      BY <1>4, Budget
    <3>2. fired' <= MaxAttempts * (lives' - 1) + attempts'
      BY <1>4, <2>1, <2>4, <3>1
    <3>. QED  BY <1>7, <2>3, <3>2 DEF OutageInv
  <2>. QED  BY <2>7, <2>8, <2>9, <2>10 DEF IInv
<1>8. CASE ~available' /\ quiet # None /\ ~(Stalled /\ Rested)
  <2>1. /\ quiet' = quiet /\ since' = since /\ attempts' = attempts
        /\ exhausted' = exhausted
        /\ last' = last /\ faults' = faults /\ kraken' = kraken /\ boot' = boot
    BY <1>8 DEF Round, Watch, Idle, krakenVars, supervisorVars
  <2>2. fired' = fired /\ lives' = lives
    BY <1>4, <1>8, <2>1 DEF Round
  <2>3. TypeOK'
    BY <1>1, <1>2, <1>3, <2>1, <2>2 DEF TypeOK
  <2>4. OutageInv'
    BY <1>1, <1>8, <2>1, <2>2 DEF OutageInv
  <2>5. LastInv'
    BY <1>1, <1>3, <2>1 DEF LastInv, Min2
  <2>. QED  BY <1>4, <2>2, <2>3, <2>4, <2>5 DEF IInv
<1>. QED  BY <1>5, <1>6, <1>7, <1>8

LEMMA NextIInv == IInv /\ [Next]_vars => IInv'
<1> SUFFICES ASSUME IInv, [Next]_vars PROVE IInv'
  OBVIOUS
<1>1. CASE UNCHANGED vars
  BY <1>1 DEF vars, krakenVars, sourceVars, supervisorVars, IInv, TypeOK, OutageInv,
              LastInv, Min2, MinGap
<1>. QED  BY <1>1, FaultIInv, TickIInv, RoundIInv DEF Next

\* Every reachable state of the feed and its supervisor is well typed.
THEOREM TypeCorrect == Spec => []TypeOK
<1>. QED  BY InitIInv, NextIInv, PTL DEF Spec, IInv

-----------------------------------------------------------------------------
(* What the master shows *)

LEMMA BoundFacts ==
    /\ MinInterval \in Nat /\ Heartbeat \in Nat /\ MaxAge \in Nat /\ Threshold \in Nat
    /\ MaxBlock \in Nat /\ MaxHold \in Nat /\ MaxLosses \in Nat /\ MaxRestarts \in Nat
    /\ AgeCap \in Nat /\ IdleCap \in Nat /\ SeenCap \in Nat /\ Threshold + 1 \in Nat
    /\ AgeCap <= SeenCap
    /\ None \notin Int
BY StreamAssumption, PolicyAssumption DEF AgeCap, IdleCap, SeenCap

LEMMA InitStreamInv == IInit => StreamInv
<1> SUFFICES ASSUME IInit PROVE StreamInv
  OBVIOUS
<1>1. IInv
  BY InitIInv DEF IInit
<1>2. StationOK
  <2>1. behind \in 0 .. MaxBlock
    BY BoundFacts DEF IInit
  <2>2. fresh \in BOOLEAN
    BY DEF IInit
  <2>. QED  BY <2>1, <2>2 DEF IInit, StationOK
<1>3. MasterOK
  <2>1. alive \in BOOLEAN
    BY DEF IInit
  <2>. QED  BY <2>1, BoundFacts DEF IInit, MasterOK
<1>4. InboxInv /\ ShownInv
  BY DEF IInit, InboxInv, ShownInv
<1>. QED  BY <1>1, <1>2, <1>3, <1>4 DEF StreamInv

LEMMA SameFeed == IInv /\ UNCHANGED vars => IInv'
BY NextIInv

\* A step that leaves the master alone keeps what it shows, one that leaves the link
\* alone too keeps what is on its way.
LEMMA SameMaster ==
    ASSUME ShownInv, UNCHANGED masterVars
    PROVE  ShownInv'
BY DEF ShownInv, masterVars, Red

LEMMA SameLink ==
    ASSUME InboxInv, UNCHANGED <<linkVars, masterVars>>
    PROVE  InboxInv'
BY DEF InboxInv, linkVars, masterVars

LEMMA FaultStreamInv ==
    ASSUME StreamInv, IFault
    PROVE  StreamInv'
<1>1. IInv'
  BY FaultIInv DEF StreamInv, IFault
<1>2. StationOK' /\ MasterOK'
  BY DEF StreamInv, StationOK, MasterOK, IFault, stationVars, linkVars, masterVars
<1>3. InboxInv' /\ ShownInv'
  BY SameLink, SameMaster DEF StreamInv, IFault
<1>. QED  BY <1>1, <1>2, <1>3 DEF StreamInv

LEMMA TickStreamInv ==
    ASSUME StreamInv, ITick
    PROVE  StreamInv'
<1>1. IInv /\ StationOK /\ MasterOK /\ InboxInv /\ ShownInv
  BY DEF StreamInv
<1>2. IInv'
  BY <1>1, TickIInv DEF ITick
<1>3. /\ age' = Elapsed(age, AgeCap) /\ idle' = Elapsed(idle, IdleCap)
      /\ waiting' = Elapsed(waiting, SeenCap) /\ seen' = Elapsed(seen, SeenCap)
      /\ fresh' = fresh /\ pc' = pc /\ inbox' = inbox /\ heard' = heard
      /\ silent' = silent /\ losses' = losses /\ restarts' = restarts
  BY DEF ITick
<1>4. /\ age \in 0 .. AgeCap \cup {None} /\ idle \in 0 .. IdleCap \cup {None}
      /\ silent \in 0 .. Threshold + 1 \cup {None} /\ lag \in 0 .. MaxHold
      /\ waiting \in 0 .. SeenCap \cup {None} /\ seen \in 0 .. SeenCap \cup {None}
      /\ behind \in 0 .. MaxBlock
  BY <1>1 DEF StationOK, MasterOK
<1>5. behind' \in 0 .. MaxBlock
  BY <1>4, BoundFacts DEF ITick
<1>6. age' \in 0 .. AgeCap \cup {None} /\ idle' \in 0 .. IdleCap \cup {None}
  BY <1>3, <1>4, BoundFacts, ElapsedFacts
<1>7. alive' = alive
  BY DEF ITick
<1>8. lag' \in 0 .. MaxHold /\ (alive => lag' = lag + 1)
  BY <1>4, BoundFacts DEF ITick
<1>9. /\ waiting' \in 0 .. SeenCap \cup {None} /\ (waiting' = None <=> waiting = None)
      /\ waiting # None => waiting' <= waiting + 1
  BY <1>3, <1>4, BoundFacts, ElapsedFacts
<1>10. /\ seen' \in 0 .. SeenCap \cup {None} /\ (seen' = None <=> seen = None)
       /\ seen # None => seen' <= seen + 1
  BY <1>3, <1>4, BoundFacts, ElapsedFacts
<1>11. StationOK'
  <2>1. csv' \in {"empty", "new", "seen"}
    BY <1>1 DEF ITick, StationOK
  <2>. QED  BY <1>1, <1>3, <1>5, <1>6, <2>1 DEF StationOK
<1>12. MasterOK'
  <2>1. alive' \in BOOLEAN
    BY <1>1, <1>7 DEF MasterOK
  <2>. QED  BY <1>1, <1>3, <1>8, <1>9, <1>10, <2>1 DEF MasterOK
<1>13. InboxInv'
  <2> SUFFICES ASSUME alive', inbox' = "data"
               PROVE  waiting' # None /\ waiting' <= MaxAge + MaxBlock + lag'
    BY DEF InboxInv
  <2>1. alive
    BY <1>7
  <2>2. waiting # None /\ waiting <= MaxAge + MaxBlock + lag
    BY <1>1, <1>3, <2>1 DEF InboxInv
  <2>3. lag' = lag + 1
    BY <1>8, <2>1
  <2>. QED  BY <1>4, <1>9, <2>2, <2>3, BoundFacts
<1>14. ShownInv'
  <2> SUFFICES ASSUME alive', ~Red', heard' = "data"
               PROVE  /\ seen' # None
                      /\ seen' <= MaxAge + MaxBlock + MaxHold + silent' + lag'
    BY DEF ShownInv
  <2>1. alive /\ ~Red
    BY <1>3, <1>7 DEF Red
  <2>2. seen # None /\ seen <= MaxAge + MaxBlock + MaxHold + silent + lag
    BY <1>1, <1>3, <2>1 DEF ShownInv
  <2>3. lag' = lag + 1
    BY <1>8, <2>1
  <2>4. silent \in Nat
    BY <1>4, <2>1, BoundFacts DEF Red
  <2>. QED  BY <1>3, <1>4, <1>10, <2>2, <2>3, <2>4, BoundFacts
<1>. QED  BY <1>2, <1>11, <1>12, <1>13, <1>14 DEF StreamInv

LEMMA BeginStreamInv ==
    ASSUME StreamInv, Begin
    PROVE  StreamInv'
<1>1. IInv'
  BY RoundIInv DEF StreamInv, Begin
<1>2. csv' \in {"empty", "new", "seen"} /\ age' \in 0 .. AgeCap \cup {None}
  BY BoundFacts DEF StreamInv, StationOK, Begin, Ingest
<1>3. fresh' \in BOOLEAN
  BY DEF StreamInv, StationOK, Begin, Ingest
<1>4. StationOK'
  BY <1>2, <1>3 DEF StreamInv, StationOK, Begin
<1>5. MasterOK' /\ UNCHANGED linkVars /\ UNCHANGED masterVars
  BY DEF StreamInv, MasterOK, Begin, linkVars, masterVars
<1>6. InboxInv' /\ ShownInv'
  BY <1>5, SameLink, SameMaster DEF StreamInv
<1>. QED  BY <1>1, <1>4, <1>5, <1>6 DEF StreamInv

LEMMA SendStreamInv ==
    ASSUME StreamInv, Send
    PROVE  StreamInv'
<1>1. IInv /\ StationOK /\ MasterOK /\ InboxInv /\ ShownInv
  BY DEF StreamInv
<1>2. IInv' /\ UNCHANGED masterVars /\ restarts' = restarts
  BY <1>1, SameFeed DEF Send
<1>3. /\ age \in 0 .. AgeCap \cup {None} /\ behind \in 0 .. MaxBlock
      /\ idle \in 0 .. IdleCap \cup {None} /\ lag \in 0 .. MaxHold
  BY <1>1 DEF StationOK, MasterOK
<1>4. StationOK'
  <2>1. fresh' \in BOOLEAN
    BY <1>1 DEF StationOK, Send
  <2>2. /\ pc' \in {"idle", "send"} /\ behind' \in 0 .. MaxBlock
        /\ idle' \in 0 .. IdleCap \cup {None}
    <3>1. behind \in 0 .. IdleCap
      BY <1>3, BoundFacts DEF IdleCap
    <3>. QED  BY <1>3, <3>1, BoundFacts DEF Send
  <2>3. csv' = csv /\ age' = age
    BY DEF Send
  <2>. QED  BY <1>1, <2>1, <2>2, <2>3 DEF StationOK
<1>5. ShownInv'
  BY <1>1, <1>2, SameMaster
<1>6. losses' \in 0 .. MaxLosses
  <2>1. losses \in 0 .. MaxLosses
    BY <1>1 DEF MasterOK
  <2>. QED  BY <2>1, BoundFacts DEF Send
<1>7. CASE alive /\ inbox' = Report /\ waiting' = IF Stale THEN None ELSE age
  <2>1. inbox' \in {"none", "data", "no_data"} /\ waiting' \in 0 .. SeenCap \cup {None}
    BY <1>3, <1>7, BoundFacts DEF Report
  <2>2. MasterOK'
    BY <1>1, <1>2, <1>6, <2>1 DEF MasterOK, masterVars
  <2>3. ASSUME inbox' = "data"
        PROVE  waiting' # None /\ waiting' <= MaxAge + MaxBlock + lag'
    <3>1. ~Stale /\ waiting' = age
      BY <1>7, <2>3 DEF Report
    <3>2. age # None /\ ~(age - behind > MaxAge)
      BY <3>1 DEF Stale
    <3>3. lag' = lag
      BY <1>2 DEF masterVars
    <3>. QED  BY <1>3, <3>1, <3>2, <3>3, BoundFacts
  <2>4. InboxInv'
    BY <2>3 DEF InboxInv
  <2>. QED  BY <1>2, <1>4, <1>5, <2>2, <2>4 DEF StreamInv
<1>8. CASE UNCHANGED linkVars
  <2>1. MasterOK'
    BY <1>1, <1>2, <1>6, <1>8 DEF MasterOK, linkVars, masterVars
  <2>2. InboxInv'
    BY <1>1, <1>2, <1>8, SameLink
  <2>. QED  BY <1>2, <1>4, <1>5, <2>1, <2>2 DEF StreamInv
<1>. QED  BY <1>7, <1>8 DEF Send, Deliver

\* What is received was no older than a round of the master makes it; what is shown
\* stays within the silence since.
LEMMA RoundStreamInv ==
    ASSUME StreamInv, MasterRound
    PROVE  StreamInv'
<1>1. IInv /\ StationOK /\ MasterOK /\ InboxInv /\ ShownInv
  BY DEF StreamInv
<1>2. IInv' /\ StationOK'
  BY <1>1, SameFeed DEF MasterRound, StationOK, stationVars
<1>3. /\ alive /\ alive' = alive /\ lag' = 0 /\ inbox' = "none" /\ waiting' = None
      /\ losses' = losses /\ restarts' = restarts
  BY DEF MasterRound
<1>4. /\ silent \in 0 .. Threshold + 1 \cup {None} /\ lag \in 0 .. MaxHold
      /\ waiting \in 0 .. SeenCap \cup {None} /\ seen \in 0 .. SeenCap \cup {None}
      /\ heard \in {"none", "data", "no_data"} /\ inbox \in {"none", "data", "no_data"}
  BY <1>1 DEF MasterOK
<1>5. InboxInv'
  BY <1>3 DEF InboxInv
<1>6. CASE inbox = "none"
  <2>1. silent' = Since /\ heard' = heard /\ seen' = seen
    BY <1>6 DEF MasterRound
  <2>2. /\ silent' \in 0 .. Threshold + 1 \cup {None}
        /\ (silent' = None <=> silent = None)
        /\ silent # None => silent' = silent + lag \/ silent' = Threshold + 1
    BY <1>4, <2>1, BoundFacts DEF Since, Min2
  <2>3. silent # None /\ ~(silent' > Threshold) => silent' = silent + lag
    BY <2>2, BoundFacts
  <2>4. MasterOK'
    BY <1>1, <1>3, <2>1, <2>2, BoundFacts DEF MasterOK
  <2>5. ShownInv'
    <3> SUFFICES ASSUME ~Red', heard' = "data"
                 PROVE  /\ seen' # None
                        /\ seen' <= MaxAge + MaxBlock + MaxHold + silent' + lag'
      BY DEF ShownInv
    <3>1. silent # None /\ silent' = silent + lag /\ silent \in Nat /\ ~(silent' > Threshold)
      BY <1>4, <2>2, <2>3, BoundFacts DEF Red
    <3>2. ~Red
      BY <1>4, <3>1, BoundFacts DEF Red
    <3>3. seen # None /\ seen <= MaxAge + MaxBlock + MaxHold + silent + lag
      BY <1>1, <1>3, <2>1, <3>2 DEF ShownInv
    <3>. QED  BY <1>3, <1>4, <2>1, <3>1, <3>3, BoundFacts
  <2>. QED  BY <1>2, <1>5, <2>4, <2>5 DEF StreamInv
<1>7. CASE inbox # "none"
  <2>1. heard' = inbox /\ silent' = 0 /\ seen' = waiting
    BY <1>7 DEF MasterRound
  <2>2. MasterOK'
    BY <1>1, <1>3, <1>4, <2>1, BoundFacts DEF MasterOK
  <2>3. ShownInv'
    <3> SUFFICES ASSUME heard' = "data"
                 PROVE  /\ seen' # None
                        /\ seen' <= MaxAge + MaxBlock + MaxHold + silent' + lag'
      BY DEF ShownInv
    <3>1. waiting # None /\ waiting <= MaxAge + MaxBlock + lag
      BY <1>1, <1>3, <2>1 DEF InboxInv
    <3>. QED  BY <1>3, <1>4, <2>1, <3>1, BoundFacts
  <2>. QED  BY <1>2, <1>5, <2>2, <2>3 DEF StreamInv
<1>. QED  BY <1>6, <1>7

\* The restarts and the end of the master's loop.
LEMMA RestartStreamInv ==
    ASSUME StreamInv, AgentRestart \/ MasterDies \/ MasterRestart
    PROVE  StreamInv'
<1>1. IInv /\ StationOK /\ MasterOK /\ InboxInv /\ ShownInv
  BY DEF StreamInv
<1>2. restarts' \in 0 .. MaxRestarts
  <2>1. restarts \in 0 .. MaxRestarts
    BY <1>1 DEF MasterOK
  <2>. QED  BY <2>1, BoundFacts DEF AgentRestart, MasterDies, MasterRestart
<1>3. CASE AgentRestart
  <2>1. TypeOK /\ kraken' = kraken /\ boot' = boot /\ faults' = faults
    BY <1>1, <1>3 DEF IInv, AgentRestart, krakenVars
  <2>2. TypeOK'
    <3>1. attempts' \in 0 .. MaxAttempts /\ wait' \in 0 .. Cap /\ delay' \in 0 .. Cap
      BY <1>3, PolicyAssumption DEF AgentRestart
    <3>2. fired' = fired /\ last' = last /\ lives' \in Nat \ {0}
      BY <1>3, <2>1 DEF AgentRestart, TypeOK
    <3>3. exhausted' \in BOOLEAN /\ available' \in BOOLEAN
      BY <1>3 DEF AgentRestart
    <3>. QED  BY <1>3, <2>1, <3>1, <3>3, <3>2 DEF TypeOK, AgentRestart
  <2>3. OutageInv'
    <3>1. /\ fired \in Nat /\ lives \in Nat \ {0} /\ attempts \in 0 .. MaxAttempts
          /\ fired <= MaxAttempts * (lives - 1) + attempts
          /\ available => fired = 0
      BY <1>1 DEF IInv, TypeOK, OutageInv
    <3>2. /\ fired' = fired /\ attempts' = 0 /\ ~available' /\ exhausted' = FALSE
          /\ lives' = IF available THEN 1 ELSE lives + 1
      BY <1>3 DEF AgentRestart
    <3>3. fired' <= MaxAttempts * (lives' - 1) + attempts'
      <4>1. CASE available
        BY <3>1, <3>2, <4>1, Budget
      <4>2. CASE ~available
        <5>1. lives' - 1 = lives
          BY <3>1, <3>2, <4>2
        <5>2. /\ MaxAttempts * (lives - 1) \in Nat /\ MaxAttempts \in Nat
              /\ MaxAttempts * lives = MaxAttempts * (lives - 1) + MaxAttempts
          BY <3>1, Budget, PolicyAssumption
        <5>. QED  BY <3>1, <3>2, <5>1, <5>2
      <4>. QED  BY <4>1, <4>2
    <3>. QED  BY <3>2, <3>3, PolicyAssumption DEF OutageInv
  <2>4. LastInv'
    BY <1>3 DEF LastInv, AgentRestart
  <2>5. StationOK'
    <3>1. behind' \in 0 .. MaxBlock
      BY <1>3, BoundFacts DEF AgentRestart
    <3>2. fresh' \in BOOLEAN
      BY <1>3 DEF AgentRestart
    <3>. QED  BY <1>1, <1>3, <3>1, <3>2 DEF StationOK, AgentRestart
  <2>6. MasterOK' /\ UNCHANGED linkVars /\ UNCHANGED masterVars
    BY <1>1, <1>2, <1>3 DEF MasterOK, AgentRestart, linkVars, masterVars
  <2>. QED  BY <1>1, <2>2, <2>3, <2>5, <2>6, <2>4, SameLink, SameMaster DEF StreamInv, IInv
<1>4. CASE MasterDies
  <2>1. IInv' /\ StationOK'
    BY <1>1, <1>4, SameFeed DEF MasterDies, StationOK, stationVars
  <2>2. alive' = FALSE
    BY <1>4 DEF MasterDies
  <2>3. MasterOK'
    <3>1. alive' \in BOOLEAN
      BY <2>2
    <3>. QED  BY <1>1, <1>2, <1>4, <3>1, BoundFacts DEF MasterOK, MasterDies
  <2>. QED  BY <2>1, <2>2, <2>3 DEF StreamInv, InboxInv, ShownInv
<1>5. CASE MasterRestart
  <2>1. IInv' /\ StationOK'
    BY <1>1, <1>5, SameFeed DEF MasterRestart, StationOK, stationVars
  <2>2. MasterOK'
    <3>1. alive' \in BOOLEAN
      BY <1>5 DEF MasterRestart
    <3>. QED  BY <1>1, <1>2, <1>5, <3>1, BoundFacts DEF MasterOK, MasterRestart
  <2>3. InboxInv' /\ ShownInv'
    BY <1>5 DEF MasterRestart, InboxInv, ShownInv
  <2>. QED  BY <2>1, <2>2, <2>3 DEF StreamInv
<1>. QED  BY <1>3, <1>4, <1>5

LEMMA NextStreamInv == StreamInv /\ [INext]_allVars => StreamInv'
<1> SUFFICES ASSUME StreamInv, [INext]_allVars PROVE StreamInv'
  OBVIOUS
<1>1. CASE UNCHANGED allVars
  <2>1. IInv'
    BY <1>1, SameFeed DEF StreamInv, allVars
  <2>2. UNCHANGED linkVars /\ UNCHANGED masterVars
    BY <1>1 DEF allVars
  <2>3. StationOK' /\ MasterOK'
    BY <1>1 DEF StreamInv, allVars, stationVars, linkVars, masterVars, StationOK, MasterOK
  <2>. QED  BY <2>1, <2>2, <2>3, SameLink, SameMaster DEF StreamInv
<1>. QED  BY <1>1, FaultStreamInv, TickStreamInv, BeginStreamInv, SendStreamInv,
             RoundStreamInv, RestartStreamInv DEF INext

\* Every reachable state of the stream is well typed.
THEOREM StreamTypeCorrect == ISpec => []StreamTypeOK
<1>1. StreamInv => StreamTypeOK
  BY DEF StreamInv, IInv, StreamTypeOK
<1>. QED  BY <1>1, InitStreamInv, NextStreamInv, PTL DEF ISpec

\* No stale bearing is shown as current, for every age limit, staleness threshold,
\* hold-up of the agent's and of the master's loop, loss and restart.
THEOREM FreshWhenShownHolds == ISpec => []FreshWhenShown
<1>1. StreamInv => FreshWhenShown
  <2> SUFFICES ASSUME StreamInv, alive, ~Red, heard = "data"
               PROVE  /\ seen # None
                      /\ seen <= MaxAge + MaxBlock + MaxHold + Threshold + MaxHold
    BY DEF FreshWhenShown
  <2>1. seen # None /\ seen <= MaxAge + MaxBlock + MaxHold + silent + lag
    BY DEF StreamInv, ShownInv
  <2>2. /\ silent \in 0 .. Threshold + 1 \cup {None} /\ seen \in 0 .. SeenCap \cup {None}
        /\ lag \in 0 .. MaxHold
        /\ silent # None /\ ~(silent > Threshold)
    BY DEF StreamInv, MasterOK, Red
  <2>. QED  BY <2>1, <2>2, BoundFacts
<1>. QED  BY <1>1, InitStreamInv, NextStreamInv, PTL DEF ISpec

\* Within an outage, every life of the agent costs at most max_attempts restarts, for
\* every policy and any number of restarts of the agent.
THEOREM BoundedHolds == ISpec => []Bounded
<1>1. StreamInv => Bounded
  <2> SUFFICES ASSUME StreamInv PROVE fired <= MaxAttempts * lives
    BY DEF Bounded
  <2>1. /\ fired \in Nat /\ lives \in Nat \ {0} /\ attempts \in 0 .. MaxAttempts
        /\ fired <= MaxAttempts * (lives - 1) + attempts
    BY DEF StreamInv, IInv, TypeOK, OutageInv
  <2>2. MaxAttempts * (lives - 1) \in Nat /\ MaxAttempts \in Nat
        /\ MaxAttempts * lives = MaxAttempts * (lives - 1) + MaxAttempts
    BY <2>1, Budget, PolicyAssumption
  <2>. QED  BY <2>1, <2>2
<1>. QED  BY <1>1, InitStreamInv, NextStreamInv, PTL DEF ISpec

\* Restarts keep their distance, across outages and lives of the agent.
THEOREM SpacedHolds == ISpec => Spaced
<1>1. StreamInv /\ [INext]_allVars => [fired' > fired => last = None \/ last >= MinGap]_vars
  <2> SUFFICES ASSUME StreamInv, INext, fired' > fired
               PROVE  last = None \/ last >= MinGap
    BY DEF allVars, vars
  <2>1. fired \in Nat
    BY DEF StreamInv, IInv, TypeOK
  <2>2. fired' # fired
    BY <2>1
  <2>3. Begin
    BY <2>2 DEF INext, IFault, Fault, ITick, Tick, Send, AgentRestart, MasterRound,
                MasterDies, MasterRestart, vars
  <2>. QED  BY <2>3, RoundIInv DEF StreamInv, Begin
<1>. QED  BY <1>1, InitStreamInv, NextStreamInv, PTL DEF ISpec, Spaced
=============================================================================
