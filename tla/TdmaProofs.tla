----------------------------- MODULE TdmaProofs -----------------------------
(***************************************************************************)
(* What the superframe guarantees for every fleet, geometry and amount of  *)
(* loss: types, fair shares, and a channel free of collisions as long as   *)
(* no loop is held up and the master does not restart.                     *)
(***************************************************************************)
EXTENDS Tdma, FiniteSetTheorems, FunctionTheorems, WellFoundedInduction, TLAPS

-----------------------------------------------------------------------------
(* assign_slots() *)

LEMMA RankFacts ==
    ASSUME NEW live \in SUBSET Station, NEW s \in live
    PROVE  /\ Rank(s, live) \in 0 .. Cardinality(live) - 1
           /\ \A r \in live : s < r => Rank(s, live) < Rank(r, live)
<1>1. IsFiniteSet(live) /\ Cardinality(live) \in Nat
  BY StationAssumption, FS_Subset, FS_CardinalityType
<1>2. \A r \in live : /\ IsFiniteSet({x \in live : x < r})
                      /\ Rank(r, live) \in Nat
  <2>1. \A r \in live : {x \in live : x < r} \in SUBSET live
    OBVIOUS
  <2>. QED  BY <1>1, <2>1, FS_Subset, FS_CardinalityType DEF Rank
<1>3. Rank(s, live) < Cardinality(live)
  <2> DEFINE below == {x \in live : x < s}
  <2>1. below \in SUBSET live /\ s \notin below
    BY StationAssumption
  <2>2. Cardinality(below) <= Cardinality(live) /\ Cardinality(below) # Cardinality(live)
    BY <1>1, <2>1, FS_Subset
  <2>. QED  BY <1>1, <1>2, <2>2 DEF Rank
<1>4. ASSUME NEW r \in live, s < r
      PROVE  Rank(s, live) < Rank(r, live)
  <2> DEFINE low == {x \in live : x < s}
             high == {x \in live : x < r}
  <2>. \A x \in live : x \in Nat
    BY StationAssumption
  <2>1. low \in SUBSET high /\ s \in high /\ s \notin low
    BY <1>4
  <2>2. Cardinality(low) <= Cardinality(high) /\ Cardinality(low) # Cardinality(high)
    BY <1>2, <2>1, FS_Subset
  <2>. QED  BY <1>2, <2>2 DEF Rank
<1>5. Rank(s, live) \in 0 .. Cardinality(live) - 1
  <2>1. Rank(s, live) \in Nat
    BY <1>2
  <2>. QED  BY <1>1, <1>3, <2>1
<1>. QED  BY <1>4, <1>5

\* Every position among the live stations is somebody's.
LEMMA RankOnto ==
    ASSUME NEW live \in SUBSET Station, live # {}, NEW n \in Nat
    PROVE  \E s \in live : Rank(s, live) = n % Cardinality(live)
<1> DEFINE c == Cardinality(live)
           T == 0 .. c - 1
           f == [s \in live |-> Rank(s, live)]
<1>1. IsFiniteSet(live) /\ c \in Nat /\ c # 0
  BY StationAssumption, FS_Subset, FS_CardinalityType, FS_EmptySet
<1>2. IsFiniteSet(T) /\ Cardinality(T) = c
  BY SMTT(60), <1>1, FS_Interval
<1>3. f \in [live -> T]
  BY RankFacts
<1>4. ASSUME NEW s \in live, NEW r \in live, f[s] = f[r]
      PROVE  s = r
  <2>1. s \in Nat /\ r \in Nat /\ f[s] \in Int /\ f[r] \in Int
    BY <1>3, <1>1, StationAssumption
  <2>2. ~(s < r) /\ ~(r < s)
    BY <1>4, <2>1, RankFacts
  <2>. QED  BY <2>1, <2>2
<1>5. f \in Injection(live, T)
  BY <1>3, <1>4, Fun_IsInj DEF Injection, IsInjective
<1>6. f \in Surjection(live, T)
  BY <1>1, <1>2, <1>5, FS_Injection
<1>7. n % c \in T
  BY <1>1
<1>. QED  BY <1>6, <1>7 DEF Surjection

LEMMA NthFacts ==
    ASSUME NEW live \in SUBSET Station, live # {}, NEW n \in Nat
    PROVE  Nth(n, live) \in live
BY RankOnto DEF Nth

LEMMA AssignedType ==
    ASSUME NEW live \in SUBSET Station
    PROVE  Assigned(live) \in SlotMap
<1>1. ASSUME NEW i \in DataSlot, i < MaxPerStation * Cardinality(live)
      PROVE  Nth(i, live) \in Station
  <2>1. i \in Nat
    BY SuperframeAssumption DEF DataSlot
  <2>2. CASE live = {}
    <3>1. Cardinality(live) = 0
      BY <2>2, FS_EmptySet
    <3>. QED  BY <1>1, <2>1, <3>1, SuperframeAssumption
  <2>3. CASE live # {}
    BY <2>1, <2>3, NthFacts
  <2>. QED  BY <2>2, <2>3
<1>. QED  BY <1>1 DEF Assigned, SlotMap

-----------------------------------------------------------------------------
(* Types *)

LEMMA InitTypeOK == Init => TypeOK
<1> SUFFICES ASSUME Init PROVE TypeOK
  OBVIOUS
<1> USE DEF Init
<1>1. slot \in Slot /\ seq \in 0 .. SeqMod - 1 /\ quiet \in [Station -> 0 .. Stale + 1]
  BY SuperframeAssumption DEF Slot
<1>2. map \in SlotMap
  BY DEF NoSlots, SlotMap
<1>3. states \subseteq Station
  BY StationAssumption
<1>. QED  BY <1>1, <1>2, <1>3 DEF TypeOK

LEMMA AgedType ==
    ASSUME NEW limit \in Nat, NEW n \in 0 .. limit + 1
    PROVE  Aged(n, limit) \in 0 .. limit + 1
BY SuperframeAssumption DEF Aged

\* What a round of the loop works with.
Reception == [elapsed : 0 .. BeaconLoss + 1 \cup {None},
              bseq : 0 .. SeqMod - 1 \cup {None},
              mine : SUBSET DataSlot, sent : SUBSET DataSlot, asked : BOOLEAN]

LEMMA DrainedType ==
    ASSUME TypeOK, NEW s \in Station
    PROVE  Drained(s) \in Reception
<1>1. CASE inbox[s] = None
  <2>1. Drained(s) = [elapsed |-> elapsed[s], bseq |-> bseq[s], mine |-> mine[s],
                      sent |-> sent[s], asked |-> asked[s]]
    BY <1>1 DEF Drained
  <2>. QED  BY <2>1 DEF TypeOK, Reception
<1>2. CASE inbox[s] # None
  <2> DEFINE granted == {i \in DataSlot : inbox[s].map[i] = s}
             used == IF inbox[s].seq = bseq[s] THEN sent[s] ELSE {}
             again == inbox[s].seq = bseq[s] /\ asked[s]
  <2>1. Drained(s) = [elapsed |-> 0, bseq |-> inbox[s].seq, mine |-> granted,
                      sent |-> used, asked |-> again]
    BY <1>2 DEF Drained
  <2>2. inbox[s].seq \in 0 .. SeqMod - 1
    BY <1>2 DEF TypeOK, Beacon
  <2>3. granted \in SUBSET DataSlot /\ used \in SUBSET DataSlot /\ again \in BOOLEAN
    BY DEF TypeOK
  <2>4. 0 \in 0 .. BeaconLoss + 1
    BY SuperframeAssumption DEF BeaconLoss
  <2>. QED  BY <2>1, <2>2, <2>3, <2>4 DEF Reception
<1>. QED  BY <1>1, <1>2

LEMMA StepType ==
    ASSUME TypeOK, NEW s \in Station, Step(s)
    PROVE  TypeOK'
<1> DEFINE b == Drained(s)
           due == IF b.elapsed = None \/ Lost(b) THEN {} ELSE Due(s, b)
           asks == /\ b.elapsed # None /\ ~Lost(b)
                   /\ b.mine = {} /\ ~b.asked /\ b.elapsed >= 1
<1>1. b \in Reception
  BY DrainedType
<1>2. /\ b.elapsed \in 0 .. BeaconLoss + 1 \cup {None} /\ b.bseq \in 0 .. SeqMod - 1 \cup {None}
      /\ b.mine \in SUBSET DataSlot /\ b.sent \in SUBSET DataSlot /\ b.asked \in BOOLEAN
  BY <1>1 DEF Reception
<1>3. due \in SUBSET DataSlot
  BY <1>2 DEF Due
<1>4. asks \in BOOLEAN
  OBVIOUS
<1> HIDE DEF b, due, asks
<1>5. /\ stepped' = stepped \cup {s}
      /\ inbox' = [inbox EXCEPT ![s] = None]
      /\ elapsed' = [elapsed EXCEPT ![s] = IF Lost(b) THEN None ELSE b.elapsed]
      /\ bseq' = [bseq EXCEPT ![s] = IF Lost(b) THEN None ELSE b.bseq]
      /\ mine' = [mine EXCEPT ![s] = IF Lost(b) THEN {} ELSE b.mine]
      /\ sent' = [sent EXCEPT ![s] = b.sent \cup due]
      /\ asked' = [asked EXCEPT ![s] = b.asked \/ asks]
      /\ bearings' = IF due # {} THEN bearings \cup {s} ELSE bearings
      /\ joins' = IF asks THEN joins \cup {s} ELSE joins
      /\ UNCHANGED <<slot, beaconed, masterVars, counters>>
  BY DEF Step, b, due, asks
<1>6. b.asked \/ asks \in BOOLEAN
  BY <1>2, <1>4
<1>7. /\ inbox' \in [Station -> Beacon \cup {None}]
      /\ elapsed' \in [Station -> 0 .. BeaconLoss + 1 \cup {None}]
      /\ bseq' \in [Station -> 0 .. SeqMod - 1 \cup {None}]
      /\ mine' \in [Station -> SUBSET DataSlot]
      /\ sent' \in [Station -> SUBSET DataSlot]
  BY <1>2, <1>3, <1>5 DEF TypeOK
<1>8. asked' \in [Station -> BOOLEAN]
  BY <1>5, <1>6 DEF TypeOK
<1>. QED  BY <1>5, <1>7, <1>8 DEF TypeOK, masterVars, counters

LEMMA EndSlotType ==
    ASSUME TypeOK, NEW h \in SUBSET Station, EndSlot(h)
    PROVE  TypeOK'
<1>1. slot' \in Slot
  BY SuperframeAssumption DEF TypeOK, EndSlot, Slot
<1>2. quiet' \in [Station -> 0 .. Stale + 1]
  <2>1. \A s \in Station : Aged(quiet[s], Stale) \in 0 .. Stale + 1
    BY AgedType, SuperframeAssumption DEF TypeOK
  <2>2. 0 \in 0 .. Stale + 1
    BY SuperframeAssumption
  <2>. QED  BY <2>1, <2>2 DEF EndSlot
<1>3. elapsed' \in [Station -> 0 .. BeaconLoss + 1 \cup {None}]
  <2>1. BeaconLoss \in Nat
    BY SuperframeAssumption DEF BeaconLoss
  <2>2. \A s \in Station : Aged(elapsed[s], BeaconLoss) \in 0 .. BeaconLoss + 1 \cup {None}
    BY <2>1, AgedType DEF TypeOK, Aged
  <2>. QED  BY <2>2 DEF EndSlot
<1>4. losses' \in Nat
  BY DEF TypeOK, EndSlot, Heard
<1>5. stalls' \in Nat
  BY StationAssumption, FS_Subset, FS_CardinalityType DEF TypeOK, EndSlot
<1>6. states' \subseteq Station
  BY DEF TypeOK, EndSlot
<1>. QED  BY <1>1, <1>2, <1>3, <1>4, <1>5, <1>6 DEF TypeOK, EndSlot

LEMMA SendBeaconType ==
    ASSUME TypeOK, SendBeacon
    PROVE  TypeOK'
<1>1. seq' \in 0 .. SeqMod - 1
  BY SuperframeAssumption DEF TypeOK, SendBeacon, NextBeacon
<1>2. map' \in SlotMap
  BY AssignedType DEF SendBeacon, Live
<1>3. PICK deaf \in SUBSET Station :
        /\ losses' = losses + Cardinality(deaf)
        /\ inbox' = [s \in Station |-> IF s \in deaf THEN inbox[s]
                                       ELSE [seq |-> seq', map |-> map']]
  BY DEF SendBeacon
<1>4. Cardinality(deaf) \in Nat
  BY StationAssumption, FS_Subset, FS_CardinalityType
<1>5. losses' \in Nat
  BY <1>3, <1>4 DEF TypeOK
<1>6. [seq |-> seq', map |-> map'] \in Beacon
  BY <1>1, <1>2 DEF Beacon
<1>7. inbox' \in [Station -> Beacon \cup {None}]
  BY <1>3, <1>6 DEF TypeOK
<1>. QED  BY <1>1, <1>2, <1>5, <1>7 DEF TypeOK, SendBeacon

LEMMA RestartType ==
    ASSUME TypeOK, (\E s \in Station : StationRestart(s)) \/ MasterRestart
    PROVE  TypeOK'
<1>1. CASE \E s \in Station : StationRestart(s)
  <2>1. PICK s \in Station : StationRestart(s)
    BY <1>1
  <2>. QED  BY <2>1 DEF TypeOK, StationRestart, channelVars, masterVars
<1>2. CASE MasterRestart
  <2>1. BeaconLoss \in Nat
    BY SuperframeAssumption DEF BeaconLoss
  <2>2. \A s \in Station : Aged(elapsed[s], BeaconLoss) \in 0 .. BeaconLoss + 1 \cup {None}
    BY <2>1, AgedType DEF TypeOK, Aged
  <2>3. elapsed' \in [Station -> 0 .. BeaconLoss + 1 \cup {None}]
    BY <1>2, <2>2 DEF MasterRestart
  <2>4. quiet' \in [Station -> 0 .. Stale + 1] /\ map' \in SlotMap /\ seq' \in 0 .. SeqMod - 1
    BY <1>2, SuperframeAssumption DEF MasterRestart, NoSlots, SlotMap
  <2>5. slot' \in Slot /\ states' \subseteq Station
    BY <1>2, SuperframeAssumption, StationAssumption DEF MasterRestart, Slot
  <2>6. /\ inbox' \in [Station -> Beacon \cup {None}]
        /\ bseq' \in [Station -> 0 .. SeqMod - 1 \cup {None}]
        /\ mine' \in [Station -> SUBSET DataSlot] /\ sent' \in [Station -> SUBSET DataSlot]
        /\ asked' \in [Station -> BOOLEAN]
    BY <1>2 DEF TypeOK, MasterRestart
  <2>7. /\ beaconed' \in BOOLEAN /\ bearings' \subseteq Station
        /\ joins' \subseteq Station /\ stepped' \subseteq Station
    BY <1>2 DEF TypeOK, MasterRestart
  <2>8. losses' \in Nat /\ stalls' \in Nat /\ restarts' \in Nat /\ resets' \in Nat
    BY <1>2 DEF TypeOK, MasterRestart
  <2>. QED  BY <2>3, <2>4, <2>5, <2>6, <2>7, <2>8 DEF TypeOK
<1>. QED  BY <1>1, <1>2

LEMMA NextTypeOK == TypeOK /\ [Next]_vars => TypeOK'
<1> SUFFICES ASSUME TypeOK, [Next]_vars PROVE TypeOK'
  OBVIOUS
<1>1. CASE SendBeacon
  BY <1>1, SendBeaconType
<1>2. CASE \E s \in Station : Step(s)
  BY <1>2, StepType
<1>3. CASE \E h \in SUBSET Station : EndSlot(h)
  BY <1>3, EndSlotType
<1>4. CASE (\E s \in Station : StationRestart(s)) \/ MasterRestart
  BY <1>4, RestartType
<1>5. CASE UNCHANGED vars
  BY <1>5 DEF TypeOK, vars, channelVars, masterVars, stationVars, counters
<1>. QED  BY <1>1, <1>2, <1>3, <1>4, <1>5 DEF Next

\* Types, for every fleet and every superframe of at least one data slot.
THEOREM TypeCorrect == Spec => []TypeOK
<1>. QED  BY InitTypeOK, NextTypeOK, PTL DEF Spec
-----------------------------------------------------------------------------
(* No collision: the named parts of IInv that hold while nobody is held up  *)

Ordered == BeaconInv /\ SyncInv /\ AskedInv /\ AirInv

LEMMA InitOrdered == Init => Ordered
BY DEF Init, Ordered, BeaconInv, SyncInv, AskedInv, AirInv

\* The beacon opens a superframe in which nobody has moved yet.
LEMMA SendBeaconOrdered ==
    ASSUME TypeOK, Ordered, SendBeacon
    PROVE  Ordered'
<1>1. /\ slot = 0 /\ ~beaconed /\ beaconed' = TRUE
      /\ slot' = slot /\ bearings' = bearings /\ joins' = joins /\ stepped' = stepped
      /\ elapsed' = elapsed /\ mine' = mine /\ asked' = asked
  BY DEF SendBeacon
<1>2. \A s \in Station : inbox[s] = None
  BY <1>1 DEF Ordered, BeaconInv
<1>3. PICK deaf \in SUBSET Station :
        inbox' = [s \in Station |-> IF s \in deaf THEN inbox[s]
                                    ELSE [seq |-> seq', map |-> map']]
  BY DEF SendBeacon
<1>4. \A s \in Station : inbox'[s] # None => inbox'[s].map = map'
  BY <1>2, <1>3
<1>5. BeaconInv'
  BY <1>1, <1>4 DEF Ordered, BeaconInv
<1>6. \A s \in Station : elapsed[s] = None \/ ~(elapsed[s] < NSlots)
  BY <1>1 DEF Ordered, SyncInv
<1>7. SyncInv'
  BY <1>1, <1>6 DEF SyncInv
<1>8. AskedInv'
  BY <1>1 DEF Ordered, AskedInv
<1>9. bearings = {} /\ joins = {}
  BY <1>1 DEF Ordered, AirInv, TypeOK
<1>10. AirInv'
  BY <1>1, <1>9 DEF AirInv
<1>. QED  BY <1>5, <1>7, <1>8, <1>10 DEF Ordered

\* A station's loop: what it sends is what the last beacon granted it.
LEMMA StepOrdered ==
    ASSUME TypeOK, Ordered, NEW s \in Station, Step(s)
    PROVE  Ordered'
<1> DEFINE b == Drained(s)
           due == IF b.elapsed = None \/ Lost(b) THEN {} ELSE Due(s, b)
           asks == /\ b.elapsed # None /\ ~Lost(b)
                   /\ b.mine = {} /\ ~b.asked /\ b.elapsed >= 1
           granted == {i \in DataSlot : map[i] = s}
<1>1. /\ slot = 0 => beaconed
      /\ s \notin stepped
      /\ stepped' = stepped \cup {s}
      /\ inbox' = [inbox EXCEPT ![s] = None]
      /\ elapsed' = [elapsed EXCEPT ![s] = IF Lost(b) THEN None ELSE b.elapsed]
      /\ mine' = [mine EXCEPT ![s] = IF Lost(b) THEN {} ELSE b.mine]
      /\ asked' = [asked EXCEPT ![s] = b.asked \/ asks]
      /\ bearings' = IF due # {} THEN bearings \cup {s} ELSE bearings
      /\ joins' = IF asks THEN joins \cup {s} ELSE joins
      /\ slot' = slot /\ beaconed' = beaconed /\ map' = map
  BY DEF Step, b, due, asks, masterVars
<1>2. /\ b.elapsed \in 0 .. BeaconLoss + 1 \cup {None}
      /\ b.mine \in SUBSET DataSlot /\ b.asked \in BOOLEAN
      /\ slot \in 0 .. NSlots - 1 /\ elapsed[s] \in 0 .. BeaconLoss + 1 \cup {None}
  BY DrainedType DEF Reception, TypeOK, Slot
\* What the loop works with is either a fresh beacon or what it had.
<1>3. \/ slot = 0 /\ beaconed /\ b.elapsed = 0 /\ b.mine = granted
      \/ b.elapsed = elapsed[s] /\ b.mine = mine[s] /\ b.asked = asked[s]
  <2>1. CASE inbox[s] = None
    <3>1. b = [elapsed |-> elapsed[s], bseq |-> bseq[s], mine |-> mine[s],
               sent |-> sent[s], asked |-> asked[s]]
      BY <2>1 DEF Drained
    <3>. QED  BY <3>1
  <2>2. CASE inbox[s] # None
    <3>1. slot = 0 /\ beaconed /\ inbox[s].map = map
      BY <2>2 DEF Ordered, BeaconInv
    <3>2. b = [elapsed |-> 0, bseq |-> inbox[s].seq,
               mine |-> {i \in DataSlot : inbox[s].map[i] = s},
               sent |-> IF inbox[s].seq = bseq[s] THEN sent[s] ELSE {},
               asked |-> inbox[s].seq = bseq[s] /\ asked[s]]
      BY <2>2 DEF Drained
    <3>. QED  BY <3>1, <3>2
  <2>. QED  BY <2>1, <2>2
<1>4. elapsed[s] # None /\ elapsed[s] < NSlots
      => elapsed[s] = slot /\ mine[s] = granted /\ (slot = 0 => beaconed)
  BY DEF Ordered, SyncInv
<1>5. elapsed[s] # None /\ mine[s] = {} /\ ~asked[s] => ~(elapsed[s] >= 2)
  BY DEF Ordered, AskedInv
<1>6. ASSUME due # {}
      PROVE  slot >= 2 /\ map[slot - 2] = s
  <2>1. PICK i \in b.mine : b.elapsed # None /\ b.elapsed = i + 2
    BY <1>6 DEF due, Due
  <2>2. i \in 0 .. NSlots - 3
    BY <1>2, <2>1 DEF DataSlot
  <2>3. b.elapsed = elapsed[s] /\ b.mine = mine[s] /\ elapsed[s] < NSlots
    BY <1>2, <1>3, <2>1, <2>2, SuperframeAssumption
  <2>4. slot = i + 2 /\ i \in granted
    BY <1>4, <2>1, <2>3
  <2>. QED  BY <2>2, <2>4
<1>7. ASSUME asks
      PROVE  slot = 1
  <2>1. /\ b.elapsed # None /\ b.elapsed >= 1 /\ b.mine = {} /\ ~b.asked
    BY <1>7 DEF asks
  <2>2. elapsed[s] # None /\ elapsed[s] >= 1 /\ mine[s] = {} /\ ~asked[s]
    BY <1>3, <2>1
  <2>3. elapsed[s] = 1
    BY <1>2, <1>5, <2>2
  <2>. QED  BY <1>4, <2>2, <2>3, SuperframeAssumption
<1>8. Lost(b) => b.elapsed # None
  BY DEF Lost
<1>a. asks = (/\ b.elapsed # None /\ ~Lost(b)
              /\ b.mine = {} /\ ~b.asked /\ b.elapsed >= 1)
  BY DEF asks
<1> HIDE DEF b, due, asks
<1>9. BeaconInv'
  BY <1>1 DEF Ordered, BeaconInv, TypeOK
<1>10. SyncInv'
  <2>1. ASSUME NEW r \in Station, r # s, elapsed'[r] # None, elapsed'[r] < NSlots
        PROVE  /\ elapsed'[r] = slot'
               /\ mine'[r] = {i \in DataSlot : map'[i] = r}
               /\ slot' = 0 => beaconed' /\ r \in stepped'
    <3>1. elapsed'[r] = elapsed[r] /\ mine'[r] = mine[r]
      BY <1>1, <2>1 DEF TypeOK
    <3>. QED  BY <1>1, <2>1, <3>1 DEF Ordered, SyncInv
  <2>2. ASSUME elapsed'[s] # None, elapsed'[s] < NSlots
        PROVE  /\ elapsed'[s] = slot'
               /\ mine'[s] = granted
               /\ slot' = 0 => beaconed' /\ s \in stepped'
    <3>1. elapsed'[s] = b.elapsed /\ mine'[s] = b.mine
      BY <1>1, <2>2 DEF TypeOK
    <3>. QED  BY <1>1, <1>3, <1>4, <2>2, <3>1
  <2>. QED  BY <1>1, <2>1, <2>2 DEF SyncInv
<1>11. AskedInv'
  <2>1. ASSUME NEW r \in Station, r # s, elapsed'[r] # None, mine'[r] = {},
               elapsed'[r] >= 2 \/ (elapsed'[r] = 1 /\ r \in stepped')
        PROVE  asked'[r]
    <3>1. elapsed'[r] = elapsed[r] /\ mine'[r] = mine[r] /\ asked'[r] = asked[r]
      BY <1>1, <2>1 DEF TypeOK
    <3>2. r \in stepped' <=> r \in stepped
      BY <1>1, <2>1
    <3>. QED  BY <2>1, <3>1, <3>2 DEF Ordered, AskedInv
  <2>2. ASSUME elapsed'[s] # None, mine'[s] = {}, elapsed'[s] >= 1
        PROVE  asked'[s]
    <3>1. ~Lost(b) /\ elapsed'[s] = b.elapsed /\ mine'[s] = b.mine
      BY <1>1, <2>2 DEF TypeOK
    <3>2. asked'[s] = (b.asked \/ asks)
      BY <1>1 DEF TypeOK
    <3>3. b.asked \/ asks
      BY <1>a, <2>2, <3>1
    <3>. QED  BY <3>2, <3>3
  <2>3. ASSUME NEW n \in 0 .. BeaconLoss + 1
        PROVE  n >= 2 \/ n = 1 => n >= 1
    BY <2>3
  <2>4. elapsed'[s] # None /\ (elapsed'[s] >= 2 \/ elapsed'[s] = 1) => elapsed'[s] >= 1
    BY <1>1, <1>2, <2>3 DEF TypeOK
  <2>. QED  BY <1>1, <2>1, <2>2, <2>4 DEF AskedInv
<1>12. AirInv'
  BY <1>1, <1>6, <1>7 DEF Ordered, AirInv
<1>. QED  BY <1>9, <1>10, <1>11, <1>12 DEF Ordered

\* A slot in which every loop has run ends with every beacon read.
LEMMA EndSlotOrdered ==
    ASSUME TypeOK, Ordered, NEW h \in SUBSET Station, EndSlot(h), stepped = Station
    PROVE  Ordered'
<1>1. /\ slot = 0 => beaconed
      /\ elapsed' = [s \in Station |-> Aged(elapsed[s], BeaconLoss)]
      /\ slot' = (slot + 1) % NSlots
      /\ beaconed' = FALSE
      /\ bearings' = {} /\ joins' = {} /\ stepped' = {}
      /\ map' = map /\ inbox' = inbox /\ mine' = mine /\ asked' = asked
  BY DEF EndSlot
<1>2. \A s \in Station : inbox[s] = None
  BY DEF Ordered, BeaconInv
<1>3. BeaconInv'
  BY <1>1, <1>2 DEF BeaconInv
<1>4. AirInv'
  BY <1>1 DEF AirInv
<1>5. ASSUME NEW s \in Station, elapsed'[s] # None
      PROVE  /\ elapsed[s] # None /\ elapsed[s] \in Nat /\ elapsed'[s] \in Nat
             /\ \/ elapsed'[s] = elapsed[s] + 1
                \/ elapsed'[s] = elapsed[s] /\ elapsed[s] > 2 * NSlots
  BY <1>1, <1>5, SuperframeAssumption DEF Aged, TypeOK, BeaconLoss
<1>6. SyncInv'
  <2>1. ASSUME NEW s \in Station, elapsed'[s] # None, elapsed'[s] < NSlots
        PROVE  /\ elapsed'[s] = slot'
               /\ mine[s] = {i \in DataSlot : map[i] = s}
               /\ slot' # 0
    <3>1. elapsed'[s] = elapsed[s] + 1 /\ elapsed[s] < NSlots /\ elapsed[s] # None
      BY <1>5, <2>1, SuperframeAssumption
    <3>2. elapsed[s] = slot /\ mine[s] = {i \in DataSlot : map[i] = s}
      BY <3>1 DEF Ordered, SyncInv
    <3>3. slot \in Nat /\ slot + 1 < NSlots
      BY <2>1, <3>1, <3>2 DEF TypeOK, Slot
    <3>4. (slot + 1) % NSlots = slot + 1
      BY <3>3, SuperframeAssumption
    <3>. QED  BY <1>1, <3>1, <3>2, <3>3, <3>4
  <2>. QED  BY <1>1, <2>1 DEF SyncInv
<1>7. AskedInv'
  <2>1. ASSUME NEW s \in Station, elapsed'[s] # None, mine[s] = {}, elapsed'[s] >= 2
        PROVE  asked[s]
    <3>1. elapsed[s] # None /\ elapsed[s] \in Nat /\ elapsed[s] >= 1
      BY <1>5, <2>1, SuperframeAssumption
    <3>2. elapsed[s] >= 2 \/ (elapsed[s] = 1 /\ s \in stepped)
      BY <3>1
    <3>. QED  BY <2>1, <3>1, <3>2 DEF Ordered, AskedInv
  <2>. QED  BY <1>1, <2>1 DEF AskedInv
<1>. QED  BY <1>3, <1>4, <1>6, <1>7 DEF Ordered

LEMMA StationRestartOrdered ==
    ASSUME TypeOK, Ordered, NEW s \in Station, StationRestart(s)
    PROVE  Ordered'
<1>1. /\ elapsed' = [elapsed EXCEPT ![s] = None]
      /\ mine' = [mine EXCEPT ![s] = {}]
      /\ asked' = [asked EXCEPT ![s] = FALSE]
      /\ slot' = slot /\ beaconed' = beaconed /\ bearings' = bearings /\ joins' = joins
      /\ stepped' = stepped /\ map' = map /\ inbox' = inbox
  BY DEF StationRestart, channelVars, masterVars
<1>2. /\ elapsed'[s] = None
      /\ \A r \in Station \ {s} : /\ elapsed'[r] = elapsed[r]
                                  /\ mine'[r] = mine[r] /\ asked'[r] = asked[r]
  BY <1>1 DEF TypeOK
<1>3. BeaconInv' /\ AirInv'
  BY <1>1 DEF Ordered, BeaconInv, AirInv
<1>4. SyncInv'
  BY <1>1, <1>2 DEF Ordered, SyncInv
<1>5. AskedInv'
  BY <1>1, <1>2 DEF Ordered, AskedInv
<1>. QED  BY <1>3, <1>4, <1>5 DEF Ordered

\* With no hold-up on record, nobody was held up in the slot that ends.
LEMMA NobodyHeldUp ==
    ASSUME TypeOK, NEW h \in SUBSET Station, EndSlot(h), stalls' = 0
    PROVE  stalls = 0 /\ stepped = Station
<1>1. IsFiniteSet(Station \ stepped)
  BY StationAssumption, FS_Subset
<1>2. Cardinality(Station \ stepped) \in Nat
  BY <1>1, FS_CardinalityType
<1>3. stalls = 0 /\ Cardinality(Station \ stepped) = 0
  BY <1>2 DEF EndSlot, TypeOK
<1>4. Station \ stepped = {}
  BY <1>1, <1>3, FS_EmptySet
<1>. QED  BY <1>3, <1>4 DEF TypeOK

LEMMA NextIInv == IInv /\ [Next]_vars => IInv'
<1> SUFFICES ASSUME IInv, [Next]_vars, Undisturbed'
             PROVE  Ordered'
  BY NextTypeOK DEF IInv, Ordered
<1>1. TypeOK
  BY DEF IInv
<1>2. Undisturbed => Ordered
  BY DEF IInv, Ordered
<1>3. CASE SendBeacon
  <2>1. Undisturbed
    BY <1>3 DEF SendBeacon, Undisturbed
  <2>. QED  BY <1>1, <1>2, <1>3, <2>1, SendBeaconOrdered
<1>4. CASE \E s \in Station : Step(s)
  <2>1. Undisturbed
    BY <1>4 DEF Step, Undisturbed, counters
  <2>. QED  BY <1>1, <1>2, <1>4, <2>1, StepOrdered
<1>5. CASE \E s \in Station : StationRestart(s)
  <2>1. Undisturbed
    BY <1>5 DEF StationRestart, Undisturbed
  <2>. QED  BY <1>1, <1>2, <1>5, <2>1, StationRestartOrdered
<1>6. CASE \E h \in SUBSET Station : EndSlot(h)
  <2>1. PICK h \in SUBSET Station : EndSlot(h)
    BY <1>6
  <2>2. stalls' = 0 /\ resets' = 0 /\ resets' = resets
    BY <2>1 DEF Undisturbed, EndSlot
  <2>3. stalls = 0 /\ stepped = Station
    BY <1>1, <2>1, <2>2, NobodyHeldUp
  <2>4. Ordered
    BY <1>2, <2>2, <2>3 DEF Undisturbed
  <2>. QED  BY <1>1, <2>1, <2>3, <2>4, EndSlotOrdered
<1>7. CASE MasterRestart
  BY <1>1, <1>7 DEF MasterRestart, Undisturbed, TypeOK
<1>8. CASE UNCHANGED vars
  <2>1. Undisturbed
    BY <1>8 DEF Undisturbed, vars, counters
  <2>2. /\ slot' = slot /\ beaconed' = beaconed /\ bearings' = bearings /\ joins' = joins
        /\ stepped' = stepped /\ map' = map /\ inbox' = inbox /\ elapsed' = elapsed
        /\ mine' = mine /\ asked' = asked
    BY <1>8 DEF vars, channelVars, masterVars, stationVars
  <2>3. Ordered
    BY <1>2, <2>1
  <2>. QED  BY <2>2, <2>3 DEF Ordered, BeaconInv, SyncInv, AskedInv, AirInv
<1>. QED  BY <1>3, <1>4, <1>5, <1>6, <1>7, <1>8 DEF Next

\* Only the owner of a data slot is on the air in it.
LEMMA AirIsOwned ==
    ASSUME TypeOK, AirInv
    PROVE  ~Collides
<1>1. Cardinality(bearings) <= 1
  <2>1. bearings \subseteq {map[slot - 2]}
    BY DEF AirInv
  <2>2. IsFiniteSet({map[slot - 2]}) /\ Cardinality({map[slot - 2]}) = 1
    BY FS_Singleton
  <2>3. Cardinality(bearings) <= Cardinality({map[slot - 2]})
    BY <2>1, <2>2, FS_Subset
  <2>. QED  BY <2>2, <2>3
<1>2. IsFiniteSet(bearings)
  BY StationAssumption, FS_Subset DEF TypeOK
<1>3. Cardinality(bearings) \in Nat /\ slot \in Int
  BY <1>2, FS_CardinalityType, SuperframeAssumption DEF TypeOK, Slot
<1>4. ~(bearings # {} /\ slot < 2)
  BY <1>3 DEF AirInv
<1>. QED  BY <1>1, <1>3, <1>4 DEF Collides, AirInv

\* For every fleet, superframe and losses of frames: while no loop is held up and
\* the master does not restart, no two stations ever use one slot.
THEOREM NoCollisionHolds == Spec => []NoCollision
<1>1. Init => IInv
  BY InitTypeOK, InitOrdered DEF IInv, Ordered
<1>2. IInv => NoCollision
  BY AirIsOwned DEF IInv, NoCollision
<1>. QED  BY <1>1, <1>2, NextIInv, PTL DEF Spec
-----------------------------------------------------------------------------
(* Fair shares.  Of n live stations, the one of rank k is dealt the slots     *)
(* k, n + k, 2n + k and so on.                                                *)

LEMMA Least ==
    ASSUME NEW S \in SUBSET Nat, S # {}
    PROVE  \E m \in S : \A k \in S : m <= k
<1>1. PICK m \in S : \A k \in S : <<k, m>> \notin OpToRel(<, Nat)
  BY WFMin, NatLessThanWellFounded, Zenon
<1>2. \A k \in S : ~(k < m)
  BY <1>1 DEF OpToRel
<1>. QED  BY <1>2

\* Division with remainder.
LEMMA DivMod ==
    ASSUME NEW i \in Nat, NEW n \in Nat \ {0}
    PROVE  \E q \in Nat, k \in 0 .. n - 1 : i = n * q + k /\ i \div n = q /\ i % n = k
<1> DEFINE S == {d \in Nat : \E q \in Nat : i = n * q + d}
<1>1. i = n * 0 + i
  OBVIOUS
<1>2. S \in SUBSET Nat /\ S # {}
  BY <1>1
<1>3. PICK k \in S : \A d \in S : k <= d
  BY <1>2, Least
<1>4. PICK q \in Nat : i = n * q + k
  BY <1>3
<1>5. k < n
  <2> SUFFICES ASSUME ~(k < n) PROVE FALSE
    OBVIOUS
  <2>1. k \in Nat /\ k - n \in Nat /\ q + 1 \in Nat
    BY <1>3
  <2>2. n * (q + 1) = n * q + n /\ n * q \in Nat
    OBVIOUS
  <2>3. i = n * (q + 1) + (k - n)
    BY <1>4, <2>1, <2>2
  <2>4. k - n \in S
    BY <2>1, <2>3
  <2>. QED  BY <1>3, <2>1, <2>4
<1>6. k \in Nat /\ i % n = k /\ i \div n = q
  BY <1>3, <1>4, <1>5
<1>7. k \in 0 .. n - 1
  BY <1>5, <1>6
<1>. QED  BY <1>4, <1>6, <1>7

LEMMA ModOf ==
    ASSUME NEW q \in Nat, NEW n \in Nat \ {0}, NEW k \in 0 .. n - 1
    PROVE  n * q + k \in Nat /\ (n * q + k) % n = k
<1>1. k \in Nat /\ k < n /\ n * q \in Nat
  OBVIOUS
<1>. QED  BY <1>1

LEMMA RankInjective ==
    ASSUME NEW live \in SUBSET Station, NEW s \in live, NEW r \in live,
           Rank(s, live) = Rank(r, live)
    PROVE  s = r
<1>1. IsFiniteSet(live) /\ Cardinality(live) \in Nat
  BY StationAssumption, FS_Subset, FS_CardinalityType
<1>2. s \in Nat /\ r \in Nat /\ Rank(s, live) \in Int /\ Rank(r, live) \in Int
  BY <1>1, RankFacts, StationAssumption
<1>3. ~(s < r) /\ ~(r < s)
  BY <1>2, RankFacts
<1>. QED  BY <1>2, <1>3

\* Who is dealt the slot i.
LEMMA DealtTo ==
    ASSUME NEW live \in SUBSET Station, live # {}, NEW i \in Nat, NEW s \in Station
    PROVE  Nth(i, live) = s <=> s \in live /\ Rank(s, live) = i % Cardinality(live)
<1>1. Nth(i, live) \in live
  BY NthFacts
<1>2. IsFiniteSet(live) /\ Cardinality(live) \in Nat \ {0}
  BY StationAssumption, FS_Subset, FS_CardinalityType, FS_EmptySet
<1> DEFINE k == i % Cardinality(live)
<1>3. \E r \in live : Rank(r, live) = k
  BY RankOnto
<1>4. Rank(Nth(i, live), live) = k
  BY <1>3 DEF Nth
<1>. QED  BY <1>1, <1>4, RankInjective
Given(live, s) == {i \in DataSlot : Assigned(live)[i] = s}

LEMMA GivenFacts ==
    ASSUME NEW live \in SUBSET Station, NEW s \in Station
    PROVE  /\ IsFiniteSet(Given(live, s)) /\ Cardinality(Given(live, s)) \in Nat
           /\ \A i \in DataSlot : i \in Nat
           /\ \A i \in DataSlot : i \in Given(live, s) <=>
                 /\ s \in live /\ i < MaxPerStation * Cardinality(live)
                 /\ Rank(s, live) = i % Cardinality(live)
<1>1. \A i \in DataSlot : i \in Nat
  BY SuperframeAssumption DEF DataSlot
<1>2. IsFiniteSet(DataSlot)
  BY SuperframeAssumption, FS_Interval DEF DataSlot
<1>3. IsFiniteSet(Given(live, s)) /\ Cardinality(Given(live, s)) \in Nat
  BY <1>2, FS_Subset, FS_CardinalityType DEF Given
<1>4. ASSUME NEW i \in DataSlot
      PROVE  i \in Given(live, s) <=>
                 /\ s \in live /\ i < MaxPerStation * Cardinality(live)
                 /\ Rank(s, live) = i % Cardinality(live)
  <2>1. s # Idle
    BY StationAssumption DEF Idle
  <2>2. CASE live = {}
    <3>1. Cardinality(live) = 0
      BY <2>2, FS_EmptySet
    <3>2. ~(i < MaxPerStation * Cardinality(live))
      BY <1>1, <3>1, SuperframeAssumption
    <3>. QED  BY <2>1, <2>2, <3>2 DEF Given, Assigned
  <2>3. CASE live # {}
    <3>1. Nth(i, live) = s <=> s \in live /\ Rank(s, live) = i % Cardinality(live)
      BY <1>1, <2>3, DealtTo
    <3>. QED  BY <2>1, <3>1 DEF Given, Assigned
  <2>. QED  BY <2>2, <2>3
<1>. QED  BY <1>1, <1>3, <1>4

\* No station beyond the cap: its slots are told apart by the round they are in.
LEMMA ShareCapped ==
    ASSUME NEW live \in SUBSET Station, NEW s \in Station
    PROVE  Cardinality(Given(live, s)) <= MaxPerStation
<1> DEFINE n == Cardinality(live)
           G == Given(live, s)
           T == 0 .. MaxPerStation - 1
           f == [i \in G |-> i \div n]
<1>1. CASE s \notin live
  <2>1. G = {}
    BY <1>1, GivenFacts DEF Given
  <2>. QED  BY <2>1, FS_EmptySet, SuperframeAssumption
<1>2. CASE s \in live
  <2>1. n \in Nat \ {0}
    BY <1>2, StationAssumption, FS_Subset, FS_CardinalityType, FS_EmptySet
  <2>2. \A i \in G : i \in Nat /\ i < MaxPerStation * n /\ Rank(s, live) = i % n
    BY GivenFacts DEF Given
  <2> HIDE DEF n, G
  <2>3. ASSUME NEW i \in G
        PROVE  \E q \in T : i \div n = q /\ i = n * q + Rank(s, live)
    <3>1. i \in Nat /\ i < MaxPerStation * n
      BY <2>2
    <3>2. PICK q \in Nat, k \in 0 .. n - 1 : i = n * q + k /\ i \div n = q /\ i % n = k
      BY <2>1, <3>1, DivMod
    <3>3. n * q < MaxPerStation * n
      BY <2>1, <3>1, <3>2, SuperframeAssumption
    <3>4. q < MaxPerStation
      BY <2>1, <3>3, SuperframeAssumption
    <3>5. q \in T
      BY <3>4, SuperframeAssumption
    <3>6. k = Rank(s, live)
      BY <2>2, <3>2
    <3>. QED  BY <3>2, <3>5, <3>6
  <2>4. f \in [G -> T]
    BY <2>3
  <2>5. \A i, j \in G : f[i] = f[j] => i = j
    <3> SUFFICES ASSUME NEW i \in G, NEW j \in G, i \div n = j \div n PROVE i = j
      OBVIOUS
    <3>. QED  BY <2>3
  <2>6. f \in Injection(G, T)
    BY <2>4, <2>5, Fun_IsInj DEF Injection, IsInjective
  <2>7. IsFiniteSet(T) /\ Cardinality(T) = MaxPerStation
    <3>1. 0 \in Int /\ MaxPerStation - 1 \in Int
      BY SuperframeAssumption
    <3>. QED  BY <3>1, FS_Interval, SuperframeAssumption
  <2> HIDE DEF f, T
  <2>8. Cardinality(G) <= Cardinality(T)
    BY <2>6, <2>7, FS_Injection
  <2>. QED  BY <2>7, <2>8 DEF G
<1>. QED  BY <1>1, <1>2

\* Two live stations differ by one slot at most: where one is dealt a slot after the
\* first round, the other was dealt one the round before.
LEMMA SharesClose ==
    ASSUME NEW live \in SUBSET Station, NEW s \in live, NEW r \in live
    PROVE  Cardinality(Given(live, s)) <= Cardinality(Given(live, r)) + 1
<1> DEFINE n == Cardinality(live)
           G == Given(live, s)
           H == Given(live, r)
           k == Rank(s, live)
           l == Rank(r, live)
           f == [i \in G \ {k} |-> (i - n) - k + l]
<1>1. n \in Nat \ {0}
  BY StationAssumption, FS_Subset, FS_CardinalityType, FS_EmptySet
<1>2. k \in 0 .. n - 1 /\ l \in 0 .. n - 1
  BY RankFacts
<1>3. /\ \A i \in G : i \in Nat /\ i \in DataSlot /\ i < MaxPerStation * n /\ k = i % n
      /\ \A i \in DataSlot : i < MaxPerStation * n /\ l = i % n => i \in H
  BY GivenFacts DEF Given
<1>4. /\ IsFiniteSet(G) /\ Cardinality(G) \in Nat /\ IsFiniteSet(H) /\ Cardinality(H) \in Nat
  BY GivenFacts
<1> HIDE DEF n, G, H, k, l
<1>5. ASSUME NEW i \in G, i # k
      PROVE  (i - n) - k + l \in H
  <2> DEFINE j == (i - n) - k + l
  <2>1. i \in Nat /\ i < MaxPerStation * n /\ k = i % n
    BY <1>3
  <2>2. PICK q \in Nat : i = n * q + k
    BY <1>1, <2>1, DivMod, ZenonT(90)
  <2>3. q # 0
    BY <1>1, <1>2, <1>5, <2>2
  <2>4. q - 1 \in Nat /\ n * (q - 1) = n * q - n /\ n * (q - 1) \in Nat
    BY <1>1, <2>3
  <2>5. j = n * (q - 1) + l
    BY <1>1, <1>2, <2>2, <2>4
  <2>6. j % n = l /\ j \in Nat
    <3>1. n * (q - 1) + l \in Nat /\ (n * (q - 1) + l) % n = l
      BY <1>1, <1>2, <2>4, ModOf
    <3>. QED  BY <2>5, <3>1
  <2>7. j <= i
    BY <1>1, <1>2, <2>1
  <2>8. j < MaxPerStation * n /\ MaxPerStation * n \in Nat
    BY <1>1, <2>1, <2>6, <2>7, SuperframeAssumption
  <2>9. j \in DataSlot
    <3>1. i <= NSlots - 3
      BY <1>3 DEF DataSlot
    <3>. QED  BY <2>1, <2>6, <2>7, <3>1, SuperframeAssumption DEF DataSlot
  <2>. QED  BY <1>3, <2>6, <2>8, <2>9
<1>6. f \in [G \ {k} -> H]
  BY <1>5
<1>7. \A i, j \in G \ {k} : f[i] = f[j] => i = j
  <2> SUFFICES ASSUME NEW i \in G \ {k}, NEW j \in G \ {k}, (i - n) - k + l = (j - n) - k + l
               PROVE  i = j
    OBVIOUS
  <2>1. i \in Nat /\ j \in Nat
    BY <1>3
  <2>. QED  BY <1>1, <1>2, <2>1
<1>8. f \in Injection(G \ {k}, H)
  BY <1>6, <1>7, Fun_IsInj DEF Injection, IsInjective
<1> HIDE DEF f
<1>9. Cardinality(G \ {k}) <= Cardinality(H)
  BY <1>4, <1>8, FS_Injection
<1>10. Cardinality(G \ {k}) = IF k \in G THEN Cardinality(G) - 1 ELSE Cardinality(G)
  BY <1>4, FS_RemoveElement
<1>11. Cardinality(G) <= Cardinality(H) + 1
  BY <1>4, <1>9, <1>10
<1>. QED  BY <1>11 DEF G, H

\* A slot is left idle only when everybody has been dealt the cap.
LEMMA IdleWhenFull ==
    ASSUME NEW live \in SUBSET Station, NEW s \in live,
           NEW i0 \in DataSlot, Assigned(live)[i0] = Idle
    PROVE  Cardinality(Given(live, s)) >= MaxPerStation
<1> DEFINE n == Cardinality(live)
           G == Given(live, s)
           k == Rank(s, live)
           T == 0 .. MaxPerStation - 1
           f == [q \in T |-> n * q + k]
<1>1. n \in Nat \ {0}
  BY StationAssumption, FS_Subset, FS_CardinalityType, FS_EmptySet
<1>2. k \in 0 .. n - 1
  BY RankFacts
<1>3. i0 \in 0 .. NSlots - 3 /\ MaxPerStation \in Nat /\ NSlots \in Nat
  BY SuperframeAssumption DEF DataSlot
<1>4. ~(i0 < MaxPerStation * n)
  <2> SUFFICES ASSUME i0 < MaxPerStation * n PROVE FALSE
    OBVIOUS
  <2>1. live # {} /\ i0 \in Nat
    BY <1>3
  <2>2. Nth(i0, live) \in Station
    BY <2>1, NthFacts
  <2>. QED  BY <2>2, StationAssumption DEF Assigned, Idle
<1>5. \A i \in DataSlot : i < MaxPerStation * n /\ k = i % n => i \in G
  BY GivenFacts
<1>6. IsFiniteSet(G) /\ Cardinality(G) \in Nat
  BY GivenFacts
<1> HIDE DEF n, G, k
<1>7. ASSUME NEW q \in T
      PROVE  n * q + k \in G
  <2>1. q \in Nat /\ q + 1 \in Nat /\ q + 1 <= MaxPerStation
    BY <1>3
  <2>2. n * q + k \in Nat /\ (n * q + k) % n = k
    BY <1>1, <1>2, <2>1, ModOf
  <2>3. n * (q + 1) = n * q + n /\ n * q \in Nat
    BY <1>1, <2>1
  <2>4. n * (q + 1) <= MaxPerStation * n
    BY <1>1, <1>3, <2>1
  <2>5. n * q + k < n * (q + 1)
    BY <1>1, <1>2, <2>3
  <2>6. n * (q + 1) \in Nat /\ MaxPerStation * n \in Nat
    BY <1>1, <1>3, <2>1
  <2>7. n * q + k < MaxPerStation * n
    BY <2>2, <2>4, <2>5, <2>6
  <2>8. n * q + k \in DataSlot
    BY <1>3, <1>4, <2>2, <2>6, <2>7 DEF DataSlot
  <2>. QED  BY <1>5, <2>2, <2>7, <2>8
<1>8. f \in [T -> G]
  BY <1>7
<1>9. \A p, q \in T : f[p] = f[q] => p = q
  <2> SUFFICES ASSUME NEW p \in T, NEW q \in T, n * p + k = n * q + k PROVE p = q
    OBVIOUS
  <2>1. p \in Nat /\ q \in Nat /\ n * p \in Nat /\ n * q \in Nat
    BY <1>1, <1>3
  <2>2. n * p = n * q
    BY <1>2, <2>1
  <2>. QED  BY <1>1, <2>1, <2>2
<1>10. f \in Injection(T, G)
  BY <1>8, <1>9, Fun_IsInj DEF Injection, IsInjective
<1>11. IsFiniteSet(T) /\ Cardinality(T) = MaxPerStation
  <2>1. 0 \in Int /\ MaxPerStation - 1 \in Int
    BY <1>3
  <2>. QED  BY <1>3, <2>1, FS_Interval
<1> HIDE DEF f, T
<1>12. Cardinality(T) <= Cardinality(G)
  BY <1>6, <1>10, FS_Injection
<1>. QED  BY <1>3, <1>6, <1>11, <1>12 DEF G

LEMMA MapDealtHolds == Spec => []MapDealt
<1>1. NoSlots = Assigned({})
  <2>1. Cardinality({}) = 0
    BY FS_EmptySet
  <2>2. \A i \in DataSlot : ~(i < MaxPerStation * Cardinality({}))
    BY <2>1, SuperframeAssumption DEF DataSlot
  <2>. QED  BY <2>2 DEF NoSlots, Assigned
<1>2. Init => MapDealt
  BY <1>1 DEF Init, MapDealt
<1>3. MapDealt /\ [Next]_vars => MapDealt'
  <2> SUFFICES ASSUME MapDealt, [Next]_vars PROVE MapDealt'
    OBVIOUS
  <2>1. \A live : Assigned(live)' = Assigned(live)
    BY DEF Assigned, Nth, Rank
  <2>2. ASSUME map' = map, beaconed' => beaconed /\ quiet' = quiet
        PROVE  MapDealt'
    BY <2>1, <2>2 DEF MapDealt, Live
  <2>3. CASE SendBeacon
    <3>1. Live \in SUBSET Station /\ map' = Assigned(Live) /\ Live' = Live
      BY <2>3 DEF SendBeacon, Live
    <3>. QED  BY <2>1, <3>1 DEF MapDealt
  <2>4. CASE MasterRestart
    <3>1. map' = Assigned({}) /\ ~beaconed'
      BY <1>1, <2>4 DEF MasterRestart
    <3>. QED  BY <2>1, <3>1 DEF MapDealt
  <2>5. CASE \/ UNCHANGED vars
             \/ \E s \in Station : Step(s) \/ StationRestart(s)
             \/ \E h \in SUBSET Station : EndSlot(h)
    <3>1. map' = map /\ (beaconed' => beaconed /\ quiet' = quiet)
      BY <2>5 DEF vars, channelVars, masterVars, Step, EndSlot, StationRestart
    <3>. QED  BY <2>2, <3>1
  <2>. QED  BY <2>3, <2>4, <2>5 DEF Next
<1>. QED  BY <1>2, <1>3, PTL DEF Spec

\* For every fleet, superframe and cap: nobody is granted more than the cap, nobody two
\* more than a live station or another owner, and no slot stays idle that one of them
\* could use.
THEOREM FairSharesHolds == Spec => []FairShares
<1>1. MapDealt => FairShares
  <2> SUFFICES ASSUME NEW live \in SUBSET Station, map = Assigned(live),
                      beaconed => live = Live, NEW s \in Station
               PROVE  /\ Share(s) <= MaxPerStation
                      /\ Entitled(s) =>
                           /\ \A r \in Station : Share(r) <= Share(s) + 1
                           /\ Share(s) < MaxPerStation => \A i \in DataSlot : map[i] # Idle
    BY DEF MapDealt, FairShares
  <2>1. \A r \in Station : /\ Share(r) = Cardinality(Given(live, r))
                           /\ Cardinality(Given(live, r)) \in Nat
    <3> SUFFICES ASSUME NEW r \in Station
                 PROVE  /\ Share(r) = Cardinality(Given(live, r))
                        /\ Cardinality(Given(live, r)) \in Nat
      OBVIOUS
    <3>1. {i \in DataSlot : map[i] = r} = {i \in DataSlot : Assigned(live)[i] = r}
      OBVIOUS
    <3>2. Share(r) = Cardinality(Given(live, r))
      BY <3>1 DEF Share, Given
    <3>3. Cardinality(Given(live, r)) \in Nat
      BY GivenFacts
    <3>. QED  BY <3>2, <3>3
  <2>2. Share(s) <= MaxPerStation
    BY <2>1, ShareCapped
  <2>3. ASSUME Entitled(s)
        PROVE  s \in live
    <3>1. CASE Share(s) > 0
      <4>1. Given(live, s) # {}
        <5> SUFFICES ASSUME Given(live, s) = {} PROVE FALSE
          OBVIOUS
        <5>1. Cardinality(Given(live, s)) = 0
          BY FS_EmptySet
        <5>2. Share(s) = Cardinality(Given(live, s))
          BY <2>1
        <5>3. Share(s) = 0
          BY <5>1, <5>2
        <5>. QED  BY <5>3, <3>1
      <4>. QED  BY <4>1, GivenFacts DEF Given
    <3>2. CASE beaconed /\ s \in Live
      BY <3>2
    <3>. QED  BY <2>3, <3>1, <3>2 DEF Entitled
  <2>4. ASSUME Entitled(s), NEW r \in Station
        PROVE  Share(r) <= Share(s) + 1
    <3>1. CASE r \in live
      BY <2>1, <2>3, <2>4, <3>1, SharesClose
    <3>2. CASE r \notin live
      <4>1. Given(live, r) = {}
        BY <3>2, GivenFacts DEF Given
      <4>2. Share(r) = 0
        BY <2>1, <4>1, FS_EmptySet
      <4>. QED  BY <2>1, <4>2
    <3>. QED  BY <3>1, <3>2
  <2>5. ASSUME Entitled(s), Share(s) < MaxPerStation, NEW i \in DataSlot
        PROVE  map[i] # Idle
    <3> SUFFICES ASSUME Assigned(live)[i] = Idle PROVE FALSE
      OBVIOUS
    <3>1. Cardinality(Given(live, s)) >= MaxPerStation
      BY <2>3, <2>5, IdleWhenFull
    <3>. QED  BY <2>1, <2>5, <3>1, SuperframeAssumption
  <2>. QED  BY <2>2, <2>4, <2>5
<1>. QED  BY <1>1, MapDealtHolds, PTL
=============================================================================
