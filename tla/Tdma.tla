-------------------------------- MODULE Tdma --------------------------------
(***************************************************************************)
(* The TDMA superframe (shared schedule.py): the master's Scheduler and    *)
(* beacons (master.py _maybe_beacon, _on_join, _on_bearing) and the        *)
(* stations' participation (agent.py _on_beacon, _tdma_tick, _maybe_join). *)
(*                                                                         *)
(* Time advances by one frame slot: slot 0 is the beacon's, slot 1 the     *)
(* contention window, the others are data slots.  A station runs its loop  *)
(* in every slot, some time after the beacon in slot 0, unless it is held  *)
(* up (a blocking access to the KrakenSDR lasts several slots).  Every     *)
(* time of the code is rounded to slots.  Configuration frames and their   *)
(* answers, which follow no schedule, are not in this model.               *)
(***************************************************************************)
EXTENDS Integers, FiniteSets, Functions

CONSTANTS
    Station,       \* station numbers
    Configured,    \* those with a [[station]] entry in the master's configuration
    NSlots,        \* frame slots of a superframe
    MaxPerStation, \* data slots a station may be given
    Stale,         \* slots after which a station not heard of is not live
    SeqMod,        \* beacon sequence numbers are 0 .. SeqMod-1 (0xFFFF in the code)
    None,          \* no beacon
    MaxLoss,       \* bound: beacons and bearings lost, each for one receiver
    MaxStalls,     \* bound: slots in which a station does not run its loop
    MaxRestarts,   \* bound: restarts of a station
    MaxResets      \* bound: restarts of the master

ASSUME StationAssumption ==
    /\ Station \subseteq Nat \ {0} /\ IsFiniteSet(Station)
    /\ Configured \subseteq Station
ASSUME SuperframeAssumption ==
    /\ NSlots \in Nat /\ NSlots >= 3
    /\ MaxPerStation \in Nat /\ Stale \in Nat
    /\ SeqMod \in Nat /\ SeqMod >= 4
    /\ None \notin Int
ASSUME BoundsAssumption ==
    MaxLoss \in Nat /\ MaxStalls \in Nat /\ MaxRestarts \in Nat /\ MaxResets \in Nat

Slot == 0 .. NSlots - 1
DataSlot == 0 .. NSlots - 3          \* Superframe.n_data_slots of them
BeaconLoss == 2 * NSlots             \* two periods
Idle == 0                            \* a data slot nobody owns
SlotMap == [DataSlot -> Station \cup {Idle}]
NoSlots == [i \in DataSlot |-> Idle]
Beacon == [seq : 0 .. SeqMod - 1, map : SlotMap]

VARIABLES
    \* the channel
    slot,      \* the frame slot of the master's superframe it is now
    beaconed,  \* the beacon of this superframe has been sent
    bearings,  \* stations that have sent a bearing in this slot
    joins,     \* stations that have sent a JOIN in this slot
    stepped,   \* stations that have run their loop in this slot
    \* the master
    states,    \* stations it keeps a state for
    quiet,     \* by station: slots since it was heard, Stale+1 if too many
    seq, map,  \* the last beacon it sent
    \* the stations
    inbox,     \* the newest beacon received and not yet processed
    elapsed,   \* slots since the last beacon was processed, None without one
    bseq,      \* its sequence number
    mine,      \* the data slots it granted; joined is that there are some
    sent,      \* those already used
    asked,     \* a JOIN was sent in answer to it
    losses, stalls, restarts, resets

channelVars == <<slot, beaconed, bearings, joins, stepped>>
masterVars == <<states, quiet, seq, map>>
stationVars == <<inbox, elapsed, bseq, mine, sent, asked>>
counters == <<losses, stalls, restarts, resets>>
vars == <<channelVars, masterVars, stationVars, counters>>

Init ==
    /\ slot = 0 /\ beaconed = FALSE
    /\ bearings = {} /\ joins = {} /\ stepped = {}
    /\ states = Configured
    /\ quiet = [s \in Station |-> Stale + 1]
    /\ seq = 0 /\ map = NoSlots
    /\ inbox = [s \in Station |-> None]
    /\ elapsed = [s \in Station |-> None]
    /\ bseq = [s \in Station |-> None]
    /\ mine = [s \in Station |-> {}]
    /\ sent = [s \in Station |-> {}]
    /\ asked = [s \in Station |-> FALSE]
    /\ losses = 0 /\ stalls = 0 /\ restarts = 0 /\ resets = 0

Joined(s) == mine[s] # {}

-----------------------------------------------------------------------------
(* The master *)

Live == {s \in Station : quiet[s] <= Stale}

Rank(s, live) == Cardinality({r \in live : r < s})
Nth(n, live) == CHOOSE s \in live : Rank(s, live) = n % Cardinality(live)

\* Mutation: the cap is not looked at.
AssignedUncapped(live) ==
    [i \in DataSlot |-> IF live # {} THEN Nth(i, live) ELSE Idle]

\* assign_slots(): the live stations in ascending order, round after round, until
\* the slots or every station's share are used up.
Assigned(live) ==
    [i \in DataSlot |->
        IF i < MaxPerStation * Cardinality(live) THEN Nth(i, live) ELSE Idle]

\* Mutation: "& 0xFFFF" left out.
NextBeaconNoWrap(n) == n + 1

NextBeacon(n) == (n + 1) % SeqMod

\* _maybe_beacon(): each station hears it or not.
SendBeacon ==
    /\ slot = 0 /\ ~beaconed
    /\ beaconed' = TRUE
    /\ seq' = NextBeacon(seq)
    /\ map' = Assigned(Live)
    /\ \E deaf \in SUBSET Station :
          /\ losses + Cardinality(deaf) <= MaxLoss
          /\ losses' = losses + Cardinality(deaf)
          /\ inbox' = [s \in Station |-> IF s \in deaf THEN inbox[s]
                                         ELSE [seq |-> seq', map |-> map']]
    /\ UNCHANGED <<slot, bearings, joins, stepped, states, quiet, elapsed, bseq, mine,
                   sent, asked, stalls, restarts, resets>>

-----------------------------------------------------------------------------
(* A station *)

\* What _drain_incoming() makes of the beacon: it is timing-zero, and a new
\* number starts a new superframe.
Drained(s) ==
    IF inbox[s] = None
    THEN [elapsed |-> elapsed[s], bseq |-> bseq[s], mine |-> mine[s],
          sent |-> sent[s], asked |-> asked[s]]
    ELSE [elapsed |-> 0, bseq |-> inbox[s].seq,
          mine |-> {i \in DataSlot : inbox[s].map[i] = s},
          sent |-> IF inbox[s].seq = bseq[s] THEN sent[s] ELSE {},
          asked |-> inbox[s].seq = bseq[s] /\ asked[s]]

Lost(b) == b.elapsed # None /\ b.elapsed > BeaconLoss

\* Mutation: the slot used is not bound to the time since the beacon.
AnyDue(s, b) == b.mine \ b.sent

\* _tdma_tick(): the granted slots that are due now, and not yet used.
Due(s, b) == {i \in b.mine \ b.sent : b.elapsed = i + 2}

\* One round of the loop: _drain_incoming(), then _tdma_tick().
Step(s) ==
    /\ slot = 0 => beaconed
    /\ s \notin stepped
    /\ stepped' = stepped \cup {s}
    /\ inbox' = [inbox EXCEPT ![s] = None]
    /\ LET b == Drained(s)
           due == IF b.elapsed = None \/ Lost(b) THEN {} ELSE Due(s, b)
           asks == /\ b.elapsed # None /\ ~Lost(b)
                   /\ b.mine = {} /\ ~b.asked /\ b.elapsed >= 1
       IN  /\ elapsed' = [elapsed EXCEPT ![s] = IF Lost(b) THEN None ELSE b.elapsed]
           /\ bseq' = [bseq EXCEPT ![s] = IF Lost(b) THEN None ELSE b.bseq]
           /\ mine' = [mine EXCEPT ![s] = IF Lost(b) THEN {} ELSE b.mine]
           /\ sent' = [sent EXCEPT ![s] = b.sent \cup due]
           /\ asked' = [asked EXCEPT ![s] = b.asked \/ asks]
           /\ bearings' = IF due # {} THEN bearings \cup {s} ELSE bearings
           /\ joins' = IF asks THEN joins \cup {s} ELSE joins
    /\ UNCHANGED <<slot, beaconed, masterVars, counters>>

StationRestart(s) ==
    /\ restarts < MaxRestarts
    /\ restarts' = restarts + 1
    /\ elapsed' = [elapsed EXCEPT ![s] = None]
    /\ bseq' = [bseq EXCEPT ![s] = None]
    /\ mine' = [mine EXCEPT ![s] = {}]
    /\ sent' = [sent EXCEPT ![s] = {}]
    /\ asked' = [asked EXCEPT ![s] = FALSE]
    /\ UNCHANGED <<channelVars, masterVars, inbox, losses, stalls, resets>>

-----------------------------------------------------------------------------
(* The end of a slot: the master hears what was sent in it                  *)

\* A transmission alone in its slot is heard, unless it is lost; of several any
\* may survive, or none.
Heard(h) ==
    /\ h \subseteq bearings \cup joins
    /\ IF joins = {} /\ Cardinality(bearings) = 1 /\ h = {}
       THEN losses < MaxLoss /\ losses' = losses + 1
       ELSE UNCHANGED losses

\* Mutation: a JOIN is not a sign of life.
SawBearings(h) == h \cap bearings \cap states

\* _on_join() creates the station's state; _on_bearing() ignores a station
\* without one.
Saw(h) == h \cap (joins \cup states)

Aged(n, limit) == IF n = None THEN None ELSE IF n > limit THEN n ELSE n + 1

EndSlot(h) ==
    /\ slot = 0 => beaconed
    /\ stalls + Cardinality(Station \ stepped) <= MaxStalls
    /\ stalls' = stalls + Cardinality(Station \ stepped)
    /\ Heard(h)
    /\ states' = states \cup (h \cap joins)
    /\ quiet' = [s \in Station |-> IF s \in Saw(h) THEN 0 ELSE Aged(quiet[s], Stale)]
    /\ elapsed' = [s \in Station |-> Aged(elapsed[s], BeaconLoss)]
    /\ slot' = (slot + 1) % NSlots
    /\ beaconed' = FALSE
    /\ bearings' = {} /\ joins' = {} /\ stepped' = {}
    /\ UNCHANGED <<seq, map, inbox, bseq, mine, sent, asked, restarts, resets>>

\* The new master sends its first beacon at once: the superframe starts anew.
MasterRestart ==
    /\ resets < MaxResets
    /\ resets' = resets + 1
    /\ states' = Configured
    /\ quiet' = [s \in Station |-> Stale + 1]
    /\ seq' = 0 /\ map' = NoSlots
    /\ elapsed' = [s \in Station |-> Aged(elapsed[s], BeaconLoss)]
    /\ slot' = 0 /\ beaconed' = FALSE
    /\ bearings' = {} /\ joins' = {} /\ stepped' = {}
    /\ UNCHANGED <<inbox, bseq, mine, sent, asked, losses, stalls, restarts>>

-----------------------------------------------------------------------------
Next ==
    \/ SendBeacon
    \/ \E s \in Station : Step(s) \/ StationRestart(s)
    \/ \E h \in SUBSET Station : EndSlot(h)
    \/ MasterRestart

Spec == Init /\ [][Next]_vars

\* Time passes, the loops run (agent.py run_forever, management cli.py), and the
\* random offsets in the contention window do not for ever favour the others.
Fairness ==
    /\ WF_vars(SendBeacon)
    /\ WF_vars(\E h \in SUBSET Station : EndSlot(h))
    /\ \A s \in Station : /\ WF_vars(Step(s))
                          /\ SF_vars(\E h \in SUBSET Station :
                                        s \in joins /\ s \in h /\ EndSlot(h))

FairSpec == Spec /\ Fairness

-----------------------------------------------------------------------------
(* Properties *)

TypeOK ==
    /\ slot \in Slot /\ beaconed \in BOOLEAN
    /\ bearings \subseteq Station /\ joins \subseteq Station /\ stepped \subseteq Station
    /\ states \subseteq Station
    /\ quiet \in [Station -> 0 .. Stale + 1]
    /\ seq \in 0 .. SeqMod - 1 /\ map \in SlotMap
    /\ inbox \in [Station -> Beacon \cup {None}]
    /\ elapsed \in [Station -> 0 .. BeaconLoss + 1 \cup {None}]
    /\ bseq \in [Station -> 0 .. SeqMod - 1 \cup {None}]
    /\ mine \in [Station -> SUBSET DataSlot]
    /\ sent \in [Station -> SUBSET DataSlot]
    /\ asked \in [Station -> BOOLEAN]
    /\ losses \in Nat /\ stalls \in Nat /\ restarts \in Nat /\ resets \in Nat

Undisturbed == stalls = 0 /\ resets = 0

\* "This keeps the channel collision-free" (FSD 6.1): whichever beacons, bearings
\* and JOINs are lost, no data slot is used by two stations, and nobody answers
\* a beacon outside the contention window.
Collides == \/ Cardinality(bearings) > 1
            \/ bearings # {} /\ slot < 2
            \/ joins # {} /\ slot # 1
NoCollision == Undisturbed => ~Collides

\* Slots are dealt fairly and none is wasted (FR-6.6).  Nobody is granted more than the
\* cap; whoever has a slot, or is live when the beacon is sent, is granted at most one
\* less than anybody else, so that nobody has two while a live station has none; and no
\* slot is left idle that it could still be granted.
Share(s) == Cardinality({i \in DataSlot : map[i] = s})
Entitled(s) == Share(s) > 0 \/ (beaconed /\ s \in Live)
FairShares ==
    \A s \in Station :
        /\ Share(s) <= MaxPerStation
        /\ Entitled(s) =>
              /\ \A r \in Station : Share(r) <= Share(s) + 1
              /\ Share(s) < MaxPerStation => \A i \in DataSlot : map[i] # Idle

\* Once the losses, the hold-ups and the restarts are over, every station ends up
\* with a slot and keeps it (join and rejoin, FR-6.5, FR-6.7).
AllStream == <>[](\A s \in Station : Joined(s) /\ \E i \in DataSlot : map[i] = s)

-----------------------------------------------------------------------------
(* The inductive invariant behind NoCollision (TdmaProofs).                 *)

\* A beacon waits only in its own slot; nobody has moved before it is sent.
BeaconInv ==
    /\ \A s \in Station : inbox[s] # None =>
          slot = 0 /\ beaconed /\ s \notin stepped /\ inbox[s].map = map
    /\ slot = 0 /\ ~beaconed => stepped = {}

\* A station within one superframe of its beacon shares the master's time and
\* the map it sent last.
SyncInv ==
    \A s \in Station :
        elapsed[s] # None /\ elapsed[s] < NSlots =>
            /\ elapsed[s] = slot
            /\ mine[s] = {i \in DataSlot : map[i] = s}
            /\ slot = 0 => beaconed /\ s \in stepped

\* A station without a slot has asked by the end of the contention window.
AskedInv ==
    \A s \in Station :
        /\ elapsed[s] # None /\ mine[s] = {}
        /\ elapsed[s] >= 2 \/ (elapsed[s] = 1 /\ s \in stepped)
        => asked[s]

\* What is on the air was granted by the last beacon.
AirInv ==
    /\ \A s \in bearings : slot >= 2 /\ map[slot - 2] = s
    /\ joins # {} => slot = 1

IInv == TypeOK /\ (Undisturbed => BeaconInv /\ SyncInv /\ AskedInv /\ AirInv)

\* And the one behind FairShares: the map, also that of a master that has just
\* started, is what assign_slots() deals to some set of stations, after a beacon to
\* the live ones.
MapDealt == \E live \in SUBSET Station :
                map = Assigned(live) /\ (beaconed => live = Live)
=============================================================================
