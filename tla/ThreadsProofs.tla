--------------------------- MODULE ThreadsProofs ----------------------------
(***************************************************************************)
(* Proofs about MasterThreads, for any number of threads, stations and     *)
(* requests: what reaches the mirror and its file although nothing locks.  *)
(***************************************************************************)
EXTENDS MasterThreads, TLAPS

Kept == DiskWasMemory /\ HeldProven /\ (\A t \in Thread : Carries(t)) /\ AloneReads
Inv == IInv /\ Written

LEMMA LocalFacts ==
    /\ Unchanged \in StationMirror /\ NoLocal \in Local
    /\ NoLocal.at = 0 /\ NoLocal.mine = None /\ NoLocal.seen = None
    /\ NoLocal.next = "idle" /\ DOMAIN NoLocal.payload = {}
    /\ Loop \in Thread
<1>1. Unchanged \in StationMirror
  BY ThreadsAssumption DEF Unchanged, StationMirror
<1>2. [s \in {} |-> Unchanged] \in UNION {[S -> StationMirror] : S \in SUBSET Station}
  <2>1. [s \in {} |-> Unchanged] \in [{} -> StationMirror]
    OBVIOUS
  <2>2. {} \in SUBSET Station
    OBVIOUS
  <2>. QED  BY <2>1, <2>2
<1>3. NoLocal \in Local
  BY <1>1, <1>2 DEF NoLocal, Local
<1>. QED  BY <1>1, <1>3 DEF NoLocal, Thread

LEMMA InitInv == Init => Inv
<1> SUFFICES ASSUME Init PROVE Inv
  OBVIOUS
<1>1. TypeOK
  <2>1. mirror \in [Station -> StationMirror] /\ file \in [Station -> StationMirror]
    BY LocalFacts DEF Init
  <2>2. << >> \in Seq(Setting \cup {FullRead})
    OBVIOUS
  <2>3. outbox \in [Station -> Seq(Setting \cup {FullRead})]
    BY <2>2, Zenon DEF Init
  <2>4. pc \in [Thread -> Place] /\ local \in [Thread -> Local]
    BY LocalFacts DEF Init, Place
  <2>5. /\ desired \in [Station -> Setting \cup {None}]
        /\ pending \in [Station -> Setting \cup {None}]
        /\ air \in [Station -> Setting \cup {FullRead, None}]
        /\ running \in BOOLEAN /\ behind \in BOOLEAN
        /\ spent \in [Spendable -> Nat]
    BY DEF Init
  <2>6. proven \in [Station -> SUBSET Setting] /\ held \in [Station -> SUBSET StationMirror]
    BY LocalFacts, ThreadsAssumption DEF Init
  <2>. QED  BY <2>1, <2>3, <2>4, <2>5, <2>6 DEF TypeOK
<1>2. DiskWasMemory
  BY DEF Init, DiskWasMemory
<1>3. HeldProven
  BY DEF Init, HeldProven, Proven, Unchanged
<1>4. \A t \in Thread : Carries(t)
  BY LocalFacts DEF Init, Carries, At
<1>5. AloneReads
  BY DEF Init, AloneReads, Saving
<1>6. Written
  BY DEF Init, Written
<1>. QED  BY <1>1, <1>2, <1>3, <1>4, <1>5, <1>6 DEF Inv, IInv

\* A step of a thread that neither changes the records nor is part of a save.
LEMMA OtherStep ==
    ASSUME Inv, NEW t \in Thread, NEW where \in Place \ {"collect", "replace"},
           NEW mine \in Local, Go(t, where, mine), UNCHANGED <<mirror, file, held>>,
           \A s \in Station : proven[s] \subseteq proven'[s],
           behind' = behind \/ behind' = TRUE,
           ~Saving(t) \/ behind' = TRUE,
           Carries(t)'
    PROVE  Kept' /\ Written'
<1>1. TypeOK /\ IInv /\ Written
  BY DEF Inv, IInv
<1>2. /\ \A o \in Thread \ {t} : pc'[o] = pc[o] /\ local'[o] = local[o]
      /\ pc'[t] = where
  BY <1>1 DEF Go, TypeOK
<1>3. DiskWasMemory'
  BY <1>1 DEF IInv, DiskWasMemory
<1>4. HeldProven'
  <2> SUFFICES ASSUME NEW s \in Station, NEW m \in held[s]
               PROVE  {m.settings, m.previous} \subseteq proven'[s] \cup {None}
    BY DEF HeldProven, Proven
  <2>. QED  BY <1>1 DEF IInv, HeldProven, Proven
<1>5. ASSUME NEW o \in Thread PROVE Carries(o)'
  <2>1. CASE o = t
    BY <2>1
  <2>2. CASE o # t
    <3>1. Carries(o) /\ pc'[o] = pc[o] /\ local'[o] = local[o] /\ pc[o] \in Place
      BY <1>1, <1>2, <2>2 DEF IInv, TypeOK
    <3>2. pc[o] # "idle" => proven[At(o)] \subseteq proven'[At(o)]
      BY <3>1 DEF Carries
    <3>. QED  BY <3>1, <3>2 DEF Carries, At, Proven
  <2>. QED  BY <2>1, <2>2
<1>6. AloneReads'
  <2>1. \A o \in Thread : Saving(o)' => Saving(o) /\ o # t
    BY <1>2 DEF Saving
  <2>. QED  BY <1>1, <1>2, <2>1 DEF IInv, AloneReads
<1>7. Written'
  <2>1. ASSUME ~behind', NoneSaving' PROVE ~behind /\ NoneSaving
    BY <2>1, <1>2 DEF NoneSaving, Saving
  <2>. QED  BY <1>1, <2>1 DEF Written
<1>. QED  BY <1>3, <1>4, <1>5, <1>6, <1>7 DEF Kept

Queues ==
    /\ desired \in [Station -> Setting \cup {None}]
    /\ outbox \in [Station -> Seq(Setting \cup {FullRead})]
    /\ pending \in [Station -> Setting \cup {None}]
    /\ air \in [Station -> Setting \cup {FullRead, None}]
    /\ running \in BOOLEAN
    /\ spent \in [Spendable -> Nat]
    /\ proven \in [Station -> SUBSET Setting]

LEMMA QueuesType == Inv => Queues
BY DEF Inv, IInv, TypeOK, Queues

LEMMA SpendType ==
    ASSUME Queues, NEW k \in Spendable, Spend(k)
    PROVE  spent' \in [Spendable -> Nat]
BY ThreadsAssumption DEF Queues, Spend

LEMMA StepTypes ==
    ASSUME Inv, NEW t \in Thread, NEW where \in Place, NEW mine \in Local,
           Go(t, where, mine)
    PROVE  /\ pc' \in [Thread -> Place] /\ local' \in [Thread -> Local]
           /\ pc'[t] = where /\ local'[t] = mine /\ At(t)' = mine.at
BY DEF Inv, IInv, TypeOK, Go, At

\* The same with the types: what every such step has to show.
LEMMA ThreadStep ==
    ASSUME Inv, NEW t \in Thread, NEW where \in Place \ {"collect", "replace"},
           NEW mine \in Local, Go(t, where, mine), UNCHANGED <<mirror, file, held>>,
           \A s \in Station : proven[s] \subseteq proven'[s],
           behind' = behind \/ behind' = TRUE,
           ~Saving(t) \/ behind' = TRUE,
           Queues', Carries(t)'
    PROVE  Inv'
<1>1. Kept' /\ Written'
  BY OtherStep
<1>2. pc' \in [Thread -> Place] /\ local' \in [Thread -> Local]
  BY StepTypes
<1>3. behind \in BOOLEAN
  BY DEF Inv, IInv, TypeOK
<1>4. behind' \in BOOLEAN
  BY <1>3
<1>5. TypeOK'
  BY <1>2, <1>4 DEF Inv, IInv, TypeOK, Queues
<1>. QED  BY <1>1, <1>5 DEF Inv, IInv, Kept

\* A step that changes nothing but its thread's place and locals.
LEMMA PrivateStep ==
    ASSUME Inv, NEW t \in Thread, NEW where \in Place \ {"collect", "replace"},
           NEW mine \in Local, Go(t, where, mine), ~Saving(t),
           UNCHANGED <<mirror, file, queueVars, running, ghostVars, spent>>,
           Carries(t)'
    PROVE  Inv'
<1>1. Queues'
  BY QueuesType DEF Queues, queueVars, ghostVars
<1>. QED  BY <1>1, ThreadStep DEF ghostVars

\* A thread at rest carries nothing.
LEMMA RestCarries ==
    ASSUME Inv, NEW t \in Thread, Rest(t)
    PROVE  Carries(t)' /\ "idle" \in Place \ {"collect", "replace"} /\ NoLocal \in Local
<1>1. NoLocal \in Local /\ "idle" \in Place
  BY LocalFacts DEF Place
<1>2. pc'[t] = "idle" /\ local'[t] = NoLocal
  BY <1>1, StepTypes DEF Rest
<1>. QED  BY <1>1, <1>2, LocalFacts DEF Carries, At

\* What a thread with nothing but a station, and what it starts with, is like.
LEMMA FreshLocal ==
    ASSUME NEW s \in Station, NEW seen \in Setting \cup {None},
           NEW mine \in Setting \cup {None}, NEW record \in StationMirror,
           NEW next \in {"idle", "push", "send", "settle", "drop"}
    PROVE  LET new == [NoLocal EXCEPT !.at = s, !.seen = seen, !.mine = mine,
                                      !.record = record, !.next = next]
           IN  /\ new \in Local /\ new.at = s /\ new.seen = seen /\ new.mine = mine
               /\ new.record = record /\ new.next = next /\ DOMAIN new.payload = {}
BY LocalFacts DEF Local

LEMMA HereFacts ==
    ASSUME Inv, NEW t \in Thread
    PROVE  /\ local[t] \in Local /\ Carries(t)
           /\ \A s \in Station : /\ mirror[s] \in StationMirror /\ Proven(s, mirror[s])
                                 /\ proven[s] \subseteq Setting
                                 /\ pending[s] \in Setting \cup {None}
                                 /\ desired[s] \in Setting \cup {None}
BY DEF Inv, IInv, TypeOK, DiskWasMemory, HeldProven

LEMMA AcceptInv ==
    ASSUME Inv, NEW t \in Thread, Accept(t)
    PROVE  Inv'
<1> DEFINE record == [settings |-> local[t].mine, previous |-> mirror[At(t)].settings]
           mine == [local[t] EXCEPT !.record = record]
<1>1. At(t) \in Station /\ local[t].mine \in proven[At(t)]
      /\ local[t].next \in {"idle", "push", "settle"} /\ local[t] \in Local
      /\ DOMAIN local[t].payload = {}
  BY HereFacts DEF Accept, Carries
<1>2. Proven(At(t), record) /\ record \in StationMirror
  <2>1. Proven(At(t), mirror[At(t)]) /\ proven[At(t)] \subseteq Setting
        /\ mirror[At(t)] \in StationMirror
    BY <1>1, HereFacts
  <2>2. record \in StationMirror
    BY <1>1, <2>1 DEF StationMirror
  <2>. QED  BY <1>1, <2>1, <2>2 DEF Proven
<1>3. /\ mine \in Local /\ mine.record = record /\ mine.at = At(t)
      /\ mine.next = local[t].next /\ mine.payload = local[t].payload
  BY <1>1, <1>2 DEF Local, At
<1>4. Go(t, "assign", mine) /\ UNCHANGED <<mirror, file, queueVars, running, ghostVars, spent>>
      /\ ~Saving(t)
  BY DEF Accept, Saving
<1>5. pc'[t] = "assign" /\ local'[t] = mine /\ At(t)' = At(t)
  BY <1>3, <1>4, StepTypes, ZenonT(90) DEF Place
<1>6. Carries(t)'
  BY <1>1, <1>2, <1>3, <1>4, <1>5, HereFacts DEF Carries, Proven, ghostVars
<1>. QED  BY <1>3, <1>4, <1>6, PrivateStep DEF Place

LEMMA PushInv ==
    ASSUME Inv, NEW t \in Thread, Push(t)
    PROVE  Inv'
<1> DEFINE mine == [local[t] EXCEPT !.mine = mirror[At(t)].settings, !.next = "idle"]
<1>1. At(t) \in Station /\ local[t] \in Local
  BY HereFacts DEF Push, Carries
<1>2. mirror[At(t)].settings \in Setting
  BY <1>1, HereFacts DEF StationMirror
<1>3. /\ mine \in Local /\ mine.mine = mirror[At(t)].settings /\ mine.at = At(t)
      /\ mine.next = "idle" /\ mine.payload = local[t].payload
  BY <1>1, <1>2 DEF Local, At
<1>4. Go(t, "author", mine) /\ UNCHANGED <<mirror, file, queueVars, running, ghostVars, spent>>
      /\ ~Saving(t)
  BY DEF Push, Saving
<1>5. pc'[t] = "author" /\ local'[t] = mine /\ At(t)' = At(t)
  <2>1. "author" \in Place /\ mine \in Local /\ Go(t, "author", mine)
    BY <1>3, <1>4 DEF Place
  <2> HIDE DEF mine
  <2>2. pc'[t] = "author" /\ local'[t] = mine /\ At(t)' = mine.at
    BY <2>1, StepTypes
  <2>. QED  BY <1>3, <2>2
<1>6. Carries(t)'
  BY <1>1, <1>2, <1>3, <1>4, <1>5, HereFacts, ThreadsAssumption DEF Carries, ghostVars
<1>. QED  BY <1>3, <1>4, <1>6, PrivateStep DEF Place

LEMMA AuthorInv ==
    ASSUME Inv, NEW t \in Thread, Author(t)
    PROVE  Inv'
<1>1. At(t) \in Station /\ local[t] \in Local /\ local[t].mine # None
  BY HereFacts DEF Author, Carries
<1>2. Queues'
  BY <1>1, QueuesType DEF Author, Queues, Local, ghostVars
<1>3. ~Saving(t)
  BY DEF Author, Saving
<1>4. CASE local[t].next = "drop"
  <2>1. Rest(t)
    BY <1>4 DEF Author
  <2>. QED  BY <1>2, <1>3, <2>1, RestCarries, ThreadStep DEF Author, ghostVars, Rest
<1>5. CASE local[t].next # "drop"
  <2>1. Go(t, "enqueue", local[t])
    BY <1>5 DEF Author
  <2>2. pc'[t] = "enqueue" /\ local'[t] = local[t] /\ At(t)' = At(t)
    BY <1>1, <2>1, StepTypes DEF Place, At
  <2>3. local[t].next \in {"idle", "send"}
    BY <1>5, HereFacts DEF Author, Carries
  <2>4. Carries(t)'
    BY <1>1, <2>2, <2>3, HereFacts DEF Author, Carries, ghostVars
  <2>. QED  BY <1>1, <1>2, <1>3, <2>1, <2>4, ThreadStep DEF Author, ghostVars, Place
<1>. QED  BY <1>4, <1>5

LEMMA EnqueueInv ==
    ASSUME Inv, NEW t \in Thread, Enqueue(t)
    PROVE  Inv'
<1> DEFINE mine == [NoLocal EXCEPT !.at = At(t)]
<1>1. At(t) \in Station /\ local[t] \in Local /\ local[t].mine \in Setting
      /\ local[t].next \in {"idle", "send"}
  <2>1. At(t) \in Station /\ local[t] \in Local /\ local[t].mine # None
        /\ local[t].next \in {"idle", "send"}
    BY HereFacts DEF Enqueue, Carries
  <2>. QED  BY <2>1 DEF Local
<1>2. Append(outbox[At(t)], local[t].mine) \in Seq(Setting \cup {FullRead})
  BY <1>1, QueuesType DEF Queues
<1>3. Queues'
  BY <1>1, <1>2, QueuesType DEF Enqueue, Queues, ghostVars
<1>4. mine \in Local /\ mine.at = At(t) /\ DOMAIN mine.payload = {} /\ mine.next = "idle"
  BY <1>1, LocalFacts DEF Local
<1>5. Go(t, local[t].next, mine) /\ ~Saving(t)
  BY DEF Enqueue, Saving
<1>6. pc'[t] = local[t].next /\ local'[t] = mine /\ At(t)' = At(t)
  <2>1. local[t].next \in Place
    BY <1>1 DEF Place
  <2>2. pc'[t] = local[t].next /\ local'[t] = mine /\ At(t)' = mine.at
    BY <1>4, <1>5, <2>1, StepTypes, ZenonT(90)
  <2>. QED  BY <1>4, <2>2
<1>7. Carries(t)'
  BY <1>1, <1>4, <1>6 DEF Carries
<1>. QED  BY <1>1, <1>3, <1>4, <1>5, <1>7, ThreadStep DEF Enqueue, ghostVars, Place

LEMMA SaveFailsInv ==
    ASSUME Inv, NEW t \in Thread, SaveFails(t)
    PROVE  Inv'
<1>1. spent' \in [Spendable -> Nat]
  BY QueuesType, SpendType DEF SaveFails, Spendable
<1>2. running' \in BOOLEAN
  BY DEF SaveFails
<1>3. Queues'
  BY <1>1, <1>2, QueuesType DEF SaveFails, Queues, queueVars
<1>4. Rest(t) /\ behind' = TRUE
  BY DEF SaveFails
<1>. QED  BY <1>3, <1>4, RestCarries, ThreadStep DEF SaveFails, Rest

\* The handlers start with a station and, to revert, its known-good record.
LEMMA RequestInv ==
    ASSUME Inv, NEW u \in Ui, Request(u)
    PROVE  Inv'
<1>1. PICK s \in Station : (\E v \in Setting : QueueEdit(u, s, v))
                             \/ RequestFullRead(u, s) \/ PushFull(u, s) \/ Revert(u, s)
  BY DEF Request
<1>2. u \in Thread
  BY DEF Thread
<1>3. CASE (\E v \in Setting : QueueEdit(u, s, v)) \/ RequestFullRead(u, s)
  <2>1. PICK k \in Spendable : Spend(k)
    BY <1>3 DEF QueueEdit, RequestFullRead, Spendable
  <2>2. spent' \in [Spendable -> Nat]
    BY <2>1, QueuesType, SpendType
  <2>3. Append(outbox[s], FullRead) \in Seq(Setting \cup {FullRead})
    BY QueuesType DEF Queues
  <2>4. Queues'
    BY <1>3, <2>2, <2>3, QueuesType DEF QueueEdit, RequestFullRead, Queues, ghostVars
  <2>5. UNCHANGED <<mirror, file, pc, local, ghostVars>>
    BY <1>3 DEF QueueEdit, RequestFullRead
  <2>6. TypeOK'
    BY <2>4, <2>5 DEF Inv, IInv, TypeOK, Queues, ghostVars
  <2>7. Kept' /\ Written'
    BY <2>5 DEF Inv, IInv, Kept, Written, NoneSaving, DiskWasMemory, HeldProven, Proven,
                Carries, AloneReads, Saving, At, ghostVars
  <2>. QED  BY <2>6, <2>7 DEF Inv, IInv, Kept
<1>4. CASE PushFull(u, s)
  <2> DEFINE mine == [NoLocal EXCEPT !.at = s]
  <2>1. spent' \in [Spendable -> Nat] /\ Go(u, "push", mine) /\ ~Saving(u)
        /\ UNCHANGED <<mirror, file, queueVars, running, ghostVars>>
    BY <1>4, QueuesType, SpendType DEF PushFull, Spendable, Saving
  <2>2. mine \in Local /\ mine.at = s /\ DOMAIN mine.payload = {}
    BY LocalFacts DEF Local
  <2>3. "push" \in Place \ {"collect", "replace"}
    BY DEF Place
  <2>4. pc'[u] = "push" /\ local'[u] = mine /\ At(u)' = s
    BY <1>2, <2>1, <2>2, <2>3, StepTypes
  <2>5. Carries(u)'
    BY <2>2, <2>4 DEF Carries
  <2>6. Queues'
    BY <2>1, QueuesType DEF Queues, queueVars, ghostVars
  <2>. QED  BY <1>2, <2>1, <2>2, <2>3, <2>5, <2>6, ThreadStep DEF ghostVars
<1>5. CASE Revert(u, s)
  <2> DEFINE record == [settings |-> mirror[s].previous, previous |-> None]
             mine == [NoLocal EXCEPT !.at = s, !.next = "push", !.record = record]
  <2>1. spent' \in [Spendable -> Nat] /\ Go(u, "assign", mine) /\ ~Saving(u)
        /\ UNCHANGED <<mirror, file, queueVars, running, ghostVars>>
    BY <1>5, QueuesType, SpendType DEF Revert, Spendable, Saving
  <2>2. mirror[s].previous \in Setting /\ mirror[s].previous \in proven[s]
    BY <1>5, HereFacts, <1>2 DEF Revert, StationMirror, Proven
  <2>3. record \in StationMirror /\ Proven(s, record)
    BY <2>2 DEF StationMirror, Proven
  <2>4. mine \in Local /\ mine.at = s /\ DOMAIN mine.payload = {}
        /\ mine.record = record /\ mine.next = "push"
    BY <2>3, LocalFacts DEF Local
  <2>5. "assign" \in Place \ {"collect", "replace"}
    BY DEF Place
  <2>6. pc'[u] = "assign" /\ local'[u] = mine /\ At(u)' = s
    <3>1. mine \in Local /\ Go(u, "assign", mine) /\ mine.at = s
      BY <2>1, <2>4
    <3> HIDE DEF mine
    <3>. QED  BY <1>2, <2>5, <3>1, StepTypes
  <2>7. Carries(u)'
    BY <2>1, <2>3, <2>4, <2>6 DEF Carries, Proven, ghostVars
  <2>8. Queues'
    BY <2>1, QueuesType DEF Queues, queueVars, ghostVars
  <2>. QED  BY <1>2, <2>1, <2>4, <2>5, <2>7, <2>8, ThreadStep DEF ghostVars
<1>. QED  BY <1>1, <1>3, <1>4, <1>5

LEMMA OnAckInv ==
    ASSUME Inv, NEW s \in Station, NEW c \in Setting \cup {None}, OnAck(s, c)
    PROVE  Inv'
<1> DEFINE mine == [NoLocal EXCEPT !.at = s, !.seen = c]
<1>1. /\ Loop \in Thread /\ ~Saving(Loop)
      /\ spent' \in [Spendable -> Nat]
      /\ UNCHANGED <<mirror, file, desired, outbox, pending, running, held, behind>>
  BY LocalFacts, QueuesType, SpendType DEF OnAck, Receives, Spendable, Saving
<1>2. /\ proven' \in [Station -> SUBSET Setting]
      /\ \A r \in Station : proven[r] \subseteq proven'[r]
      /\ c \in proven'[s] \cup {None}
  BY QueuesType DEF OnAck, Receives, Queues
<1>3. air' \in [Station -> Setting \cup {FullRead, None}]
  BY QueuesType DEF OnAck, Queues
<1>4. Queues'
  BY <1>1, <1>2, <1>3, QueuesType DEF Queues
<1>5. CASE air[s] = FullRead
  <2>1. UNCHANGED <<pc, local>>
    BY <1>5 DEF OnAck
  <2>2. TypeOK'
    BY <1>1, <1>4, <2>1 DEF Inv, IInv, TypeOK, Queues
  <2>3. HeldProven'
    BY <1>1, <1>2, Zenon DEF Inv, IInv, HeldProven, Proven
  <2>4. ASSUME NEW t \in Thread PROVE Carries(t)'
    <3>1. pc[t] # "idle" => proven[At(t)] \subseteq proven'[At(t)]
      BY <1>2, HereFacts DEF Carries
    <3>. QED  BY <1>1, <2>1, <3>1, HereFacts DEF Carries, At, Proven
  <2>5. DiskWasMemory' /\ AloneReads' /\ Written'
    BY <1>1, <2>1 DEF Inv, IInv, DiskWasMemory, AloneReads, Written, NoneSaving, Saving
  <2>. QED  BY <2>2, <2>3, <2>4, <2>5 DEF Inv, IInv
<1>6. CASE air[s] # FullRead
  <2>1. Go(Loop, "judge", mine)
    BY <1>6 DEF OnAck
  <2>2. mine \in Local /\ mine.at = s /\ DOMAIN mine.payload = {} /\ mine.seen = c
        /\ mine.next = "idle"
    BY LocalFacts DEF Local
  <2>3. "judge" \in Place \ {"collect", "replace"}
    BY DEF Place
  <2> HIDE DEF mine
  <2>4. pc'[Loop] = "judge" /\ local'[Loop] = mine /\ At(Loop)' = s
    BY <1>1, <2>1, <2>2, <2>3, StepTypes
  <2>5. Carries(Loop)'
    BY <1>2, <2>2, <2>4 DEF Carries
  <2>. QED  BY <1>1, <1>2, <1>4, <2>1, <2>2, <2>3, <2>5, ThreadStep
<1>. QED  BY <1>5, <1>6

LEMMA ReportInv ==
    ASSUME Inv, NEW s \in Station, NEW c \in Setting, OnBearing(s, c) \/ OnParamReport(s, c)
    PROVE  Inv'
<1>1. /\ Loop \in Thread /\ ~Saving(Loop)
      /\ spent' \in [Spendable -> Nat]
      /\ UNCHANGED <<mirror, file, queueVars, running, held, behind>>
  BY LocalFacts, QueuesType, SpendType DEF OnBearing, OnParamReport, Receives, Spendable, Saving
<1>2. /\ proven' \in [Station -> SUBSET Setting]
      /\ \A r \in Station : proven[r] \subseteq proven'[r]
      /\ c \in proven'[s]
  <2>1. Receives(s, {c}) /\ {c} \ {None} = {c}
    BY ThreadsAssumption DEF OnBearing, OnParamReport
  <2>2. proven' = [proven EXCEPT ![s] = @ \cup {c}]
    BY <2>1 DEF Receives
  <2>. QED  BY <2>2, QueuesType DEF Queues
<1>3. Queues'
  BY <1>1, <1>2, QueuesType DEF Queues, queueVars
<1>4. CASE OnBearing(s, c)
  <2> DEFINE mine == [NoLocal EXCEPT !.at = s, !.seen = c, !.next = "drop"]
  <2>1. Go(Loop, "observe", mine)
    BY <1>4 DEF OnBearing
  <2>2. mine \in Local /\ mine.at = s /\ DOMAIN mine.payload = {} /\ mine.next = "drop"
    BY LocalFacts DEF Local
  <2>3. "observe" \in Place \ {"collect", "replace"}
    BY DEF Place
  <2> HIDE DEF mine
  <2>4. pc'[Loop] = "observe" /\ local'[Loop] = mine /\ At(Loop)' = s
    BY <1>1, <2>1, <2>2, <2>3, StepTypes
  <2>5. Carries(Loop)'
    BY <2>2, <2>4 DEF Carries
  <2>. QED  BY <1>1, <1>2, <1>3, <2>1, <2>2, <2>3, <2>5, ThreadStep
<1>5. CASE OnParamReport(s, c)
  <2> DEFINE mine == [NoLocal EXCEPT !.at = s, !.mine = c]
  <2>1. Go(Loop, "accept", mine)
    BY <1>5 DEF OnParamReport
  <2>2. mine \in Local /\ mine.at = s /\ DOMAIN mine.payload = {} /\ mine.next = "idle"
        /\ mine.mine = c
    BY LocalFacts DEF Local
  <2>3. "accept" \in Place \ {"collect", "replace"}
    BY DEF Place
  <2> HIDE DEF mine
  <2>4. pc'[Loop] = "accept" /\ local'[Loop] = mine /\ At(Loop)' = s
    BY <1>1, <2>1, <2>2, <2>3, StepTypes
  <2>5. Carries(Loop)'
    BY <1>2, <2>2, <2>4 DEF Carries
  <2>. QED  BY <1>1, <1>2, <1>3, <2>1, <2>2, <2>3, <2>5, ThreadStep
<1>. QED  BY <1>4, <1>5

LEMMA MismatchInv ==
    ASSUME Inv, pc[Loop] \in {"judge", "recheck"}, NEW settings \in Setting,
           Mismatch(settings),
           UNCHANGED <<mirror, file, queueVars, running, ghostVars, spent>>
    PROVE  Inv'
<1>1. Loop \in Thread /\ ~Saving(Loop) /\ At(Loop) \in Station /\ local[Loop] \in Local
      /\ local[Loop].next \in {"idle", "drop"}
      /\ \A r \in DOMAIN local[Loop].payload : local[Loop].payload[r] \in held[r]
  BY LocalFacts, HereFacts DEF Saving, Carries
<1>2. CASE Rest(Loop)
  BY <1>1, <1>2, RestCarries, PrivateStep DEF Rest
<1>3. CASE Go(Loop, "settle", local[Loop])
  <2>1. "settle" \in Place \ {"collect", "replace"}
    BY DEF Place
  <2>2. pc'[Loop] = "settle" /\ local'[Loop] = local[Loop] /\ At(Loop)' = At(Loop)
    BY <1>1, <1>3, <2>1, StepTypes DEF At
  <2>3. Carries(Loop)'
    BY <1>1, <2>2 DEF Carries, ghostVars
  <2>. QED  BY <1>1, <1>3, <2>1, <2>3, PrivateStep
<1>4. CASE Go(Loop, "author", [local[Loop] EXCEPT !.mine = settings])
  <2> DEFINE mine == [local[Loop] EXCEPT !.mine = settings]
  <2>1. mine \in Local /\ mine.at = At(Loop) /\ mine.payload = local[Loop].payload
        /\ mine.mine = settings /\ mine.next = local[Loop].next /\ Go(Loop, "author", mine)
    BY <1>1, <1>4 DEF Local, At
  <2>2. "author" \in Place \ {"collect", "replace"}
    BY DEF Place
  <2> HIDE DEF mine
  <2>3. pc'[Loop] = "author" /\ local'[Loop] = mine /\ At(Loop)' = At(Loop)
    BY <1>1, <2>1, <2>2, StepTypes
  <2>4. Carries(Loop)'
    BY <1>1, <2>1, <2>3, ThreadsAssumption DEF Carries, ghostVars
  <2>. QED  BY <1>1, <2>1, <2>2, <2>4, PrivateStep
<1>. QED  BY <1>2, <1>3, <1>4 DEF Mismatch

\* Where the loop is, when it is not idle.
LEMMA LoopFacts ==
    ASSUME Inv, pc[Loop] \notin {"idle", "collect", "replace"}
    PROVE  /\ Loop \in Thread /\ ~Saving(Loop) /\ At(Loop) \in Station
           /\ local[Loop] \in Local /\ Carries(Loop)
           /\ mirror[At(Loop)].settings \in Setting
           /\ pending[At(Loop)] \in Setting \cup {None}
           /\ desired[At(Loop)] \in Setting \cup {None}
           /\ \A r \in DOMAIN local[Loop].payload : local[Loop].payload[r] \in held[r]
<1>1. Loop \in Thread /\ At(Loop) \in Station /\ Carries(Loop)
  BY LocalFacts, HereFacts DEF Carries
<1>2. mirror[At(Loop)].settings \in Setting
  BY <1>1, HereFacts DEF StationMirror
<1>. QED  BY <1>1, <1>2, HereFacts DEF Carries, Saving

\* The loop goes on with some of its locals changed.
LEMMA LoopGoes ==
    ASSUME Inv, pc[Loop] \notin {"idle", "collect", "replace"},
           NEW where \in Place \ {"collect", "replace"}, NEW mine \in Local,
           Go(Loop, where, mine), mine.at = At(Loop), mine.payload = local[Loop].payload,
           where \notin {"assign", "judge"},
           where = "accept" => pc[Loop] = "judge",
           where = "accept" => /\ mine.mine \in proven[At(Loop)]
                               /\ mine.next \in {"idle", "push", "settle"},
           where \in {"author", "recheck", "clear", "compare"} => mine.mine # None,
           where \in {"observe", "recheck"} => mine.next \in {"idle", "drop"},
           where = "author" => mine.next \in {"idle", "send", "drop"},
           where # "enqueue", UNCHANGED <<proven, held>>
    PROVE  Carries(Loop)'
<1>1. pc'[Loop] = where /\ local'[Loop] = mine /\ At(Loop)' = At(Loop)
  BY LoopFacts, StepTypes
<1>. QED  BY <1>1, LoopFacts DEF Carries

LEMMA JudgeInv == Inv /\ Judge => Inv'
<1> SUFFICES ASSUME Inv, Judge PROVE Inv'
  OBVIOUS
<1> DEFINE push == pending[At(Loop)]
           seen == local[Loop].seen
           mine == [local[Loop] EXCEPT !.mine = push, !.next = "settle"]
<1>1. pc[Loop] = "judge" /\ UNCHANGED <<mirror, file, queueVars, running, ghostVars, spent>>
  BY DEF Judge
<1>2. local[Loop].next \in {"idle", "drop"} /\ seen \in proven[At(Loop)] \cup {None}
      /\ local[Loop].at = At(Loop) /\ local[Loop] \in Local /\ ~Saving(Loop) /\ Loop \in Thread
  BY <1>1, LoopFacts DEF Carries, At
<1>3. {"observe", "settle", "accept"} \subseteq Place \ {"collect", "replace"}
  BY DEF Place
<1>4. CASE Go(Loop, "observe", local[Loop]) \/ Go(Loop, "settle", local[Loop])
  BY <1>1, <1>2, <1>3, <1>4, LoopGoes, PrivateStep DEF ghostVars
<1>5. CASE push # None /\ seen = push /\ Go(Loop, "accept", mine)
  <2>1. mine \in Local /\ mine.at = At(Loop) /\ mine.payload = local[Loop].payload
        /\ mine.mine = push /\ mine.next = "settle" /\ Go(Loop, "accept", mine)
        /\ push \in proven[At(Loop)]
    BY <1>1, <1>2, <1>5, LoopFacts DEF Local, At
  <2> HIDE DEF mine, push
  <2>. QED  BY <1>1, <1>2, <1>3, <2>1, LoopGoes, PrivateStep DEF ghostVars
<1>6. CASE push # None /\ Mismatch(push)
  BY <1>1, <1>6, LoopFacts, MismatchInv
<1>. QED  BY <1>4, <1>5, <1>6 DEF Judge

LEMMA ObserveInv == Inv /\ Observe => Inv'
<1> SUFFICES ASSUME Inv, Observe PROVE Inv'
  OBVIOUS
<1> DEFINE mine == [local[Loop] EXCEPT !.mine = mirror[At(Loop)].settings]
<1>1. pc[Loop] = "observe" /\ UNCHANGED <<mirror, file, queueVars, running, ghostVars, spent>>
      /\ Go(Loop, "recheck", mine)
  BY DEF Observe
<1>2. local[Loop].next \in {"idle", "drop"} /\ ~Saving(Loop) /\ Loop \in Thread
  BY <1>1, LoopFacts DEF Carries
<1>3. mine \in Local /\ mine.at = At(Loop) /\ mine.payload = local[Loop].payload
      /\ mine.mine # None /\ mine.next = local[Loop].next
  BY <1>1, LoopFacts, ThreadsAssumption DEF Local, At
<1>4. "recheck" \in Place \ {"collect", "replace"}
  BY DEF Place
<1> HIDE DEF mine
<1>. QED  BY <1>1, <1>2, <1>3, <1>4, LoopGoes, PrivateStep DEF ghostVars

LEMMA RecheckInv == Inv /\ Recheck => Inv'
<1> SUFFICES ASSUME Inv, Recheck PROVE Inv'
  OBVIOUS
<1>1. pc[Loop] = "recheck" /\ UNCHANGED <<mirror, file, queueVars, running, ghostVars, spent>>
  BY DEF Recheck
<1>2. local[Loop].mine \in Setting /\ ~Saving(Loop) /\ Loop \in Thread
  BY <1>1, LoopFacts DEF Carries, Local
<1>3. CASE Rest(Loop)
  BY <1>1, <1>2, <1>3, RestCarries, PrivateStep DEF Rest
<1>4. CASE Mismatch(local[Loop].mine)
  BY <1>1, <1>2, <1>4, MismatchInv
<1>. QED  BY <1>3, <1>4 DEF Recheck

LEMMA SettleInv == Inv /\ Settle => Inv'
<1> SUFFICES ASSUME Inv, Settle PROVE Inv'
  OBVIOUS
<1>1. ~Saving(Loop) /\ Loop \in Thread /\ Rest(Loop)
      /\ UNCHANGED <<mirror, file, desired, outbox, air, running, ghostVars, spent>>
  BY LocalFacts DEF Settle, Saving
<1>2. Queues'
  BY QueuesType DEF Settle, Queues, ghostVars
<1>. QED  BY <1>1, <1>2, RestCarries, ThreadStep DEF Rest, ghostVars

LEMMA ServeInv ==
    ASSUME Inv, NEW s \in Station, Serve(s)
    PROVE  Inv'
<1> DEFINE mine == [NoLocal EXCEPT !.at = s]
<1>1. ~Saving(Loop) /\ Loop \in Thread /\ Go(Loop, "consider", mine)
      /\ UNCHANGED <<mirror, file, desired, outbox, pending, running, ghostVars, spent>>
  BY LocalFacts DEF Serve, Saving
<1>2. Queues'
  BY QueuesType DEF Serve, Queues, ghostVars
<1>3. mine \in Local /\ mine.at = s /\ DOMAIN mine.payload = {}
  BY LocalFacts DEF Local
<1>4. "consider" \in Place \ {"collect", "replace"}
  BY DEF Place
<1> HIDE DEF mine
<1>5. pc'[Loop] = "consider" /\ local'[Loop] = mine /\ At(Loop)' = s
  BY <1>1, <1>3, <1>4, StepTypes
<1>6. Carries(Loop)'
  BY <1>3, <1>5 DEF Carries
<1>. QED  BY <1>1, <1>2, <1>3, <1>4, <1>6, ThreadStep DEF ghostVars

LEMMA ConsiderInv == Inv /\ Consider => Inv'
<1> SUFFICES ASSUME Inv, Consider PROVE Inv'
  OBVIOUS
<1> DEFINE mine == [local[Loop] EXCEPT !.mine = desired[At(Loop)]]
<1>1. pc[Loop] = "consider" /\ UNCHANGED <<mirror, file, queueVars, running, ghostVars, spent>>
  BY DEF Consider
<1>2. ~Saving(Loop) /\ Loop \in Thread /\ local[Loop] \in Local /\ local[Loop].at = At(Loop)
  BY <1>1, LoopFacts DEF At
<1>3. {"clear", "send"} \subseteq Place \ {"collect", "replace"}
  BY DEF Place
<1>4. CASE Go(Loop, "send", local[Loop])
  BY <1>1, <1>2, <1>3, <1>4, LoopGoes, PrivateStep DEF ghostVars
<1>5. CASE desired[At(Loop)] # None /\ Go(Loop, "clear", mine)
  <2>1. mine \in Local /\ mine.at = At(Loop) /\ mine.payload = local[Loop].payload
        /\ mine.mine # None /\ Go(Loop, "clear", mine)
    BY <1>1, <1>2, <1>5, LoopFacts DEF Local, At
  <2> HIDE DEF mine
  <2>. QED  BY <1>1, <1>2, <1>3, <2>1, LoopGoes, PrivateStep DEF ghostVars
<1>. QED  BY <1>4, <1>5 DEF Consider

LEMMA ClearInv == Inv /\ Clear => Inv'
<1> SUFFICES ASSUME Inv, Clear PROVE Inv'
  OBVIOUS
<1>1. pc[Loop] = "clear" /\ Go(Loop, "compare", local[Loop])
      /\ UNCHANGED <<mirror, file, outbox, pending, air, running, ghostVars, spent>>
  BY DEF Clear
<1>2. ~Saving(Loop) /\ Loop \in Thread /\ local[Loop] \in Local /\ local[Loop].at = At(Loop)
      /\ local[Loop].mine # None
  BY <1>1, LoopFacts DEF At, Carries
<1>3. "compare" \in Place \ {"collect", "replace"}
  BY DEF Place
<1>4. Queues'
  BY QueuesType DEF Clear, Queues, ghostVars
<1>5. Carries(Loop)'
  BY <1>1, <1>2, <1>3, LoopGoes DEF ghostVars
<1>. QED  BY <1>1, <1>2, <1>3, <1>4, <1>5, ThreadStep DEF ghostVars

LEMMA CompareInv == Inv /\ Compare => Inv'
<1> SUFFICES ASSUME Inv, Compare PROVE Inv'
  OBVIOUS
<1> DEFINE mine == [local[Loop] EXCEPT !.next = "send"]
<1>1. pc[Loop] = "compare" /\ UNCHANGED <<mirror, file, queueVars, running, ghostVars, spent>>
  BY DEF Compare
<1>2. ~Saving(Loop) /\ Loop \in Thread /\ local[Loop] \in Local /\ local[Loop].at = At(Loop)
      /\ local[Loop].mine # None
  BY <1>1, LoopFacts DEF At, Carries
<1>3. {"author", "send"} \subseteq Place \ {"collect", "replace"}
  BY DEF Place
<1>4. CASE Go(Loop, "send", local[Loop])
  BY <1>1, <1>2, <1>3, <1>4, LoopGoes, PrivateStep DEF ghostVars
<1>5. CASE Go(Loop, "author", mine)
  <2>1. mine \in Local /\ mine.at = At(Loop) /\ mine.payload = local[Loop].payload
        /\ mine.mine # None /\ mine.next = "send" /\ Go(Loop, "author", mine)
    BY <1>2, <1>5 DEF Local, At
  <2> HIDE DEF mine
  <2>. QED  BY <1>1, <1>2, <1>3, <2>1, LoopGoes, PrivateStep DEF ghostVars
<1>. QED  BY <1>4, <1>5 DEF Compare

LEMMA SendInv == Inv /\ Send => Inv'
<1> SUFFICES ASSUME Inv, Send PROVE Inv'
  OBVIOUS
<1>1. pc[Loop] = "send" /\ Rest(Loop)
      /\ UNCHANGED <<mirror, file, desired, pending, running, ghostVars, spent>>
  BY DEF Send
<1>2. ~Saving(Loop) /\ Loop \in Thread /\ At(Loop) \in Station
  BY <1>1, LoopFacts
<1>3. Queues'
  <2> DEFINE box == outbox[At(Loop)]
  <2>1. box \in Seq(Setting \cup {FullRead})
    BY <1>2, QueuesType DEF Queues
  <2>2. CASE box = << >>
    BY <1>1, <2>2, QueuesType DEF Send, Queues, ghostVars
  <2>3. CASE box # << >>
    <3>1. Head(box) \in Setting \cup {FullRead} /\ Tail(box) \in Seq(Setting \cup {FullRead})
      BY <2>1, <2>3
    <3>2. air' = [air EXCEPT ![At(Loop)] = Head(box)]
          /\ outbox' = [outbox EXCEPT ![At(Loop)] = Tail(box)]
      BY <2>3 DEF Send
    <3>. QED  BY <1>1, <1>2, <3>1, <3>2, QueuesType DEF Queues, ghostVars
  <2>. QED  BY <2>2, <2>3
<1>. QED  BY <1>1, <1>2, <1>3, RestCarries, ThreadStep DEF Rest, ghostVars

-----------------------------------------------------------------------------
(* The steps of a save.  *)

LEMMA AssignInv ==
    ASSUME Inv, NEW t \in Thread, Assign(t)
    PROVE  Inv'
<1> DEFINE s == At(t)
           record == local[t].record
<1>1. s \in Station /\ local[t] \in Local /\ record \in StationMirror /\ Proven(s, record)
      /\ local[t].next \in {"idle", "push", "settle"} /\ Carries(t)
  <2>1. s \in Station /\ local[t] \in Local /\ Carries(t)
    BY HereFacts DEF Assign, Carries
  <2>2. record \in StationMirror
    BY <2>1 DEF Local
  <2>. QED  BY <2>1, <2>2 DEF Assign, Carries
<1>2. TypeOK /\ DiskWasMemory /\ HeldProven /\ AloneReads
      /\ UNCHANGED <<file, queueVars, running, proven, behind, spent>>
  BY DEF Inv, IInv, Assign
<1>3. /\ mirror' = [mirror EXCEPT ![s] = record]
      /\ held' = [held EXCEPT ![s] = @ \cup {record}]
      /\ pc' = [pc EXCEPT ![t] = "collect"]
  BY DEF Assign
<1>4. \A r \in Station : held[r] \subseteq held'[r]
  BY <1>2, <1>3 DEF TypeOK
<1>5. ASSUME NEW r \in Thread
      PROVE  /\ local'[r] \in Local
             /\ local'[r].at = local[r].at /\ local'[r].mine = local[r].mine
             /\ local'[r].seen = local[r].seen /\ local'[r].record = local[r].record
             /\ local'[r].payload = local[r].payload /\ local'[r].next = local[r].next
             /\ r # t /\ Saving(r) => ~local'[r].alone
  <2>1. local[r] \in Local
    BY HereFacts
  <2>2. PICK b \in BOOLEAN : /\ local'[r] = [local[r] EXCEPT !.alone = b]
                                  \/ local'[r] = local[r]
                             /\ r # t /\ Saving(r) => local'[r] = [local[r] EXCEPT !.alone = FALSE]
    <3>1. CASE r = t
      <4>1. local'[r] = [local[r] EXCEPT !.alone = \A o \in Thread \ {t} : ~Saving(o)]
        BY <3>1 DEF Assign
      <4>2. (\A o \in Thread \ {t} : ~Saving(o)) \in BOOLEAN
        OBVIOUS
      <4>. QED  BY <3>1, <4>1, <4>2
    <3>2. CASE r # t /\ Saving(r)
      BY <3>2 DEF Assign
    <3>3. CASE r # t /\ ~Saving(r)
      BY <3>3 DEF Assign
    <3>. QED  BY <3>1, <3>2, <3>3
  <2>. QED  BY <2>1, <2>2 DEF Local
<1>6. local' \in [Thread -> Local]
  <2>1. local' = [r \in Thread |-> local'[r]]
    BY DEF Assign
  <2>. QED  BY <1>5, <2>1
<1>7. TypeOK'
  <2>1. pc' \in [Thread -> Place]
    BY <1>2, <1>3 DEF TypeOK, Place
  <2>2. mirror' \in [Station -> StationMirror] /\ held' \in [Station -> SUBSET StationMirror]
    BY <1>1, <1>2, <1>3 DEF TypeOK
  <2>. QED  BY <1>2, <1>6, <2>1, <2>2 DEF TypeOK, queueVars
<1>8. DiskWasMemory'
  BY <1>1, <1>2, <1>3, <1>4 DEF DiskWasMemory, TypeOK
<1>9. HeldProven'
  BY <1>1, <1>2, <1>3 DEF HeldProven, Proven, TypeOK
<1>10. ASSUME NEW r \in Thread PROVE Carries(r)'
  <2>1. Carries(r)
    BY HereFacts
  <2>2. CASE r = t
    <3>1. pc'[r] = "collect"
      BY <1>2, <1>3, <2>2 DEF TypeOK
    <3>2. \A x \in DOMAIN local[r].payload : x \in Station /\ local[r].payload[x] \in held[x]
      BY <2>1, HereFacts DEF Carries, Local
    <3>. QED  BY <1>1, <1>4, <1>5, <2>2, <3>1, <3>2 DEF Carries, At
  <2>3. CASE r # t
    <3>1. pc'[r] = pc[r]
      BY <1>2, <1>3, <2>3 DEF TypeOK
    <3>2. \A x \in DOMAIN local[r].payload : x \in Station /\ local[r].payload[x] \in held[x]
      BY <2>1, HereFacts DEF Carries, Local
    <3>. QED  BY <1>2, <1>4, <1>5, <2>1, <3>1, <3>2 DEF Carries, At, Proven
  <2>. QED  BY <2>2, <2>3
<1>11. AloneReads'
  <2>1. pc[t] = "assign" /\ local[t].payload = local'[t].payload
    BY <1>5 DEF Assign
  <2> SUFFICES ASSUME NEW r \in Thread, Saving(r)', local'[r].alone
               PROVE  /\ \A o \in Thread \ {r} : ~Saving(o)'
                      /\ \A x \in DOMAIN local'[r].payload : local'[r].payload[x] = mirror'[x]
    BY DEF AloneReads
  <2>2. \A o \in Thread \ {t} : pc'[o] = pc[o]
    BY <1>2, <1>3 DEF TypeOK
  <2>3. r = t
    BY <1>5, <2>2 DEF Saving
  <2>4. local'[t].alone = \A o \in Thread \ {t} : ~Saving(o)
    <3>1. local'[t] = [local[t] EXCEPT !.alone = \A o \in Thread \ {t} : ~Saving(o)]
      BY DEF Assign
    <3> DEFINE b == \A o \in Thread \ {t} : ~Saving(o)
    <3>2. local[t] \in Local /\ local'[t] = [local[t] EXCEPT !.alone = b]
      BY <1>1, <3>1
    <3> HIDE DEF b
    <3>3. local'[t].alone = b
      BY <3>2 DEF Local
    <3>. QED  BY <3>3 DEF b
  <2>5. \A o \in Thread \ {t} : ~Saving(o)
    BY <2>3, <2>4
  <2>6. DOMAIN local[t].payload = {}
    BY <1>1, <2>1 DEF Carries
  <2>. QED  BY <2>1, <2>2, <2>3, <2>5, <2>6 DEF Saving
<1>12. Written'
  <2>1. pc'[t] = "collect"
    BY <1>2, <1>3 DEF TypeOK
  <2>. QED  BY <2>1 DEF Written, NoneSaving, Saving
<1>. QED  BY <1>7, <1>8, <1>9, <1>10, <1>11, <1>12 DEF Inv, IInv

LEMMA CollectInv ==
    ASSUME Inv, NEW t \in Thread, Collect(t)
    PROVE  Inv'
<1>1. PICK s \in Uncollected(t) :
          Go(t, IF Uncollected(t) = {s} THEN "replace" ELSE "collect",
             [local[t] EXCEPT !.payload =
                 [r \in DOMAIN @ \cup {s} |-> IF r = s THEN mirror[s] ELSE @[r]]])
  BY DEF Collect
<1> DEFINE where == IF Uncollected(t) = {s} THEN "replace" ELSE "collect"
           read == [r \in DOMAIN local[t].payload \cup {s} |->
                       IF r = s THEN mirror[s] ELSE local[t].payload[r]]
           mine == [local[t] EXCEPT !.payload = read]
<1>2. TypeOK /\ DiskWasMemory /\ HeldProven /\ AloneReads /\ Carries(t) /\ pc[t] = "collect"
      /\ UNCHANGED <<mirror, file, queueVars, running, ghostVars, spent>>
  BY HereFacts DEF Inv, IInv, Collect
<1>3. s \in Station /\ local[t] \in Local /\ At(t) \in Station
      /\ local[t].next \in {"idle", "push", "settle"}
  BY <1>2, HereFacts DEF Uncollected, Carries
<1>4. read \in UNION {[S -> StationMirror] : S \in SUBSET Station}
  <2>1. PICK S \in SUBSET Station : local[t].payload \in [S -> StationMirror]
    BY <1>3 DEF Local
  <2>2. read \in [S \cup {s} -> StationMirror] /\ S \cup {s} \in SUBSET Station
    BY <1>2, <1>3, <2>1 DEF TypeOK
  <2>. QED  BY <2>2
<1>5. /\ mine \in Local /\ mine.payload = read /\ mine.at = local[t].at
      /\ mine.next = local[t].next /\ mine.alone = local[t].alone /\ Go(t, where, mine)
  BY <1>1, <1>3, <1>4 DEF Local
<1>6. where \in Place /\ where \in {"collect", "replace"}
  BY DEF Place
<1>7. where = "replace" => DOMAIN read = Station
  <2>1. PICK S \in SUBSET Station : local[t].payload \in [S -> StationMirror]
    BY <1>3 DEF Local
  <2>. QED  BY <1>3, <2>1 DEF Uncollected
<1>8. \A r \in DOMAIN read : read[r] \in held[r]
  BY <1>2, <1>3 DEF Carries, DiskWasMemory
<1>9. local[t].alone /\ (\A r \in DOMAIN local[t].payload : local[t].payload[r] = mirror[r])
         => \A r \in DOMAIN read : read[r] = mirror[r]
  OBVIOUS
<1> HIDE DEF mine, where, read
<1>10. /\ pc' \in [Thread -> Place] /\ local' \in [Thread -> Local]
       /\ pc'[t] = where /\ local'[t] = mine /\ At(t)' = At(t)
  <2>1. At(t)' = mine.at
    BY <1>5, <1>6, StepTypes
  <2>. QED  BY <1>5, <1>6, <2>1, StepTypes DEF At
<1>11. \A o \in Thread \ {t} : pc'[o] = pc[o] /\ local'[o] = local[o]
  BY <1>2, <1>5 DEF Go, TypeOK
<1>12. \A o \in Thread : Saving(o)' <=> Saving(o)
  BY <1>2, <1>6, <1>10, <1>11 DEF Saving
<1>13. TypeOK' /\ DiskWasMemory' /\ HeldProven'
  BY <1>2, <1>10 DEF TypeOK, DiskWasMemory, HeldProven, Proven, queueVars, ghostVars
<1>14. ASSUME NEW o \in Thread PROVE Carries(o)'
  <2>1. CASE o = t
    BY <1>2, <1>3, <1>5, <1>6, <1>7, <1>8, <1>10, <2>1 DEF Carries, ghostVars
  <2>2. CASE o # t
    BY <1>2, <1>11, <2>2, HereFacts DEF Carries, At, Proven, ghostVars
  <2>. QED  BY <2>1, <2>2
<1>15. AloneReads'
  <2> SUFFICES ASSUME NEW o \in Thread, Saving(o)', local'[o].alone
               PROVE  /\ \A q \in Thread \ {o} : ~Saving(q)'
                      /\ \A r \in DOMAIN local'[o].payload : local'[o].payload[r] = mirror'[r]
    BY DEF AloneReads
  <2>1. local[o].alone /\ Saving(o)
    BY <1>5, <1>10, <1>11, <1>12
  <2>2. (\A q \in Thread \ {o} : ~Saving(q))
        /\ \A r \in DOMAIN local[o].payload : local[o].payload[r] = mirror[r]
    BY <1>2, <2>1 DEF AloneReads
  <2>3. mirror' = mirror
    BY <1>2
  <2>4. CASE o = t
    BY <1>5, <1>9, <1>10, <1>12, <2>1, <2>2, <2>3, <2>4
  <2>5. CASE o # t
    BY <1>11, <1>12, <2>2, <2>3, <2>5
  <2>. QED  BY <2>4, <2>5
<1>16. Written'
  BY <1>2, <1>6, <1>10 DEF Written, NoneSaving, Saving
<1>. QED  BY <1>13, <1>14, <1>15, <1>16 DEF Inv, IInv

LEMMA ReplaceInv ==
    ASSUME Inv, NEW t \in Thread, Replace(t)
    PROVE  Inv'
<1> DEFINE mine == [NoLocal EXCEPT !.at = At(t)]
           where == local[t].next
<1>1. TypeOK /\ DiskWasMemory /\ HeldProven /\ AloneReads /\ Carries(t) /\ pc[t] = "replace"
      /\ UNCHANGED <<mirror, queueVars, running, proven, held, spent>>
      /\ file' = local[t].payload /\ behind' = ~local[t].alone /\ Go(t, where, mine)
  BY HereFacts DEF Inv, IInv, Replace
<1>2. local[t] \in Local /\ At(t) \in Station /\ where \in {"idle", "push", "settle"}
      /\ DOMAIN local[t].payload = Station
      /\ \A s \in Station : local[t].payload[s] \in held[s]
  BY <1>1, HereFacts DEF Carries
<1>3. file' \in [Station -> StationMirror]
  <2>1. PICK S \in SUBSET Station : local[t].payload \in [S -> StationMirror]
    BY <1>2 DEF Local
  <2>. QED  BY <1>1, <1>2, <2>1
<1>4. behind' \in BOOLEAN
  BY <1>1
<1>5. mine \in Local /\ mine.at = At(t) /\ DOMAIN mine.payload = {} /\ mine.next = "idle"
  BY <1>2, LocalFacts DEF Local
<1>6. where \in Place /\ where \notin {"collect", "replace"}
  BY <1>2 DEF Place
<1> HIDE DEF mine, where
<1>7. /\ pc' \in [Thread -> Place] /\ local' \in [Thread -> Local]
      /\ pc'[t] = where /\ local'[t] = mine /\ At(t)' = At(t)
  BY <1>1, <1>5, <1>6, StepTypes
<1>8. \A o \in Thread \ {t} : pc'[o] = pc[o] /\ local'[o] = local[o]
  BY <1>1 DEF Go, TypeOK
<1>9. TypeOK'
  BY <1>1, <1>3, <1>4, <1>7 DEF TypeOK, queueVars
<1>10. DiskWasMemory'
  BY <1>1, <1>2 DEF DiskWasMemory
<1>11. HeldProven'
  BY <1>1 DEF HeldProven, Proven
<1>12. ASSUME NEW o \in Thread PROVE Carries(o)'
  <2>1. CASE o = t
    BY <1>2, <1>5, <1>7, <2>1 DEF Carries, where
  <2>2. CASE o # t
    BY <1>1, <1>8, <2>2, HereFacts DEF Carries, At, Proven
  <2>. QED  BY <2>1, <2>2
<1>13. \A o \in Thread : Saving(o)' => Saving(o) /\ o # t
  BY <1>6, <1>7, <1>8 DEF Saving
<1>14. AloneReads'
  BY <1>1, <1>8, <1>13 DEF AloneReads
<1>15. Written'
  <2> SUFFICES ASSUME ~behind', NEW s \in Station PROVE file'[s] = mirror'[s]
    BY DEF Written
  <2>1. local[t].alone /\ Saving(t)
    BY <1>1 DEF Saving
  <2>. QED  BY <1>1, <1>2, <2>1 DEF AloneReads
<1>. QED  BY <1>9, <1>10, <1>11, <1>12, <1>14, <1>15 DEF Inv, IInv

LEMMA RestartInv == Inv /\ Restart => Inv'
<1> SUFFICES ASSUME Inv, Restart PROVE Inv'
  OBVIOUS
<1>1. TypeOK /\ DiskWasMemory /\ HeldProven /\ UNCHANGED <<file, proven, held>>
      /\ mirror' = file
  BY DEF Inv, IInv, Restart
<1>2. /\ pc' = [t \in Thread |-> "idle"] /\ local' = [t \in Thread |-> NoLocal]
      /\ behind' = FALSE /\ running' = TRUE
  BY DEF Restart
<1>3. TypeOK'
  <2>1. << >> \in Seq(Setting \cup {FullRead})
    OBVIOUS
  <2>2. outbox' \in [Station -> Seq(Setting \cup {FullRead})]
    BY <2>1, Zenon DEF Restart
  <2>3. spent' \in [Spendable -> Nat]
    BY QueuesType, SpendType DEF Restart, Spendable
  <2>4. pc' \in [Thread -> Place] /\ local' \in [Thread -> Local]
    BY <1>2, LocalFacts DEF Place
  <2>5. /\ desired' \in [Station -> Setting \cup {None}]
        /\ pending' \in [Station -> Setting \cup {None}]
        /\ air' \in [Station -> Setting \cup {FullRead, None}]
    BY DEF Restart
  <2>. QED  BY <1>1, <1>2, <2>2, <2>3, <2>4, <2>5 DEF TypeOK
<1>4. DiskWasMemory' /\ HeldProven'
  BY <1>1 DEF DiskWasMemory, HeldProven, Proven
<1>5. \A t \in Thread : Carries(t)'
  BY <1>2, LocalFacts DEF Carries
<1>6. AloneReads' /\ Written'
  BY <1>1, <1>2 DEF AloneReads, Written, Saving
<1>. QED  BY <1>3, <1>4, <1>5, <1>6 DEF Inv, IInv

-----------------------------------------------------------------------------
LEMMA StepInv ==
    ASSUME Inv, NEW t \in Thread, Step(t)
    PROVE  Inv'
BY AssignInv, CollectInv, ReplaceInv, SaveFailsInv, AcceptInv, PushInv, AuthorInv,
   EnqueueInv DEF Step

LEMMA LoopInv == Inv /\ LoopStep => Inv'
<1> SUFFICES ASSUME Inv, LoopStep PROVE Inv'
  OBVIOUS
<1>1. CASE Step(Loop)
  BY <1>1, LocalFacts, StepInv
<1>2. CASE Receive
  BY <1>2, OnAckInv, ReportInv DEF Receive
<1>3. CASE \E s \in Station : Serve(s)
  BY <1>3, ServeInv
<1>4. CASE Judge \/ Observe \/ Recheck \/ Settle
  BY <1>4, JudgeInv, ObserveInv, RecheckInv, SettleInv
<1>5. CASE Consider \/ Clear \/ Compare \/ Send
  BY <1>5, ConsiderInv, ClearInv, CompareInv, SendInv
<1>. QED  BY <1>1, <1>2, <1>3, <1>4, <1>5 DEF LoopStep

LEMMA NextInv == Inv /\ [Next]_vars => Inv'
<1> SUFFICES ASSUME Inv, [Next]_vars PROVE Inv'
  OBVIOUS
<1>1. CASE LoopStep
  BY <1>1, LoopInv
<1>2. ASSUME NEW u \in Ui, Step(u) \/ Request(u) PROVE Inv'
  <2>1. u \in Thread
    BY DEF Thread
  <2>. QED  BY <1>2, <2>1, StepInv, RequestInv
<1>3. CASE Restart
  BY <1>3, RestartInv
<1>4. CASE UNCHANGED vars
  <2>1. UNCHANGED <<mirror, file, desired, outbox, pending, air, running, pc, local,
                    proven, held, behind, spent>>
    BY <1>4 DEF vars, queueVars, ghostVars
  <2>2. TypeOK' /\ DiskWasMemory' /\ HeldProven'
    BY <2>1 DEF Inv, IInv, TypeOK, DiskWasMemory, HeldProven, Proven
  <2>3. (\A t \in Thread : Carries(t)') /\ AloneReads' /\ Written'
    BY <2>1 DEF Inv, IInv, Carries, AloneReads, Written, NoneSaving, Saving, At, Proven
  <2>. QED  BY <2>2, <2>3 DEF Inv, IInv
<1>. QED  BY <1>1, <1>2, <1>3, <1>4 DEF Next

LEMMA InvariantHolds == Spec => []Inv
BY InitInv, NextInv, PTL DEF Spec

\* The variables keep their types, whatever the threads are in the middle of.
THEOREM TypeCorrect == Spec => []TypeOK
<1>1. Inv => TypeOK
  BY DEF Inv, IInv
<1>. QED  BY <1>1, InvariantHolds, PTL

\* Without any lock, the mirror and its file hold only what the station reported.
THEOREM ProvenOnlyHolds == Spec => []ProvenOnly
<1>1. Inv => ProvenOnly
  BY DEF Inv, IInv, DiskWasMemory, HeldProven, Proven, ProvenOnly
<1>. QED  BY <1>1, InvariantHolds, PTL

\* No record on disk is torn apart or cut short.
THEOREM DiskWasMemoryHolds == Spec => []DiskWasMemory
<1>1. Inv => DiskWasMemory
  BY DEF Inv, IInv
<1>. QED  BY <1>1, InvariantHolds, PTL

\* Once the last save was not overlapped, memory and disk agree.
THEOREM WrittenThroughHolds == Spec => []WrittenThrough
<1>1. Inv => WrittenThrough
  <2> SUFFICES ASSUME Inv, Quiet, ~behind PROVE file = mirror
    BY DEF WrittenThrough
  <2>1. \A s \in Station : file[s] = mirror[s]
    BY DEF Inv, Written, NoneSaving, Saving, Quiet
  <2>2. mirror \in [Station -> StationMirror] /\ file \in [Station -> StationMirror]
    BY DEF Inv, IInv, TypeOK
  <2>. QED  BY <2>1, <2>2
<1>. QED  BY <1>1, InvariantHolds, PTL
=============================================================================
