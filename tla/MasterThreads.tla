--------------------------- MODULE MasterThreads ----------------------------
(***************************************************************************)
(* The threads of the management program: the loop that calls              *)
(* Master.step() and the threads of the HTTP handlers (cli.py run_server), *)
(* which share the mirror, its file, the pending push, the queued edit and *)
(* the outbox of each station without a lock.                              *)
(*                                                                         *)
(* A step is what one thread does from one access to shared state to the   *)
(* next; single reads and assignments are atomic (the interpreter's lock). *)
(* Settings are one field's value, and a CRC is that of its settings; the  *)
(* flags of a divergence are left out, so a mismatch has any consequence   *)
(* it can have (ParamDist has the flags, ConfigPath the messages).         *)
(***************************************************************************)
EXTENDS Integers, Sequences

CONSTANTS
    Station, Setting,
    First,          \* the settings in the file at the start
    Ui,             \* the threads of the HTTP handlers
    Loop,           \* the thread of run_server's loop()
    None,
    FullRead,       \* in the outbox, a request and not a push
    Budget          \* bounds: how many requests and answers of the
                    \* stations, how many failed saves and restarts

Spendable == {"operation", "fault"}
ASSUME ThreadsAssumption ==
    /\ Station \subseteq Nat
    /\ First \in Setting /\ {None, FullRead} \cap Setting = {} /\ None # FullRead
    /\ Loop \notin Ui
    /\ Budget \in [Spendable -> Nat]

Thread == Ui \cup {Loop}
StationMirror == [settings : Setting, previous : Setting \cup {None}]

VARIABLES
    mirror,     \* ConfigMirror._stations
    file,       \* what is on disk
    desired, outbox,
    pending,    \* the distributor's st.pending: the settings it expects
    air,        \* the loop's own: what the sender is sending, None if it is idle
    running,    \* the loop's thread has not ended in an exception
    pc, local,  \* by thread: its next access, and its local variables
    proven,     \* ghost: settings a station has reported
    held,       \* ghost: records the mirror has had
    behind,     \* ghost: saves failed or overlapped since the last that did not
    spent

queueVars == <<desired, outbox, pending, air>>
ghostVars == <<proven, held, behind>>
vars == <<mirror, file, queueVars, running, pc, local, ghostVars, spent>>

Unchanged == [settings |-> First, previous |-> None]
NoLocal == [at |-> 0, seen |-> None, mine |-> None, record |-> Unchanged,
            payload |-> [s \in {} |-> Unchanged], alone |-> TRUE, next |-> "idle"]

Init ==
    /\ mirror = [s \in Station |-> Unchanged] /\ file = mirror
    /\ desired = [s \in Station |-> None] /\ outbox = [s \in Station |-> << >>]
    /\ pending = [s \in Station |-> None] /\ air = [s \in Station |-> None]
    /\ running = TRUE
    /\ pc = [t \in Thread |-> "idle"] /\ local = [t \in Thread |-> NoLocal]
    /\ proven = [s \in Station |-> {First}] /\ held = [s \in Station |-> {Unchanged}]
    /\ behind = FALSE /\ spent = [k \in Spendable |-> 0]

Spend(kind) == /\ spent[kind] < Budget[kind]
               /\ spent' = [spent EXCEPT ![kind] = @ + 1]

Go(t, where, mine) == /\ pc' = [pc EXCEPT ![t] = where]
                      /\ local' = [local EXCEPT ![t] = mine]
Rest(t) == Go(t, "idle", NoLocal)
At(t) == local[t].at

-----------------------------------------------------------------------------
(* The mirror: ConfigMirror.accept, revert and _save on any thread *)

Saving(t) == pc[t] \in {"collect", "replace"}

\* Mutation of Assign: a record without a known-good one is not saved.
AssignForgets(t) ==
    /\ pc[t] = "assign"
    /\ mirror' = [mirror EXCEPT ![At(t)] = local[t].record]
    /\ held' = [held EXCEPT ![At(t)] = @ \cup {local[t].record}]
    /\ Go(t, IF local[t].record.previous = None THEN local[t].next ELSE "collect", local[t])
    /\ UNCHANGED <<file, queueVars, running, proven, behind, spent>>

\* The new record is in memory; the save that writes it begins.
Assign(t) ==
    /\ pc[t] = "assign"
    /\ mirror' = [mirror EXCEPT ![At(t)] = local[t].record]
    /\ held' = [held EXCEPT ![At(t)] = @ \cup {local[t].record}]
    /\ pc' = [pc EXCEPT ![t] = "collect"]
    /\ local' = [r \in Thread |->
          IF r = t THEN [local[t] EXCEPT !.alone = \A o \in Thread \ {t} : ~Saving(o)]
          ELSE IF Saving(r) THEN [local[r] EXCEPT !.alone = FALSE] ELSE local[r]]
    /\ UNCHANGED <<file, queueVars, running, proven, behind, spent>>

\* The payload is put together record by record, in the order of the addresses.
Uncollected(t) == Station \ DOMAIN local[t].payload
Collect(t) ==
    /\ pc[t] = "collect"
    /\ \E s \in Uncollected(t) :
         /\ \A r \in Uncollected(t) : s <= r
         /\ Go(t, IF Uncollected(t) = {s} THEN "replace" ELSE "collect",
               [local[t] EXCEPT !.payload =
                   [r \in DOMAIN @ \cup {s} |-> IF r = s THEN mirror[s] ELSE @[r]]])
    /\ UNCHANGED <<mirror, file, queueVars, running, ghostVars, spent>>

Replace(t) ==
    /\ pc[t] = "replace"
    /\ file' = local[t].payload
    /\ behind' = ~local[t].alone
    /\ Go(t, local[t].next, [NoLocal EXCEPT !.at = At(t)])
    /\ UNCHANGED <<mirror, queueVars, running, proven, held, spent>>

\* Mutation of SaveFails: the file is opened for writing in place.
SaveFailsInPlace(t) ==
    /\ pc[t] = "replace" /\ Spend("fault")
    /\ file' = [s \in Station |-> [settings |-> None, previous |-> None]]
    /\ running' = (running /\ t # Loop)
    /\ behind' = TRUE
    /\ Rest(t)
    /\ UNCHANGED <<mirror, queueVars, proven, held>>

\* The exception ends the request, or the loop's thread.
SaveFails(t) ==
    /\ pc[t] = "replace" /\ Spend("fault")
    /\ running' = (running /\ t # Loop)
    /\ behind' = TRUE
    /\ Rest(t)
    /\ UNCHANGED <<mirror, file, queueVars, proven, held>>

\* Mutation of Accept: the settings are those pending now.
AcceptPending(t) ==
    /\ pc[t] = "accept"
    /\ Go(t, "assign", [local[t] EXCEPT !.record =
             [settings |-> pending[At(t)], previous |-> mirror[At(t)].settings]])
    /\ UNCHANGED <<mirror, file, queueVars, running, ghostVars, spent>>

\* accept(): the record that is there becomes the known-good one.
Accept(t) ==
    /\ pc[t] = "accept"
    /\ Go(t, "assign", [local[t] EXCEPT !.record =
             [settings |-> local[t].mine, previous |-> mirror[At(t)].settings]])
    /\ UNCHANGED <<mirror, file, queueVars, running, ghostVars, spent>>

-----------------------------------------------------------------------------
(* A push: st.pending is set, then the push queued *)

\* prepare_full_push() of what the mirror holds now.
Push(t) ==
    /\ pc[t] = "push"
    /\ Go(t, "author", [local[t] EXCEPT !.mine = mirror[At(t)].settings, !.next = "idle"])
    /\ UNCHANGED <<mirror, file, queueVars, running, ghostVars, spent>>

Author(t) ==
    /\ pc[t] = "author"
    /\ pending' = [pending EXCEPT ![At(t)] = local[t].mine]
    /\ IF local[t].next = "drop" THEN Rest(t) ELSE Go(t, "enqueue", local[t])
    /\ UNCHANGED <<mirror, file, desired, outbox, air, running, ghostVars, spent>>

Enqueue(t) ==
    /\ pc[t] = "enqueue"
    /\ outbox' = [outbox EXCEPT ![At(t)] = Append(@, local[t].mine)]
    /\ Go(t, local[t].next, [NoLocal EXCEPT !.at = At(t)])
    /\ UNCHANGED <<mirror, file, desired, pending, air, running, ghostVars, spent>>

-----------------------------------------------------------------------------
(* The HTTP handlers *)

QueueEdit(u, s, v) ==
    /\ pc[u] = "idle" /\ Spend("operation")
    /\ desired' = [desired EXCEPT ![s] = v]
    /\ UNCHANGED <<mirror, file, outbox, pending, air, running, pc, local, ghostVars>>

RequestFullRead(u, s) ==
    /\ pc[u] = "idle" /\ Spend("operation")
    /\ outbox' = [outbox EXCEPT ![s] = Append(@, FullRead)]
    /\ UNCHANGED <<mirror, file, desired, pending, air, running, pc, local, ghostVars>>

PushFull(u, s) ==
    /\ pc[u] = "idle" /\ Spend("operation")
    /\ Go(u, "push", [NoLocal EXCEPT !.at = s])
    /\ UNCHANGED <<mirror, file, queueVars, running, ghostVars>>

\* Mutation of Revert: without a known-good record.
RevertAny(u, s) ==
    /\ pc[u] = "idle" /\ Spend("operation")
    /\ Go(u, "assign", [NoLocal EXCEPT !.at = s, !.next = "push",
             !.record = [settings |-> mirror[s].previous, previous |-> None]])
    /\ UNCHANGED <<mirror, file, queueVars, running, ghostVars>>

Revert(u, s) ==
    /\ pc[u] = "idle" /\ Spend("operation")
    /\ mirror[s].previous # None
    /\ Go(u, "assign", [NoLocal EXCEPT !.at = s, !.next = "push",
             !.record = [settings |-> mirror[s].previous, previous |-> None]])
    /\ UNCHANGED <<mirror, file, queueVars, running, ghostVars>>

-----------------------------------------------------------------------------
(* The loop: _receive *)

Receives(s, reported) ==
    /\ running /\ pc[Loop] = "idle" /\ Spend("operation")
    /\ proven' = [proven EXCEPT ![s] = @ \cup (reported \ {None})]

\* The ACK to what is on the air; c is None when the station could not read its
\* settings back (STATUS_KRAKEN_DOWN).
OnAck(s, c) ==
    /\ air[s] # None
    /\ Receives(s, {c})
    /\ air' = [air EXCEPT ![s] = None]
    /\ IF air[s] = FullRead THEN UNCHANGED <<pc, local>>
       ELSE Go(Loop, "judge", [NoLocal EXCEPT !.at = s, !.seen = c])
    /\ UNCHANGED <<mirror, file, desired, outbox, pending, running, held, behind>>

OnBearing(s, c) ==
    /\ Receives(s, {c})
    /\ Go(Loop, "observe", [NoLocal EXCEPT !.at = s, !.seen = c, !.next = "drop"])
    /\ UNCHANGED <<mirror, file, queueVars, running, held, behind>>

OnParamReport(s, c) ==
    /\ Receives(s, {c})
    /\ Go(Loop, "accept", [NoLocal EXCEPT !.at = s, !.mine = c])
    /\ UNCHANGED <<mirror, file, queueVars, running, held, behind>>

\* _on_mismatch(): latched already, the automatic push, or it latches.
Mismatch(settings) ==
    \/ Rest(Loop)
    \/ Go(Loop, "author", [local[Loop] EXCEPT !.mine = settings])
    \/ Go(Loop, "settle", local[Loop])

\* The distributor's on_ack(), which reads the pending push once.
Judge ==
    /\ pc[Loop] = "judge"
    /\ LET push == pending[At(Loop)]
           seen == local[Loop].seen
       IN  \/ push = None /\ Go(Loop, "observe", local[Loop])
           \/ push # None /\ seen = None /\ Go(Loop, "settle", local[Loop])
           \/ /\ push # None /\ seen = push
              /\ Go(Loop, "accept", [local[Loop] EXCEPT !.mine = push, !.next = "settle"])
           \/ push # None /\ seen \notin {None, push} /\ Mismatch(push)
    /\ UNCHANGED <<mirror, file, queueVars, running, ghostVars, spent>>

\* observe_bearing() reads the mirror, then the pending push.
Observe ==
    /\ pc[Loop] = "observe"
    /\ Go(Loop, "recheck", [local[Loop] EXCEPT !.mine = mirror[At(Loop)].settings])
    /\ UNCHANGED <<mirror, file, queueVars, running, ghostVars, spent>>

Recheck ==
    /\ pc[Loop] = "recheck"
    /\ \/ (pending[At(Loop)] # None \/ local[Loop].seen = local[Loop].mine) /\ Rest(Loop)
       \/ /\ pending[At(Loop)] = None /\ local[Loop].seen # local[Loop].mine
          /\ Mismatch(local[Loop].mine)
    /\ UNCHANGED <<mirror, file, queueVars, running, ghostVars, spent>>

Settle ==
    /\ pc[Loop] = "settle"
    /\ pending' = [pending EXCEPT ![At(Loop)] = None]
    /\ Rest(Loop)
    /\ UNCHANGED <<mirror, file, desired, outbox, air, running, ghostVars, spent>>

-----------------------------------------------------------------------------
(* The loop: _service_arq for one station *)

\* The sender is idle, or its last attempt has timed out.
Serve(s) ==
    /\ running /\ pc[Loop] = "idle"
    /\ air[s] # None \/ desired[s] # None \/ outbox[s] # << >>
    /\ air' = [air EXCEPT ![s] = None]
    /\ Go(Loop, "consider", [NoLocal EXCEPT !.at = s])
    /\ UNCHANGED <<mirror, file, desired, outbox, pending, running, ghostVars, spent>>

Consider ==
    /\ pc[Loop] = "consider"
    /\ IF desired[At(Loop)] # None /\ outbox[At(Loop)] = << >>
       THEN Go(Loop, "clear", [local[Loop] EXCEPT !.mine = desired[At(Loop)]])
       ELSE Go(Loop, "send", local[Loop])
    /\ UNCHANGED <<mirror, file, queueVars, running, ghostVars, spent>>

\* An edit that has come since is lost.
Clear ==
    /\ pc[Loop] = "clear"
    /\ desired' = [desired EXCEPT ![At(Loop)] = None]
    /\ Go(Loop, "compare", local[Loop])
    /\ UNCHANGED <<mirror, file, outbox, pending, air, running, ghostVars, spent>>

\* prepare_delta(): nothing is pushed when nothing differs from the baseline.
Compare ==
    /\ pc[Loop] = "compare"
    /\ IF mirror[At(Loop)].settings = local[Loop].mine
       THEN Go(Loop, "send", local[Loop])
       ELSE Go(Loop, "author", [local[Loop] EXCEPT !.next = "send"])
    /\ UNCHANGED <<mirror, file, queueVars, running, ghostVars, spent>>

\* Mutation of Send: only while a push is pending.
SendPending ==
    /\ pc[Loop] = "send"
    /\ LET box == outbox[At(Loop)]
       IN  IF box = << >> \/ pending[At(Loop)] = None THEN UNCHANGED <<outbox, air>>
           ELSE /\ air' = [air EXCEPT ![At(Loop)] = Head(box)]
                /\ outbox' = [outbox EXCEPT ![At(Loop)] = Tail(box)]
    /\ Rest(Loop)
    /\ UNCHANGED <<mirror, file, desired, pending, running, ghostVars, spent>>

Send ==
    /\ pc[Loop] = "send"
    /\ LET box == outbox[At(Loop)]
       IN  IF box = << >> THEN UNCHANGED <<outbox, air>>
           ELSE /\ air' = [air EXCEPT ![At(Loop)] = Head(box)]
                /\ outbox' = [outbox EXCEPT ![At(Loop)] = Tail(box)]
    /\ Rest(Loop)
    /\ UNCHANGED <<mirror, file, desired, pending, running, ghostVars, spent>>

-----------------------------------------------------------------------------
\* External: the program ends at any moment and is started again; what is left
\* is the file, which _load() reads.
Restart ==
    /\ Spend("fault")
    /\ mirror' = file
    /\ desired' = [s \in Station |-> None] /\ outbox' = [s \in Station |-> << >>]
    /\ pending' = [s \in Station |-> None] /\ air' = [s \in Station |-> None]
    /\ running' = TRUE /\ behind' = FALSE
    /\ pc' = [t \in Thread |-> "idle"] /\ local' = [t \in Thread |-> NoLocal]
    /\ UNCHANGED <<file, proven, held>>

Step(t) == Assign(t) \/ Collect(t) \/ Replace(t) \/ SaveFails(t) \/ Accept(t)
             \/ Push(t) \/ Author(t) \/ Enqueue(t)
Request(u) == \E s \in Station :
    (\E v \in Setting : QueueEdit(u, s, v))
        \/ RequestFullRead(u, s) \/ PushFull(u, s) \/ Revert(u, s)
Receive == \E s \in Station :
    \/ \E c \in Setting \cup {None} : OnAck(s, c)
    \/ \E c \in Setting : OnBearing(s, c) \/ OnParamReport(s, c)
LoopStep ==
    \/ Step(Loop) \/ Receive \/ Judge \/ Observe \/ Recheck \/ Settle
    \/ (\E s \in Station : Serve(s)) \/ Consider \/ Clear \/ Compare \/ Send
Next == LoopStep \/ (\E u \in Ui : Step(u) \/ Request(u)) \/ Restart

Spec == Init /\ [][Next]_vars

\* The threads run.
FairSpec == Spec /\ WF_vars(LoopStep) /\ \A u \in Ui : WF_vars(Step(u))

-----------------------------------------------------------------------------
Place == {"idle", "assign", "collect", "replace", "accept", "push", "author", "enqueue",
          "judge", "observe", "recheck", "settle", "consider", "clear", "compare", "send"}
Local == [at : Station \cup {0}, seen : Setting \cup {None}, mine : Setting \cup {None},
          record : StationMirror, payload : UNION {[S -> StationMirror] : S \in SUBSET Station},
          alone : BOOLEAN, next : {"idle", "push", "send", "settle", "drop"}]

\* Types; a thread that puts a payload together has read a part of the stations.
TypeOK ==
    /\ mirror \in [Station -> StationMirror] /\ file \in [Station -> StationMirror]
    /\ desired \in [Station -> Setting \cup {None}]
    /\ outbox \in [Station -> Seq(Setting \cup {FullRead})]
    /\ pending \in [Station -> Setting \cup {None}]
    /\ air \in [Station -> Setting \cup {FullRead, None}]
    /\ running \in BOOLEAN /\ behind \in BOOLEAN
    /\ pc \in [Thread -> Place] /\ local \in [Thread -> Local]
    /\ proven \in [Station -> SUBSET Setting] /\ held \in [Station -> SUBSET StationMirror]
    /\ spent \in [Spendable -> Nat]

\* However the threads interleave, the mirror and its file hold only settings
\* that the station itself has reported, by the CRC of an ACK or in full.
ProvenOnly == \A s \in Station :
    \A m \in {mirror[s], file[s]} : {m.settings, m.previous} \subseteq proven[s] \cup {None}

\* What is on disk for a station was in memory: an accepted configuration and
\* its known-good one are never torn apart or cut short, whatever overlaps and
\* whatever fails (mirror.py: no crash leaves a truncated mirror).
DiskWasMemory == \A s \in Station : file[s] \in held[s] /\ mirror[s] \in held[s]

\* When no thread is at work, memory and disk agree, unless saves failed or
\* overlapped and none has been made since that did not.
Quiet == \A t \in Thread : pc[t] = "idle"
WrittenThrough == Quiet /\ ~behind => file = mirror

\* What the operator asks for is sent while the loop runs, whatever the other
\* threads and the pushes of the distributor do to the pending push.
Drains == \A s \in Station :
    (outbox[s] # << >> \/ desired[s] # None)
        ~> (~running \/ (outbox[s] = << >> /\ desired[s] = None))

-----------------------------------------------------------------------------
(* The inductive invariant behind the safety properties (ThreadsProofs).    *)

Proven(s, m) == {m.settings, m.previous} \subseteq proven[s] \cup {None}
HeldProven == \A s \in Station : \A m \in held[s] : Proven(s, m)

\* What a thread carries from one access to the next.
Carries(t) ==
    /\ pc[t] # "idle" => At(t) \in Station
    /\ pc[t] = "assign" => Proven(At(t), local[t].record)
    /\ pc[t] = "accept" => local[t].mine \in proven[At(t)]
    /\ pc[t] \in {"judge", "accept", "assign"} => DOMAIN local[t].payload = {}
    /\ pc[t] = "judge" => local[t].seen \in proven[At(t)] \cup {None}
    /\ pc[t] \in {"author", "enqueue", "recheck", "clear", "compare"} => local[t].mine # None
    /\ pc[t] \in {"assign", "collect", "replace", "accept"}
         => local[t].next \in {"idle", "push", "settle"}
    /\ pc[t] \in {"judge", "observe", "recheck"} => local[t].next \in {"idle", "drop"}
    /\ pc[t] = "author" => local[t].next \in {"idle", "send", "drop"}
    /\ pc[t] = "enqueue" => local[t].next \in {"idle", "send"}
    /\ pc[t] = "replace" => DOMAIN local[t].payload = Station
    /\ \A s \in DOMAIN local[t].payload : local[t].payload[s] \in held[s]

\* A save that no other overlaps has read what the mirror holds.
AloneReads == \A t \in Thread : Saving(t) /\ local[t].alone =>
    /\ \A o \in Thread \ {t} : ~Saving(o)
    /\ \A s \in DOMAIN local[t].payload : local[t].payload[s] = mirror[s]
NoneSaving == \A t \in Thread : ~Saving(t)
Written == NoneSaving /\ ~behind => \A s \in Station : file[s] = mirror[s]

IInv == TypeOK /\ DiskWasMemory /\ HeldProven /\ (\A t \in Thread : Carries(t))
          /\ AloneReads
=============================================================================
