----------------------------- MODULE DtuProofs ------------------------------
(***************************************************************************)
(* Theorems about DtuProvision.                                            *)
(***************************************************************************)
EXTENDS DtuProvision, TLAPS

USE DEF FaultKind, Commanding

-----------------------------------------------------------------------------
(* Facts about a command *)

\* The parameter the loop is at is one of the list's.
LEMMA NameFacts ==
    ASSUME index \in DOMAIN Order
    PROVE  Name \in Param
BY ProvisionAssumption DEF Name

\* Every reply is a value, text or none.
LEMMA ReplyFacts ==
    ASSUME TypeOK, NEW obeys \in BOOLEAN, NEW reply \in Replies(obeys)
    PROVE  reply \in Reply
<1>1. Name \in Param
  BY NameFacts DEF TypeOK
<1>2. stored[Name] \in Value /\ Wanted[Name] \in Value /\ Blank \in Value
  BY <1>1, ProvisionAssumption DEF TypeOK, Result
<1>. QED
  BY <1>2 DEF Replies, Reply

\* Faults are counted, within the budget.
LEMMA SufferedFacts ==
    ASSUME TypeOK, NEW kinds \in SUBSET FaultKind, Suffered(kinds)
    PROVE  /\ faults' \in [FaultKind -> Nat]
           /\ \A k \in FaultKind : faults'[k] <= Budget[k]
           /\ \A k \in FaultKind : faults'[k] = faults[k] + (IF k \in kinds THEN 1 ELSE 0)
           /\ faults' = NoFaults => faults = NoFaults /\ kinds = {}
<1>1. faults \in [FaultKind -> Nat] /\ \A k \in FaultKind : faults[k] <= Budget[k]
  BY DEF TypeOK
<1>2. \A k \in FaultKind : faults'[k] = faults[k] + (IF k \in kinds THEN 1 ELSE 0)
  BY <1>1 DEF Suffered
<1>3. faults' \in [FaultKind -> Nat] /\ \A k \in FaultKind : faults'[k] <= Budget[k]
  <2>. HIDE DEF FaultKind
  <2>1. faults' = [k \in FaultKind |-> faults'[k]]
    BY DEF Suffered
  <2>2. \A k \in FaultKind : faults'[k] \in Nat
    BY <1>1, <1>2
  <2>3. Budget \in [FaultKind -> Nat] /\ \A k \in kinds : faults[k] < Budget[k]
    BY ProvisionAssumption DEF Suffered
  <2>4. \A k \in FaultKind : faults'[k] <= Budget[k]
    BY <1>1, <1>2, <2>3
  <2>. QED
    BY <2>1, <2>2, <2>4
<1>4. ASSUME faults' = NoFaults PROVE faults = NoFaults /\ kinds = {}
  <2>1. \A k \in FaultKind : faults'[k] = 0
    BY <1>4 DEF NoFaults
  <2>2. \A k \in FaultKind : faults[k] = 0 /\ k \notin kinds
    BY <2>1, <1>2, <1>1
  <2>. QED
    BY <2>2, <1>1 DEF NoFaults
<1>. QED
  BY <1>2, <1>3, <1>4

\* What the DTU does keeps the type of its settings.
LEMMA DtuType ==
    ASSUME TypeOK, Obeys \/ UNCHANGED dtuVars
    PROVE  mode' \in {"stream", "at"} /\ stored' \in Result /\ live' \in Result
<1>1. Name \in Param
  BY NameFacts DEF TypeOK
<1>2. Wanted[Name] \in Value
  BY <1>1, ProvisionAssumption
<1>. QED
  BY <1>2 DEF TypeOK, Obeys, dtuVars, Result

\* The kinds of fault of a command.
Kinds(obeys, reply, how) ==
    Neglect(obeys, reply, how) \cup (IF how = "prompt" THEN {} ELSE {how})

\* What every command does to the DTU, the reply on its way and the faults.
LEMMA SentFacts ==
    ASSUME TypeOK, NEW obeys \in BOOLEAN, NEW how \in Delivery,
           NEW reply \in Replies(obeys), Sent(obeys, reply, how)
    PROVE  /\ Kinds(obeys, reply, how) \in SUBSET FaultKind
           /\ Suffered(Kinds(obeys, reply, how))
           /\ IF obeys THEN Obeys ELSE Ignores
           /\ mode' \in {"stream", "at"} /\ stored' \in Result /\ live' \in Result
           /\ late' \in Reply
           /\ faults' \in [FaultKind -> Nat]
           /\ \A k \in FaultKind : faults'[k] <= Budget[k]
           /\ \A k \in FaultKind :
                faults'[k] = faults[k] + (IF k \in Kinds(obeys, reply, how) THEN 1 ELSE 0)
<1>1. Kinds(obeys, reply, how) \in SUBSET FaultKind
  BY DEF Kinds, Neglect, Delivery
<1>2. Suffered(Kinds(obeys, reply, how)) /\ (IF obeys THEN Obeys ELSE Ignores)
  BY DEF Sent, Kinds
<1>3. Obeys \/ UNCHANGED dtuVars
  BY <1>2 DEF Ignores
<1>4. late' \in Reply
  BY ReplyFacts DEF Sent, Reply
<1>. QED
  BY <1>1, <1>2, <1>3, <1>4, DtuType, SufferedFacts

-----------------------------------------------------------------------------
(* Types and phases *)

\* What each phase of provision() has behind it.
PhaseInv ==
    /\ pc = "enter" => ~entered /\ tries < EnterAttempts /\ index = 1
                         /\ written = {} /\ mismatches = {} /\ unverifiable = {}
    /\ pc \in Commanding \ {"enter"} => entered
    /\ pc = "verify" => Name \in written /\ Name \notin WriteOnly
    /\ pc = "exit" => tries < ExitAttempts
    /\ pc \in {"enter", "query", "write", "verify"} => ~failing
    /\ pc \in {"exit", "reboot"} /\ failing => failures < MaxFailures

Handled(read) ==
    Enter(read) \/ Query(read) \/ Write(read) \/ Verify(read) \/ Exit(read) \/ Reboot(read)

\* What the handlers of the replies keep, whatever was read.
LEMMA HandlerType ==
    ASSUME TypeOK, PhaseInv, NEW read, Handled(read)
    PROVE  /\ pc' \in Commanding \cup {"off", "running"}
           /\ index' \in DOMAIN Order /\ tries' \in Nat /\ failing' \in BOOLEAN
           /\ entered' \in BOOLEAN
           /\ written' \subseteq Param /\ mismatches' \subseteq written'
           /\ unverifiable' \subseteq written' \cap WriteOnly
           /\ failures' \in 0 .. MaxFailures
           /\ PhaseInv'
<1>. USE ProvisionAssumption
<1>1. Name \in Param
  BY NameFacts DEF TypeOK
<1>2. index \in Nat /\ DOMAIN Order = 1 .. Len(Order) /\ Len(Order) \in Nat
      /\ (index < Len(Order) => index + 1 \in DOMAIN Order)
  BY DEF TypeOK
<1>3. CASE Enter(read)
  <2>1. UNCHANGED <<index, failing, written, mismatches, unverifiable, failures>>
        /\ pc = "enter" /\ ~failing /\ entered' = Answered(read)
    BY <1>3 DEF Enter, PhaseInv
  <2>2. CASE Answered(read)
    <3>1. pc' = "query" /\ tries' = 0 /\ entered' = TRUE
      BY <1>3, <2>2 DEF Enter, Answered
    <3>. QED
      BY <2>1, <3>1 DEF TypeOK, PhaseInv
  <2>3. CASE ~Answered(read)
    <3>1. pc' \in {"enter", "running"} /\ tries' = tries + 1 /\ entered' = FALSE
          /\ (pc' = "enter" => tries + 1 < EnterAttempts)
      BY <1>3, <2>3 DEF Enter, Answered
    <3>2. written = {} /\ mismatches = {} /\ unverifiable = {} /\ tries \in Nat /\ index = 1
      BY <2>1 DEF PhaseInv, TypeOK
    <3>3. PhaseInv'
      BY <2>1, <3>1, <3>2 DEF PhaseInv
    <3>4. pc' \in Commanding \cup {"off", "running"} /\ tries' \in Nat
      BY <3>1, <3>2
    <3>5. failing' \in BOOLEAN /\ entered' \in BOOLEAN
      BY <2>1, <3>1 DEF TypeOK
    <3>. QED
      BY <2>1, <3>3, <3>4, <3>5 DEF TypeOK
  <2>. QED
    BY <2>2, <2>3
<1>4. CASE Query(read)
  BY SMTT(60), <1>4, <1>2 DEF Query, Advance, TypeOK, resultVars, PhaseInv
<1>5. CASE Write(read)
  <2>1. Name' = Name \/ pc' # "verify"
    BY <1>5 DEF Write, Advance, Name
  <2>. QED
    BY <1>5, <1>1, <1>2, <2>1 DEF Write, Advance, TypeOK, PhaseInv
<1>6. CASE Verify(read)
  <2>1. Name' = Name \/ pc' # "verify"
    BY <1>6 DEF Verify, Advance, Name
  <2>. QED
    BY SMTT(60), <1>6, <1>1, <1>2, <2>1 DEF Verify, Advance, TypeOK, PhaseInv
<1>7. CASE Exit(read)
  <2>1. pc = "exit" /\ UNCHANGED <<index, failing, resultVars>>
    BY <1>7 DEF Exit
  <2>2. CASE Answered(read)
    <3>1. Leave
      BY <1>7, <2>2 DEF Exit
    <3>. QED
      BY <2>1, <3>1 DEF Leave, TypeOK, resultVars, PhaseInv
  <2>3. CASE ~Answered(read)
    <3>1. tries' = tries + 1 /\ failures' = failures /\ pc' \in {"exit", "reboot"}
          /\ (pc' = "exit" => tries + 1 < ExitAttempts)
      BY <1>7, <2>3 DEF Exit
    <3>. QED
      BY <2>1, <3>1 DEF TypeOK, resultVars, PhaseInv
  <2>. QED
    BY <2>2, <2>3
<1>8. CASE Reboot(read)
  BY <1>8 DEF Reboot, Leave, TypeOK, resultVars, PhaseInv
<1>. QED
  BY <1>3, <1>4, <1>5, <1>6, <1>7, <1>8 DEF Handled

TypeInv == TypeOK /\ PhaseInv

LEMMA TypeStep ==
    ASSUME TypeInv, [Next]_vars
    PROVE  TypeInv'
<1>. USE ProvisionAssumption DEF TypeInv
<1>1. CASE Start
  <2>1. 1 \in DOMAIN Order
    OBVIOUS
  <2>2. NoFaults \in [FaultKind -> Nat] /\ \A k \in FaultKind : NoFaults[k] <= Budget[k]
    BY DEF NoFaults
  <2>3. NoReply \in Reply /\ Wrong(stored) \subseteq Param
    BY DEF Reply, Wrong
  <2>. QED
    <3>1. pc' = "enter" /\ index' = 1 /\ tries' = 0 /\ ~failing' /\ failing' \in BOOLEAN
          /\ ~entered' /\ entered' \in BOOLEAN
          /\ written' = {} /\ mismatches' = {} /\ unverifiable' = {}
          /\ late' = NoReply /\ faults' = NoFaults /\ wrong' = Wrong(stored)
          /\ UNCHANGED <<mode, stored, live, failures>>
      BY <1>1 DEF Start, dtuVars
    <3>2. PhaseInv'
      BY <3>1 DEF PhaseInv
    <3>. QED
      BY <3>1, <3>2, <2>1, <2>2, <2>3 DEF TypeOK
<1>2. CASE Exchange
  <2>1. PICK obeys \in BOOLEAN, how \in Delivery : \E reply \in Replies(obeys) :
          /\ Sent(obeys, reply, how)
          /\ \E stale \in {late, NoReply} : Handled(Read(stale, reply, how))
    BY <1>2 DEF Exchange, Handled
  <2>2. PICK reply \in Replies(obeys) : 
          /\ Sent(obeys, reply, how)
          /\ \E stale \in {late, NoReply} : Handled(Read(stale, reply, how))
    BY <2>1
  <2>3. PICK stale \in {late, NoReply} : Handled(Read(stale, reply, how))
    BY <2>2
  <2>4. wrong' = wrong
    BY <1>2 DEF Exchange
  <2>5. PhaseInv' /\ pc' \in Commanding \cup {"off", "running"}
        /\ index' \in DOMAIN Order /\ tries' \in Nat /\ failing' \in BOOLEAN
        /\ entered' \in BOOLEAN
        /\ written' \subseteq Param /\ mismatches' \subseteq written'
        /\ unverifiable' \subseteq written' \cap WriteOnly
        /\ failures' \in 0 .. MaxFailures
    BY <2>3, HandlerType
  <2>6. mode' \in {"stream", "at"} /\ stored' \in Result /\ live' \in Result
        /\ late' \in Reply /\ faults' \in [FaultKind -> Nat]
        /\ \A k \in FaultKind : faults'[k] <= Budget[k]
    BY <2>2, SentFacts
  <2>. QED
    BY <2>4, <2>5, <2>6 DEF TypeOK
<1>3. CASE PortError
  <2>1. Suffered({"port"}) /\ {"port"} \in SUBSET FaultKind
    BY <1>3 DEF PortError
  <2>2. faults' \in [FaultKind -> Nat] /\ \A k \in FaultKind : faults'[k] <= Budget[k]
    BY <2>1, SufferedFacts
  <2>3. mode' \in {"stream", "at"} /\ stored' \in Result /\ live' \in Result
    BY <1>3, DtuType DEF PortError
  <2>4. late' \in Reply /\ wrong' = wrong /\ index' = index /\ UNCHANGED resultVars
    BY <1>3 DEF PortError, Reply
  <2>5. pc' \in Commanding \cup {"off", "running"} /\ tries' \in Nat
        /\ failing' \in BOOLEAN /\ failures' \in 0 .. MaxFailures /\ PhaseInv'
    <3>1. CASE pc \in {"enter", "exit"}
      <4>1. pc' = "off" /\ failures' = failures + 1 /\ UNCHANGED <<tries, failing>>
            /\ failures < MaxFailures
        BY <1>3, <3>1 DEF PortError
      <4>. QED
        BY <4>1 DEF TypeOK, PhaseInv
    <3>2. CASE pc \in {"query", "write", "verify"}
      <4>1. pc' = "exit" /\ tries' = 0 /\ failing' = TRUE /\ failures' = failures
            /\ failures < MaxFailures
        BY <1>3, <3>2 DEF PortError
      <4>2. entered' = TRUE
        BY <2>4, <3>2 DEF TypeOK, PhaseInv, resultVars
      <4>. QED
        BY <4>1, <4>2 DEF TypeOK, PhaseInv
    <3>3. CASE pc = "reboot"
      BY SMTT(60), <1>3, <3>3 DEF PortError, Leave, TypeOK, PhaseInv
    <3>. QED
      BY <1>3, <3>1, <3>2, <3>3 DEF PortError
  <2>. QED
    BY <2>2, <2>3, <2>4, <2>5 DEF TypeOK, resultVars
<1>4. CASE Kill
  BY <1>4 DEF Kill, TypeOK, PhaseInv, dtuVars, Reply, resultVars
<1>5. CASE UNCHANGED vars
  BY <1>5 DEF vars, TypeOK, PhaseInv, dtuVars, Reply, resultVars, Name
<1>. QED
  BY <1>1, <1>2, <1>3, <1>4, <1>5 DEF Next, Program

LEMMA TypeInit == Init => TypeInv
<1>. USE ProvisionAssumption
<1>1. 1 \in DOMAIN Order
  OBVIOUS
<1>2. NoFaults \in [FaultKind -> Nat] /\ \A k \in FaultKind : NoFaults[k] <= Budget[k]
  BY DEF NoFaults
<1>3. NoReply \in Reply /\ Initial \subseteq Result
  BY DEF Reply, Result
<1>4. Init => PhaseInv
  BY DEF Init, PhaseInv
<1>5. Init => TypeOK
  <2>1. Init => stored \in Result /\ live \in Result /\ late \in Reply
    BY <1>3 DEF Init
  <2>2. Init => faults \in [FaultKind -> Nat] /\ \A k \in FaultKind : faults[k] <= Budget[k]
    BY <1>2 DEF Init
  <2>3. Init => failing \in BOOLEAN /\ entered \in BOOLEAN
    BY DEF Init
  <2>4. Init => failures \in 0 .. MaxFailures /\ index \in DOMAIN Order /\ tries \in Nat
    BY <1>1 DEF Init
  <2>. QED
    BY <2>1, <2>2, <2>3, <2>4 DEF Init, TypeOK
<1>. QED
  BY <1>4, <1>5 DEF TypeInv

\* The results name parameters of the list and the counters keep to their
\* bounds in every state of provisioning, failures included.
THEOREM TypeCorrect == Spec => []TypeOK
<1>1. Init => TypeInv
  BY TypeInit
<1>2. TypeInv /\ [Next]_vars => TypeInv'
  BY TypeStep
<1>. QED
  BY <1>1, <1>2, PTL DEF Spec, TypeInv

-----------------------------------------------------------------------------
(* The DTU carries data when it is used *)

\* A command adds to the faults what it suffered.
LEMMA Counts ==
    ASSUME TypeOK, NEW obeys \in BOOLEAN, NEW how \in Delivery,
           NEW reply \in Replies(obeys), Sent(obeys, reply, how)
    PROVE  /\ faults.lost \in Nat /\ faults.late \in Nat
           /\ faults.ignored \in Nat /\ faults.refused \in Nat /\ faults.port \in Nat
           /\ faults'.port = faults.port
           /\ faults'.ignored = faults.ignored
                 + (IF Neglect(obeys, reply, how) = {"ignored"} THEN 1 ELSE 0)
           /\ faults'.refused = faults.refused
                 + (IF Neglect(obeys, reply, how) = {"refused"} THEN 1 ELSE 0)
           /\ faults'.lost = IF how = "lost" THEN faults.lost + 1 ELSE faults.lost
           /\ faults'.late = IF how = "late" THEN faults.late + 1 ELSE faults.late
           /\ how # "prompt" => how \in {"lost", "late"}
<1>1. \A k \in FaultKind :
        faults'[k] = faults[k] + (IF k \in Kinds(obeys, reply, how) THEN 1 ELSE 0)
  BY SentFacts
<1>2. faults \in [FaultKind -> Nat]
  BY DEF TypeOK
<1>3. Neglect(obeys, reply, how) \in {{}, {"ignored"}, {"refused"}}
  BY DEF Neglect
<1>4. /\ "port" \notin Kinds(obeys, reply, how)
      /\ "ignored" \in Kinds(obeys, reply, how) <=> Neglect(obeys, reply, how) = {"ignored"}
      /\ "refused" \in Kinds(obeys, reply, how) <=> Neglect(obeys, reply, how) = {"refused"}
      /\ "lost" \in Kinds(obeys, reply, how) <=> how = "lost"
      /\ "late" \in Kinds(obeys, reply, how) <=> how = "late"
  BY <1>3 DEF Kinds, Delivery
<1>5. how # "prompt" => how \in {"lost", "late"}
  BY DEF Delivery
<1>. QED
  BY <1>1, <1>2, <1>4, <1>5

PipeInv ==
    /\ late # NoReply => faults.late > 0
    /\ pc = "enter" => faults.lost + faults.late + faults.ignored >= tries
    /\ pc = "enter" /\ mode = "at" /\ tries > 0 => faults.lost + faults.late > 0
    /\ pc = "exit" /\ mode = "at" => faults.ignored >= tries \/ faults.refused > 0
    /\ pc = "reboot" /\ mode = "at" => faults.ignored >= ExitAttempts \/ faults.refused > 0
    /\ PipeWhenRunning

LEMMA PipeExchange ==
    ASSUME TypeInv, PipeInv, NEW obeys \in BOOLEAN, NEW how \in Delivery,
           NEW reply \in Replies(obeys), NEW stale \in {late, NoReply},
           Sent(obeys, reply, how), Handled(Read(stale, reply, how))
    PROVE  PipeInv'
<1>. DEFINE read == Read(stale, reply, how)
<1>1. TypeOK /\ PhaseInv /\ tries \in Nat
  BY DEF TypeInv, TypeOK
<1>2. /\ faults.lost \in Nat /\ faults.late \in Nat
      /\ faults.ignored \in Nat /\ faults.refused \in Nat /\ faults.port \in Nat
      /\ faults'.port = faults.port
      /\ faults'.ignored = faults.ignored
            + (IF Neglect(obeys, reply, how) = {"ignored"} THEN 1 ELSE 0)
      /\ faults'.refused = faults.refused
            + (IF Neglect(obeys, reply, how) = {"refused"} THEN 1 ELSE 0)
      /\ faults'.lost = IF how = "lost" THEN faults.lost + 1 ELSE faults.lost
      /\ faults'.late = IF how = "late" THEN faults.late + 1 ELSE faults.late
      /\ how # "prompt" => how \in {"lost", "late"}
  BY <1>1, Counts
<1>3. late' # NoReply => faults'.late > 0
  BY <1>2 DEF Sent
<1>4. ~Answered(read) => stale = NoReply /\ (how = "prompt" => reply = NoReply)
  BY DEF Answered, Read
<1>5. Answered(read) => stale # NoReply \/ (how = "prompt" /\ reply # NoReply)
  BY DEF Answered, Read
<1>6. how # "prompt" => reply # NoReply
  BY DEF Sent
<1>7. IF obeys THEN Obeys ELSE Ignores
  BY DEF Sent
<1>8. CASE Enter(read)
  <2>1. pc = "enter" /\ entered' = Answered(read)
    BY <1>8 DEF Enter
  <2>2. CASE Answered(read)
    <3>1. pc' = "query"
      BY <1>8, <2>2 DEF Enter
    <3>. QED
      BY <3>1, <1>3 DEF PipeInv, PipeWhenRunning
  <2>3. CASE ~Answered(read)
    <3>1. /\ tries' = tries + 1
          /\ pc' = IF tries + 1 < EnterAttempts THEN "enter" ELSE "running"
          /\ entered' = FALSE
      BY <1>8, <2>3 DEF Enter
    <3>2. how # "prompt" \/ ~obeys
      <4>1. ASSUME how = "prompt", obeys PROVE FALSE
        <5>1. reply = Text
          BY <4>1, <2>1 DEF Replies
        <5>. QED
          BY <5>1, <4>1, <1>4, <2>3, ProvisionAssumption
      <4>. QED
        BY <4>1
    <3>3. faults'.lost + faults'.late + faults'.ignored >= tries'
      <4>1. ~obeys => Neglect(obeys, reply, how) = {"ignored"}
        BY <2>1 DEF Neglect
      <4>. QED
        BY <4>1, <3>1, <3>2, <1>1, <1>2, <2>1 DEF PipeInv
    <3>4. mode' = "at" => faults'.lost + faults'.late > 0
      <4>1. CASE ~obeys
        BY <4>1, <1>7, <2>1 DEF Ignores, dtuVars
      <4>2. CASE obeys
        BY <4>2, <3>2, <1>2
      <4>. QED
        BY <4>1, <4>2
    <3>5. tries' \in Nat /\ EnterAttempts \in Nat
          /\ (pc' = "running" => tries' >= EnterAttempts)
      BY <3>1, <1>1, ProvisionAssumption
    <3>6. pc' = "running" /\ mode' = "at" => Excused'
      BY <3>1, <3>3, <3>4, <3>5, <1>2 DEF Excused
    <3>7. PipeWhenRunning'
      <4>1. mode' \in {"stream", "at"}
        BY <1>1, SentFacts
      <4>. QED
        BY <4>1, <3>6 DEF PipeWhenRunning
    <3>. QED
      BY <3>1, <3>3, <3>4, <3>7, <1>3 DEF PipeInv
  <2>. QED
    BY <2>2, <2>3
<1>9. CASE Query(read) \/ Write(read) \/ Verify(read)
  <2>1. pc' \in {"query", "write", "verify", "exit"}
    BY <1>9 DEF Query, Write, Verify, Advance
  <2>2. pc' = "exit" => tries' = 0
    BY <1>9 DEF Query, Write, Verify, Advance
  <2>3. faults'.ignored \in Nat
    BY <1>2
  <2>. QED
    BY <2>1, <2>2, <2>3, <1>3 DEF PipeInv, PipeWhenRunning
<1>10. CASE Exit(read)
  <2>1. pc = "exit" /\ entered' = entered /\ entered
    BY <1>10, <1>1 DEF Exit, resultVars, PhaseInv
  <2>2. mode' = "at" =>
          /\ mode = "at"
          /\ \/ faults'.refused > 0
             \/ /\ faults'.ignored = faults.ignored + 1
                /\ reply = NoReply \/ how = "lost"
    <3>1. ASSUME mode' = "at" PROVE ~obeys /\ mode = "at"
      BY <3>1, <2>1, <1>1, <1>7 DEF Obeys, Ignores, dtuVars, TypeOK
    <3>2. ASSUME ~obeys, reply # NoReply, how # "lost" PROVE faults'.refused > 0
      <4>1. Neglect(obeys, reply, how) = {"refused"}
        BY <3>2, <2>1 DEF Neglect
      <4>. QED
        BY <4>1, <1>2
    <3>3. ASSUME ~obeys, reply = NoReply \/ how = "lost"
          PROVE  faults'.ignored = faults.ignored + 1
      <4>1. Neglect(obeys, reply, how) = {"ignored"}
        BY <3>3 DEF Neglect
      <4>. QED
        BY <4>1, <1>2
    <3>. QED
      BY <3>1, <3>2, <3>3
  <2>3. CASE Answered(read)
    <3>1. pc' \in {"off", "running"}
      BY <1>10, <2>3 DEF Exit, Leave
    <3>2. mode' = "at" => Excused'
      BY <2>1, <2>2, <2>3, <1>2, <1>5 DEF Excused, PipeInv
    <3>3. PipeWhenRunning'
      <4>1. mode' \in {"stream", "at"}
        BY <1>1, SentFacts
      <4>. QED
        BY <4>1, <3>2 DEF PipeWhenRunning
    <3>. QED
      BY <3>1, <3>3, <1>3 DEF PipeInv
  <2>4. CASE ~Answered(read)
    <3>1. tries' = tries + 1
          /\ pc' = IF tries + 1 < ExitAttempts THEN "exit" ELSE "reboot"
      BY <1>10, <2>4 DEF Exit
    <3>2. mode' = "at" => faults'.ignored >= tries' \/ faults'.refused > 0
      BY <3>1, <2>1, <2>2, <1>1, <1>2 DEF PipeInv
    <3>3. pc' = "reboot" /\ mode' = "at" =>
            faults'.ignored >= ExitAttempts \/ faults'.refused > 0
      BY SMTT(60), <3>1, <3>2, <1>1, <1>2, ProvisionAssumption
    <3>. QED
      BY <3>1, <3>2, <3>3, <1>3 DEF PipeInv, PipeWhenRunning
  <2>. QED
    BY <2>3, <2>4
<1>11. CASE Reboot(read)
  <2>1. pc = "reboot" /\ pc' \in {"off", "running"} /\ entered' = entered /\ entered
    BY <1>11, <1>1 DEF Reboot, Leave, resultVars, PhaseInv
  <2>2. ASSUME mode' = "at" PROVE Excused'
    <3>1. ~obeys /\ mode = "at"
      BY <2>1, <2>2, <1>1, <1>7 DEF Obeys, Ignores, dtuVars, TypeOK
    <3>2. Neglect(obeys, reply, how) = {"ignored"}
      BY <3>1, <2>1 DEF Neglect
    <3>3. faults.ignored >= ExitAttempts \/ faults.refused > 0
      BY <3>1, <2>1 DEF PipeInv
    <3>4. faults'.ignored = faults.ignored + 1 /\ faults'.refused = faults.refused
      BY <3>2, <1>2
    <3>5. ExitAttempts \in Nat /\ faults.ignored \in Nat /\ faults.refused \in Nat
      BY <1>2, ProvisionAssumption
    <3>6. CASE faults.ignored >= ExitAttempts
      <4>1. faults'.ignored >= ExitAttempts /\ faults'.ignored > ExitAttempts
        BY <3>4, <3>5, <3>6
      <4>. QED
        BY <2>1, <4>1 DEF Excused
    <3>7. CASE faults.refused > 0
      BY <2>1, <3>4, <3>7 DEF Excused
    <3>. QED
      BY <3>3, <3>6, <3>7
  <2>3. mode' \in {"stream", "at"}
    BY <1>1, SentFacts
  <2>. QED
    BY <2>1, <2>2, <2>3, <1>3 DEF PipeInv, PipeWhenRunning
<1>. QED
  BY <1>8, <1>9, <1>10, <1>11 DEF Handled

LEMMA PipeStep ==
    ASSUME TypeInv, PipeInv, [Next]_vars
    PROVE  PipeInv'
<1>1. CASE Start
  BY <1>1 DEF Start, PipeInv, PipeWhenRunning, NoFaults
<1>2. CASE Exchange
  <2>1. PICK obeys \in BOOLEAN, how \in Delivery : \E reply \in Replies(obeys) :
          /\ Sent(obeys, reply, how)
          /\ \E stale \in {late, NoReply} : Handled(Read(stale, reply, how))
    BY <1>2 DEF Exchange, Handled
  <2>. QED
    BY <2>1, PipeExchange
<1>3. CASE PortError
  <2>1. /\ faults.port \in Nat /\ faults.ignored \in Nat /\ faults.refused \in Nat
        /\ faults'.ignored = faults.ignored /\ faults'.refused = faults.refused
        /\ faults'.port = faults.port + 1
    <3>1. Suffered({"port"}) /\ {"port"} \in SUBSET FaultKind /\ TypeOK
      BY <1>3 DEF PortError, TypeInv
    <3>2. \A k \in FaultKind : faults'[k] = faults[k] + (IF k \in {"port"} THEN 1 ELSE 0)
      BY <3>1, SufferedFacts
    <3>. QED
      BY <3>1, <3>2 DEF TypeOK
  <2>2. late' = NoReply
    BY <1>3 DEF PortError
  <2>3. CASE pc \in {"enter", "exit"}
    <3>1. pc' = "off"
      BY <1>3, <2>3 DEF PortError
    <3>. QED
      BY <3>1, <2>2 DEF PipeInv, PipeWhenRunning
  <2>4. CASE pc \in {"query", "write", "verify"}
    <3>1. pc' = "exit" /\ tries' = 0
      BY <1>3, <2>4 DEF PortError
    <3>. QED
      BY <3>1, <2>1, <2>2 DEF PipeInv, PipeWhenRunning
  <2>5. CASE pc = "reboot"
    <3>1. pc' \in {"off", "running"} /\ entered' = entered /\ entered
      BY <1>3, <2>5 DEF PortError, Leave, resultVars, TypeInv, PhaseInv
    <3>2. mode' = "stream" \/ mode' = mode
      BY <1>3, <2>5 DEF PortError, Obeys, dtuVars
    <3>3. mode = "at" => (faults'.ignored >= ExitAttempts \/ faults'.refused > 0)
                         /\ faults'.port > 0
      BY <2>1, <2>5 DEF PipeInv
    <3>4. mode \in {"stream", "at"}
      BY DEF TypeInv, TypeOK
    <3>. QED
      BY <3>1, <3>2, <3>3, <3>4, <2>2 DEF PipeInv, PipeWhenRunning, Excused
  <2>. QED
    BY <1>3, <2>3, <2>4, <2>5 DEF PortError
<1>4. CASE Kill
  BY <1>4 DEF Kill, PipeInv, PipeWhenRunning
<1>5. CASE UNCHANGED vars
  BY <1>5 DEF vars, dtuVars, resultVars, PipeInv, PipeWhenRunning, Excused
<1>. QED
  BY <1>1, <1>2, <1>3, <1>4, <1>5 DEF Next, Program

\* When the program uses its DTU as a pipe the DTU is not in AT mode, unless
\* Excused: for every list of parameters, number of attempts and budget of faults,
\* and after any number of failed runs.
THEOREM PipeWhenRunningHolds == Spec => []PipeWhenRunning
<1>1. Init => TypeInv /\ PipeInv
  <2>1. Init => PipeInv
    BY DEF Init, PipeInv, PipeWhenRunning
  <2>. QED
    BY <2>1, TypeInit
<1>2. TypeInv /\ PipeInv /\ [Next]_vars => TypeInv' /\ PipeInv'
  BY TypeStep, PipeStep
<1>. QED
  BY <1>1, <1>2, PTL DEF Spec, PipeInv

-----------------------------------------------------------------------------
(* What is reported is true *)

\* A reply that is read as the wanted value while none is late is the DTU's: the
\* parameter is stored with its value.
LEMMA TrueReading ==
    ASSUME TypeOK, pc \in {"query", "verify"}, NEW obeys \in BOOLEAN, NEW how \in Delivery,
           NEW reply \in Replies(obeys), Parsed(Read(NoReply, reply, how)) = Wanted[Name]
    PROVE  stored[Name] = Wanted[Name] /\ Name \notin WriteOnly
<1>. USE ProvisionAssumption
<1>1. Name \in Param
  BY NameFacts DEF TypeOK
<1>2. Wanted[Name] \in Value /\ Wanted[Name] # Blank
  BY <1>1
<1>3. reply = Wanted[Name]
  BY <1>2 DEF Parsed, Read
<1>4. reply \notin {NoReply, Text}
  BY <1>2, <1>3
<1>5. reply = IF Name \in WriteOnly THEN Blank ELSE stored[Name]
  BY <1>4 DEF Replies
<1>. QED
  BY <1>2, <1>3, <1>5

\* A parameter that is stored with its value stays so until a reboot.
LEMMA StoredStays ==
    ASSUME TypeOK, pc # "reboot", Obeys \/ UNCHANGED dtuVars,
           NEW n \in Param, stored[n] = Wanted[n]
    PROVE  stored'[n] = Wanted[n]
<1>1. Name \in Param /\ stored \in [Param -> Value]
  BY NameFacts DEF TypeOK, Result
<1>. QED
  BY <1>1 DEF Obeys, dtuVars

Done(n) == stored[n] = Wanted[n] \/ n \in mismatches \cup unverifiable

ReportInv ==
    /\ mode = "stream" => live = stored
    /\ faults.late = 0 /\ pc \in {"query", "write", "verify"} =>
         \A i \in DOMAIN Order : i < index => Done(Order[i])
    /\ faults.late = 0 /\ pc \in {"exit", "reboot"} /\ ~failing =>
         \A i \in DOMAIN Order : Done(Order[i])
    /\ AppliedOrReported

\* In stream mode the settings in effect are those stored.
LEMMA LiveStep ==
    ASSUME TypeOK, mode = "stream" => live = stored, Obeys \/ UNCHANGED dtuVars
    PROVE  mode' = "stream" => live' = stored'
BY DEF TypeOK, Obeys, dtuVars

LEMMA ReportExchange ==
    ASSUME TypeInv, PipeInv, PipeInv', ReportInv, NEW obeys \in BOOLEAN, NEW how \in Delivery,
           NEW reply \in Replies(obeys), NEW stale \in {late, NoReply},
           Sent(obeys, reply, how), Handled(Read(stale, reply, how))
    PROVE  ReportInv'
<1>. DEFINE read == Read(stale, reply, how)
<1>1. TypeOK /\ PhaseInv /\ Name \in Param
  BY NameFacts DEF TypeInv, TypeOK
<1>2. Obeys \/ UNCHANGED dtuVars
  BY DEF Sent, Ignores
<1>3. mode' = "stream" => live' = stored'
  BY <1>1, <1>2, LiveStep DEF ReportInv
<1>4. faults'.late = 0 => faults.late = 0 /\ stale = NoReply
  <2>1. faults.late \in Nat /\ (faults'.late = faults.late \/ faults'.late = faults.late + 1)
    BY <1>1, Counts
  <2>. QED
    BY <2>1 DEF PipeInv
<1>5. index \in Nat /\ Len(Order) \in Nat /\ DOMAIN Order = 1 .. Len(Order)
      /\ index \in DOMAIN Order /\ \A i \in DOMAIN Order : Order[i] \in Param
  BY <1>1, ProvisionAssumption DEF TypeOK
<1>6. UNCHANGED mismatches \/ mismatches' = mismatches \cup {Name}
  BY DEF Handled, Enter, Query, Write, Verify, Exit, Reboot, resultVars
<1>7. UNCHANGED unverifiable \/ unverifiable' = unverifiable \cup {Name}
  BY DEF Handled, Enter, Query, Write, Verify, Exit, Reboot, resultVars
<1>8. ASSUME pc # "reboot", NEW n \in Param, Done(n) PROVE Done(n)'
  BY <1>1, <1>2, <1>6, <1>7, <1>8, StoredStays DEF Done
<1>9. CASE Enter(read)
  <2>1. CASE Answered(read)
    <3>1. pc' = "query" /\ index' = 1
      <4>1. pc' = "query" /\ index' = index
        BY <1>9, <2>1 DEF Enter
      <4>2. index = 1
        BY <1>9, <1>1 DEF Enter, PhaseInv
      <4>. QED
        BY <4>1, <4>2
    <3>. QED
      BY <3>1, <1>3, <1>5 DEF ReportInv, AppliedOrReported
  <2>2. CASE ~Answered(read)
    <3>1. pc' \in {"enter", "running"} /\ entered' = FALSE
      BY <1>9, <2>2 DEF Enter
    <3>. QED
      BY <3>1, <1>3 DEF ReportInv, AppliedOrReported
  <2>. QED
    BY <2>1, <2>2
<1>10. CASE Query(read) \/ Write(read) \/ Verify(read)
  <2>1. pc \in {"query", "write", "verify"}
    BY <1>10 DEF Query, Write, Verify
  <2>2. ASSUME faults'.late = 0, NEW i \in DOMAIN Order, i < index
        PROVE  Done(Order[i])'
    <3>1. Done(Order[i])
      BY <1>4, <2>1, <2>2 DEF ReportInv
    <3>. QED
      BY <1>5, <1>8, <2>1, <3>1
  <2>3. pc' \notin {"running", "reboot"}
    BY <1>10 DEF Query, Write, Verify, Advance
  <2>4. CASE pc' \in {"query", "write", "verify"} /\ index' = index
    BY <2>2, <2>4, <1>3 DEF ReportInv, AppliedOrReported
  <2>5. CASE Advance
    <3>1. ASSUME faults'.late = 0
          PROVE  stored'[Name] = Wanted[Name] \/ Name \in mismatches' \cup unverifiable'
      <4>1. CASE Query(read)
        <5>1. Parsed(read) = Wanted[Name] /\ pc = "query"
          BY <4>1, <2>5 DEF Query, Advance
        <5>2. stored[Name] = Wanted[Name]
          BY <5>1, <3>1, <1>1, <1>4, TrueReading
        <5>. QED
          BY <5>1, <5>2, <1>1, <1>2, StoredStays
      <4>2. CASE Write(read)
        <5>1. Name \in WriteOnly \/ pc' = "verify"
          BY <4>2 DEF Write
        <5>. QED
          BY <4>2, <5>1, <2>5 DEF Write, Advance
      <4>3. CASE Verify(read)
        <5>1. CASE Parsed(read) = Wanted[Name]
          <6>1. pc = "verify"
            BY <4>3 DEF Verify
          <6>2. stored[Name] = Wanted[Name]
            BY <5>1, <6>1, <3>1, <1>1, <1>4, TrueReading
          <6>. QED
            BY <6>1, <6>2, <1>1, <1>2, StoredStays
        <5>2. CASE Parsed(read) # Wanted[Name]
          <6>1. pc = "verify" /\ pc' # "verify"
            BY <4>3, <2>5 DEF Verify, Advance
          <6>. QED
            BY <4>3, <5>2, <6>1 DEF Verify
        <5>. QED
          BY <5>1, <5>2
      <4>. QED
        BY <1>10, <4>1, <4>2, <4>3
    <3>2. ASSUME faults'.late = 0, NEW i \in DOMAIN Order, i <= index
          PROVE  Done(Order[i])'
      <4>1. CASE i = index
        BY <3>1, <3>2, <4>1 DEF Done, Name
      <4>2. CASE i < index
        BY <2>2, <3>2, <4>2
      <4>. QED
        BY <3>2, <4>1, <4>2, <1>5
    <3>3. CASE index < Len(Order)
      <4>1. pc' = "query" /\ index' = index + 1
        BY <2>5, <3>3 DEF Advance
      <4>. QED
        BY <4>1, <3>2, <1>3, <1>5 DEF ReportInv, AppliedOrReported
    <3>4. CASE ~(index < Len(Order))
      <4>1. pc' = "exit"
        BY <2>5, <3>4 DEF Advance
      <4>2. \A i \in DOMAIN Order : i <= index
        BY <3>4, <1>5
      <4>. QED
        BY <4>1, <4>2, <3>2, <1>3 DEF ReportInv, AppliedOrReported
    <3>. QED
      BY <3>3, <3>4
  <2>6. Advance \/ (pc' \in {"query", "write", "verify"} /\ index' = index)
    BY <1>10 DEF Query, Write, Verify
  <2>. QED
    BY <2>4, <2>5, <2>6
<1>11. CASE Exit(read)
  <2>1. pc = "exit" /\ entered' = entered /\ failing' = failing /\ pc' # "enter"
        /\ pc' \in {"exit", "reboot", "off", "running"} /\ (pc' = "running" => ~failing)
        /\ mismatches' = mismatches /\ unverifiable' = unverifiable
    BY <1>11 DEF Exit, Leave, resultVars
  <2>2. ASSUME faults'.late = 0, ~failing, NEW i \in DOMAIN Order
        PROVE  Done(Order[i])'
    <3>1. Done(Order[i])
      BY <1>4, <2>1, <2>2 DEF ReportInv
    <3>. QED
      BY <1>5, <1>8, <2>1, <3>1
  <2>3. ASSUME pc' = "running", entered', faults'.late = 0, faults'.refused = 0,
               faults'.ignored < ExitAttempts
        PROVE  live' = stored'
    <3>1. mode' = "stream" \/ Excused'
      BY <2>3 DEF PipeInv, PipeWhenRunning
    <3>2. ~Excused'
      <4>1. faults'.ignored \in Nat /\ ExitAttempts \in Nat
        BY <1>1, SentFacts, ProvisionAssumption
      <4>. QED
        BY <4>1, <2>3 DEF Excused
    <3>. QED
      BY <3>1, <3>2, <1>3
  <2>4. AppliedOrReported'
    BY <2>1, <2>2, <2>3 DEF AppliedOrReported, Done
  <2>. QED
    BY <2>1, <2>2, <2>4, <1>3 DEF ReportInv
<1>12. CASE Reboot(read)
  <2>1. pc = "reboot" /\ pc' \in {"off", "running"} /\ (pc' = "running" => ~failing)
        /\ mismatches' = mismatches /\ unverifiable' = unverifiable
    BY <1>12 DEF Reboot, Leave, resultVars
  <2>2. ASSUME pc' = "running", entered', faults'.late = 0, faults'.refused = 0,
               faults'.ignored < ExitAttempts
        PROVE  mode = "stream"
    <3>1. faults.ignored \in Nat /\ faults'.ignored \in Nat
          /\ faults'.ignored >= faults.ignored /\ ExitAttempts \in Nat
          /\ faults.refused \in Nat /\ faults'.refused >= faults.refused
      BY SMTT(60), <1>1, Counts, ProvisionAssumption
    <3>2. mode = "at" => faults.ignored >= ExitAttempts
      BY <2>1, <2>2, <3>1 DEF PipeInv
    <3>3. mode \in {"stream", "at"}
      BY <1>1 DEF TypeOK
    <3>4. faults'.ignored < ExitAttempts
      BY <2>2
    <3>5. mode # "at"
      BY <3>1, <3>2, <3>4
    <3>. QED
      BY <3>3, <3>5
  <2>3. mode = "stream" => live' = stored' /\ stored' = stored
    BY <1>2, <2>1 DEF Obeys, dtuVars, ReportInv
  <2>4. faults'.late = 0 /\ pc' = "running" => \A i \in DOMAIN Order : Done(Order[i])
    BY <1>4, <2>1 DEF ReportInv
  <2>5. AppliedOrReported'
    BY <2>1, <2>2, <2>3, <2>4 DEF AppliedOrReported, Done
  <2>. QED
    BY <2>1, <2>5, <1>3 DEF ReportInv
<1>. QED
  BY <1>9, <1>10, <1>11, <1>12 DEF Handled

LEMMA ReportStep ==
    ASSUME TypeInv, PipeInv, PipeInv', ReportInv, [Next]_vars
    PROVE  ReportInv'
<1>. USE DEF AppliedOrReported
<1>1. CASE Start
  BY <1>1 DEF Start, ReportInv, dtuVars
<1>2. CASE Exchange
  <2>1. PICK obeys \in BOOLEAN, how \in Delivery : \E reply \in Replies(obeys) :
          /\ Sent(obeys, reply, how)
          /\ \E stale \in {late, NoReply} : Handled(Read(stale, reply, how))
    BY <1>2 DEF Exchange, Handled
  <2>. QED
    BY <2>1, ReportExchange
<1>3. CASE PortError
  <2>1. mode' = "stream" => live' = stored'
    BY <1>3, LiveStep DEF PortError, TypeInv, ReportInv
  <2>2. CASE pc \in {"enter", "exit"}
    BY <1>3, <2>1, <2>2 DEF PortError, ReportInv
  <2>3. CASE pc \in {"query", "write", "verify"}
    <3>1. pc' = "exit" /\ failing'
      BY <1>3, <2>3 DEF PortError
    <3>. QED
      BY <2>1, <3>1 DEF ReportInv
  <2>4. CASE pc = "reboot"
    <3>1. pc' \in {"off", "running"} /\ (pc' = "running" => ~failing)
          /\ mismatches' = mismatches /\ unverifiable' = unverifiable
      BY <1>3, <2>4 DEF PortError, Leave, resultVars
    <3>2. faults'.late = faults.late /\ faults'.ignored = faults.ignored
          /\ faults'.refused = faults.refused
          /\ faults.ignored \in Nat /\ ExitAttempts \in Nat
      <4>1. Suffered({"port"}) /\ {"port"} \in SUBSET FaultKind /\ TypeOK
        BY <1>3 DEF PortError, TypeInv
      <4>2. \A k \in FaultKind : faults'[k] = faults[k] + (IF k \in {"port"} THEN 1 ELSE 0)
        BY <4>1, SufferedFacts
      <4>. QED
        BY <4>1, <4>2, ProvisionAssumption DEF TypeOK
    <3>3. faults'.ignored < ExitAttempts /\ faults'.refused = 0 => mode = "stream"
      <4>1. mode \in {"stream", "at"}
        BY DEF TypeInv, TypeOK
      <4>. QED
        BY <4>1, <3>2, <2>4 DEF PipeInv
    <3>4. mode = "stream" => live' = stored' /\ stored' = stored
      BY <1>3, <2>4 DEF PortError, Obeys, dtuVars, ReportInv
    <3>5. faults'.late = 0 /\ pc' = "running" => \A i \in DOMAIN Order : Done(Order[i])
      BY <3>1, <3>2, <2>4 DEF ReportInv
    <3>. QED
      BY <2>1, <3>1, <3>3, <3>4, <3>5 DEF ReportInv, Done
  <2>. QED
    BY <1>3, <2>2, <2>3, <2>4 DEF PortError
<1>4. CASE Kill
  BY <1>4 DEF Kill, ReportInv, dtuVars
<1>5. CASE UNCHANGED vars
  BY <1>5 DEF vars, dtuVars, resultVars, ReportInv, Done
<1>. QED
  BY <1>1, <1>2, <1>3, <1>4, <1>5 DEF Next, Program

\* After a run that entered AT mode every parameter is in effect or reported, for
\* every list of parameters and every budget of lost replies, ignored writes and
\* failures, as long as no reply is late and the exits that are answered are heeded.
THEOREM AppliedOrReportedHolds == Spec => []AppliedOrReported
<1>1. Init => TypeInv /\ PipeInv /\ ReportInv
  <2>1. Init => PipeInv /\ ReportInv
    BY DEF Init, PipeInv, PipeWhenRunning, ReportInv, AppliedOrReported
  <2>. QED
    BY <2>1, TypeInit
<1>2. TypeInv /\ PipeInv /\ ReportInv /\ [Next]_vars => TypeInv' /\ PipeInv' /\ ReportInv'
  BY TypeStep, PipeStep, ReportStep
<1>. QED
  BY <1>1, <1>2, PTL DEF Spec, ReportInv

-----------------------------------------------------------------------------
(* Only what differs is written *)

WriteInv ==
    faults = NoFaults =>
        /\ pc \in {"enter", "query", "write", "verify"} =>
             \A n \in Param \ wrong : stored[n] = Wanted[n]
        /\ pc \in {"query", "write", "verify"} => mode = "at"
        /\ pc = "write" => Name \in wrong \cup WriteOnly
        /\ pc = "verify" => stored[Name] = Wanted[Name]
        /\ pc # "off" => written \subseteq wrong \cup WriteOnly /\ mismatches = {}

LEMMA WriteExchange ==
    ASSUME TypeInv, PipeInv, WriteInv, faults' = NoFaults, wrong' = wrong,
           NEW obeys \in BOOLEAN, NEW how \in Delivery,
           NEW reply \in Replies(obeys), NEW stale \in {late, NoReply},
           Sent(obeys, reply, how), Handled(Read(stale, reply, how))
    PROVE  WriteInv'
<1>. DEFINE read == Read(stale, reply, how)
<1>1. TypeOK /\ PhaseInv /\ Name \in Param
  BY NameFacts DEF TypeInv, TypeOK
<1>2. faults = NoFaults /\ Kinds(obeys, reply, how) = {}
  BY <1>1, SentFacts, SufferedFacts
<1>3. obeys /\ how = "prompt" /\ Obeys
  BY <1>2, SentFacts, <1>1 DEF Kinds, Neglect
<1>4. stale = NoReply
  BY <1>2 DEF PipeInv, NoFaults
<1>5. Parsed(read) = IF reply \in Value THEN reply ELSE Blank
  BY <1>3, <1>4, ProvisionAssumption DEF Parsed, Read
<1>6. Wanted[Name] \in Value /\ Wanted[Name] # Blank /\ stored[Name] \in Value
      /\ stored \in [Param -> Value]
  BY <1>1, ProvisionAssumption DEF TypeOK, Result
<1>7. pc \in {"query", "verify"} =>
        Parsed(read) = IF Name \in WriteOnly THEN Blank ELSE stored[Name]
  BY <1>2, <1>3, <1>5, <1>6, ProvisionAssumption DEF Replies, WriteInv
<1>8. CASE Enter(read)
  <2>1. pc = "enter" /\ mode' = "at" /\ UNCHANGED <<stored, written, mismatches>>
        /\ pc' \in {"query", "enter", "running"}
    BY <1>8, <1>3 DEF Enter, Obeys
  <2>2. written = {} /\ mismatches = {}
    BY <2>1, <1>1 DEF PhaseInv
  <2>. QED
    BY <2>1, <2>2, <1>2 DEF WriteInv
<1>9. CASE Query(read)
  <2>1. pc = "query" /\ UNCHANGED <<mode, stored, written, mismatches>>
    BY <1>9, <1>3 DEF Query, Obeys, dtuVars, resultVars
  <2>2. CASE Parsed(read) = Wanted[Name]
    <3>1. pc' \in {"query", "exit"}
      BY <1>9, <2>2 DEF Query, Advance
    <3>. QED
      BY <2>1, <3>1, <1>2 DEF WriteInv
  <2>3. CASE Parsed(read) # Wanted[Name]
    <3>1. pc' = "write" /\ Name' = Name
      BY <1>9, <2>3 DEF Query, Name
    <3>2. Name \in WriteOnly \/ stored[Name] # Wanted[Name]
      BY <2>1, <2>3, <1>7
    <3>3. Name \in wrong \cup WriteOnly
      BY <2>1, <3>2, <1>1, <1>2 DEF WriteInv
    <3>. QED
      BY <2>1, <3>1, <3>3, <1>2 DEF WriteInv
  <2>. QED
    BY <2>2, <2>3
<1>10. CASE Write(read)
  <2>1. pc = "write" /\ mode = "at" /\ Name \in wrong \cup WriteOnly
    BY <1>10, <1>2 DEF Write, WriteInv
  <2>2. mode' = "at" /\ stored' = [stored EXCEPT ![Name] = Wanted[Name]]
    BY <2>1, <1>3 DEF Obeys
  <2>3. written' = written \cup {Name} /\ mismatches' = mismatches
        /\ pc' \in {"query", "exit", "verify"} /\ (pc' = "verify" => Name' = Name)
    BY <1>10 DEF Write, Advance, Name
  <2>4. stored'[Name] = Wanted[Name]
        /\ \A n \in Param : stored[n] = Wanted[n] => stored'[n] = Wanted[n]
    BY <2>2, <1>1, <1>6
  <2>. QED
    BY <2>1, <2>2, <2>3, <2>4, <1>2 DEF WriteInv
<1>11. CASE Verify(read)
  <2>1. pc = "verify" /\ UNCHANGED <<mode, stored, written>>
    BY <1>11, <1>3 DEF Verify, Obeys, dtuVars
  <2>2. Parsed(read) = Wanted[Name]
    BY <2>1, <1>1, <1>2, <1>7 DEF WriteInv, PhaseInv
  <2>3. pc' \in {"query", "exit"} /\ mismatches' = mismatches
    BY <1>11, <2>2 DEF Verify, Advance
  <2>. QED
    BY <2>1, <2>3, <1>2 DEF WriteInv
<1>12. CASE Exit(read) \/ Reboot(read)
  <2>1. pc' \in {"exit", "reboot", "off", "running"} /\ pc # "off"
        /\ UNCHANGED <<written, mismatches>>
    BY <1>12 DEF Exit, Reboot, Leave, resultVars
  <2>. QED
    BY <2>1, <1>2 DEF WriteInv
<1>. QED
  BY <1>8, <1>9, <1>10, <1>11, <1>12 DEF Handled

LEMMA WriteStep ==
    ASSUME TypeInv, PipeInv, WriteInv, [Next]_vars
    PROVE  WriteInv'
<1>1. CASE Start
  BY <1>1 DEF Start, WriteInv, Wrong, dtuVars
<1>2. CASE Exchange
  <2>1. PICK obeys \in BOOLEAN, how \in Delivery : \E reply \in Replies(obeys) :
          /\ Sent(obeys, reply, how)
          /\ \E stale \in {late, NoReply} : Handled(Read(stale, reply, how))
    BY <1>2 DEF Exchange, Handled
  <2>2. wrong' = wrong
    BY <1>2 DEF Exchange
  <2>3. CASE faults' = NoFaults
    BY <2>1, <2>2, <2>3, WriteExchange
  <2>4. CASE faults' # NoFaults
    BY <2>4 DEF WriteInv
  <2>. QED
    BY <2>3, <2>4
<1>3. CASE PortError
  <2>1. Suffered({"port"}) /\ {"port"} \in SUBSET FaultKind /\ TypeOK
    BY <1>3 DEF PortError, TypeInv
  <2>2. faults' # NoFaults
    BY <2>1, SufferedFacts
  <2>. QED
    BY <2>2 DEF WriteInv
<1>4. CASE Kill
  BY <1>4 DEF Kill, WriteInv
<1>5. CASE UNCHANGED vars
  BY <1>5 DEF vars, dtuVars, resultVars, WriteInv, Name
<1>. QED
  BY <1>1, <1>2, <1>3, <1>4, <1>5 DEF Next, Program

\* Without a fault a run writes only what differed when it began, and what cannot
\* be read back, and reports no mismatch.
THEOREM WritesOnlyWhatDiffersHolds == Spec => []WritesOnlyWhatDiffers
<1>1. Init => TypeInv /\ PipeInv /\ WriteInv
  <2>1. Init => PipeInv /\ WriteInv
    BY DEF Init, PipeInv, PipeWhenRunning, WriteInv
  <2>. QED
    BY <2>1, TypeInit
<1>2. TypeInv /\ PipeInv /\ WriteInv /\ [Next]_vars => TypeInv' /\ PipeInv' /\ WriteInv'
  BY TypeStep, PipeStep, WriteStep
<1>3. WriteInv => WritesOnlyWhatDiffers
  BY DEF WriteInv, WritesOnlyWhatDiffers
<1>. QED
  BY <1>1, <1>2, <1>3, PTL DEF Spec
=============================================================================
