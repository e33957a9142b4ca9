---------------------------- MODULE DtuProvision ----------------------------
(***************************************************************************)
(* Provisioning of a node's DTU over its AT commands when the program      *)
(* starts (dtu.py), and the program's restart by systemd when that fails.  *)
(*                                                                         *)
(* A command is one step: the input buffer is cleared, the command sent,   *)
(* and what came within the settle time is read.  A reply may be lost or   *)
(* late; a late one is cleared by the next command or read with its reply. *)
(* The DTU is external: it may not do what it is told and may still answer *)
(* (it echoes commands, as dtu.py found, and has an ERROR), and while it   *)
(* is not in AT mode passes on what the radio receives, which cannot be    *)
(* told from a reply.                                                      *)
(***************************************************************************)
EXTENDS Integers, Sequences, FiniteSets

CONSTANTS
    Param,         \* names of the DTU's parameters
    Value, Blank,  \* their values; Blank is the empty one, read of a write-only
    Order,         \* the parameters to provision, in the order of the dict
    Wanted,        \* the value each is to have
    WriteOnly,     \* parameters whose value cannot be read back (KEY)
    Text, NoReply, \* a reply without a value (OK, ERROR, +++, radio bytes); none
    EnterAttempts, ExitAttempts,
    Initial,       \* the settings the DTU may have at first
    Budget,        \* bound: faults of each kind in one run of the program
    MaxFailures    \* bound: runs of the program that end early

\* A reply is lost or late; a command is not obeyed, where an exit that is answered
\* all the same is a kind of its own; the port raises an OSError.
FaultKind == {"lost", "late", "ignored", "refused", "port"}
Wrong(settings) == {n \in Param : settings[n] # Wanted[n]}

ASSUME ProvisionAssumption ==
    /\ Blank \in Value /\ Text \notin Value /\ NoReply \notin Value /\ Text # NoReply
    /\ Order \in Seq(Param) /\ Order # << >>
    /\ \A i, j \in DOMAIN Order : Order[i] = Order[j] => i = j
    /\ Wanted \in [Param -> Value \ {Blank}]
    /\ WriteOnly \subseteq Param
    /\ EnterAttempts \in Nat \ {0} /\ ExitAttempts \in Nat \ {0}
    /\ Initial \subseteq [Param -> Value]
    /\ Budget \in [FaultKind -> Nat] /\ MaxFailures \in Nat

VARIABLES
    \* the program
    pc,           \* "off", a phase of provision(), or "running" as a pipe
    index,        \* the parameter it is at
    tries,        \* attempts made in this phase
    failing,      \* an exception is on its way through the finally clause
    entered, written, mismatches, unverifiable,   \* ProvisionResult
    \* the DTU
    mode,         \* "stream" or "at"
    stored,       \* the settings as written
    live,         \* the settings in effect
    late,         \* a reply still on its way, or NoReply
    \* ghosts
    faults,       \* what went wrong in this run
    wrong,        \* parameters that did not have their value when it began
    failures

resultVars == <<entered, written, mismatches, unverifiable>>
dtuVars == <<mode, stored, live>>
vars == <<pc, index, tries, failing, resultVars, dtuVars, late, faults, wrong, failures>>

NoFaults == [k \in FaultKind |-> 0]

Init ==
    /\ pc = "off" /\ index = 1 /\ tries = 0 /\ failing = FALSE
    /\ entered = FALSE /\ written = {} /\ mismatches = {} /\ unverifiable = {}
    /\ mode \in {"stream", "at"}
    /\ stored \in Initial /\ live = stored
    /\ late = NoReply /\ faults = NoFaults /\ wrong = {} /\ failures = 0

-----------------------------------------------------------------------------
(* The DTU *)

Commanding == {"enter", "query", "write", "verify", "exit", "reboot"}
Name == Order[index]

\* What it does at the command of this phase, when it does what it is told.
\* Settings take effect on AT+EXIT; a reboot may keep or drop the others.
Obeys ==
    \/ /\ pc = "enter" /\ mode' = "at"
       /\ UNCHANGED <<stored, live>>
    \/ /\ pc = "write" /\ mode = "at"
       /\ stored' = [stored EXCEPT ![Name] = Wanted[Name]]
       /\ UNCHANGED <<mode, live>>
    \/ /\ pc = "exit" /\ mode = "at"
       /\ mode' = "stream" /\ live' = stored
       /\ UNCHANGED stored
    \/ /\ pc = "reboot" /\ mode = "at"
       /\ mode' = "stream" /\ live' \in {stored, live} /\ stored' = live'
    \/ /\ pc \in {"query", "verify"} \/ (pc # "enter" /\ mode = "stream")
       /\ UNCHANGED dtuVars

\* Commands that it may ignore.
Ignores ==
    /\ \/ pc = "enter" /\ mode = "stream"
       \/ pc \in {"write", "exit", "reboot"} /\ mode = "at"
    /\ UNCHANGED dtuVars

\* Its possible replies: read without a value, but for a query and for the echo
\* of a write, which looks like the value.  A command that it does not obey may have
\* none, or an echo or ERROR like any other.
Replies(obeys) ==
    IF mode = "stream" /\ ~(pc = "enter" /\ obeys) THEN {NoReply, Text}
    ELSE IF pc \in {"query", "verify"}
         THEN {IF Name \in WriteOnly THEN Blank ELSE stored[Name]}
    ELSE {Text} \cup (IF pc = "write" THEN {Wanted[Name]} ELSE {})
                \cup (IF obeys THEN {} ELSE {NoReply})

\* The fault of not obeying: an exit that is not heeded is refused if its reply arrives.
Neglect(obeys, reply, how) ==
    IF obeys THEN {}
    ELSE IF pc = "exit" /\ reply # NoReply /\ how # "lost" THEN {"refused"} ELSE {"ignored"}

-----------------------------------------------------------------------------
(* A command: _send() *)

Suffered(kinds) ==
    /\ \A k \in kinds : faults[k] < Budget[k]
    /\ faults' = [k \in FaultKind |-> IF k \in kinds THEN faults[k] + 1 ELSE faults[k]]

\* The bytes read: an earlier reply, then this one's.
Read(stale, reply, how) == <<stale, IF how = "prompt" THEN reply ELSE NoReply>>

\* Mutation of Parsed: the echoed command is taken for the value.
ParsedEcho(read) == Blank

\* _parse_value()
Parsed(read) ==
    IF read[1] \in Value THEN read[1]
    ELSE IF read[2] \in Value THEN read[2] ELSE Blank

\* Some bytes were read.
Answered(read) == read # <<NoReply, NoReply>>

\* The DTU's reply is read at once, or only by a later command, or never.
Delivery == {"prompt", "lost", "late"}
Sent(obeys, reply, how) ==
    /\ how # "prompt" => reply # NoReply
    /\ Suffered(Neglect(obeys, reply, how) \cup (IF how = "prompt" THEN {} ELSE {how}))
    /\ IF obeys THEN Obeys ELSE Ignores
    /\ late' = IF how = "late" THEN reply ELSE NoReply

Reply == Value \cup {Text, NoReply}

-----------------------------------------------------------------------------
(* The program: provision() *)

Start ==
    /\ pc = "off" /\ pc' = "enter"
    /\ index' = 1 /\ tries' = 0 /\ failing' = FALSE
    /\ entered' = FALSE /\ written' = {} /\ mismatches' = {} /\ unverifiable' = {}
    /\ late' = NoReply /\ faults' = NoFaults /\ wrong' = Wrong(stored)
    /\ UNCHANGED <<dtuVars, failures>>

\* Mutation of Enter: a DTU that does not answer ends the program.
EnterFatal(read) ==
    /\ pc = "enter"
    /\ entered' = Answered(read)
    /\ pc' = IF Answered(read) THEN "query"
             ELSE IF tries + 1 < EnterAttempts THEN "enter" ELSE "off"
    /\ tries' = IF Answered(read) THEN 0 ELSE tries + 1
    /\ UNCHANGED <<index, failing, written, mismatches, unverifiable, failures>>

\* _enter_at()
Enter(read) ==
    /\ pc = "enter"
    /\ entered' = Answered(read)
    /\ pc' = IF Answered(read) THEN "query"
             ELSE IF tries + 1 < EnterAttempts THEN "enter" ELSE "running"
    /\ tries' = IF Answered(read) THEN 0 ELSE tries + 1
    /\ UNCHANGED <<index, failing, written, mismatches, unverifiable, failures>>

\* The next round of the loop over the parameters, or its end.
Advance ==
    /\ tries' = 0
    /\ IF index < Len(Order) THEN index' = index + 1 /\ pc' = "query"
                             ELSE pc' = "exit" /\ UNCHANGED index

Query(read) ==
    /\ pc = "query"
    /\ IF Parsed(read) = Wanted[Name] THEN Advance
       ELSE pc' = "write" /\ UNCHANGED <<index, tries>>
    /\ UNCHANGED <<failing, resultVars, failures>>

\* Mutation of Write: only a parameter that cannot be verified is listed.
WriteUnlisted(read) ==
    /\ pc = "write"
    /\ IF Name \in WriteOnly
       THEN written' = written \cup {Name} /\ unverifiable' = unverifiable \cup {Name} /\ Advance
       ELSE pc' = "verify" /\ tries' = 0 /\ UNCHANGED <<index, written, unverifiable>>
    /\ UNCHANGED <<failing, entered, mismatches, failures>>

Write(read) ==
    /\ pc = "write"
    /\ written' = written \cup {Name}
    /\ IF Name \in WriteOnly
       THEN unverifiable' = unverifiable \cup {Name} /\ Advance
       ELSE pc' = "verify" /\ tries' = 0 /\ UNCHANGED <<index, unverifiable>>
    /\ UNCHANGED <<failing, entered, mismatches, failures>>

\* Mutation of Verify: no value is taken for the value written.
VerifyHopeful(read) ==
    /\ pc = "verify"
    /\ \/ /\ Parsed(read) \in {Wanted[Name], Blank}
          /\ Advance /\ UNCHANGED mismatches
       \/ /\ Parsed(read) \notin {Wanted[Name], Blank}
          /\ mismatches' = mismatches \cup {Name} /\ Advance
    /\ UNCHANGED <<failing, entered, written, unverifiable, failures>>

\* _verify(): read back, once more on a mismatch.
Verify(read) ==
    /\ pc = "verify"
    /\ \/ /\ Parsed(read) = Wanted[Name]
          /\ Advance /\ UNCHANGED mismatches
       \/ /\ Parsed(read) # Wanted[Name] /\ tries = 0
          /\ tries' = 1 /\ UNCHANGED <<pc, index, mismatches>>
       \/ /\ Parsed(read) # Wanted[Name] /\ tries > 0
          /\ mismatches' = mismatches \cup {Name} /\ Advance
    /\ UNCHANGED <<failing, entered, written, unverifiable, failures>>

\* provision() returns or raises.
Leave ==
    /\ pc' = IF failing THEN "off" ELSE "running"
    /\ failures' = IF failing THEN failures + 1 ELSE failures
    /\ UNCHANGED tries

\* Mutation of Exit: it is not looked at whether the DTU has left AT mode.
ExitOnce(read) ==
    /\ pc = "exit" /\ Leave
    /\ UNCHANGED <<index, failing, resultVars>>

\* _exit_at()
Exit(read) ==
    /\ pc = "exit"
    /\ IF Answered(read) THEN Leave
       ELSE /\ tries' = tries + 1
            /\ pc' = IF tries + 1 < ExitAttempts THEN "exit" ELSE "reboot"
            /\ UNCHANGED failures
    /\ UNCHANGED <<index, failing, resultVars>>

Reboot(read) ==
    /\ pc = "reboot" /\ Leave
    /\ UNCHANGED <<index, failing, resultVars>>

Exchange ==
    /\ pc \in Commanding
    /\ \E obeys \in BOOLEAN, how \in Delivery : \E reply \in Replies(obeys) :
         /\ Sent(obeys, reply, how)
         /\ \E stale \in {late, NoReply} :
              LET read == Read(stale, reply, how)
              IN  Enter(read) \/ Query(read) \/ Write(read) \/ Verify(read)
                    \/ Exit(read) \/ Reboot(read)
    /\ UNCHANGED wrong

-----------------------------------------------------------------------------
(* Failures of the port and of the program *)

\* An OSError, before or after the DTU got the command.  It ends the program,
\* at once or after the finally clause; that of AT+REBOOT is suppressed.
PortError ==
    /\ pc \in Commanding /\ failures < MaxFailures
    /\ Suffered({"port"})
    /\ Obeys \/ UNCHANGED dtuVars
    /\ late' = NoReply
    /\ CASE pc \in {"enter", "exit"} ->
              pc' = "off" /\ failures' = failures + 1 /\ UNCHANGED <<tries, failing>>
         [] pc \in {"query", "write", "verify"} ->
              pc' = "exit" /\ tries' = 0 /\ failing' = TRUE /\ UNCHANGED failures
         [] pc = "reboot" -> Leave /\ UNCHANGED failing
    /\ UNCHANGED <<index, resultVars, wrong>>

\* The process is killed; nothing of it runs on.
Kill ==
    /\ pc # "off" /\ failures < MaxFailures
    /\ pc' = "off" /\ late' = NoReply /\ failures' = failures + 1
    /\ UNCHANGED <<index, tries, failing, resultVars, dtuVars, faults, wrong>>

Program == Start \/ Exchange
Next == Program \/ PortError \/ Kill

Spec == Init /\ [][Next]_vars

\* The program goes on, and systemd restarts it (Restart=on-failure).
FairSpec == Spec /\ WF_vars(Program)

-----------------------------------------------------------------------------
(* Properties *)

Result == [Param -> Value]

\* Type invariant: the results name parameters of the list, and no run has more
\* faults than its budget.
TypeOK ==
    /\ pc \in Commanding \cup {"off", "running"}
    /\ index \in DOMAIN Order /\ tries \in Nat /\ failing \in BOOLEAN
    /\ entered \in BOOLEAN
    /\ written \subseteq Param /\ mismatches \subseteq written
    /\ unverifiable \subseteq written \cap WriteOnly
    /\ mode \in {"stream", "at"} /\ stored \in Result /\ live \in Result
    /\ late \in Reply
    /\ faults \in [FaultKind -> Nat] /\ \A k \in FaultKind : faults[k] <= Budget[k]
    /\ wrong \subseteq Param /\ failures \in 0 .. MaxFailures

\* Why a DTU may be in AT mode although the program uses it as a pipe: all that
\* answered the escapes was missed; a late reply was taken for that of an exit
\* which the DTU ignored; it answered an exit that it did not heed (one is enough);
\* or it ignored every exit, and the reboot failed or was ignored as well.
Excused ==
    \/ /\ ~entered /\ faults.lost + faults.late > 0
       /\ faults.lost + faults.late + faults.ignored >= EnterAttempts
    \/ entered /\ faults.late > 0 /\ faults.ignored > 0
    \/ entered /\ faults.refused > 0
    \/ /\ entered /\ faults.ignored >= ExitAttempts
       /\ faults.port > 0 \/ faults.ignored > ExitAttempts

\* The DTU is not in AT mode, where it carries no data, when the program begins to
\* use it as a pipe (dtu.py 125-165, _exit_at): whatever one run of the provisioning
\* suffers, and whatever state an earlier run left, unless Excused.
PipeWhenRunning == pc = "running" => mode = "stream" \/ Excused

\* What provision() reports is true: a parameter is in effect with its value, or
\* is named a mismatch or unverifiable (FR-12.3), however many replies are lost,
\* writes ignored or radio bytes read in their place.  It takes that no reply is
\* late, since the next query takes a late one for its own, and that an exit is
\* heeded: settings take effect with it, any answer ends the trying, and a reboot may
\* drop them.
AppliedOrReported ==
    pc = "running" /\ entered
    /\ faults.late = 0 /\ faults.refused = 0 /\ faults.ignored < ExitAttempts
        => \A i \in DOMAIN Order :
             \/ live[Order[i]] = Wanted[Order[i]]
             \/ Order[i] \in mismatches \cup unverifiable

\* Only parameters that differ are written (FR-12.2, NFR-12.1), and nothing is
\* reported that is in effect, in a run where every command has its reply in
\* time; only a write-only parameter is written each time.
WritesOnlyWhatDiffers ==
    pc = "running" /\ faults = NoFaults
        => written \subseteq wrong \cup WriteOnly /\ mismatches = {}

\* A node comes to use its DTU as a pipe, and the pipe stays open, when ports and
\* processes fail finitely often (systemd unit, Restart=on-failure; _enter_at is
\* what finds a DTU that an earlier run left in AT mode).
ComesUp == <>[](pc = "running" /\ (mode = "stream" \/ Excused))
=============================================================================
