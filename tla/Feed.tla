-------------------------------- MODULE Feed --------------------------------
(***************************************************************************)
(* A station's DoA feed and its recovery: KrakenSource polls the KrakenSDR *)
(* with a capped back-off (doa_source.py), the Supervisor restarts it when *)
(* the feed has stalled (supervisor.py), both in one round of the agent's  *)
(* loop (agent.py step, _pump_source).                                     *)
(*                                                                         *)
(* Time is counted in ticks.  The loop runs any number of rounds in a tick *)
(* or, held up, none: `systemctl restart` itself blocks it.  The KrakenSDR *)
(* is external.                                                            *)
(***************************************************************************)
EXTENDS Integers

CONSTANTS
    StallAfter,    \* RecoveryPolicy.stall_after_s
    Gap,           \* RecoveryPolicy.backoff_s
    MaxAttempts,   \* RecoveryPolicy.max_attempts
    Base, Cap,     \* Backoff.base_s, cap_s
    Boot,          \* external: ticks from a restart to a working KrakenSDR
    None,          \* no time noted
    MaxFaults      \* bound: faults of the KrakenSDR and restarts that fail

ASSUME PolicyAssumption ==
    /\ StallAfter \in Nat \ {0} /\ Gap \in Nat /\ MaxAttempts \in Nat \ {0}
    /\ Base \in Nat \ {0} /\ Cap \in Nat /\ Cap >= Base
    /\ Boot \in Nat /\ MaxFaults \in Nat
    /\ None \notin Int

VARIABLES
    \* the KrakenSDR
    kraken,     \* "up", "stopped", "wedged" (it serves an old file), "booting"
    boot,       \* ticks until a booting one is up
    \* KrakenSource
    available,  \* the last poll was answered
    wait,       \* ticks until the next poll is allowed
    delay,      \* Backoff._current
    \* Supervisor
    quiet,      \* ticks since the feed was alive, StallAfter if more, or None
    since,      \* ticks since the last attempt, Gap if more, or None
    attempts, exhausted,
    \* ghosts
    fired,      \* restarts since the KrakenSDR last answered a poll
    lives,      \* lives of the agent since then, the present one included
    last,       \* ticks since the last restart, in whatever outage and life, or None
    faults

krakenVars == <<kraken, boot>>
sourceVars == <<available, wait, delay>>
supervisorVars == <<quiet, since, attempts, exhausted>>
vars == <<krakenVars, sourceVars, supervisorVars, fired, lives, last, faults>>

MinGap == IF StallAfter < Gap THEN StallAfter ELSE Gap

Init ==
    /\ kraken \in {"up", "stopped"} /\ boot = 0
    /\ available = FALSE /\ wait = 0 /\ delay = 0
    /\ quiet = None /\ since = None /\ attempts = 0 /\ exhausted = FALSE
    /\ fired = 0 /\ lives = 1 /\ last = None /\ faults = 0

-----------------------------------------------------------------------------
(* The KrakenSDR and time *)

Answers == kraken \in {"up", "wedged"}

Fault ==
    /\ faults < MaxFaults
    /\ faults' = faults + 1
    /\ kraken = "up"
    /\ kraken' \in {"stopped", "wedged"}
    /\ UNCHANGED <<boot, sourceVars, supervisorVars, fired, lives, last>>

Elapsed(n, limit) == IF n = None \/ n >= limit THEN n ELSE n + 1
Left(n) == IF n = 0 THEN 0 ELSE n - 1

Tick ==
    /\ kraken' = IF kraken = "booting" /\ boot <= 1 THEN "up" ELSE kraken
    /\ boot' = Left(boot)
    /\ wait' = Left(wait)
    /\ quiet' = Elapsed(quiet, StallAfter)
    /\ since' = Elapsed(since, Gap)
    /\ last' = Elapsed(last, MinGap)
    /\ UNCHANGED <<available, delay, attempts, exhausted, fired, lives, faults>>

-----------------------------------------------------------------------------
(* KrakenSource.pump() *)

Min2(a, b) == IF a < b THEN a ELSE b

\* Mutation: the doubled delay is not capped.
NextDelayUncapped(d) == IF d = 0 THEN Base ELSE d * 2

NextDelay(d) == IF d = 0 THEN Base ELSE Min2(d * 2, Cap)

Pump ==
    IF wait > 0
    THEN UNCHANGED sourceVars
    ELSE /\ available' = Answers
         /\ delay' = IF Answers THEN 0 ELSE NextDelay(delay)
         /\ wait' = IF Answers THEN 1 ELSE NextDelay(delay)

-----------------------------------------------------------------------------
(* Supervisor.note_alive() and tick(), in this order *)

NoteAlive ==
    /\ quiet' = 0 /\ since' = None /\ attempts' = 0 /\ exhausted' = FALSE
    /\ UNCHANGED <<krakenVars, last, faults>>

Stalled == quiet # None /\ ~exhausted /\ quiet >= StallAfter

\* Mutation: the time since the last attempt is not looked at.
AnyRested == TRUE

Rested == since = None \/ since >= Gap

\* Mutation: one attempt more than the budget.
SpendsOneMore(n) == n > MaxAttempts

Spends(n) == n >= MaxAttempts

\* The restart works (it may raise even so, when it takes too long), or raises and
\* changes nothing.
Attempt ==
    /\ attempts' = attempts + 1
    /\ since' = 0 /\ last' = 0
    /\ \/ kraken' = "booting" /\ boot' = Boot /\ UNCHANGED faults
       \/ faults < MaxFaults /\ faults' = faults + 1 /\ UNCHANGED krakenVars
    /\ exhausted' = Spends(attempts + 1)
    /\ UNCHANGED quiet

Idle == UNCHANGED <<krakenVars, supervisorVars, last, faults>>

\* Mutation: the first tick sets no baseline.
NoBaseline == None

\* The first tick of a feed that was never alive.
Baseline == 0

Watch ==
    IF quiet = None
    THEN /\ quiet' = Baseline
         /\ UNCHANGED <<krakenVars, since, attempts, exhausted, last, faults>>
    ELSE IF Stalled /\ Rested THEN Attempt ELSE Idle

\* One round: pump, note_alive() if the source is available, tick().
Round ==
    /\ Pump
    /\ IF available' THEN NoteAlive ELSE Watch
    /\ IF ~available /\ available'
       THEN fired' = 0 /\ lives' = 1
       ELSE /\ fired' = IF attempts' > attempts THEN fired + 1 ELSE fired
            /\ UNCHANGED lives

-----------------------------------------------------------------------------
Next == Fault \/ Tick \/ Round

Spec == Init /\ [][Next]_vars

\* Time passes and run_forever() runs.
FairSpec == Spec /\ WF_vars(Tick) /\ WF_vars(Round)

-----------------------------------------------------------------------------
(* Properties *)

TypeOK ==
    /\ kraken \in {"up", "stopped", "wedged", "booting"} /\ boot \in 0 .. Boot
    /\ available \in BOOLEAN /\ wait \in 0 .. Cap /\ delay \in 0 .. Cap
    /\ quiet \in 0 .. StallAfter \cup {None} /\ since \in 0 .. Gap \cup {None}
    /\ attempts \in 0 .. MaxAttempts /\ exhausted \in BOOLEAN
    /\ fired \in Nat /\ lives \in Nat \ {0}
    /\ last \in 0 .. MinGap \cup {None} /\ faults \in 0 .. MaxFaults

\* "Bounded, escalating autorecovery" (FSD 5.5, FR-22.1): in an outage, however
\* long, every life of the agent restarts the KrakenSDR at most max_attempts times,
\* failed restarts included.  The count is not kept over a restart of the agent,
\* which has its whole budget again, in the middle of an outage too.
Bounded == fired <= MaxAttempts * lives

\* Two restarts are never closer than the stall threshold or the gap, whichever
\* is less, even when the feed came back in between and cleared the record, or the
\* agent was restarted in between and has none.
Spaced == [][fired' > fired => last = None \/ last >= MinGap]_vars

-----------------------------------------------------------------------------
(* The inductive invariant behind Bounded and Spaced (FeedProofs).          *)

\* The supervisor's record is that of the outage in the agent's present life; each
\* of its lives before spent no more than its budget.
OutageInv ==
    /\ fired <= MaxAttempts * (lives - 1) + attempts
    /\ available => fired = 0 /\ attempts = 0
    /\ exhausted <=> attempts >= MaxAttempts

\* The last restart is at least as long ago as the record of it says or, when there
\* is no such record, as the supervisor has seen the feed quiet.
LastInv ==
    /\ since # None => /\ quiet # None /\ last # None
                       /\ last >= Min2(since, MinGap)
    /\ last # None /\ since = None /\ quiet # None => last >= Min2(quiet, MinGap)

IInv == TypeOK /\ OutageInv /\ LastInv
=============================================================================
