---------------------------- MODULE ReliableLink ----------------------------
(***************************************************************************)
(* What a stop-and-wait transaction toward one station promises, with the  *)
(* medium, the sequence numbers and the retransmissions hidden.            *)
(* Transactions are numbered 1, 2, 3, ... in the order they are started.   *)
(*                                                                         *)
(*   - at most one transaction is open;                                    *)
(*   - the station applies or refuses a transaction at most once in each   *)
(*     of its lives, and in the order the transactions were started;       *)
(*   - as long as nothing has been abandoned and nobody has restarted, a   *)
(*     transaction is confirmed only after the station has applied or      *)
(*     refused it, unless it is one whose payload it cannot decode.        *)
(***************************************************************************)
EXTENDS Naturals, Sequences

CONSTANT Undecodable  \* transactions whose payload the station cannot decode

VARIABLES started, open, acked, failed, applied, refused, restarts

linkVars == <<started, open, acked, failed, applied, refused, restarts>>

AppliedSet == {applied[i] : i \in 1 .. Len(applied)}
Undisturbed == failed = {} /\ restarts = 0

Init ==
    /\ started = 0
    /\ open = FALSE
    /\ acked = {}
    /\ failed = {}
    /\ applied = << >>
    /\ refused = {}
    /\ restarts = 0

Open ==
    /\ ~open
    /\ open' = TRUE
    /\ started' = started + 1
    /\ UNCHANGED <<acked, failed, applied, refused, restarts>>

\* A transaction the station has not got past.
Ahead == {t \in 1 .. started : \A u \in AppliedSet \cup refused : u < t}

Apply ==
    /\ \E t \in Ahead : applied' = Append(applied, t)
    /\ UNCHANGED <<started, open, acked, failed, refused, restarts>>

\* The station has taken the transaction, and nothing came of it.
Refuse ==
    /\ \E t \in Ahead : refused' = refused \cup {t}
    /\ UNCHANGED <<started, open, acked, failed, applied, restarts>>

Confirm ==
    /\ open
    /\ Undisturbed => started \in AppliedSet \cup refused \cup Undecodable
    /\ open' = FALSE
    /\ acked' = acked \cup {started}
    /\ UNCHANGED <<started, failed, applied, refused, restarts>>

Abandon ==
    /\ open
    /\ open' = FALSE
    /\ failed' = failed \cup {started}
    /\ UNCHANGED <<started, acked, applied, refused, restarts>>

\* The sender loses the open transaction; the station forgets what it applied.
SenderRestart ==
    /\ open' = FALSE
    /\ restarts' = restarts + 1
    /\ UNCHANGED <<started, acked, failed, applied, refused>>

ReceiverRestart ==
    /\ applied' = << >>
    /\ refused' = {}
    /\ restarts' = restarts + 1
    /\ UNCHANGED <<started, open, acked, failed>>

Next == Open \/ Apply \/ Refuse \/ Confirm \/ Abandon \/ SenderRestart \/ ReceiverRestart

Spec == Init /\ [][Next]_linkVars
=============================================================================
