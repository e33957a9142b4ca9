------------------------------- MODULE ArqOps -------------------------------
(***************************************************************************)
(* The two pure state machines of shared/.../arq.py: the stop-and-wait     *)
(* sender that drives one transaction at a time toward one peer, and the   *)
(* receiver that suppresses duplicates by sequence number.  They are given *)
(* as operators on a sender record and on the last accepted sequence       *)
(* number, so that every module that embeds an ARQ shares them.            *)
(*                                                                         *)
(* The millisecond deadline is not kept: a module that uses the sender     *)
(* says when a timeout may be observed.                                    *)
(***************************************************************************)
EXTENDS Naturals

CONSTANTS
    SeqMod,       \* sequence numbers are 0 .. SeqMod-1 (256 in the code: & 0xFF)
    MaxAttempts,  \* transmissions of one frame before the sender gives up
    NoFrame,      \* "no transaction in progress": _pending is None
    NoSeq         \* "nothing accepted yet from this source"

ASSUME SeqModAssumption == SeqMod \in Nat /\ SeqMod >= 2
ASSUME MaxAttemptsAssumption == MaxAttempts \in Nat \ {0}
ASSUME NoSeqAssumption == NoSeq \notin Nat

SeqNo == 0 .. SeqMod - 1

\* A mutation: "& 0xFF" left out.
NextSeqNoWrap(n) == n + 1

NextSeq(n) == (n + 1) % SeqMod

SenderInit == [seq |-> 0, pending |-> NoFrame, attempts |-> 0]

\* Further mutations, of the operators below, each a slip arq.py could have.
CompletedSameSeq(s) == [SenderInit EXCEPT !.seq = s.seq] \* sequence not advanced
AnyAckMatches(s, n) == s.pending # NoFrame \* sequence number not compared
RetriedUncounted(s) == s                   \* attempt not counted
AlwaysNew(last, n) == TRUE                 \* duplicates not suppressed

Busy(s) == s.pending # NoFrame

\* start(): frame carries the sender's own sequence number.
Started(s, frame) == [seq |-> s.seq, pending |-> frame, attempts |-> 1]

\* on_ack(): only the pending frame's number completes the transaction.
AckMatches(s, n) == Busy(s) /\ n = s.pending.seq
Completed(s) == [seq |-> NextSeq(s.seq), pending |-> NoFrame, attempts |-> s.attempts]

\* on_timeout(): give up without advancing the sequence number, or try again.
Exhausts(s) == s.attempts >= MaxAttempts
Abandoned(s) == [seq |-> s.seq, pending |-> NoFrame, attempts |-> s.attempts]
Retried(s) == [seq |-> s.seq, pending |-> s.pending, attempts |-> s.attempts + 1]

\* DedupReceiver.accept(): new unless it repeats the last accepted number.
IsNew(last, n) == n # last
=============================================================================
