-------------------------- MODULE MCMasterThreads ---------------------------
(***************************************************************************)
(* MasterThreads with few requests and answers, which is enough for two    *)
(* saves to overlap and for a restart to follow.                           *)
(***************************************************************************)
EXTENDS MasterThreads

MCBudget == [operation |-> 3, fault |-> 2]
=============================================================================
