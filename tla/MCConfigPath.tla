---------------------------- MODULE MCConfigPath ----------------------------
(* Values for the constants of ConfigPath that a .cfg can not write. *)
EXTENDS ConfigPath

CONSTANTS a1, a2, freq, gain

FactoryOne == [x \in {freq} |-> 0]
FactoryTwo == [x \in {freq, gain} |-> 0]

BudgetOf(request, loss, local, failures, restart) ==
    [k \in BudgetKind |->
        CASE k = "request" -> request
          [] k = "loss"    -> loss
          [] k = "local"   -> local
          [] k = "down"    -> failures
          [] k = "restart" -> restart]

\* One of each failure under two requests.
FaultsBudget == BudgetOf(2, 1, 1, 1, 1)
\* Two stations that overhear each other, and a local change.
PairBudget == BudgetOf(2, 0, 1, 0, 0)
\* Enough losses to make the sender give up.
LossBudget == BudgetOf(3, 3, 1, 0, 0)
\* Losses the retransmissions make good.
CalmBudget == BudgetOf(4, 2, 0, 0, 0)
=============================================================================
