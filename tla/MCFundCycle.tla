----------------------------- MODULE MCFundCycle -------------------------------
(* FundCycle for TLC. *)
EXTENDS FundCycle

CONSTANT Other
MCRecipients == <<[role |-> "dev", percent |-> 3], [role |-> "broker", percent |-> 2]>>
MCMinWithdrawal == [t \in Token |-> 2]
MCMaxRevenue == [t \in Token |-> 4]
===============================================================================
