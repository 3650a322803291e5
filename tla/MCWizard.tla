------------------------------- MODULE MCWizard --------------------------------
(* Wizard for TLC: token 0 of the first contract is free, the administrator's, or another's. *)
EXTENDS Wizard

MCToken ==
  {<<>>, <<[owner |-> "admin", enc |-> "old"]>>, <<[owner |-> "other", enc |-> "old"]>>}

(* The first subscription contract is new, or in use. *)
MCSold == {[stable |-> FALSE, plans |-> 0], [stable |-> TRUE, plans |-> 1]}

MCAnswers == {[share |-> {}, usdc |-> FALSE], [share |-> {"dev", "broker"}, usdc |-> TRUE]}
MCBroker == {[share |-> {"broker"}, usdc |-> TRUE]}
===============================================================================
