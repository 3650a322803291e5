------------------------------- MODULE MCKnock --------------------------------
(* Knock for TLC. *)
EXTENDS Knock, TLC

CONSTANT Web
MCPortSets == {{Ssh, Web}, {Web}}
SessionSymmetry == Permutations(Session)
===============================================================================
