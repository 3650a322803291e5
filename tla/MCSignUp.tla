------------------------------- MODULE MCSignUp --------------------------------
(* SignUp for TLC. *)
EXTENDS SignUp, TLC

CONSTANTS rich, poor
MCMoney == [a \in Account |-> IF a = rich THEN 4 ELSE 2]
MCSymmetry == Permutations(Tab)
===============================================================================
