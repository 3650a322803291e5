------------------------------ MODULE MCMonitor -------------------------------
(* Monitor for TLC: the wallets are interchangeable. *)
EXTENDS Monitor, TLC

OwnerSymmetry == Permutations(Owner)
===============================================================================
