---------------------------- MODULE MCAddressbook ------------------------------
(* Addressbook for TLC. *)
EXTENDS Addressbook

CONSTANTS daemon, byhand
MCUser == [m \in Monitor |-> IF m = daemon THEN "blockhost" ELSE "root"]
===============================================================================
