------------------------------- MODULE Wallets --------------------------------
(***************************************************************************)
(* The names every module shares: wallet addresses and subscription ids.   *)
(* Subscription n is served by the VM blockhost-<n>, so the id stands for  *)
(* both.                                                                   *)
(***************************************************************************)
EXTENDS Integers

CONSTANTS
  Owner,    \* wallet addresses
  NoOwner,  \* "no wallet"
  MaxSubs   \* bound: subscriptions that may ever be bought

ASSUME WalletsAssumption ==
  /\ NoOwner \notin Owner
  /\ MaxSubs \in Nat

Sub == 1 .. MaxSubs
===============================================================================
