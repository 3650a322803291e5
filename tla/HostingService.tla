--------------------------- MODULE HostingService -----------------------------
(***************************************************************************)
(* What the engine promises about the machines it hosts, with no word on   *)
(* how: a machine is made for a subscription somebody bought, belongs to   *)
(* its buyer, lets in nobody who never held its credential, is suspended   *)
(* and resumed, and ends when it was cancelled or has expired.             *)
(*                                                                         *)
(* Monitor, with its poll loop, handlers, reconciler, crashes and failing  *)
(* commands, is shown to implement this.                                   *)
(***************************************************************************)
EXTENDS Wallets

VARIABLES
  subscription, \* per machine, its subscription: none, active, cancelled
  buyer,        \* who bought it
  extended,     \* machines whose subscription was ever extended
  holders,      \* per machine, every wallet that ever held its credential
  status,       \* the machine: none, active, suspended, destroyed
  owner,        \* per machine, the wallet it is registered to
  login,        \* per machine, the wallet that may log in
  repeated      \* a range of events was handled twice

vars == <<subscription, buyer, extended, holders, status, owner, login, repeated>>
chainVars == <<subscription, buyer, extended, holders>>
machineVars == <<status, owner, login>>

Init ==
  /\ subscription = [v \in Sub |-> "none"]
  /\ buyer = [v \in Sub |-> NoOwner]
  /\ extended = {}
  /\ holders = [v \in Sub |-> {}]
  /\ status = [v \in Sub |-> "none"]
  /\ owner = [v \in Sub |-> NoOwner]
  /\ login = [v \in Sub |-> NoOwner]
  /\ repeated = FALSE

-------------------------------------------------------------------------------
(* The chain *)

Buy(v, u) ==
  /\ subscription[v] = "none"
  /\ subscription' = [subscription EXCEPT ![v] = "active"]
  /\ buyer' = [buyer EXCEPT ![v] = u]
  /\ UNCHANGED <<extended, holders, machineVars, repeated>>

Extend(v) ==
  /\ subscription[v] = "active"
  /\ extended' = extended \cup {v}
  /\ UNCHANGED <<subscription, buyer, holders, machineVars, repeated>>

Cancel(v) ==
  /\ subscription[v] = "active"
  /\ subscription' = [subscription EXCEPT ![v] = "cancelled"]
  /\ UNCHANGED <<buyer, extended, holders, machineVars, repeated>>

\* A credential of the machines in S is minted for u, or passes to u.
Receive(S, u) ==
  /\ holders' = [v \in Sub |-> IF v \in S THEN holders[v] \cup {u} ELSE holders[v]]
  /\ UNCHANGED <<subscription, buyer, extended, machineVars, repeated>>

-------------------------------------------------------------------------------
(* The machines *)

\* Once for each purchase; again only when its event is handled again.
Create(v) ==
  /\ subscription[v] # "none"
  /\ status[v] = "none" \/ (status[v] = "destroyed" /\ repeated)
  /\ status' = [status EXCEPT ![v] = "active"]
  /\ owner' = [owner EXCEPT ![v] = buyer[v]]
  /\ login' = [login EXCEPT ![v] = NoOwner]
  /\ UNCHANGED <<chainVars, repeated>>

Register(v, u) ==
  /\ status[v] # "none"
  /\ u \in holders[v]
  /\ owner' = [owner EXCEPT ![v] = u]
  /\ UNCHANGED <<chainVars, status, login, repeated>>

LetIn(v, u) ==
  /\ status[v] = "active"
  /\ u \in holders[v]
  /\ login' = [login EXCEPT ![v] = u]
  /\ UNCHANGED <<chainVars, status, owner, repeated>>

Suspend(v) ==
  /\ status[v] = "active"
  /\ status' = [status EXCEPT ![v] = "suspended"]
  /\ UNCHANGED <<chainVars, owner, login, repeated>>

Resume(v) ==
  /\ status[v] = "suspended"
  /\ v \in extended
  /\ status' = [status EXCEPT ![v] = "active"]
  /\ UNCHANGED <<chainVars, owner, login, repeated>>

\* A running machine ends with its subscription only; a suspended one expires.
Destroy(v) ==
  /\ \/ status[v] = "active" /\ subscription[v] = "cancelled"
     \/ status[v] = "suspended"
  /\ status' = [status EXCEPT ![v] = "destroyed"]
  /\ UNCHANGED <<chainVars, owner, login, repeated>>

Repeat ==
  /\ repeated' = TRUE
  /\ UNCHANGED <<chainVars, machineVars>>

Next ==
  \/ \E v \in Sub :
       \/ Extend(v) \/ Cancel(v) \/ Create(v) \/ Suspend(v) \/ Resume(v) \/ Destroy(v)
       \/ \E u \in Owner : Buy(v, u) \/ Register(v, u) \/ LetIn(v, u)
  \/ \E S \in SUBSET Sub, u \in Owner : Receive(S, u)
  \/ Repeat

Spec == Init /\ [][Next]_vars

-------------------------------------------------------------------------------
(* What a user may rely on: there is a machine only where a subscription   *)
(* was bought; it is registered to the buyer or to somebody who has held   *)
(* its credential, and lets in nobody who has not.                         *)
Served ==
  \A v \in Sub :
    /\ status[v] # "none" => subscription[v] # "none"
    /\ status[v] = "none" => owner[v] = NoOwner /\ login[v] = NoOwner
    /\ owner[v] \in {NoOwner, buyer[v]} \cup holders[v]
    /\ login[v] \in {NoOwner} \cup holders[v]
===============================================================================
