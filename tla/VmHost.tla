------------------------------- MODULE VmHost ---------------------------------
(***************************************************************************)
(* The host programs the engine runs as child processes, modelled from how *)
(* src/ calls them: the provisioner (create, destroy, resume, update-gecos,*)
(* and the expiry garbage collector), blockhost-network-hook and           *)
(* blockhost-vmdb, with the VM database vms.json they keep and the state   *)
(* inside the guests they configure.                                       *)
(*                                                                         *)
(* A command has one of three outcomes: "ok" (done, exit 0), "fail"        *)
(* (nothing done, exit # 0) and "lost" (done, but the caller sees a        *)
(* failure: a timeout, a kill, an error after the effect).                 *)
(***************************************************************************)
EXTENDS AccessCredentialNFT

Vm == Sub
NoToken == -1
Flag == {"unset", "true", "false"}
Status == {"none", "active", "suspended", "destroyed"}
Outcome == {"ok", "fail", "lost"}
Applied(o) == o # "fail"
Reported(o) == o = "ok"

Record == [status : Status, owner : Owner \cup {NoOwner}, minted : BOOLEAN,
           token : TokenId \cup {NoToken}, gecosSynced : Flag, netSynced : Flag]
Guest == [gecos : Owner \cup {NoOwner}, net : BOOLEAN]

VARIABLES
  db,    \* vms.json: one record per VM name (status "none": no record)
  guest, \* inside each VM: the wallet in the GECOS field, network config pushed
  lock   \* /run/blockhost/provisioning.lock exists

hostVars == <<db, guest, lock>>

HostTypeOK ==
  /\ db \in [Vm -> Record]
  /\ guest \in [Vm -> Guest]
  /\ lock \in BOOLEAN

FreshRecord(status, u) ==
  [status |-> status, owner |-> u, minted |-> FALSE, token |-> NoToken,
   gecosSynced |-> "unset", netSynced |-> "unset"]
FreshGuest == [gecos |-> NoOwner, net |-> FALSE]

HostInit ==
  /\ db = [v \in Vm |-> FreshRecord("none", NoOwner)]
  /\ guest = [v \in Vm |-> FreshGuest]
  /\ lock = FALSE

\* A machine that vms.json lists and that has not been destroyed.
Alive(v) == db[v].status \in {"active", "suspended"}

-------------------------------------------------------------------------------
(* Commands: o is the outcome.  Those that work inside the guest need it up. *)

\* vm-create registers the VM itself; it refuses a name that is in use.
VmCreate(v, u, o) ==
  /\ Applied(o) => ~Alive(v)
  /\ db' = IF Applied(o) THEN [db EXCEPT ![v] = FreshRecord("active", u)] ELSE db
  /\ guest' = IF Applied(o) THEN [guest EXCEPT ![v] = FreshGuest] ELSE guest

\* vm-destroy calls mark_destroyed itself.
VmDestroy(v, o) ==
  /\ Applied(o) => Alive(v)
  /\ db' = IF Applied(o) THEN [db EXCEPT ![v].status = "destroyed"] ELSE db
  /\ UNCHANGED <<guest, lock>>

VmResume(v, o) ==
  /\ Applied(o) => db[v].status = "suspended"
  /\ db' = IF Applied(o) THEN [db EXCEPT ![v].status = "active"] ELSE db
  /\ UNCHANGED <<guest, lock>>

UpdateGecos(v, u, o) ==
  /\ Applied(o) => db[v].status = "active"
  /\ guest' = IF Applied(o) THEN [guest EXCEPT ![v].gecos = u] ELSE guest
  /\ UNCHANGED <<db, lock>>

PushVmConfig(v, o) ==
  /\ Applied(o) => db[v].status = "active"
  /\ guest' = IF Applied(o) THEN [guest EXCEPT ![v].net = TRUE] ELSE guest
  /\ UNCHANGED <<db, lock>>

NetworkCleanup(v, o) ==
  /\ guest' = IF Applied(o) THEN [guest EXCEPT ![v].net = FALSE] ELSE guest
  /\ UNCHANGED <<db, lock>>

\* blockhost-vmdb update-fields / mark-nft-minted: one locked write of r.
UpdateRecord(v, r, o) ==
  /\ Applied(o) => db[v].status # "none"
  /\ db' = IF Applied(o) THEN [db EXCEPT ![v] = r] ELSE db
  /\ UNCHANGED <<guest, lock>>

\* blockhost-vm-gc, from its own timer: suspend at expiry, destroy after grace.
GcSuspend(v) ==
  /\ db[v].status = "active"
  /\ db' = [db EXCEPT ![v].status = "suspended"]
  /\ UNCHANGED <<guest, lock>>

GcDestroy(v) ==
  /\ db[v].status = "suspended"
  /\ db' = [db EXCEPT ![v].status = "destroyed"]
  /\ UNCHANGED <<guest, lock>>
===============================================================================
