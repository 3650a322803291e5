----------------------------- MODULE Reconciler -------------------------------
(***************************************************************************)
(* src/reconcile/index.ts: the periodic pass that compares vms.json with   *)
(* the chain.                                                              *)
(*                                                                         *)
(* The code reads vms.json once and walks that snapshot twice: ownership,  *)
(* then network configuration.  The snapshot decides which machines are    *)
(* visited (owners, pushes); of the fields it copies only "status" has     *)
(* another writer, and status is used for that decision alone, so the      *)
(* other fields may be read from db when a machine's turn comes.           *)
(***************************************************************************)
EXTENDS VmHost

VARIABLES
  rpc,    \* the pass's next step; "idle" outside a pass
  owners, \* machines still to visit in reconcileOwnership
  pushes, \* machines still to visit in reconcileNetworkConfig
  wallet  \* the wallet being written into the current machine

reconcilerVars == <<rpc, owners, pushes, wallet>>

ReconcilerPc == {"idle", "owner", "setOwner", "setGecos", "setSynced",
                 "push", "setPushed"}

ReconcilerTypeOK ==
  /\ rpc \in ReconcilerPc
  /\ owners \in SUBSET Vm
  /\ pushes \in SUBSET Vm
  /\ wallet \in Owner \cup {NoOwner}

ReconcilerInit == rpc = "idle" /\ owners = {} /\ pushes = {} /\ wallet = NoOwner

\* Machines are visited in the order of their records.
IsFirst(v, S) == v \in S /\ \A w \in S : v <= w

\* Mutant: only a push that is on record as failed is retried.
StartPassFailedOnly ==
  /\ rpc = "idle"
  /\ ~lock
  /\ rpc' = "owner"
  /\ owners' = {v \in Vm : Alive(v) /\ db[v].minted /\ db[v].token # NoToken}
  /\ pushes' = {v \in Vm : Alive(v) /\ db[v].netSynced = "false"}
  /\ UNCHANGED wallet

\* runReconciliation: defer while a vm-create holds the lock; else snapshot.
StartPass ==
  /\ rpc = "idle"
  /\ ~lock
  /\ rpc' = "owner"
  /\ owners' = {v \in Vm : Alive(v) /\ db[v].minted /\ db[v].token # NoToken}
  /\ pushes' = {v \in Vm : Alive(v) /\ db[v].netSynced # "true"}
  /\ UNCHANGED wallet

NextOwner(v) ==
  /\ rpc' = "owner"
  /\ owners' = owners \ {v}
  /\ wallet' = NoOwner
  /\ UNCHANGED pushes

\* The write of machine v returned: go on with it, or with the next machine.
OwnerStep(v, ok, step) ==
  IF ok THEN rpc' = step /\ UNCHANGED <<owners, pushes, wallet>> ELSE NextOwner(v)

\* Mutant: a GECOS update that failed is not retried.
CheckOwnerNoRetry(v, answered) ==
  LET onChain == nftOwner[db[v].token] IN
  /\ rpc = "owner"
  /\ IsFirst(v, owners)
  /\ \/ /\ answered /\ onChain # db[v].owner
        /\ rpc' = "setOwner" /\ wallet' = onChain
        /\ UNCHANGED <<owners, pushes>>
     \/ (~answered \/ onChain = db[v].owner) /\ NextOwner(v)
  /\ UNCHANGED hostVars

\* ownerOf, and the branch on what it says; a failed call skips the machine.
CheckOwner(v, answered) ==
  LET onChain == nftOwner[db[v].token] IN
  /\ rpc = "owner"
  /\ IsFirst(v, owners)
  /\ \/ /\ answered /\ onChain # db[v].owner
        /\ rpc' = "setOwner" /\ wallet' = onChain
        /\ UNCHANGED <<owners, pushes>>
     \/ /\ answered /\ onChain = db[v].owner /\ db[v].gecosSynced = "false"
        /\ rpc' = "setGecos" /\ wallet' = db[v].owner
        /\ UNCHANGED <<owners, pushes>>
     \/ /\ ~answered \/ (onChain = db[v].owner /\ db[v].gecosSynced # "false")
        /\ NextOwner(v)
  /\ UNCHANGED hostVars

\* Mutant: the new owner is recorded, the flag is left as it was.
SetOwnerKeepFlag(v, o) ==
  /\ rpc = "setOwner"
  /\ IsFirst(v, owners)
  /\ UpdateRecord(v, [db[v] EXCEPT !.owner = wallet], o)
  /\ OwnerStep(v, Reported(o), "setGecos")

\* One write sets the new owner and clears gecos_synced.
SetOwner(v, o) ==
  /\ rpc = "setOwner"
  /\ IsFirst(v, owners)
  /\ UpdateRecord(v, [db[v] EXCEPT !.owner = wallet, !.gecosSynced = "false"], o)
  /\ OwnerStep(v, Reported(o), "setGecos")

ReconcileGecos(v, o) ==
  /\ rpc = "setGecos"
  /\ IsFirst(v, owners)
  /\ UpdateGecos(v, wallet, o)
  /\ OwnerStep(v, Reported(o), "setSynced")

SetSynced(v, o) ==
  /\ rpc = "setSynced"
  /\ IsFirst(v, owners)
  /\ UpdateRecord(v, [db[v] EXCEPT !.gecosSynced = "true"], o)
  /\ NextOwner(v)

EndOwners ==
  /\ rpc = "owner"
  /\ owners = {}
  /\ rpc' = "push"
  /\ UNCHANGED <<owners, pushes, wallet, hostVars>>

NextPush(v) ==
  /\ rpc' = "push"
  /\ pushes' = pushes \ {v}
  /\ UNCHANGED <<owners, wallet>>

RetryPush(v, o) ==
  /\ rpc = "push"
  /\ IsFirst(v, pushes)
  /\ PushVmConfig(v, o)
  /\ IF Reported(o) THEN rpc' = "setPushed" /\ UNCHANGED <<owners, pushes, wallet>>
                    ELSE NextPush(v)

SetPushed(v, o) ==
  /\ rpc = "setPushed"
  /\ IsFirst(v, pushes)
  /\ UpdateRecord(v, [db[v] EXCEPT !.netSynced = "true"], o)
  /\ NextPush(v)

EndPass ==
  /\ rpc = "push"
  /\ pushes = {}
  /\ rpc' = "idle"
  /\ UNCHANGED <<owners, pushes, wallet, hostVars>>

ReconcilerNext ==
  \/ EndOwners
  \/ EndPass
  \/ \E v \in Vm : \E answered \in BOOLEAN : CheckOwner(v, answered)
  \/ \E v \in Vm, o \in Outcome :
       \/ SetOwner(v, o) \/ ReconcileGecos(v, o) \/ SetSynced(v, o)
       \/ RetryPush(v, o) \/ SetPushed(v, o)
===============================================================================
