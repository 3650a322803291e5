------------------------------ MODULE Handlers --------------------------------
(***************************************************************************)
(* src/handlers/index.ts: what the engine does on one contract event.      *)
(*                                                                         *)
(* A handler is a sequence of child processes; hpc names the next one.     *)
(* Between two of them anything else may happen on the chain or the host,  *)
(* and the process may die.  "idle" is also where a handler returns to.    *)
(***************************************************************************)
EXTENDS SubscriptionLedger, VmHost

VARIABLES
  hpc,     \* the handler's next step
  event,   \* the event being handled
  tokenId, \* actualTokenId, parsed from the output of blockhost-mint-nft
  pushed   \* pushResult.ok

handlerVars == <<hpc, event, tokenId, pushed>>

CreateStep == {"decrypt", "create", "creating", "address", "mint", "supply",
               "push", "record", "gecos", "mark"}
HandlerPc == {"idle", "extend", "resume", "cleanup", "destroy"} \cup CreateStep
NoEvent == [type |-> "None", sub |-> 0, who |-> NoOwner]

HandlerTypeOK ==
  /\ hpc \in HandlerPc
  /\ event \in Event \cup {NoEvent}
  /\ tokenId \in TokenId \cup {NoToken}
  /\ pushed \in BOOLEAN

HandlerInit == hpc = "idle" /\ event = NoEvent /\ tokenId = NoToken /\ pushed = FALSE

Return == hpc' = "idle" /\ event' = NoEvent /\ tokenId' = NoToken /\ pushed' = FALSE
Goto(step) == hpc' = step /\ UNCHANGED <<event, tokenId, pushed>>

\* The switch of processLogs: which handler an event goes to.
Handle(e) ==
  /\ hpc = "idle"
  /\ event' = e
  /\ hpc' = CASE e.type = "Created" -> "decrypt"
              [] e.type = "Extended" -> "extend"
              [] e.type = "Cancelled" -> "cleanup"
  /\ UNCHANGED <<tokenId, pushed>>

-------------------------------------------------------------------------------
(* handleSubscriptionCreated *)

\* Step 1: no VM is created for a signature that cannot be decrypted.
DecryptSignature ==
  /\ hpc = "decrypt"
  /\ Goto("create") \/ Return
  /\ UNCHANGED <<hostVars, nftVars>>

\* Step 2: spawn vm-create, which holds provisioning.lock while it runs.
StartCreate ==
  /\ hpc = "create"
  /\ lock' = TRUE
  /\ Goto("creating")
  /\ UNCHANGED <<db, guest, nftVars>>

\* Steps 2 and 3: vm-create exits; without a readable summary the handler
\* gives up, and the VM stays.
FinishCreate(o) ==
  /\ hpc = "creating"
  /\ VmCreate(event.sub, event.who, o)
  /\ lock' = FALSE
  /\ IF Reported(o) THEN Goto("address") \/ Return ELSE Return
  /\ UNCHANGED nftVars

\* Step 4: the public address (or give up); encryption changes no state.
ResolveAddress ==
  /\ hpc = "address"
  /\ Goto("mint") \/ Return
  /\ UNCHANGED <<hostVars, nftVars>>

\* Step 5, first half of mint_nft: send the transaction.
SendMint(o) ==
  /\ hpc = "mint"
  /\ IF Applied(o) THEN Mint(event.who, event.sub) ELSE UNCHANGED nftVars
  /\ IF Reported(o) THEN Goto("supply") ELSE Return
  /\ UNCHANGED hostVars

\* Mutant: the id of the token before the one just minted (a stale read).
QuerySupplyStale ==
  /\ hpc = "supply"
  /\ \/ /\ tokenId' = nextTokenId - 2
        /\ hpc' = "push"
        /\ UNCHANGED <<event, pushed>>
     \/ Return
  /\ UNCHANGED <<hostVars, nftVars>>

\* Mutant: totalSupply() itself.
QuerySupplyCount ==
  /\ hpc = "supply"
  /\ \/ /\ tokenId' = nextTokenId
        /\ hpc' = "push"
        /\ UNCHANGED <<event, pushed>>
     \/ Return
  /\ UNCHANGED <<hostVars, nftVars>>

\* Second half: the token id is taken to be totalSupply() - 1.
QuerySupply ==
  /\ hpc = "supply"
  /\ \/ /\ tokenId' = nextTokenId - 1
        /\ hpc' = "push"
        /\ UNCHANGED <<event, pushed>>
     \/ Return
  /\ UNCHANGED <<hostVars, nftVars>>

\* Step 6: push the network configuration, ...
PushConfig(o) ==
  /\ hpc = "push"
  /\ PushVmConfig(event.sub, o)
  /\ pushed' = Reported(o)
  /\ hpc' = "record"
  /\ UNCHANGED <<event, tokenId, nftVars>>

\* Mutant: the flag is set whatever the push returned.
RecordPushAlways(o) ==
  /\ hpc = "record"
  /\ UpdateRecord(event.sub, [db[event.sub] EXCEPT !.netSynced = "true"], o)
  /\ Goto("gecos")
  /\ UNCHANGED nftVars

\* ... and record whether it worked (the write itself may fail).
RecordPush(o) ==
  /\ hpc = "record"
  /\ UpdateRecord(event.sub,
       [db[event.sub] EXCEPT !.netSynced = IF pushed THEN "true" ELSE "false"], o)
  /\ Goto("gecos")
  /\ UNCHANGED nftVars

\* Step 7: a failure here is only logged.
SetGecos(o) ==
  /\ hpc = "gecos"
  /\ UpdateGecos(event.sub, event.who, o)
  /\ Goto("mark")
  /\ UNCHANGED nftVars

\* Step 8: so is a failure here.
MarkMinted(o) ==
  /\ hpc = "mark"
  /\ UpdateRecord(event.sub,
       [db[event.sub] EXCEPT !.minted = TRUE, !.token = tokenId], o)
  /\ Return
  /\ UNCHANGED nftVars

-------------------------------------------------------------------------------
(* handleSubscriptionExtended *)

\* extend-expiry answers NEEDS_RESUME for a suspended VM.
ExtendExpiry ==
  /\ hpc = "extend"
  /\ \/ db[event.sub].status = "suspended" /\ Goto("resume")
     \/ Return
  /\ UNCHANGED <<hostVars, nftVars>>

ResumeVm(o) ==
  /\ hpc = "resume"
  /\ VmResume(event.sub, o)
  /\ Return
  /\ UNCHANGED nftVars

-------------------------------------------------------------------------------
(* handleSubscriptionCancelled *)

\* Network cleanup comes first, while the guest is up; failures are ignored.
CleanupNetwork(o) ==
  /\ hpc = "cleanup"
  /\ NetworkCleanup(event.sub, o)
  /\ Goto("destroy")
  /\ UNCHANGED nftVars

\* A failed destroy is logged and not retried.
DestroyVm(o) ==
  /\ hpc = "destroy"
  /\ VmDestroy(event.sub, o)
  /\ Return
  /\ UNCHANGED nftVars

HandlerNext ==
  \/ DecryptSignature
  \/ StartCreate
  \/ ResolveAddress
  \/ QuerySupply
  \/ ExtendExpiry
  \/ \E o \in Outcome :
       \/ FinishCreate(o) \/ SendMint(o) \/ PushConfig(o) \/ RecordPush(o)
       \/ SetGecos(o) \/ MarkMinted(o)
       \/ ResumeVm(o) \/ CleanupNetwork(o) \/ DestroyVm(o)
===============================================================================
