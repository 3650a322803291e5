---------------------------- MODULE MonitorProofs -----------------------------
(***************************************************************************)
(* Proofs about Monitor, for every value of its constants.                 *)
(***************************************************************************)
EXTENDS Monitor, FiniteSets, FiniteSetTheorems, TLAPS

(* Where the single thread of the monitor can be: a handler runs inside    *)
(* the log loop, on the event under the cursor; the reconciler inside its  *)
(* own phase, on records that were marked as minted when it started.       *)
Control ==
  /\ Len(evlog) <= MaxEvents
  /\ toBlock <= Len(evlog)
  /\ pc = "logs" => cursor >= 1
  /\ hpc # "idle" => pc = "logs" /\ cursor <= toBlock /\ event \in Event
  /\ rpc # "idle" => pc = "reconcile"
  /\ rpc \in {"idle", "push", "setPushed"} => owners = {}
  /\ \A v \in owners : db[v].minted /\ db[v].token # NoToken

TypeInv == TypeOK /\ Control

(* GecosFlagSound, and what the steps that set the flag know: the record   *)
(* a creation works on has never been synchronised, and the reconciler     *)
(* sets the flag for the wallet it wrote.                                  *)
AfterCreate == {"address", "mint", "supply", "push", "record", "gecos", "mark"}
GecosInv ==
  /\ GecosFlagSound
  /\ hpc \in AfterCreate => db[event.sub].gecosSynced = "unset"
  /\ rpc \in {"setGecos", "setSynced"} =>
       \A v \in Vm : IsFirst(v, owners) => db[v].owner = wallet
  /\ rpc = "setSynced" =>
       \A v \in Vm : IsFirst(v, owners) => guest[v].gecos = wallet

(* Serves(t, v) for an existing token; moreover, one that u has held. *)
Linked(t, v) == t \in TokenId /\ t < nextTokenId /\ Serves(t, v)
HoldsFor(v, u, t) == Linked(t, v) /\ u \in everHeld[t]

AfterSupply == {"push", "record", "gecos", "mark"}
LinkInv ==
  /\ \A t \in TokenId : t < nextTokenId => nftOwner[t] \in everHeld[t]
  /\ \A v \in Vm : db[v].minted => Linked(db[v].token, v)
  /\ \A v \in Vm : guest[v].gecos # NoOwner =>
       \E t \in TokenId : HoldsFor(v, guest[v].gecos, t)
  /\ hpc \in AfterSupply \cup {"supply"} =>
       \E t \in TokenId : HoldsFor(event.sub, event.who, t)
  /\ hpc = "supply" => Linked(nextTokenId - 1, event.sub)
  /\ hpc \in AfterSupply => Linked(tokenId, event.sub)
  /\ rpc \in {"setOwner", "setGecos"} =>
       \A v \in Vm : IsFirst(v, owners) => HoldsFor(v, wallet, db[v].token)

-------------------------------------------------------------------------------
(* Each component keeps its types, whatever calls its operations. *)

(* A step of the contract keeps the log typed and within its bound. *)
LEMMA LedgerStep ==
  ASSUME LedgerTypeOK, Len(evlog) <= MaxEvents, LedgerNext
  PROVE  LedgerTypeOK' /\ Len(evlog') <= MaxEvents /\ Len(evlog') >= Len(evlog)
<1> USE LedgerAssumption DEF LedgerTypeOK, Event, EventType, Emit
<1>1. CASE \E s \in Sub, u \in Owner : BuySubscription(s, u)
  BY <1>1 DEF BuySubscription
<1>2. CASE \E s \in Sub, u \in Owner : ExtendSubscription(s, u)
  BY <1>2 DEF ExtendSubscription
<1>3. CASE \E s \in Sub : CancelSubscription(s)
  BY <1>3 DEF CancelSubscription
<1>4. QED BY <1>1, <1>2, <1>3 DEF LedgerNext

(* Minting and transferring keep the token tables typed. *)
LEMMA MintType ==
  ASSUME NftTypeOK, NEW u \in Owner, NEW v \in 0 .. MaxSubs, Mint(u, v)
  PROVE  NftTypeOK'
BY NftAssumption DEF NftTypeOK, Mint, TokenId

LEMMA TransferType ==
  ASSUME NftTypeOK, NEW t \in TokenId, NEW u \in Owner, Transfer(t, u)
  PROVE  NftTypeOK'
BY NftAssumption DEF NftTypeOK, Transfer, TokenId

(* So does every command of the host, whatever its outcome. *)
LEMMA CreateType ==
  ASSUME HostTypeOK, NEW v \in Vm, NEW o \in Outcome, NEW u \in Owner,
         VmCreate(v, u, o), lock' \in BOOLEAN
  PROVE  HostTypeOK'
BY DEF HostTypeOK, VmCreate, FreshRecord, FreshGuest, Record, Guest, Status, Flag

LEMMA StatusType ==
  ASSUME HostTypeOK, NEW v \in Vm, NEW o \in Outcome,
         VmDestroy(v, o) \/ VmResume(v, o) \/ GcSuspend(v) \/ GcDestroy(v)
  PROVE  HostTypeOK'
<1>1. ASSUME NEW st \in Status PROVE [db[v] EXCEPT !.status = st] \in Record
  <2>1. db[v] \in Record BY DEF HostTypeOK
  <2>2. QED BY <2>1 DEF Record
<1>2. \E st \in Status : db' = [db EXCEPT ![v].status = st] \/ db' = db
  BY DEF VmDestroy, VmResume, GcSuspend, GcDestroy, Status
<1>3. UNCHANGED <<guest, lock>>
  BY DEF VmDestroy, VmResume, GcSuspend, GcDestroy
<1>4. QED BY <1>1, <1>2, <1>3 DEF HostTypeOK

LEMMA GuestType ==
  ASSUME HostTypeOK, NEW v \in Vm, NEW o \in Outcome, NEW u \in Owner \cup {NoOwner},
         UpdateGecos(v, u, o) \/ PushVmConfig(v, o) \/ NetworkCleanup(v, o)
  PROVE  HostTypeOK'
<1>1. guest[v] \in Guest BY DEF HostTypeOK
<1>2. [guest[v] EXCEPT !.gecos = u] \in Guest BY <1>1 DEF Guest
<1>3. ASSUME NEW b \in BOOLEAN PROVE [guest[v] EXCEPT !.net = b] \in Guest
  BY <1>1 DEF Guest
<1>4. CASE UpdateGecos(v, u, o)
  BY <1>2, <1>4 DEF UpdateGecos, HostTypeOK
<1>5. CASE PushVmConfig(v, o)
  BY <1>3, <1>5 DEF PushVmConfig, HostTypeOK
<1>6. CASE NetworkCleanup(v, o)
  BY <1>3, <1>6 DEF NetworkCleanup, HostTypeOK
<1>7. QED BY <1>4, <1>5, <1>6

LEMMA RecordType ==
  ASSUME HostTypeOK, NEW v \in Vm, NEW o \in Outcome, NEW r \in Record,
         UpdateRecord(v, r, o)
  PROVE  HostTypeOK'
BY DEF HostTypeOK, UpdateRecord

(* A handler step keeps its own types, and those of the host and the NFT. *)
LEMMA HandlerType ==
  ASSUME NftTypeOK, HostTypeOK, HandlerTypeOK, event \in Event, HandlerNext
  PROVE  NftTypeOK' /\ HostTypeOK' /\ HandlerTypeOK'
<1> USE DEF HandlerTypeOK, HandlerPc, CreateStep
<1>0. event.sub \in Sub /\ event.sub \in Vm /\ event.who \in Owner /\ event.sub \in 0 .. MaxSubs
  BY WalletsAssumption DEF Event, Sub, Vm
<1>a. ASSUME NEW step \in HandlerPc, Goto(step) \/ Return
      PROVE  HandlerTypeOK'
  BY <1>a DEF Goto, Return
<1>b. ASSUME UNCHANGED hostVars PROVE HostTypeOK'
  BY <1>b DEF HostTypeOK, hostVars
<1>c. ASSUME UNCHANGED nftVars PROVE NftTypeOK'
  BY <1>c DEF NftTypeOK, nftVars
<1>1. CASE DecryptSignature \/ ResolveAddress \/ ExtendExpiry
  BY <1>1, <1>a, <1>b, <1>c DEF DecryptSignature, ResolveAddress, ExtendExpiry
<1>2. CASE StartCreate
  <2>1. HostTypeOK' BY <1>2 DEF StartCreate, HostTypeOK
  <2>2. QED BY <1>2, <1>a, <1>c, <2>1 DEF StartCreate
<1>3. CASE QuerySupply
  <2>1. nextTokenId - 1 \in TokenId \cup {NoToken}
    BY NftAssumption DEF NftTypeOK, TokenId, NoToken
  <2>2. HandlerTypeOK'
    BY <1>3, <1>a, <2>1 DEF QuerySupply
  <2>3. QED BY <1>3, <1>b, <1>c, <2>2 DEF QuerySupply
<1>4. ASSUME NEW o \in Outcome, FinishCreate(o)
      PROVE  NftTypeOK' /\ HostTypeOK' /\ HandlerTypeOK'
  <2>1. HostTypeOK' BY <1>0, <1>4, CreateType DEF FinishCreate
  <2>2. HandlerTypeOK' BY <1>4, <1>a DEF FinishCreate
  <2>3. QED BY <1>4, <1>c, <2>1, <2>2 DEF FinishCreate
<1>5. ASSUME NEW o \in Outcome, SendMint(o)
      PROVE  NftTypeOK' /\ HostTypeOK' /\ HandlerTypeOK'
  <2>1. NftTypeOK' BY <1>0, <1>5, <1>c, MintType DEF SendMint
  <2>2. HandlerTypeOK' BY <1>5, <1>a DEF SendMint
  <2>3. QED BY <1>5, <1>b, <2>1, <2>2 DEF SendMint
<1>6. ASSUME NEW o \in Outcome, PushConfig(o)
      PROVE  NftTypeOK' /\ HostTypeOK' /\ HandlerTypeOK'
  <2>1. HostTypeOK' BY <1>0, <1>6, GuestType DEF PushConfig
  <2>2. HandlerTypeOK' BY <1>6 DEF PushConfig, Reported
  <2>3. QED BY <1>6, <1>c, <2>1, <2>2 DEF PushConfig, nftVars
<1>7. ASSUME NEW o \in Outcome, RecordPush(o) \/ MarkMinted(o)
      PROVE  NftTypeOK' /\ HostTypeOK' /\ HandlerTypeOK'
  <2>1. HostTypeOK'
    <3>1. db[event.sub] \in Record
      BY <1>0 DEF HostTypeOK
    <3>2. [db[event.sub] EXCEPT !.netSynced = IF pushed THEN "true" ELSE "false"] \in Record
      BY <3>1 DEF Record, Flag
    <3>3. [db[event.sub] EXCEPT !.minted = TRUE, !.token = tokenId] \in Record
      BY <3>1 DEF Record
    <3>4. QED BY <1>0, <1>7, <3>2, <3>3, RecordType DEF RecordPush, MarkMinted
  <2>2. HandlerTypeOK' BY <1>7, <1>a DEF RecordPush, MarkMinted
  <2>3. QED BY <1>7, <1>c, <2>1, <2>2 DEF RecordPush, MarkMinted
<1>8. ASSUME NEW o \in Outcome,
             SetGecos(o) \/ ResumeVm(o) \/ CleanupNetwork(o) \/ DestroyVm(o)
      PROVE  NftTypeOK' /\ HostTypeOK' /\ HandlerTypeOK'
  <2>1. HostTypeOK'
    BY <1>0, <1>8, StatusType, GuestType DEF SetGecos, ResumeVm, CleanupNetwork, DestroyVm
  <2>2. HandlerTypeOK'
    BY <1>8, <1>a DEF SetGecos, ResumeVm, CleanupNetwork, DestroyVm
  <2>3. QED BY <1>8, <1>c, <2>1, <2>2 DEF SetGecos, ResumeVm, CleanupNetwork, DestroyVm
<1>9. QED
  BY <1>1, <1>2, <1>3, <1>4, <1>5, <1>6, <1>7, <1>8 DEF HandlerNext

(* So does a step of the reconciler. *)
LEMMA ReconcilerType ==
  ASSUME NftTypeOK, HostTypeOK, ReconcilerTypeOK, Control, ReconcilerNext
  PROVE  HostTypeOK' /\ ReconcilerTypeOK'
<1> USE DEF ReconcilerTypeOK, ReconcilerPc
<1>a. ASSUME NEW v \in Vm, NextOwner(v) \/ NextPush(v)
      PROVE  ReconcilerTypeOK'
  BY <1>a DEF NextOwner, NextPush
<1>b. ASSUME UNCHANGED hostVars PROVE HostTypeOK'
  BY <1>b DEF HostTypeOK, hostVars
<1>c. ASSUME NEW v \in Vm
      PROVE  /\ db[v] \in Record
             /\ \A w \in Owner \cup {NoOwner} :
                  [db[v] EXCEPT !.owner = w, !.gecosSynced = "false"] \in Record
             /\ [db[v] EXCEPT !.gecosSynced = "true"] \in Record
             /\ [db[v] EXCEPT !.netSynced = "true"] \in Record
  <2>1. db[v] \in Record BY DEF HostTypeOK
  <2>2. QED BY <2>1 DEF Record, Flag
<1>1. CASE EndOwners \/ EndPass
  BY <1>1, <1>b DEF EndOwners, EndPass
<1>2. ASSUME NEW v \in Vm, NEW answered \in BOOLEAN, CheckOwner(v, answered)
      PROVE  HostTypeOK' /\ ReconcilerTypeOK'
  <2>1. v \in owners BY <1>2 DEF CheckOwner, IsFirst
  <2>2. db[v].token \in TokenId /\ db[v].owner \in Owner \cup {NoOwner}
    BY <1>c, <2>1 DEF Control, Record
  <2>3. nftOwner[db[v].token] \in Owner \cup {NoOwner}
    BY <2>2 DEF NftTypeOK
  <2>4. ReconcilerTypeOK' BY <1>2, <1>a, <2>2, <2>3 DEF CheckOwner
  <2>5. QED BY <1>2, <1>b, <2>4 DEF CheckOwner
<1>3. ASSUME NEW v \in Vm, NEW o \in Outcome, SetOwner(v, o) \/ SetSynced(v, o)
      PROVE  HostTypeOK' /\ ReconcilerTypeOK'
  <2>1. HostTypeOK' BY <1>3, <1>c, RecordType DEF SetOwner, SetSynced
  <2>2. ReconcilerTypeOK' BY <1>3, <1>a DEF SetOwner, SetSynced, OwnerStep
  <2>3. QED BY <2>1, <2>2
<1>4. ASSUME NEW v \in Vm, NEW o \in Outcome, ReconcileGecos(v, o) \/ RetryPush(v, o)
      PROVE  HostTypeOK' /\ ReconcilerTypeOK'
  <2>1. HostTypeOK' BY <1>4, GuestType DEF ReconcileGecos, RetryPush
  <2>2. ReconcilerTypeOK' BY <1>4, <1>a DEF ReconcileGecos, RetryPush, OwnerStep
  <2>3. QED BY <2>1, <2>2
<1>5. ASSUME NEW v \in Vm, NEW o \in Outcome, SetPushed(v, o)
      PROVE  HostTypeOK' /\ ReconcilerTypeOK'
  <2>1. HostTypeOK' BY <1>5, <1>c, RecordType DEF SetPushed
  <2>2. QED BY <1>5, <1>a, <2>1 DEF SetPushed
<1>6. QED BY <1>1, <1>2, <1>3, <1>4, <1>5 DEF ReconcilerNext

(* A handler step leaves the event alone until the handler returns. *)
LEMMA HandlerControl ==
  ASSUME HandlerNext, hpc' # "idle"
  PROVE  event' = event
<1>1. ASSUME NEW step, Goto(step) \/ Return PROVE event' = event
  BY <1>1 DEF Goto, Return
<1>2. CASE DecryptSignature \/ StartCreate \/ ResolveAddress \/ QuerySupply \/ ExtendExpiry
  BY <1>1, <1>2 DEF DecryptSignature, StartCreate, ResolveAddress, QuerySupply,
                    ExtendExpiry, Return
<1>3. ASSUME NEW o \in Outcome,
             FinishCreate(o) \/ SendMint(o) \/ PushConfig(o) \/ RecordPush(o) \/ SetGecos(o)
             \/ MarkMinted(o) \/ ResumeVm(o) \/ CleanupNetwork(o) \/ DestroyVm(o)
      PROVE  event' = event
  BY <1>1, <1>3 DEF FinishCreate, SendMint, PushConfig, RecordPush, SetGecos,
                    MarkMinted, ResumeVm, CleanupNetwork, DestroyVm
<1>4. QED BY <1>2, <1>3 DEF HandlerNext

(* The reconciler only ever writes flags and owners, and leaves the        *)
(* ownership pass with an empty plan.                                      *)
LEMMA ReconcilerControl ==
  ASSUME TypeOK, Control, ReconcilerNext
  PROVE  /\ rpc' \in {"idle", "push", "setPushed"} => owners' = {}
         /\ owners' \subseteq owners
         /\ \A v \in Vm : db'[v].minted = db[v].minted /\ db'[v].token = db[v].token
<1> USE DEF Control
<1>a. ASSUME NEW v \in Vm, NEW o \in Outcome,
             NEW r \in Record, r.minted = db[v].minted, r.token = db[v].token,
             UpdateRecord(v, r, o)
      PROVE  \A w \in Vm : db'[w].minted = db[w].minted /\ db'[w].token = db[w].token
  BY <1>a DEF UpdateRecord, TypeOK, HostTypeOK
<1>b. ASSUME NEW v \in Vm, NEW w \in Owner \cup {NoOwner}
      PROVE  /\ [db[v] EXCEPT !.owner = w, !.gecosSynced = "false"] \in Record
             /\ [db[v] EXCEPT !.owner = w, !.gecosSynced = "false"].minted = db[v].minted
             /\ [db[v] EXCEPT !.owner = w, !.gecosSynced = "false"].token = db[v].token
             /\ [db[v] EXCEPT !.gecosSynced = "true"] \in Record
             /\ [db[v] EXCEPT !.gecosSynced = "true"].minted = db[v].minted
             /\ [db[v] EXCEPT !.gecosSynced = "true"].token = db[v].token
             /\ [db[v] EXCEPT !.netSynced = "true"] \in Record
             /\ [db[v] EXCEPT !.netSynced = "true"].minted = db[v].minted
             /\ [db[v] EXCEPT !.netSynced = "true"].token = db[v].token
  <2>1. db[v] \in Record BY DEF TypeOK, HostTypeOK
  <2>2. QED BY <2>1 DEF Record, Flag
<1>1. CASE EndOwners \/ EndPass
  BY <1>1 DEF EndOwners, EndPass, hostVars
<1>2. ASSUME NEW v \in Vm, NEW answered \in BOOLEAN, CheckOwner(v, answered)
      PROVE  /\ rpc' \notin {"idle", "push", "setPushed"}
             /\ owners' \subseteq owners /\ db' = db
  BY <1>2 DEF CheckOwner, NextOwner, hostVars
<1>3. ASSUME NEW v \in Vm, NEW o \in Outcome,
             SetOwner(v, o) \/ ReconcileGecos(v, o) \/ SetSynced(v, o)
      PROVE  /\ rpc' \notin {"idle", "push", "setPushed"}
             /\ owners' \subseteq owners
  BY <1>3 DEF SetOwner, ReconcileGecos, SetSynced, OwnerStep, NextOwner
<1>4. ASSUME NEW v \in Vm, NEW o \in Outcome, SetOwner(v, o) \/ SetSynced(v, o)
      PROVE  \A w \in Vm : db'[w].minted = db[w].minted /\ db'[w].token = db[w].token
  <2>1. wallet \in Owner \cup {NoOwner} BY DEF TypeOK, ReconcilerTypeOK
  <2>2. QED BY <1>4, <1>a, <1>b, <2>1 DEF SetOwner, SetSynced
<1>5. ASSUME NEW v \in Vm, NEW o \in Outcome, ReconcileGecos(v, o) \/ RetryPush(v, o)
      PROVE  db' = db
  BY <1>5 DEF ReconcileGecos, RetryPush, UpdateGecos, PushVmConfig
<1>6. ASSUME NEW v \in Vm, NEW o \in Outcome, RetryPush(v, o) \/ SetPushed(v, o)
      PROVE  owners = {} /\ owners' = {}
  BY <1>6 DEF RetryPush, SetPushed, NextPush
<1>7. ASSUME NEW v \in Vm, NEW o \in Outcome, SetPushed(v, o)
      PROVE  \A w \in Vm : db'[w].minted = db[w].minted /\ db'[w].token = db[w].token
  <2>1. wallet \in Owner \cup {NoOwner} BY DEF TypeOK, ReconcilerTypeOK
  <2>2. QED BY <1>7, <1>a, <1>b, <2>1 DEF SetPushed
<1>8. QED
  BY <1>1, <1>2, <1>3, <1>4, <1>5, <1>6, <1>7 DEF ReconcilerNext

-------------------------------------------------------------------------------
(* The type invariant *)

LEMMA TypeInvInit == Init => TypeInv
<1> SUFFICES ASSUME Init PROVE TypeInv OBVIOUS
<1> USE WalletsAssumption, LedgerAssumption, NftAssumption, MonitorAssumption DEF Init
<1>1. LedgerTypeOK /\ Len(evlog) = 0
  BY DEF LedgerInit, LedgerTypeOK
<1>2. NftTypeOK
  BY DEF NftInit, NftTypeOK, TokenId
<1>3. HostTypeOK
  BY DEF HostInit, HostTypeOK, FreshRecord, FreshGuest, Record, Guest, Status, Flag
<1>4. HandlerTypeOK /\ ReconcilerTypeOK
  BY DEF HandlerInit, HandlerTypeOK, HandlerPc, ReconcilerInit, ReconcilerTypeOK, ReconcilerPc
<1>5. PollTypeOK
  BY DEF PollTypeOK, Block
<1>6. Control
  BY <1>1 DEF Control, HandlerInit, ReconcilerInit
<1>7. QED BY <1>1, <1>2, <1>3, <1>4, <1>5, <1>6 DEF TypeInv, TypeOK

(* The steps that only move the poll loop. *)
LEMMA PollType ==
  ASSUME TypeInv, UNCHANGED <<ledgerVars, nftVars, hostVars, handlerVars, reconcilerVars>>,
         StartMonitor \/ Poll \/ EndLogs \/ EndPoll \/ AdminError \/ SkipReconciliation
  PROVE  TypeInv'
<1> USE LedgerAssumption, MonitorAssumption DEF TypeInv
<1>1. LedgerTypeOK' /\ NftTypeOK' /\ HostTypeOK' /\ HandlerTypeOK' /\ ReconcilerTypeOK'
  BY DEF TypeOK, ledgerVars, nftVars, hostVars, handlerVars, reconcilerVars,
         LedgerTypeOK, NftTypeOK, HostTypeOK, HandlerTypeOK, ReconcilerTypeOK
<1>2. Len(evlog) \in 0 .. MaxEvents
  BY DEF TypeOK, LedgerTypeOK, Control
<1>3. PollTypeOK'
  <2> USE <1>2 DEF TypeOK, PollTypeOK, countVars, historyVars
  <2>1. CASE StartMonitor
    <3>0. 1 .. Len(evlog) \subseteq Block BY LedgerAssumption DEF Block
    <3>1. missed' \in SUBSET Block BY <2>1, <3>0 DEF StartMonitor
    <3>2. lastProcessedBlock' \in 0 .. MaxEvents BY <2>1 DEF StartMonitor
    <3>3. QED BY <2>1, <3>1, <3>2 DEF StartMonitor
  <2>2. CASE Poll BY <2>2 DEF Poll
  <2>3. CASE EndLogs \/ EndPoll \/ AdminError \/ SkipReconciliation
    BY <2>3, SMTT(30) DEF EndLogs, EndPoll, AdminError, SkipReconciliation
  <2>4. QED BY <2>1, <2>2, <2>3
<1>4. Control'
  <2> USE <1>2 DEF Control, ledgerVars, hostVars, handlerVars, reconcilerVars, TypeOK, PollTypeOK
  <2>1. CASE Poll BY <2>1 DEF Poll
  <2>2. CASE StartMonitor BY <2>2 DEF StartMonitor
  <2>3. CASE EndLogs \/ EndPoll \/ AdminError \/ SkipReconciliation
    BY <2>3, SMTT(30) DEF EndLogs, EndPoll, AdminError, SkipReconciliation
  <2>4. QED BY <2>1, <2>2, <2>3
<1>5. QED BY <1>1, <1>3, <1>4 DEF TypeOK

(* The steps of a handler inside the log loop. *)
LEMMA DispatchType ==
  ASSUME TypeInv, DispatchLog PROVE TypeInv'
<1> USE DEF TypeInv, DispatchLog
<1>1. LedgerTypeOK' /\ NftTypeOK' /\ HostTypeOK' /\ ReconcilerTypeOK' /\ PollTypeOK'
  BY DEF TypeOK, ledgerVars, nftVars, hostVars, reconcilerVars, pollVars, countVars,
         historyVars, LedgerTypeOK, NftTypeOK, HostTypeOK, ReconcilerTypeOK, PollTypeOK
<1>2. evlog[cursor] \in Event
  BY DEF Control, TypeOK, PollTypeOK, LedgerTypeOK
<1>3. event' = evlog[cursor] /\ hpc' \in {"decrypt", "extend", "cleanup"}
  BY <1>2 DEF Handle, Event, EventType
<1>4. HandlerTypeOK'
  BY <1>2, <1>3 DEF TypeOK, HandlerTypeOK, Handle, HandlerPc, CreateStep
<1>5. Control'
  BY <1>2, <1>3 DEF Control, ledgerVars, hostVars, reconcilerVars, pollVars
<1>6. QED BY <1>1, <1>4, <1>5 DEF TypeOK

LEMMA RunHandlerType ==
  ASSUME TypeInv, RunHandler PROVE TypeInv'
<1> USE DEF TypeInv, RunHandler
<1>1. LedgerTypeOK' /\ ReconcilerTypeOK'
  BY DEF TypeOK, ledgerVars, reconcilerVars, LedgerTypeOK, ReconcilerTypeOK
<1>2. NftTypeOK' /\ HostTypeOK' /\ HandlerTypeOK'
  BY HandlerType DEF TypeOK, Control
<1>3. PollTypeOK'
  <2>1. cursor \in 0 .. MaxEvents
    BY LedgerAssumption DEF TypeOK, PollTypeOK, LedgerTypeOK, Control
  <2>2. cursor' \in 0 .. MaxEvents + 1 /\ handled' \in [Block -> Nat]
    BY LedgerAssumption, <2>1 DEF TypeOK, PollTypeOK
  <2>3. QED BY <2>2 DEF TypeOK, PollTypeOK, countVars
<1>4. Control'
  <2>1. owners = {} /\ owners' = {} /\ rpc = "idle" /\ rpc' = "idle"
    BY DEF Control, reconcilerVars, TypeOK, ReconcilerTypeOK
  <2>2. pc = "logs" /\ pc' = "logs" /\ cursor' >= 1
    BY DEF Control, TypeOK, PollTypeOK
  <2>3. hpc' # "idle" => cursor' <= toBlock' /\ event' \in Event
    BY HandlerControl DEF Control
  <2>4. QED BY <2>1, <2>2, <2>3 DEF Control, ledgerVars
<1>5. QED BY <1>1, <1>2, <1>3, <1>4 DEF TypeOK

(* The steps of the reconciler. *)
LEMMA StartReconciliationType ==
  ASSUME TypeInv, StartReconciliation PROVE TypeInv'
<1> USE DEF TypeInv, StartReconciliation
<1>1. LedgerTypeOK' /\ NftTypeOK' /\ HostTypeOK' /\ HandlerTypeOK' /\ PollTypeOK'
  BY DEF TypeOK, ledgerVars, nftVars, hostVars, handlerVars, countVars, historyVars,
         LedgerTypeOK, NftTypeOK, HostTypeOK, HandlerTypeOK, PollTypeOK
<1>2. ReconcilerTypeOK'
  BY DEF TypeOK, ReconcilerTypeOK, ReconcilerPc, StartPass
<1>3. Control'
  BY DEF Control, StartPass, ledgerVars, hostVars, handlerVars
<1>4. QED BY <1>1, <1>2, <1>3 DEF TypeOK

LEMMA RunReconcilerType ==
  ASSUME TypeInv, RunReconciler PROVE TypeInv'
<1> USE DEF TypeInv, RunReconciler
<1>1. LedgerTypeOK' /\ NftTypeOK' /\ HandlerTypeOK' /\ PollTypeOK'
  BY DEF TypeOK, ledgerVars, nftVars, handlerVars, countVars, historyVars,
         LedgerTypeOK, NftTypeOK, HandlerTypeOK, PollTypeOK
<1>2. HostTypeOK' /\ ReconcilerTypeOK'
  BY ReconcilerType DEF TypeOK
<1>3. Control'
  <2>1. \A v \in owners' : db'[v].minted /\ db'[v].token # NoToken
    BY ReconcilerControl DEF Control, TypeOK, ReconcilerTypeOK
  <2>2. rpc' \in {"idle", "push", "setPushed"} => owners' = {}
    BY ReconcilerControl
  <2>3. QED BY <2>1, <2>2 DEF Control, ledgerVars, handlerVars
<1>4. QED BY <1>1, <1>2, <1>3 DEF TypeOK

LEMMA CrashType ==
  ASSUME TypeInv, Crash PROVE TypeInv'
<1> USE DEF TypeInv, Crash
<1>1. LedgerTypeOK' /\ NftTypeOK'
  BY DEF TypeOK, ledgerVars, nftVars, LedgerTypeOK, NftTypeOK
<1>2. HostTypeOK' BY DEF TypeOK, HostTypeOK
<1>3. HandlerTypeOK' /\ ReconcilerTypeOK'
  BY DEF HandlerTypeOK, HandlerPc, ReconcilerTypeOK, ReconcilerPc, Return
<1>4. PollTypeOK'
  BY LedgerAssumption, MonitorAssumption DEF TypeOK, PollTypeOK, historyVars
<1>5. Control'
  BY DEF Control, Return, ledgerVars, TypeOK, LedgerTypeOK
<1>6. QED BY <1>1, <1>2, <1>3, <1>4, <1>5 DEF TypeOK

(* The steps of the chain, of the wallets and of the garbage collector. *)
LEMMA EnvironmentType ==
  ASSUME TypeInv, ChainStep \/ TransferNft \/ ForeignMint \/ GarbageCollect
  PROVE  TypeInv'
<1> USE DEF TypeInv
<1>1. HandlerTypeOK' /\ ReconcilerTypeOK'
  BY DEF ChainStep, TransferNft, ForeignMint, GarbageCollect, handlerVars, reconcilerVars,
         TypeOK, HandlerTypeOK, ReconcilerTypeOK
<1>2. PollTypeOK'
  <2>1. CASE ChainStep \/ TransferNft \/ GarbageCollect
    BY <2>1 DEF ChainStep, TransferNft, GarbageCollect, pollVars, countVars, historyVars,
                TypeOK, PollTypeOK
  <2>2. CASE ForeignMint
    BY <2>2, MonitorAssumption DEF ForeignMint, pollVars, historyVars, TypeOK, PollTypeOK
  <2>3. QED BY <2>1, <2>2
<1>3. LedgerTypeOK' /\ Len(evlog') <= MaxEvents /\ Len(evlog') >= Len(evlog)
  <2>1. CASE ChainStep BY <2>1, LedgerStep DEF ChainStep, TypeOK, Control
  <2>2. CASE TransferNft \/ ForeignMint \/ GarbageCollect
    BY <2>2 DEF TransferNft, ForeignMint, GarbageCollect, ledgerVars, TypeOK,
                LedgerTypeOK, Control
  <2>3. QED BY <2>1, <2>2
<1>4. NftTypeOK'
  <2>1. CASE ChainStep \/ GarbageCollect
    BY <2>1 DEF ChainStep, GarbageCollect, nftVars, TypeOK, NftTypeOK
  <2>2. CASE TransferNft BY <2>2, TransferType DEF TransferNft, TypeOK
  <2>3. CASE ForeignMint
    BY <2>3, MintType, WalletsAssumption DEF ForeignMint, TypeOK
  <2>4. QED BY <2>1, <2>2, <2>3
<1>5. HostTypeOK' /\ \A v \in Vm : db'[v].minted = db[v].minted /\ db'[v].token = db[v].token
  <2>1. CASE ChainStep \/ TransferNft \/ ForeignMint
    BY <2>1 DEF ChainStep, TransferNft, ForeignMint, hostVars, TypeOK, HostTypeOK
  <2>2. ASSUME NEW v \in Vm, GcSuspend(v) \/ GcDestroy(v)
        PROVE  HostTypeOK' /\ \A w \in Vm : db'[w].minted = db[w].minted /\ db'[w].token = db[w].token
    <3>1. HostTypeOK' BY <2>2, StatusType DEF TypeOK, Outcome
    <3>2. db \in [Vm -> Record] BY DEF TypeOK, HostTypeOK
    <3>3. QED BY <2>2, <3>1, <3>2 DEF GcSuspend, GcDestroy, Record
  <2>3. QED BY <2>1, <2>2 DEF GarbageCollect
<1>6. Control'
  <2>1. UNCHANGED <<hpc, event, rpc, owners, pc, toBlock, cursor>>
    BY DEF ChainStep, TransferNft, ForeignMint, GarbageCollect, handlerVars, reconcilerVars,
           pollVars
  <2>2. toBlock' <= Len(evlog')
    BY <1>3, <2>1 DEF Control, TypeOK, LedgerTypeOK, PollTypeOK
  <2>3. \A v \in owners' : db'[v].minted /\ db'[v].token # NoToken
    BY <1>5, <2>1 DEF Control, TypeOK, ReconcilerTypeOK
  <2>4. QED BY <1>3, <2>1, <2>2, <2>3 DEF Control
<1>7. QED BY <1>1, <1>2, <1>3, <1>4, <1>5, <1>6 DEF TypeOK

LEMMA TypeInvStep == TypeInv /\ [Next]_vars => TypeInv'
<1> SUFFICES ASSUME TypeInv, [Next]_vars PROVE TypeInv' OBVIOUS
<1>1. CASE StartMonitor \/ Poll \/ EndLogs \/ EndPoll \/ AdminError \/ SkipReconciliation
  BY <1>1, PollType DEF StartMonitor, Poll, EndLogs, EndPoll, AdminError, SkipReconciliation
<1>2. CASE DispatchLog BY <1>2, DispatchType
<1>3. CASE RunHandler BY <1>3, RunHandlerType
<1>4. CASE StartReconciliation BY <1>4, StartReconciliationType
<1>5. CASE RunReconciler BY <1>5, RunReconcilerType
<1>6. CASE Crash BY <1>6, CrashType
<1>7. CASE ChainStep \/ TransferNft \/ ForeignMint \/ GarbageCollect
  BY <1>7, EnvironmentType
<1>8. CASE UNCHANGED vars
  BY <1>8 DEF vars, ledgerVars, nftVars, hostVars, handlerVars, reconcilerVars, pollVars,
              countVars, historyVars, TypeInv, TypeOK, Control, LedgerTypeOK, NftTypeOK,
              HostTypeOK, HandlerTypeOK, ReconcilerTypeOK, PollTypeOK
<1>9. QED
  BY <1>1, <1>2, <1>3, <1>4, <1>5, <1>6, <1>7, <1>8 DEF Next, MonitorNext

(* Every variable keeps its type, and the monitor is in one place at a     *)
(* time (monitor/index.ts awaits each handler and each pass).              *)
THEOREM TypeInvariant == Spec => []TypeInv
<1>1. QED BY TypeInvInit, TypeInvStep, PTL DEF Spec

THEOREM TypeCorrect == Spec => []TypeOK
<1>1. TypeInv => TypeOK BY DEF TypeInv
<1>2. QED BY TypeInvariant, <1>1, PTL

-------------------------------------------------------------------------------
(* The gecos_synced flag *)

(* Steps that leave the login of every machine, and its link to a token,   *)
(* as they are.                                                            *)
LoginKept ==
  \A w \in Vm : /\ db'[w].owner = db[w].owner
                /\ db'[w].gecosSynced = db[w].gecosSynced
                /\ guest'[w].gecos = guest[w].gecos
LinkKept ==
  \A w \in Vm : /\ db'[w].minted = db[w].minted
                /\ db'[w].token = db[w].token
                /\ guest'[w].gecos = guest[w].gecos

LEMMA StatusKept ==
  ASSUME HostTypeOK, NEW v \in Vm, NEW o \in Outcome,
         VmDestroy(v, o) \/ VmResume(v, o) \/ GcSuspend(v) \/ GcDestroy(v)
  PROVE  LoginKept /\ LinkKept
<1>1. \E st \in Status : db' = [db EXCEPT ![v].status = st] \/ db' = db
  BY DEF VmDestroy, VmResume, GcSuspend, GcDestroy, Status
<1>2. guest' = guest
  BY DEF VmDestroy, VmResume, GcSuspend, GcDestroy
<1>3. db \in [Vm -> Record] BY DEF HostTypeOK
<1>4. QED BY <1>1, <1>2, <1>3 DEF LoginKept, LinkKept, Record

LEMMA NetKept ==
  ASSUME HostTypeOK, NEW v \in Vm, NEW o \in Outcome,
         PushVmConfig(v, o) \/ NetworkCleanup(v, o)
  PROVE  LoginKept /\ LinkKept
<1>1. \E b \in BOOLEAN : guest' = [guest EXCEPT ![v].net = b] \/ guest' = guest
  BY DEF PushVmConfig, NetworkCleanup
<1>2. db' = db
  BY DEF PushVmConfig, NetworkCleanup
<1>3. guest \in [Vm -> Guest] BY DEF HostTypeOK
<1>4. QED BY <1>1, <1>2, <1>3 DEF LoginKept, LinkKept, Guest

LEMMA NetFlagKept ==
  ASSUME HostTypeOK, NEW v \in Vm, NEW o \in Outcome, NEW f \in Flag,
         UpdateRecord(v, [db[v] EXCEPT !.netSynced = f], o)
  PROVE  LoginKept /\ LinkKept
<1>1. db \in [Vm -> Record] BY DEF HostTypeOK
<1>2. db' = [db EXCEPT ![v].netSynced = f] \/ db' = db
  BY <1>1 DEF UpdateRecord
<1>3. guest' = guest BY DEF UpdateRecord
<1>4. QED BY <1>1, <1>2, <1>3 DEF LoginKept, LinkKept, Record

LEMMA FirstUnique ==
  ASSUME NEW S \in SUBSET Vm, NEW v \in Vm, NEW w \in Vm, IsFirst(v, S), IsFirst(w, S)
  PROVE  v = w
BY WalletsAssumption DEF IsFirst, Vm, Sub

(* A handler step: the reconciler is idle, and a record in the making has  *)
(* no flag.                                                                *)
LEMMA HandlerGecos ==
  ASSUME TypeInv, GecosInv, RunHandler
  PROVE  GecosInv'
<1> USE DEF TypeInv, AfterCreate
<1>0. /\ HandlerNext /\ event \in Event /\ event.sub \in Vm /\ event.who \in Owner
      /\ rpc' = "idle"
      /\ HostTypeOK /\ db \in [Vm -> Record] /\ guest \in [Vm -> Guest]
  BY DEF RunHandler, Control, Event, Vm, TypeOK, HostTypeOK, ReconcilerTypeOK, reconcilerVars
<1> SUFFICES /\ GecosFlagSound'
             /\ hpc' \in AfterCreate => db'[event'.sub].gecosSynced = "unset"
  BY <1>0 DEF GecosInv
<1>a. ASSUME LoginKept PROVE GecosFlagSound'
  BY <1>a DEF LoginKept, GecosInv, GecosFlagSound
<1>b. hpc' # "idle" => event' = event BY <1>0, HandlerControl
<1>c. ASSUME hpc \in AfterCreate \/ hpc' \notin AfterCreate, LoginKept
      PROVE  hpc' \in AfterCreate => db'[event'.sub].gecosSynced = "unset"
  BY <1>0, <1>b, <1>c DEF LoginKept, GecosInv
<1>1. CASE DecryptSignature \/ StartCreate \/ ResolveAddress \/ QuerySupply \/ ExtendExpiry
  <2>1. LoginKept
    BY <1>1 DEF DecryptSignature, StartCreate, ResolveAddress, QuerySupply, ExtendExpiry,
                hostVars, LoginKept
  <2>2. hpc \in AfterCreate \/ hpc' \notin AfterCreate
    BY <1>1 DEF DecryptSignature, StartCreate, ResolveAddress, QuerySupply, ExtendExpiry,
                Goto, Return
  <2>3. QED BY <1>a, <1>c, <2>1, <2>2
<1>2. ASSUME NEW o \in Outcome, FinishCreate(o)
      PROVE  GecosFlagSound' /\ (hpc' \in AfterCreate => db'[event'.sub].gecosSynced = "unset")
  <2>1. CASE Applied(o)
    <3>1. /\ db' = [db EXCEPT ![event.sub] = FreshRecord("active", event.who)]
          /\ guest' = [guest EXCEPT ![event.sub] = FreshGuest]
      BY <1>2, <2>1 DEF FinishCreate, VmCreate
    <3>2. db'[event.sub].gecosSynced = "unset"
      BY <1>0, <3>1 DEF FreshRecord
    <3>3. \A v \in Vm : v # event.sub => db'[v] = db[v] /\ guest'[v] = guest[v]
      BY <1>0, <3>1
    <3>4. GecosFlagSound'
      BY <3>2, <3>3 DEF GecosInv, GecosFlagSound
    <3>5. QED BY <1>b, <3>2, <3>4
  <2>2. CASE ~Applied(o)
    <3>1. LoginKept BY <1>2, <2>2 DEF FinishCreate, VmCreate, LoginKept
    <3>2. hpc' = "idle" BY <1>2, <2>2 DEF FinishCreate, Applied, Reported, Return
    <3>3. QED BY <1>a, <3>1, <3>2
  <2>3. QED BY <2>1, <2>2
<1>3. ASSUME NEW o \in Outcome, SetGecos(o)
      PROVE  GecosFlagSound' /\ (hpc' \in AfterCreate => db'[event'.sub].gecosSynced = "unset")
  <2>1. db' = db /\ event' = event /\ hpc = "gecos"
    BY <1>3 DEF SetGecos, UpdateGecos, Goto
  <2>2. db'[event'.sub].gecosSynced = "unset"
    BY <2>1 DEF GecosInv
  <2>3. \A v \in Vm : v # event.sub => guest'[v] = guest[v]
    BY <1>3, <1>0 DEF SetGecos, UpdateGecos
  <2>4. QED BY <2>1, <2>2, <2>3 DEF GecosInv, GecosFlagSound
<1>4. ASSUME NEW o \in Outcome, MarkMinted(o)
      PROVE  GecosFlagSound' /\ (hpc' \in AfterCreate => db'[event'.sub].gecosSynced = "unset")
  <2>1. guest' = guest /\ hpc' = "idle"
    BY <1>4 DEF MarkMinted, UpdateRecord, Return
  <2>2. \/ db' = [db EXCEPT ![event.sub] = [db[event.sub] EXCEPT !.minted = TRUE, !.token = tokenId]]
        \/ db' = db
    BY <1>4 DEF MarkMinted, UpdateRecord
  <2>3. LoginKept
    <3> DEFINE r == [db[event.sub] EXCEPT !.minted = TRUE, !.token = tokenId]
    <3>1. db[event.sub] \in Record BY <1>0
    <3>2. r.owner = db[event.sub].owner /\ r.gecosSynced = db[event.sub].gecosSynced
      BY <3>1 DEF Record
    <3> HIDE DEF r
    <3>3. \/ db' = [db EXCEPT ![event.sub] = r]
          \/ db' = db
      BY <2>2 DEF r
    <3>4. QED BY <1>0, <2>1, <3>2, <3>3 DEF LoginKept
  <2>4. QED BY <1>a, <2>1, <2>3
<1>5. ASSUME NEW o \in Outcome, SendMint(o)
      PROVE  LoginKept /\ (hpc \in AfterCreate \/ hpc' \notin AfterCreate)
  BY <1>5 DEF SendMint, hostVars, LoginKept
<1>6. ASSUME NEW o \in Outcome, PushConfig(o) \/ CleanupNetwork(o)
      PROVE  LoginKept /\ (hpc \in AfterCreate \/ hpc' \notin AfterCreate)
  BY <1>0, <1>6, NetKept DEF PushConfig, CleanupNetwork, Goto
<1>7. ASSUME NEW o \in Outcome, RecordPush(o)
      PROVE  LoginKept /\ (hpc \in AfterCreate \/ hpc' \notin AfterCreate)
  <2>1. (IF pushed THEN "true" ELSE "false") \in Flag BY DEF Flag
  <2>2. QED BY <1>0, <1>7, <2>1, NetFlagKept DEF RecordPush
<1>8. ASSUME NEW o \in Outcome, ResumeVm(o) \/ DestroyVm(o)
      PROVE  LoginKept /\ (hpc \in AfterCreate \/ hpc' \notin AfterCreate)
  BY <1>0, <1>8, StatusKept DEF ResumeVm, DestroyVm, Return
<1>9. QED
  BY <1>0, <1>a, <1>c, <1>1, <1>2, <1>3, <1>4, <1>5, <1>6, <1>7, <1>8 DEF HandlerNext

(* A step of the reconciler: no handler runs, and the flag is set last.    *)
LEMMA ReconcilerGecos ==
  ASSUME TypeInv, GecosInv, RunReconciler
  PROVE  GecosInv'
<1> USE DEF TypeInv
<1>0. /\ ReconcilerNext /\ hpc' = "idle" /\ hpc' \notin AfterCreate
      /\ HostTypeOK /\ db \in [Vm -> Record] /\ guest \in [Vm -> Guest]
      /\ owners \in SUBSET Vm
  BY DEF RunReconciler, Control, TypeOK, HostTypeOK, HandlerTypeOK, ReconcilerTypeOK,
         handlerVars, AfterCreate
<1> DEFINE G3 == rpc \in {"setGecos", "setSynced"} =>
                   \A v \in Vm : IsFirst(v, owners) => db[v].owner = wallet
           G4 == rpc = "setSynced" =>
                   \A v \in Vm : IsFirst(v, owners) => guest[v].gecos = wallet
<1> SUFFICES GecosFlagSound' /\ G3' /\ G4'
  BY <1>0 DEF GecosInv
<1>a. ASSUME LoginKept PROVE GecosFlagSound'
  BY <1>a DEF LoginKept, GecosInv, GecosFlagSound
<1>b. ASSUME rpc' \notin {"setGecos", "setSynced"} PROVE G3' /\ G4'
  BY <1>b
<1>1. CASE EndOwners \/ EndPass
  BY <1>1, <1>a, <1>b DEF EndOwners, EndPass, hostVars, LoginKept
<1>2. ASSUME NEW v \in Vm, NEW answered \in BOOLEAN, CheckOwner(v, answered)
      PROVE  GecosFlagSound' /\ G3' /\ G4'
  <2>1. db' = db /\ guest' = guest /\ IsFirst(v, owners)
    BY <1>2 DEF CheckOwner, hostVars
  <2>2. GecosFlagSound' BY <2>1, <1>a DEF LoginKept
  <2>3. rpc' # "setSynced" BY <1>2 DEF CheckOwner, NextOwner
  <2>4. G3'
    <3>1. rpc' = "setGecos" => wallet' = db[v].owner /\ owners' = owners
      BY <1>2 DEF CheckOwner, NextOwner
    <3>2. QED BY <1>0, <2>1, <2>3, <3>1, FirstUnique
  <2>5. QED BY <2>2, <2>3, <2>4
<1>3. ASSUME NEW v \in Vm, NEW o \in Outcome, SetOwner(v, o)
      PROVE  GecosFlagSound' /\ G3' /\ G4'
  <2>0. IsFirst(v, owners) BY <1>3 DEF SetOwner
  <2>1. guest' = guest
    BY <1>3 DEF SetOwner, UpdateRecord
  <2>2. CASE Applied(o)
    <3>1. db' = [db EXCEPT ![v] = [db[v] EXCEPT !.owner = wallet, !.gecosSynced = "false"]]
      BY <1>3, <2>2 DEF SetOwner, UpdateRecord
    <3>2. db'[v].owner = wallet /\ db'[v].gecosSynced = "false"
      BY <1>0, <3>1 DEF Record
    <3>3. \A w \in Vm : w # v => db'[w] = db[w] BY <1>0, <3>1
    <3>4. GecosFlagSound' BY <2>1, <3>2, <3>3 DEF GecosInv, GecosFlagSound
    <3>5. /\ rpc' # "setSynced"
          /\ rpc' = "setGecos" => wallet' = wallet /\ owners' = owners
      BY <1>3 DEF SetOwner, OwnerStep, NextOwner
    <3>6. QED BY <1>0, <2>0, <3>2, <3>4, <3>5, FirstUnique
  <2>3. CASE ~Applied(o)
    <3>1. db' = db BY <1>3, <2>3 DEF SetOwner, UpdateRecord
    <3>2. rpc' = "owner"
      BY <1>3, <2>3 DEF SetOwner, OwnerStep, NextOwner, Applied, Reported
    <3>3. QED BY <1>a, <1>b, <2>1, <3>1, <3>2 DEF LoginKept
  <2>4. QED BY <2>2, <2>3
<1>4. ASSUME NEW v \in Vm, NEW o \in Outcome, ReconcileGecos(v, o)
      PROVE  GecosFlagSound' /\ G3' /\ G4'
  <2>1. /\ IsFirst(v, owners) /\ rpc = "setGecos" /\ db' = db
        /\ guest' = IF Applied(o) THEN [guest EXCEPT ![v].gecos = wallet] ELSE guest
    BY <1>4 DEF ReconcileGecos, UpdateGecos
  <2>2. db[v].owner = wallet BY <2>1 DEF GecosInv
  <2>3. Applied(o) => guest'[v].gecos = wallet BY <1>0, <2>1 DEF Guest
  <2>4. \A w \in Vm : w # v => guest'[w] = guest[w] BY <1>0, <2>1
  <2>5. GecosFlagSound'
    <3>1. \A w \in Vm : w # v /\ db'[w].gecosSynced = "true" => guest'[w].gecos = db'[w].owner
      BY <2>1, <2>4 DEF GecosInv, GecosFlagSound
    <3>2. db'[v].gecosSynced = "true" => guest'[v].gecos = db'[v].owner
      BY <2>1, <2>2, <2>3 DEF GecosInv, GecosFlagSound
    <3>3. QED BY <3>1, <3>2 DEF GecosFlagSound
  <2>6. rpc' \in {"setGecos", "setSynced"} =>
          Reported(o) /\ owners' = owners /\ wallet' = wallet
    BY <1>4 DEF ReconcileGecos, OwnerStep, NextOwner
  <2>7. Reported(o) => Applied(o) BY DEF Reported, Applied
  <2>8. G3' BY <1>0, <2>1, <2>2, <2>6, FirstUnique
  <2>9. G4' BY <1>0, <2>1, <2>3, <2>6, <2>7, FirstUnique
  <2>10. QED BY <2>5, <2>8, <2>9
<1>5. ASSUME NEW v \in Vm, NEW o \in Outcome, SetSynced(v, o)
      PROVE  GecosFlagSound' /\ G3' /\ G4'
  <2>1. /\ IsFirst(v, owners) /\ rpc = "setSynced" /\ guest' = guest /\ rpc' = "owner"
        /\ \/ db' = [db EXCEPT ![v] = [db[v] EXCEPT !.gecosSynced = "true"]]
           \/ db' = db
    BY <1>5 DEF SetSynced, UpdateRecord, NextOwner
  <2>2. guest[v].gecos = db[v].owner BY <2>1 DEF GecosInv
  <2>3. \A w \in Vm : db'[w].owner = db[w].owner BY <1>0, <2>1 DEF Record
  <2>4. \A w \in Vm : w # v => db'[w] = db[w] BY <1>0, <2>1
  <2>5. GecosFlagSound' BY <2>1, <2>2, <2>3, <2>4 DEF GecosInv, GecosFlagSound
  <2>6. QED BY <1>b, <2>1, <2>5
<1>6. ASSUME NEW v \in Vm, NEW o \in Outcome, RetryPush(v, o) \/ SetPushed(v, o)
      PROVE  GecosFlagSound' /\ G3' /\ G4'
  <2>1. LoginKept
    <3>1. "true" \in Flag BY DEF Flag
    <3>2. QED BY <1>0, <1>6, <3>1, NetKept, NetFlagKept DEF RetryPush, SetPushed
  <2>2. rpc' \notin {"setGecos", "setSynced"}
    BY <1>6 DEF RetryPush, SetPushed, NextPush
  <2>3. QED BY <1>a, <1>b, <2>1, <2>2
<1>7. QED BY <1>0, <1>1, <1>2, <1>3, <1>4, <1>5, <1>6 DEF ReconcilerNext

LEMMA GecosInit == Init => GecosInv
BY DEF Init, GecosInv, GecosFlagSound, HostInit, HandlerInit, ReconcilerInit, FreshRecord,
       AfterCreate

LEMMA GecosStep == TypeInv /\ GecosInv /\ [Next]_vars => GecosInv'
<1> SUFFICES ASSUME TypeInv, GecosInv, [Next]_vars PROVE GecosInv' OBVIOUS
<1>1. CASE RunHandler BY <1>1, HandlerGecos
<1>2. CASE RunReconciler BY <1>2, ReconcilerGecos
<1>3. CASE UNCHANGED <<db, guest, hpc, event, rpc, owners, wallet>>
  BY <1>3 DEF GecosInv, GecosFlagSound
<1>4. CASE DispatchLog
  <2>1. evlog[cursor] \in Event
    BY <1>4 DEF DispatchLog, TypeInv, Control, TypeOK, PollTypeOK, LedgerTypeOK
  <2>2. hpc' \notin AfterCreate
    BY <1>4, <2>1 DEF DispatchLog, Handle, AfterCreate, Event, EventType
  <2>3. QED
    BY <1>4, <2>2 DEF DispatchLog, hostVars, reconcilerVars, GecosInv, GecosFlagSound
<1>5. CASE StartReconciliation
  BY <1>5 DEF StartReconciliation, StartPass, hostVars, handlerVars, GecosInv, GecosFlagSound
<1>6. CASE Crash
  BY <1>6 DEF Crash, Return, GecosInv, GecosFlagSound, AfterCreate
<1>7. CASE GarbageCollect
  <2>1. PICK v \in Vm : GcSuspend(v) \/ GcDestroy(v) BY <1>7 DEF GarbageCollect
  <2>2. LoginKept BY <2>1, StatusKept DEF TypeInv, TypeOK, Outcome
  <2>3. UNCHANGED <<hpc, event, rpc, owners, wallet>>
    BY <1>7 DEF GarbageCollect, handlerVars, reconcilerVars
  <2>4. hpc \in AfterCreate => event.sub \in Vm
    BY DEF AfterCreate, TypeInv, Control, Event, Vm
  <2>5. QED BY <2>2, <2>3, <2>4 DEF LoginKept, GecosInv, GecosFlagSound
<1>8. QED
  BY <1>1, <1>2, <1>3, <1>4, <1>5, <1>6, <1>7
  DEF Next, MonitorNext, StartMonitor, Poll, EndLogs, EndPoll, AdminError,
      SkipReconciliation, ChainStep, TransferNft, ForeignMint, vars, hostVars,
      handlerVars, reconcilerVars

(* GecosFlagSound for every number of machines, wallets, crashes and       *)
(* failures (reconcileOwnership in reconcile/index.ts).                    *)
THEOREM GecosFlagCorrect == Spec => []GecosFlagSound
<1>1. GecosInv => GecosFlagSound BY DEF GecosInv
<1>2. QED BY TypeInvariant, GecosInit, GecosStep, <1>1, PTL DEF Spec

-------------------------------------------------------------------------------
(* Machines and tokens *)

OwnersHeld == \A t \in TokenId : t < nextTokenId => nftOwner[t] \in everHeld[t]

(* Tokens are only added: what a token was minted for stays, and so does   *)
(* everybody who ever held it.                                             *)
NftGrows ==
  /\ nextTokenId' >= nextTokenId /\ foreignMints' >= foreignMints
  /\ \A t \in TokenId : t < nextTokenId =>
       mintedFor'[t] = mintedFor[t] /\ everHeld[t] \subseteq everHeld'[t]
NftKept == UNCHANGED <<nextTokenId, nftOwner, mintedFor, everHeld, foreignMints>>

LEMMA MintLink ==
  ASSUME NftTypeOK, OwnersHeld, NEW u \in Owner, NEW w \in 0 .. MaxSubs, Mint(u, w),
         foreignMints \in Nat, foreignMints' \in Nat, foreignMints' >= foreignMints
  PROVE  /\ OwnersHeld' /\ NftGrows
         /\ nextTokenId \in TokenId /\ nextTokenId' = nextTokenId + 1
         /\ mintedFor'[nextTokenId] = w /\ everHeld'[nextTokenId] = {u}
BY NftAssumption DEF NftTypeOK, OwnersHeld, NftGrows, Mint, TokenId

LEMMA TransferLink ==
  ASSUME NftTypeOK, OwnersHeld, NEW t \in TokenId, NEW u \in Owner, Transfer(t, u),
         foreignMints \in Nat, foreignMints' = foreignMints
  PROVE  OwnersHeld' /\ NftGrows /\ nextTokenId' = nextTokenId
BY NftAssumption DEF NftTypeOK, OwnersHeld, NftGrows, Transfer, TokenId

LEMMA KeptLink ==
  ASSUME NftTypeOK, OwnersHeld, foreignMints \in Nat, NftKept
  PROVE  OwnersHeld' /\ NftGrows /\ nextTokenId' = nextTokenId
BY NftAssumption DEF NftTypeOK, OwnersHeld, NftGrows, NftKept, TokenId

LEMMA LinkedGrows ==
  ASSUME NftTypeOK, NftTypeOK', foreignMints \in Nat, foreignMints' \in Nat, NftGrows,
         NEW t, NEW v \in Vm
  PROVE  /\ Linked(t, v) => Linked(t, v)'
         /\ \A u : HoldsFor(v, u, t) => HoldsFor(v, u, t)'
<1>1. Linked(t, v) => Linked(t, v)'
  BY DEF NftGrows, Linked, Serves, TokenId, NftTypeOK
<1>2. ASSUME NEW u, HoldsFor(v, u, t) PROVE HoldsFor(v, u, t)'
  BY <1>1, <1>2 DEF NftGrows, HoldsFor, Linked, TokenId, NftTypeOK
<1>3. QED BY <1>1, <1>2

(* The host part of LinkInv, and the part that follows the handler. *)
RecordsLinked == \A v \in Vm : db[v].minted => Linked(db[v].token, v)
LoginsHeld ==
  \A v \in Vm : guest[v].gecos # NoOwner => \E t \in TokenId : HoldsFor(v, guest[v].gecos, t)
HandlerLink ==
  /\ hpc \in AfterSupply \cup {"supply"} =>
       \E t \in TokenId : HoldsFor(event.sub, event.who, t)
  /\ hpc = "supply" => Linked(nextTokenId - 1, event.sub)
  /\ hpc \in AfterSupply => Linked(tokenId, event.sub)
ReconcilerLink ==
  rpc \in {"setOwner", "setGecos"} =>
    \A v \in Vm : IsFirst(v, owners) => HoldsFor(v, wallet, db[v].token)

LEMMA LinkInvParts ==
  LinkInv <=> OwnersHeld /\ RecordsLinked /\ LoginsHeld /\ HandlerLink /\ ReconcilerLink
BY DEF LinkInv, OwnersHeld, RecordsLinked, LoginsHeld, HandlerLink, ReconcilerLink

(* A step that leaves machines and their links alone keeps what is said of *)
(* them, however the tokens grow.                                          *)
LEMMA HostLink ==
  ASSUME NftTypeOK, NftTypeOK', foreignMints \in Nat, foreignMints' \in Nat, NftGrows,
         LinkKept, RecordsLinked, LoginsHeld
  PROVE  RecordsLinked' /\ LoginsHeld'
<1>1. RecordsLinked'
  BY LinkedGrows DEF RecordsLinked, LinkKept
<1>2. LoginsHeld'
  <2> SUFFICES ASSUME NEW v \in Vm, guest'[v].gecos # NoOwner
               PROVE  \E t \in TokenId : Linked(t, v)' /\ guest'[v].gecos \in everHeld'[t]
    BY DEF LoginsHeld, HoldsFor
  <2>1. guest[v].gecos # NoOwner /\ guest'[v].gecos = guest[v].gecos BY DEF LinkKept
  <2>2. PICK t \in TokenId : HoldsFor(v, guest[v].gecos, t) BY <2>1 DEF LoginsHeld
  <2>3. t \in TokenId /\ t < nextTokenId' /\ Linked(t, v)' /\ guest[v].gecos \in everHeld'[t]
    BY <2>2, LinkedGrows DEF HoldsFor, Linked
  <2>4. QED BY <2>1, <2>3
<1>3. QED BY <1>1, <1>2

(* What the handler knows of its token survives any growth of the tokens,  *)
(* and so does what the reconciler knows.                                  *)
LEMMA EventHolds ==
  ASSUME NftTypeOK, NftTypeOK', foreignMints \in Nat, foreignMints' \in Nat, NftGrows,
         event.sub \in Vm, event' = event
  PROVE  /\ (\E t \in TokenId : HoldsFor(event.sub, event.who, t))
              => (\E t \in TokenId : HoldsFor(event.sub, event.who, t))'
         /\ tokenId' = tokenId /\ Linked(tokenId, event.sub) => Linked(tokenId, event.sub)'
<1>1. ASSUME NEW t \in TokenId, HoldsFor(event.sub, event.who, t)
      PROVE  (\E s \in TokenId : HoldsFor(event.sub, event.who, s))'
  <2> DEFINE v == event.sub
             u == event.who
  <2>1. t < nextTokenId' /\ everHeld[t] \subseteq everHeld'[t] /\ mintedFor'[t] = mintedFor[t]
    BY <1>1 DEF HoldsFor, Linked, NftGrows, NftTypeOK, TokenId
  <2>2. u \in everHeld'[t] BY <1>1, <2>1 DEF HoldsFor
  <2>3. v' = v /\ u' = u OBVIOUS
  <2>4. Serves(t, event.sub)'
    BY <1>1, <2>1, <2>3 DEF HoldsFor, Linked, Serves, NftGrows
  <2>5. QED BY <2>1, <2>2, <2>3, <2>4 DEF HoldsFor, Linked
<1>2. ASSUME tokenId' = tokenId, Linked(tokenId, event.sub)
      PROVE  Linked(tokenId, event.sub)'
  BY <1>2 DEF Linked, Serves, NftGrows, NftTypeOK, TokenId
<1>3. QED BY <1>1, <1>2

LEMMA ReconcilerLinkKept ==
  ASSUME NftTypeOK, NftTypeOK', foreignMints \in Nat, foreignMints' \in Nat, NftGrows,
         LinkKept, UNCHANGED <<rpc, owners, wallet>>, ReconcilerLink
  PROVE  ReconcilerLink'
<1> SUFFICES ASSUME rpc \in {"setOwner", "setGecos"}, NEW v \in Vm, IsFirst(v, owners)
             PROVE  HoldsFor(v, wallet, db[v].token)'
  BY DEF ReconcilerLink, IsFirst
<1>1. HoldsFor(v, wallet, db[v].token) BY DEF ReconcilerLink
<1>2. db'[v].token = db[v].token BY DEF LinkKept
<1>3. QED BY <1>1, <1>2 DEF HoldsFor, Linked, Serves, NftGrows, NftTypeOK, TokenId

(* What TypeInv says of the parts the following lemmas use. *)
LEMMA LinkTypes ==
  TypeInv => /\ NftTypeOK /\ HostTypeOK /\ foreignMints \in Nat
             /\ db \in [Vm -> Record] /\ guest \in [Vm -> Guest]
             /\ owners \in SUBSET Vm
             /\ (hpc # "idle" => event \in Event /\ event.sub \in Vm /\ event.who \in Owner
                                 /\ event.sub \in 0 .. MaxSubs /\ rpc = "idle")
BY WalletsAssumption, MonitorAssumption
DEF TypeInv, TypeOK, HostTypeOK, PollTypeOK, ReconcilerTypeOK, Control, Event, Vm, Sub

(* A handler step. *)
LEMMA HandlerLinkStep ==
  ASSUME TypeInv, TypeInv', LinkInv, RunHandler
  PROVE  LinkInv'
<1>0. /\ HandlerNext /\ hpc # "idle" /\ foreignMints' = foreignMints
      /\ rpc' = rpc /\ NftTypeOK /\ NftTypeOK' /\ HostTypeOK
      /\ foreignMints \in Nat /\ foreignMints' \in Nat
      /\ db \in [Vm -> Record] /\ guest \in [Vm -> Guest]
      /\ event \in Event /\ event.sub \in Vm /\ event.who \in Owner
      /\ event.sub \in 0 .. MaxSubs /\ rpc = "idle"
  BY LinkTypes DEF RunHandler, reconcilerVars, countVars, TypeInv, TypeOK
<1>1. OwnersHeld /\ RecordsLinked /\ LoginsHeld /\ HandlerLink /\ ReconcilerLink'
  BY <1>0, LinkInvParts DEF ReconcilerLink
<1> SUFFICES OwnersHeld' /\ RecordsLinked' /\ LoginsHeld' /\ HandlerLink'
  BY <1>1 DEF LinkInv, OwnersHeld, RecordsLinked, LoginsHeld, HandlerLink, ReconcilerLink
<1> DEFINE Goal == OwnersHeld' /\ RecordsLinked' /\ LoginsHeld' /\ HandlerLink'
<1>a. ASSUME UNCHANGED nftVars
      PROVE  OwnersHeld' /\ NftGrows /\ nextTokenId' = nextTokenId
  BY <1>0, <1>1, <1>a, KeptLink DEF nftVars, NftKept
<1>b. ASSUME UNCHANGED nftVars, LinkKept
      PROVE  RecordsLinked' /\ LoginsHeld'
  BY <1>0, <1>1, <1>a, <1>b, HostLink
<1>c. ASSUME UNCHANGED nftVars, event' = event, tokenId' = tokenId, hpc \in AfterSupply,
             hpc' # "supply"
      PROVE  HandlerLink'
  <2>1. (\E t \in TokenId : HoldsFor(event.sub, event.who, t))'
    BY <1>0, <1>1, <1>a, <1>c, EventHolds DEF HandlerLink
  <2>2. Linked(tokenId, event.sub)'
    BY <1>0, <1>1, <1>a, <1>c, EventHolds DEF HandlerLink
  <2>3. QED BY <1>c, <2>1, <2>2 DEF HandlerLink
<1>d. ASSUME hpc' \notin AfterSupply \cup {"supply"}
      PROVE  HandlerLink'
  BY <1>d DEF HandlerLink
<1>2. CASE DecryptSignature \/ StartCreate \/ ResolveAddress \/ ExtendExpiry
  <2>1. LinkKept /\ UNCHANGED nftVars /\ hpc' \notin AfterSupply \cup {"supply"}
    BY <1>2 DEF DecryptSignature, StartCreate, ResolveAddress, ExtendExpiry, Goto, Return,
                hostVars, LinkKept, AfterSupply
  <2>2. QED BY <1>a, <1>b, <1>d, <2>1
<1>3. ASSUME NEW o \in Outcome, FinishCreate(o) PROVE Goal
  <2>1. UNCHANGED nftVars /\ hpc' \notin AfterSupply \cup {"supply"}
    BY <1>3 DEF FinishCreate, Goto, Return, AfterSupply
  <2>2. RecordsLinked' /\ LoginsHeld'
    <3>1. CASE ~Applied(o)
      <4>1. LinkKept BY <1>3, <3>1 DEF FinishCreate, VmCreate, LinkKept
      <4>2. QED BY <1>b, <2>1, <4>1
    <3>2. CASE Applied(o)
      <4>1. /\ db' = [db EXCEPT ![event.sub] = FreshRecord("active", event.who)]
            /\ guest' = [guest EXCEPT ![event.sub] = FreshGuest]
        BY <1>3, <3>2 DEF FinishCreate, VmCreate
      <4>2. db'[event.sub].minted = FALSE /\ guest'[event.sub].gecos = NoOwner
        BY <1>0, <4>1 DEF FreshRecord, FreshGuest
      <4>3. \A v \in Vm : v # event.sub => db'[v] = db[v] /\ guest'[v] = guest[v]
        BY <1>0, <4>1
      <4>4. RecordsLinked'
        BY <1>0, <1>1, <1>a, <2>1, <4>2, <4>3, LinkedGrows DEF RecordsLinked
      <4>5. LoginsHeld'
        BY <1>0, <1>1, <2>1, <4>2, <4>3 DEF LoginsHeld, HoldsFor, Linked, Serves, nftVars
      <4>6. QED BY <4>4, <4>5
    <3>3. QED BY <3>1, <3>2
  <2>3. QED BY <1>a, <1>d, <2>1, <2>2
<1>4. ASSUME NEW o \in Outcome, SendMint(o) PROVE Goal
  <2>1. LinkKept BY <1>4 DEF SendMint, hostVars, LinkKept
  <2>2. CASE ~Applied(o)
    <3>1. UNCHANGED nftVars /\ hpc' = "idle"
      BY <1>4, <2>2 DEF SendMint, Applied, Reported, Return
    <3>2. QED BY <1>a, <1>b, <1>d, <2>1, <3>1 DEF AfterSupply
  <2>3. CASE Applied(o)
    <3>1. Mint(event.who, event.sub) BY <1>4, <2>3 DEF SendMint
    <3>2. /\ OwnersHeld' /\ NftGrows
          /\ nextTokenId \in TokenId /\ nextTokenId' = nextTokenId + 1
          /\ mintedFor'[nextTokenId] = event.sub /\ everHeld'[nextTokenId] = {event.who}
      BY <1>0, <1>1, <3>1, MintLink
    <3>3. RecordsLinked' /\ LoginsHeld' BY <1>0, <1>1, <2>1, <3>2, HostLink
    <3>4. hpc' \in {"supply", "idle"} /\ (hpc' = "supply" => event' = event)
      BY <1>4 DEF SendMint, Goto, Return
    <3>5. HandlerLink'
      <4> SUFFICES ASSUME hpc' = "supply"
                   PROVE  /\ (\E t \in TokenId : HoldsFor(event.sub, event.who, t))'
                          /\ Linked(nextTokenId - 1, event.sub)'
        BY <3>4 DEF HandlerLink, AfterSupply
      <4>1. nextTokenId' - 1 = nextTokenId BY <3>2 DEF TokenId
      <4>2. Linked(nextTokenId - 1, event.sub)'
        BY <3>2, <3>4, <4>1 DEF Linked, Serves, TokenId
      <4>3. event'.who \in everHeld'[nextTokenId] BY <3>2, <3>4
      <4>4. QED BY <3>2, <4>1, <4>2, <4>3 DEF HoldsFor
    <3>6. QED BY <3>2, <3>3, <3>5
  <2>4. QED BY <2>2, <2>3
<1>5. CASE QuerySupply
  <2>1. UNCHANGED nftVars /\ LinkKept /\ hpc = "supply"
    BY <1>5 DEF QuerySupply, hostVars, LinkKept
  <2>2. \/ hpc' = "push" /\ event' = event /\ tokenId' = nextTokenId - 1
        \/ hpc' = "idle"
    BY <1>5 DEF QuerySupply, Return
  <2>3. ASSUME hpc' = "push", event' = event, tokenId' = nextTokenId - 1
        PROVE  HandlerLink'
    <3>1. (\E t \in TokenId : HoldsFor(event.sub, event.who, t))'
      BY <1>0, <1>1, <1>a, <2>1, <2>3, EventHolds DEF HandlerLink
    <3>2. Linked(tokenId, event.sub)'
      BY <1>0, <1>1, <2>1, <2>3 DEF HandlerLink, Linked, Serves, nftVars
    <3>3. QED BY <2>3, <3>1, <3>2 DEF HandlerLink
  <2>4. QED BY <1>a, <1>b, <1>d, <2>1, <2>2, <2>3 DEF AfterSupply
<1>6. ASSUME NEW o \in Outcome, PushConfig(o) PROVE Goal
  <2>1. LinkKept BY <1>0, <1>6, NetKept DEF PushConfig
  <2>2. UNCHANGED nftVars /\ event' = event /\ tokenId' = tokenId
        /\ hpc \in AfterSupply /\ hpc' # "supply"
    BY <1>6 DEF PushConfig, AfterSupply, nftVars
  <2>3. QED BY <1>a, <1>b, <1>c, <2>1, <2>2
<1>7. ASSUME NEW o \in Outcome, RecordPush(o) PROVE Goal
  <2>1. (IF pushed THEN "true" ELSE "false") \in Flag BY DEF Flag
  <2>2. LinkKept BY <1>0, <1>7, <2>1, NetFlagKept DEF RecordPush
  <2>3. UNCHANGED nftVars /\ event' = event /\ tokenId' = tokenId
        /\ hpc \in AfterSupply /\ hpc' # "supply"
    BY <1>7 DEF RecordPush, AfterSupply, Goto
  <2>4. QED BY <1>a, <1>b, <1>c, <2>2, <2>3
<1>8. ASSUME NEW o \in Outcome, SetGecos(o) PROVE Goal
  <2>1. /\ UNCHANGED nftVars /\ event' = event /\ tokenId' = tokenId /\ hpc = "gecos"
        /\ hpc' # "supply" /\ db' = db
        /\ guest' = IF Applied(o) THEN [guest EXCEPT ![event.sub].gecos = event.who] ELSE guest
    BY <1>8 DEF SetGecos, UpdateGecos, Goto
  <2>2. HandlerLink' BY <1>c, <2>1 DEF AfterSupply
  <2>3. RecordsLinked'
    BY <1>0, <1>1, <1>a, <2>1, LinkedGrows DEF RecordsLinked
  <2>4. \A v \in Vm : \/ guest'[v].gecos = guest[v].gecos
                      \/ v = event.sub /\ guest'[v].gecos = event.who
    BY <1>0, <2>1 DEF Guest
  <2>5. \E t \in TokenId : HoldsFor(event.sub, event.who, t)
    BY <1>1, <2>1 DEF HandlerLink, AfterSupply
  <2>6. LoginsHeld'
    BY <1>0, <1>1, <2>1, <2>4, <2>5 DEF LoginsHeld, HoldsFor, Linked, Serves, nftVars
  <2>7. QED BY <1>a, <2>1, <2>2, <2>3, <2>6
<1>9. ASSUME NEW o \in Outcome, MarkMinted(o) PROVE Goal
  <2> DEFINE r == [db[event.sub] EXCEPT !.minted = TRUE, !.token = tokenId]
  <2>1. /\ UNCHANGED nftVars /\ hpc' = "idle" /\ hpc = "mark" /\ guest' = guest
        /\ db' = [db EXCEPT ![event.sub] = r] \/ db' = db
    BY <1>9 DEF MarkMinted, UpdateRecord, Return
  <2>2. r.token = tokenId
    <3>1. db[event.sub] \in Record BY <1>0
    <3>2. QED BY <3>1 DEF Record
  <2> HIDE DEF r
  <2>3. Linked(tokenId, event.sub) BY <1>1, <2>1 DEF HandlerLink, AfterSupply
  <2>4. \A v \in Vm : db'[v] = db[v] \/ (v = event.sub /\ db'[v].token = tokenId)
    BY <1>0, <2>1, <2>2
  <2>5. RecordsLinked'
    BY <1>0, <1>1, <2>1, <2>3, <2>4 DEF RecordsLinked, Linked, Serves, nftVars
  <2>6. LoginsHeld'
    BY <1>0, <1>1, <2>1 DEF LoginsHeld, HoldsFor, Linked, Serves, nftVars
  <2>7. QED BY <1>a, <1>d, <2>1, <2>5, <2>6 DEF AfterSupply
<1>10. ASSUME NEW o \in Outcome, ResumeVm(o) \/ CleanupNetwork(o) \/ DestroyVm(o)
       PROVE  Goal
  <2>1. LinkKept
    BY <1>0, <1>10, StatusKept, NetKept DEF ResumeVm, CleanupNetwork, DestroyVm
  <2>2. UNCHANGED nftVars /\ hpc' \notin AfterSupply \cup {"supply"}
    BY <1>10 DEF ResumeVm, CleanupNetwork, DestroyVm, Goto, Return, AfterSupply
  <2>3. QED BY <1>a, <1>b, <1>d, <2>1, <2>2
<1>11. QED
  BY <1>0, <1>2, <1>3, <1>4, <1>5, <1>6, <1>7, <1>8, <1>9, <1>10 DEF HandlerNext

(* A step of the reconciler. *)
LEMMA ReconcilerLinkStep ==
  ASSUME TypeInv, TypeInv', LinkInv, RunReconciler
  PROVE  LinkInv'
<1>0. /\ ReconcilerNext /\ foreignMints' = foreignMints
      /\ hpc' = "idle" /\ NftTypeOK /\ NftTypeOK' /\ HostTypeOK
      /\ foreignMints \in Nat /\ foreignMints' \in Nat /\ UNCHANGED nftVars
      /\ db \in [Vm -> Record] /\ guest \in [Vm -> Guest] /\ owners \in SUBSET Vm
  BY LinkTypes DEF RunReconciler, handlerVars, countVars, TypeInv, TypeOK, Control,
                   HandlerTypeOK
<1>1. OwnersHeld /\ RecordsLinked /\ LoginsHeld /\ ReconcilerLink /\ HandlerLink'
  BY <1>0, LinkInvParts DEF HandlerLink, AfterSupply
<1>2. OwnersHeld' /\ NftGrows
  BY <1>0, <1>1, KeptLink DEF nftVars, NftKept
<1>3. ASSUME NEW v \in Vm, NEW u, NEW t, HoldsFor(v, u, t) PROVE HoldsFor(v, u, t)'
  BY <1>0, <1>2, <1>3, LinkedGrows
<1> SUFFICES RecordsLinked' /\ LoginsHeld' /\ ReconcilerLink'
  BY <1>1, <1>2 DEF LinkInv, OwnersHeld, RecordsLinked, LoginsHeld, HandlerLink, ReconcilerLink
<1>a. ASSUME LinkKept PROVE RecordsLinked' /\ LoginsHeld'
  BY <1>0, <1>1, <1>2, <1>a, HostLink
<1>b. ASSUME rpc' \notin {"setOwner", "setGecos"} PROVE ReconcilerLink'
  BY <1>b DEF ReconcilerLink
<1>c. ASSUME NEW v \in Vm, IsFirst(v, owners), owners' = owners,
             LinkKept, HoldsFor(v, wallet', db[v].token)
      PROVE  ReconcilerLink'
  <2>1. \A w \in Vm : IsFirst(w, owners)' => w = v
    BY <1>0, <1>c, FirstUnique DEF IsFirst
  <2>2. db'[v].token = db[v].token BY <1>c DEF LinkKept
  <2>3. HoldsFor(v, wallet, db[v].token)'
    BY <1>0, <1>c, <2>2 DEF HoldsFor, Linked, Serves, nftVars
  <2>4. QED BY <2>1, <2>3 DEF ReconcilerLink
<1>4. CASE EndOwners \/ EndPass
  BY <1>4, <1>a, <1>b DEF EndOwners, EndPass, hostVars, LinkKept
<1>5. ASSUME NEW v \in Vm, NEW answered \in BOOLEAN, CheckOwner(v, answered)
      PROVE  RecordsLinked' /\ LoginsHeld' /\ ReconcilerLink'
  <2>1. LinkKept /\ IsFirst(v, owners)
    BY <1>5 DEF CheckOwner, hostVars, LinkKept
  <2>2. HoldsFor(v, nftOwner[db[v].token], db[v].token)
    <3>1. db[v].minted BY <2>1 DEF IsFirst, TypeInv, Control
    <3>2. QED BY <1>1, <3>1 DEF RecordsLinked, OwnersHeld, HoldsFor, Linked
  <2>3. rpc' \in {"setOwner", "setGecos"} =>
          owners' = owners /\ wallet' = nftOwner[db[v].token]
    BY <1>5 DEF CheckOwner, NextOwner
  <2>4. QED BY <1>a, <1>b, <1>c, <2>1, <2>2, <2>3
<1>6. ASSUME NEW v \in Vm, NEW o \in Outcome, SetOwner(v, o)
      PROVE  RecordsLinked' /\ LoginsHeld' /\ ReconcilerLink'
  <2> DEFINE r == [db[v] EXCEPT !.owner = wallet, !.gecosSynced = "false"]
  <2>1. /\ IsFirst(v, owners) /\ rpc = "setOwner" /\ guest' = guest
        /\ db' = [db EXCEPT ![v] = r] \/ db' = db
    BY <1>6 DEF SetOwner, UpdateRecord
  <2>2. r.minted = db[v].minted /\ r.token = db[v].token
    <3>1. db[v] \in Record BY <1>0
    <3>2. QED BY <3>1 DEF Record
  <2> HIDE DEF r
  <2>3. LinkKept BY <1>0, <2>1, <2>2 DEF LinkKept
  <2>4. HoldsFor(v, wallet, db[v].token) BY <1>1, <2>1 DEF ReconcilerLink
  <2>5. rpc' \in {"setOwner", "setGecos"} => owners' = owners /\ wallet' = wallet
    BY <1>6 DEF SetOwner, OwnerStep, NextOwner
  <2>6. QED BY <1>a, <1>b, <1>c, <2>1, <2>3, <2>4, <2>5
<1>7. ASSUME NEW v \in Vm, NEW o \in Outcome, ReconcileGecos(v, o)
      PROVE  RecordsLinked' /\ LoginsHeld' /\ ReconcilerLink'
  <2>1. /\ IsFirst(v, owners) /\ rpc = "setGecos" /\ db' = db
        /\ guest' = IF Applied(o) THEN [guest EXCEPT ![v].gecos = wallet] ELSE guest
    BY <1>7 DEF ReconcileGecos, UpdateGecos
  <2>2. HoldsFor(v, wallet, db[v].token) BY <1>1, <2>1 DEF ReconcilerLink
  <2>3. \A w \in Vm : \/ guest'[w].gecos = guest[w].gecos
                      \/ w = v /\ guest'[w].gecos = wallet
    BY <1>0, <2>1 DEF Guest
  <2>4. LoginsHeld'
    BY <1>0, <1>1, <2>2, <2>3 DEF LoginsHeld, HoldsFor, Linked, Serves, nftVars
  <2>5. RecordsLinked'
    BY <1>0, <1>1, <2>1 DEF RecordsLinked, Linked, Serves, nftVars
  <2>6. rpc' \notin {"setOwner", "setGecos"}
    BY <1>7 DEF ReconcileGecos, OwnerStep, NextOwner
  <2>7. QED BY <1>b, <2>4, <2>5, <2>6
<1>8. ASSUME NEW v \in Vm, NEW o \in Outcome, SetSynced(v, o)
      PROVE  RecordsLinked' /\ LoginsHeld' /\ ReconcilerLink'
  <2>1. /\ guest' = guest /\ rpc' = "owner"
        /\ db' = [db EXCEPT ![v] = [db[v] EXCEPT !.gecosSynced = "true"]] \/ db' = db
    BY <1>8 DEF SetSynced, UpdateRecord, NextOwner
  <2>2. LinkKept BY <1>0, <2>1 DEF LinkKept, Record
  <2>3. QED BY <1>a, <1>b, <2>1, <2>2
<1>9. ASSUME NEW v \in Vm, NEW o \in Outcome, RetryPush(v, o) \/ SetPushed(v, o)
      PROVE  RecordsLinked' /\ LoginsHeld' /\ ReconcilerLink'
  <2>1. LinkKept
    <3>1. "true" \in Flag BY DEF Flag
    <3>2. QED BY <1>0, <1>9, <3>1, NetKept, NetFlagKept DEF RetryPush, SetPushed
  <2>2. rpc' \notin {"setOwner", "setGecos"}
    BY <1>9 DEF RetryPush, SetPushed, NextPush
  <2>3. QED BY <1>a, <1>b, <2>1, <2>2
<1>10. QED BY <1>0, <1>4, <1>5, <1>6, <1>7, <1>8, <1>9 DEF ReconcilerNext

(* A transfer, or a mint by somebody else. *)
LEMMA TokenLinkStep ==
  ASSUME TypeInv, TypeInv', LinkInv, TransferNft \/ ForeignMint
  PROVE  LinkInv'
<1>0. /\ UNCHANGED <<db, guest, lock, hpc, event, tokenId, rpc, owners, wallet>>
      /\ NftTypeOK /\ NftTypeOK' /\ foreignMints \in Nat /\ foreignMints' \in Nat
      /\ hpc # "idle" => event.sub \in Vm
  BY LinkTypes, MonitorAssumption
  DEF TransferNft, ForeignMint, hostVars, handlerVars, reconcilerVars, TypeInv, TypeOK,
      PollTypeOK
<1>1. OwnersHeld /\ RecordsLinked /\ LoginsHeld /\ HandlerLink /\ ReconcilerLink
  BY LinkInvParts
<1>2. /\ OwnersHeld' /\ NftGrows
      /\ \/ nextTokenId' = nextTokenId
         \/ /\ nextTokenId \in TokenId /\ nextTokenId' = nextTokenId + 1
            /\ mintedFor'[nextTokenId] = 0 /\ foreignMints' > 0
  <2>1. CASE TransferNft
    BY <1>0, <1>1, <2>1, TransferLink DEF TransferNft, countVars
  <2>2. CASE ForeignMint
    <3>1. PICK u \in Owner : Mint(u, 0) BY <2>2 DEF ForeignMint
    <3>2. foreignMints' >= foreignMints /\ foreignMints' > 0 /\ 0 \in 0 .. MaxSubs
      BY <1>0, <2>2, WalletsAssumption DEF ForeignMint
    <3>3. QED BY <1>0, <1>1, <3>1, <3>2, MintLink
  <2>3. QED BY <2>1, <2>2
<1>3. LinkKept BY <1>0 DEF LinkKept
<1>4. RecordsLinked' /\ LoginsHeld' BY <1>0, <1>1, <1>2, <1>3, HostLink
<1>5. ReconcilerLink' BY <1>0, <1>1, <1>2, <1>3, ReconcilerLinkKept
<1>6. HandlerLink'
  <2>1. hpc' \in AfterSupply \cup {"supply"} =>
          (\E t \in TokenId : HoldsFor(event.sub, event.who, t))'
    BY <1>0, <1>1, <1>2, EventHolds DEF HandlerLink, AfterSupply
  <2>2. hpc' \in AfterSupply => Linked(tokenId, event.sub)'
    BY <1>0, <1>1, <1>2, EventHolds DEF HandlerLink, AfterSupply
  <2>3. hpc' = "supply" => Linked(nextTokenId - 1, event.sub)'
    <3> SUFFICES ASSUME hpc = "supply" PROVE Linked(nextTokenId - 1, event.sub)'
      BY <1>0
    <3>1. Linked(nextTokenId - 1, event.sub) BY <1>1 DEF HandlerLink
    <3>2. CASE nextTokenId' = nextTokenId
      BY <1>0, <1>2, <3>1, <3>2 DEF Linked, Serves, NftGrows
    <3>3. CASE nextTokenId \in TokenId /\ nextTokenId' = nextTokenId + 1
               /\ mintedFor'[nextTokenId] = 0 /\ foreignMints' > 0
      <4>1. nextTokenId' - 1 = nextTokenId BY <3>3 DEF TokenId
      <4>2. QED BY <3>3, <4>1 DEF Linked, Serves, TokenId
    <3>4. QED BY <1>2, <3>2, <3>3
  <2>4. QED BY <2>1, <2>2, <2>3 DEF HandlerLink
<1>7. QED
  BY <1>2, <1>4, <1>5, <1>6
  DEF LinkInv, OwnersHeld, RecordsLinked, LoginsHeld, HandlerLink, ReconcilerLink

LEMMA LinkInit == Init => LinkInv
BY NftAssumption
DEF Init, LinkInv, HostInit, HandlerInit, ReconcilerInit, NftInit, FreshRecord, FreshGuest,
    AfterSupply, TokenId

LEMMA LinkStep == TypeInv /\ TypeInv' /\ LinkInv /\ [Next]_vars => LinkInv'
<1> SUFFICES ASSUME TypeInv, TypeInv', LinkInv, [Next]_vars PROVE LinkInv' OBVIOUS
<1>1. CASE RunHandler BY <1>1, HandlerLinkStep
<1>2. CASE RunReconciler BY <1>2, ReconcilerLinkStep
<1>3. CASE TransferNft \/ ForeignMint BY <1>3, TokenLinkStep
<1>4. CASE UNCHANGED <<nextTokenId, nftOwner, everHeld, mintedFor, foreignMints, db, guest,
                       hpc, event, tokenId, rpc, owners, wallet>>
  BY <1>4 DEF LinkInv, HoldsFor, Linked, Serves, IsFirst
<1>5. CASE UNCHANGED <<nextTokenId, nftOwner, everHeld, mintedFor, foreignMints, db, guest>>
           /\ hpc' \notin AfterSupply \cup {"supply"} /\ rpc' \notin {"setOwner", "setGecos"}
  BY <1>5 DEF LinkInv, HoldsFor, Linked, Serves
<1>6. CASE DispatchLog
  <2>1. evlog[cursor] \in Event
    BY <1>6, SMTT(30) DEF DispatchLog, TypeInv, Control, TypeOK, PollTypeOK, LedgerTypeOK
  <2>2. hpc' \notin AfterSupply \cup {"supply"}
    BY <1>6, <2>1 DEF DispatchLog, Handle, AfterSupply, Event, EventType
  <2>3. rpc' = "idle"
    BY <1>6 DEF DispatchLog, reconcilerVars, TypeInv, Control
  <2>4. QED BY <1>5, <1>6, <2>2, <2>3 DEF DispatchLog, hostVars, nftVars, countVars
<1>7. CASE StartReconciliation
  <2>1. hpc' = "idle" BY <1>7 DEF StartReconciliation, handlerVars, TypeInv, Control
  <2>2. QED BY <1>5, <1>7, <2>1
    DEF StartReconciliation, StartPass, hostVars, nftVars, countVars, AfterSupply
<1>8. CASE Crash
  BY <1>5, <1>8 DEF Crash, Return, nftVars, AfterSupply
<1>9. CASE GarbageCollect
  <2>1. PICK v \in Vm : GcSuspend(v) \/ GcDestroy(v) BY <1>9 DEF GarbageCollect
  <2>2. LinkKept BY <2>1, StatusKept DEF TypeInv, TypeOK, Outcome
  <2>3. UNCHANGED <<nextTokenId, nftOwner, everHeld, mintedFor, foreignMints,
                    hpc, event, tokenId, rpc, owners, wallet>>
    BY <1>9 DEF GarbageCollect, nftVars, countVars, handlerVars, reconcilerVars
  <2>4. QED BY <2>2, <2>3 DEF LinkKept, LinkInv, HoldsFor, Linked, Serves, IsFirst
<1>10. QED
  BY <1>1, <1>2, <1>3, <1>4, <1>6, <1>7, <1>8, <1>9
  DEF Next, MonitorNext, StartMonitor, Poll, EndLogs, EndPoll, AdminError,
      SkipReconciliation, ChainStep, vars, hostVars, nftVars, handlerVars, reconcilerVars,
      countVars

THEOREM LinkInvariant == Spec => []LinkInv
BY TypeInvariant, LinkInit, LinkStep, PTL DEF Spec

(* TokenLinked for every number of machines, wallets, crashes and foreign  *)
(* mints (the token id carried through mint_nft.py's output).              *)
THEOREM TokenLinkedCorrect == Spec => []TokenLinked
<1>1. LinkInv => TokenLinked BY DEF LinkInv, TokenLinked, Linked
<1>2. QED BY LinkInvariant, <1>1, PTL

(* AccessOnlyToHolders, likewise: no interleaving of handlers, passes,     *)
(* transfers and failures lets a wallet into a machine that never held a   *)
(* token serving it (update-gecos in handlers and reconciler).             *)
THEOREM AccessCorrect == Spec => []AccessOnlyToHolders
<1>1. LinkInv => AccessOnlyToHolders
  BY DEF LinkInv, AccessOnlyToHolders, HoldsFor, Linked
<1>2. QED BY LinkInvariant, <1>1, PTL

-------------------------------------------------------------------------------
(* Every block once *)

(* Where the loop stands, what is behind it was handled or skipped, and    *)
(* what is ahead was handled at most once per repeated range.              *)
Seen(b) == handled[b] > 0 \/ b \in missed
OnceInv ==
  /\ \A b \in Block : handled[b] <= 1 + adminErrors
  /\ \A b \in Block : handled[b] > 0 => b <= Len(evlog)
  /\ \A b \in Block, c \in Block : b < c /\ handled[c] > 0 => Seen(b)
  /\ \A b \in Block : b <= lastProcessedBlock => Seen(b)
  /\ pc = "logs" =>
       /\ cursor <= toBlock + 1
       /\ \A b \in Block : IF b < cursor THEN Seen(b) ELSE handled[b] <= adminErrors
  /\ pc = "admin" =>
       \A b \in Block : IF b <= toBlock THEN Seen(b) ELSE handled[b] <= adminErrors
  /\ pc \in {"poll", "periodic", "reconcile"} =>
       \A b \in Block : b > lastProcessedBlock => handled[b] <= adminErrors

LEMMA OnceInit == Init => OnceInv
BY LedgerAssumption DEF Init, OnceInv, Block, LedgerInit

(* The steps of the poll loop between the handlers. *)
LEMMA PollOnce ==
  ASSUME TypeInv, OnceInv,
         StartMonitor \/ Poll \/ EndLogs \/ EndPoll \/ AdminError
  PROVE  OnceInv'
<1>0. /\ handled \in [Block -> Nat] /\ adminErrors \in Nat /\ Len(evlog) \in Nat
      /\ cursor \in Nat /\ toBlock \in Nat /\ lastProcessedBlock \in Nat
      /\ toBlock <= Len(evlog) /\ Block \subseteq Nat
  BY LedgerAssumption, MonitorAssumption
  DEF TypeInv, TypeOK, PollTypeOK, LedgerTypeOK, Control, Block
<1>1. CASE StartMonitor
  <2>1. /\ pc' = "poll" /\ lastProcessedBlock' = Len(evlog)
        /\ missed' = missed \cup {b \in 1 .. Len(evlog) : handled[b] = 0}
        /\ UNCHANGED <<handled, adminErrors, evlog>>
    BY <1>1 DEF StartMonitor, ledgerVars, countVars
  <2>2. \A b \in Block : Seen(b) => Seen(b)'
    BY <2>1 DEF Seen
  <2>3. \A b \in Block : b <= Len(evlog) => Seen(b)'
    BY <1>0, <2>1 DEF Seen, Block
  <2>4. \A b \in Block : b > Len(evlog) => handled[b] <= adminErrors
    BY <1>0 DEF OnceInv
  <2>5. QED BY <1>0, <2>1, <2>2, <2>3, <2>4 DEF OnceInv
<1>2. CASE Poll
  BY <1>0, <1>2 DEF Poll, ledgerVars, countVars, historyVars, OnceInv, Seen
<1>3. CASE EndLogs
  BY <1>0, <1>3 DEF EndLogs, ledgerVars, countVars, historyVars, OnceInv, Seen
<1>4. CASE EndPoll
  BY <1>0, <1>4 DEF EndPoll, ledgerVars, countVars, historyVars, OnceInv, Seen
<1>5. CASE AdminError
  <2>1. /\ pc' = "poll" /\ adminErrors' = adminErrors + 1
        /\ UNCHANGED <<handled, missed, evlog, lastProcessedBlock>>
    BY <1>5 DEF AdminError, ledgerVars, historyVars
  <2>2. \A b \in Block : handled[b] <= adminErrors'
    BY <1>0, <2>1 DEF OnceInv
  <2>3. QED BY <1>0, <2>1, <2>2 DEF OnceInv, Seen
<1>6. QED BY <1>1, <1>2, <1>3, <1>4, <1>5

(* A handler that returns has handled the block under the cursor. *)
LEMMA HandlerOnce ==
  ASSUME TypeInv, OnceInv, RunHandler
  PROVE  OnceInv'
<1>0. /\ handled \in [Block -> Nat] /\ adminErrors \in Nat /\ Len(evlog) \in Nat
      /\ cursor \in Block /\ toBlock \in Nat /\ lastProcessedBlock \in Nat
      /\ toBlock <= Len(evlog) /\ Block \subseteq Nat /\ cursor <= toBlock
  BY LedgerAssumption, MonitorAssumption
  DEF TypeInv, TypeOK, PollTypeOK, LedgerTypeOK, Control, Block, RunHandler
<1>1. /\ pc = "logs" /\ pc' = "logs"
      /\ UNCHANGED <<adminErrors, missed, evlog, lastProcessedBlock, toBlock>>
  BY DEF RunHandler, ledgerVars, countVars
<1>2. CASE hpc' # "idle"
  <2>1. UNCHANGED <<handled, cursor>> BY <1>2 DEF RunHandler
  <2>2. QED BY <1>1, <2>1 DEF OnceInv, Seen
<1>3. CASE hpc' = "idle"
  <2>1. handled' = [handled EXCEPT ![cursor] = @ + 1] /\ cursor' = cursor + 1
    BY <1>3 DEF RunHandler
  <2>2. \A b \in Block : handled'[b] = IF b = cursor THEN handled[b] + 1 ELSE handled[b]
    BY <1>0, <2>1
  <2>3. \A b \in Block : Seen(b) => Seen(b)'
    BY <1>0, <1>1, <2>2 DEF Seen
  <2>4. \A b \in Block : IF b < cursor THEN Seen(b) ELSE handled[b] <= adminErrors
    BY <1>1 DEF OnceInv, Seen
  <2>5. \A b \in Block : b = cursor => Seen(b)'
    BY <1>0, <2>2 DEF Seen
  <2>6. \A b \in Block : handled'[b] <= 1 + adminErrors
    BY <1>0, <1>1, <2>2 DEF OnceInv
  <2>7. \A b \in Block : handled'[b] > 0 => b <= Len(evlog)
    BY <1>0, <2>2 DEF OnceInv
  <2>8. \A b \in Block, c \in Block : b < c /\ handled'[c] > 0 => Seen(b)'
    BY <1>0, <2>2, <2>3, <2>4 DEF OnceInv
  <2>9. \A b \in Block :
          IF b < cursor + 1 THEN Seen(b)' ELSE handled'[b] <= adminErrors
    <3> TAKE b \in Block
    <3>1. CASE b < cursor BY <1>0, <2>3, <2>4, <3>1
    <3>2. CASE b = cursor BY <1>0, <2>5, <3>2
    <3>3. CASE b > cursor BY <1>0, <2>2, <2>4, <3>3
    <3>4. QED BY <1>0, <3>1, <3>2, <3>3 DEF Seen
  <2>10. QED
    BY <1>0, <1>1, <2>1, <2>3, <2>6, <2>7, <2>8, <2>9 DEF OnceInv
<1>4. QED BY <1>2, <1>3

LEMMA OnceStep == TypeInv /\ OnceInv /\ [Next]_vars => OnceInv'
<1> SUFFICES ASSUME TypeInv, OnceInv, [Next]_vars PROVE OnceInv' OBVIOUS
<1>1. CASE StartMonitor \/ Poll \/ EndLogs \/ EndPoll \/ AdminError BY <1>1, PollOnce
<1>2. CASE RunHandler BY <1>2, HandlerOnce
<1>3. CASE ChainStep
  <2>1. Len(evlog') >= Len(evlog) /\ Len(evlog) \in Nat /\ Len(evlog') \in Nat
    BY <1>3, LedgerStep DEF ChainStep, TypeInv, TypeOK, Control, LedgerTypeOK
  <2>2. UNCHANGED <<pc, lastProcessedBlock, toBlock, cursor, adminErrors, handled, missed>>
    BY <1>3 DEF ChainStep, pollVars, countVars, historyVars
  <2>3. \A b \in Block : b <= Len(evlog) => b <= Len(evlog')
    BY <2>1, LedgerAssumption DEF Block
  <2>4. QED BY <2>2, <2>3 DEF OnceInv, Seen
<1>4. CASE UNCHANGED <<pc, lastProcessedBlock, toBlock, cursor, adminErrors, handled, missed,
                       evlog>>
  BY <1>4 DEF OnceInv, Seen
<1>5. CASE StartReconciliation \/ SkipReconciliation \/ RunReconciler
  <2>1. /\ pc \in {"periodic", "reconcile"} /\ pc' \in {"poll", "reconcile"}
        /\ UNCHANGED <<lastProcessedBlock, toBlock, cursor, adminErrors, handled, missed, evlog>>
    BY <1>5 DEF StartReconciliation, SkipReconciliation, RunReconciler, ledgerVars, countVars,
                historyVars
  <2>2. QED BY <2>1 DEF OnceInv, Seen
<1>6. CASE Crash
  <2>1. /\ pc' = "down" /\ lastProcessedBlock' = 0
        /\ UNCHANGED <<adminErrors, handled, missed, evlog>>
    BY <1>6 DEF Crash, ledgerVars, historyVars
  <2>2. \A b \in Block : ~ (b <= 0) BY LedgerAssumption DEF Block
  <2>3. QED BY <2>1, <2>2 DEF OnceInv, Seen
<1>7. QED
  BY <1>1, <1>2, <1>3, <1>4, <1>5, <1>6
  DEF Next, MonitorNext, DispatchLog, TransferNft, ForeignMint, GarbageCollect, vars,
      ledgerVars, pollVars, countVars, historyVars

THEOREM OnceInvariant == Spec => []OnceInv
BY TypeInvariant, OnceInit, OnceStep, PTL DEF Spec

(* EachBlockOnce for every length of the log and every number of crashes   *)
(* and repeated ranges: the poll loop leaves no gap and repeats a block    *)
(* only after an exception (lastProcessedBlock in monitor/index.ts).       *)
THEOREM EachBlockOnceCorrect == Spec => []EachBlockOnce
<1>1. OnceInv => EachBlockOnce BY DEF OnceInv, EachBlockOnce, Seen
<1>2. QED BY OnceInvariant, <1>1, PTL

-------------------------------------------------------------------------------
(* The way to an event: what is left of EventsHandled without fairness     *)

(* What a handler, the loop over a range, a pass of the reconciler and a   *)
(* whole iteration of the poll loop have at most still to do.              *)
HandlerLeft ==
  CASE hpc = "idle" -> 0
    [] hpc \in {"mark", "destroy", "resume"} -> 1
    [] hpc \in {"gecos", "cleanup", "extend"} -> 2
    [] hpc = "record" -> 3
    [] hpc = "push" -> 4
    [] hpc = "supply" -> 5
    [] hpc = "mint" -> 6
    [] hpc = "address" -> 7
    [] hpc = "creating" -> 8
    [] hpc = "create" -> 9
    [] OTHER -> 10 \* decrypt

LogsLeft ==
  IF hpc = "idle" THEN 11 * (toBlock + 1 - cursor)
                  ELSE 11 * (toBlock - cursor) + HandlerLeft

PassStep ==
  CASE rpc = "owner" -> 3
    [] rpc = "setOwner" -> 2
    [] rpc \in {"setGecos", "push"} -> 1
    [] OTHER -> 0
PassLeft == 4 * Cardinality(owners) + 2 * Cardinality(pushes) + PassStep
PassMax == 6 * MaxSubs + 3

RoundLeft ==
  CASE pc \in {"down", "poll"} -> 0
    [] pc = "reconcile" -> 1 + PassLeft
    [] pc = "periodic" -> PassMax + 2
    [] pc = "admin" -> PassMax + 3
    [] OTHER -> PassMax + 4 + LogsLeft \* logs
RoundMax == PassMax + 4 + 11 * MaxEvents

(* Until event b is handled: the rest of this iteration, and another one   *)
(* unless its block is in the range of this one.                           *)
Waits(b) == b <= Len(evlog) /\ ~ Seen(b)
StepsLeft(b) ==
  IF pc = "logs" /\ b <= toBlock THEN RoundLeft ELSE RoundMax + 1 + RoundLeft

LEMMA HandlerLeftBound ==
  ASSUME hpc \in HandlerPc
  PROVE  /\ HandlerLeft \in 0 .. 10
         /\ hpc # "idle" => HandlerLeft \in 1 .. 10
BY DEF HandlerLeft, HandlerPc, CreateStep

(* Whatever its child answers, a handler gets on. *)
LEMMA HandlerAdvances ==
  ASSUME hpc \in HandlerPc, HandlerNext
  PROVE  /\ HandlerLeft' < HandlerLeft
         /\ hpc' \in HandlerPc
<1> USE DEF Goto, Return, HandlerPc, CreateStep
<1>1. CASE DecryptSignature \/ StartCreate \/ ResolveAddress \/ QuerySupply \/ ExtendExpiry
  BY <1>1 DEF DecryptSignature, StartCreate, ResolveAddress, QuerySupply, ExtendExpiry,
              HandlerLeft
<1>2. ASSUME NEW o \in Outcome,
             FinishCreate(o) \/ SendMint(o) \/ PushConfig(o) \/ RecordPush(o) \/ SetGecos(o)
               \/ MarkMinted(o) \/ ResumeVm(o) \/ CleanupNetwork(o) \/ DestroyVm(o)
      PROVE  HandlerLeft' < HandlerLeft /\ hpc' \in HandlerPc
  BY <1>2 DEF FinishCreate, SendMint, PushConfig, RecordPush, SetGecos, MarkMinted, ResumeVm,
              CleanupNetwork, DestroyVm, HandlerLeft
<1>3. QED BY <1>1, <1>2 DEF HandlerNext

(* The machines a pass still has to visit are no more than there are. *)
LEMMA MachinesLeft ==
  ASSUME NEW S \in SUBSET Vm
  PROVE  /\ Cardinality(S) \in 0 .. MaxSubs
         /\ \A v \in S : Cardinality(S \ {v}) = Cardinality(S) - 1
<1>1. IsFiniteSet(Vm) /\ Cardinality(Vm) = MaxSubs
  BY WalletsAssumption, FS_Interval DEF Vm, Sub
<1>2. IsFiniteSet(S) /\ Cardinality(S) <= MaxSubs
  BY <1>1, FS_Subset
<1>3. Cardinality(S) \in Nat BY <1>2, FS_CardinalityType
<1>4. QED BY <1>2, <1>3, FS_RemoveElement, WalletsAssumption

LEMMA PassLeftBound ==
  ASSUME ReconcilerTypeOK
  PROVE  PassLeft \in 0 .. PassMax
<1>1. Cardinality(owners) \in 0 .. MaxSubs /\ Cardinality(pushes) \in 0 .. MaxSubs
  BY MachinesLeft DEF ReconcilerTypeOK
<1>2. PassStep \in 0 .. 3 BY DEF PassStep, ReconcilerTypeOK, ReconcilerPc
<1>3. QED BY <1>1, <1>2, WalletsAssumption DEF PassLeft, PassMax

(* A pass gets on, whether its commands work or not. *)
LEMMA PassAdvances ==
  ASSUME ReconcilerTypeOK, ReconcilerNext
  PROVE  PassLeft' < PassLeft
<1> DEFINE n == Cardinality(owners)
           m == Cardinality(pushes)
<1>0. n \in Nat /\ m \in Nat
  BY MachinesLeft DEF ReconcilerTypeOK
<1>1. ASSUME NEW v \in Vm, IsFirst(v, owners), NextOwner(v)
      PROVE  Cardinality(owners') = n - 1 /\ Cardinality(pushes') = m /\ rpc' = "owner"
  BY <1>1, MachinesLeft DEF ReconcilerTypeOK, IsFirst, NextOwner
<1>2. ASSUME NEW v \in Vm, IsFirst(v, pushes), NextPush(v)
      PROVE  Cardinality(owners') = n /\ Cardinality(pushes') = m - 1 /\ rpc' = "push"
  BY <1>2, MachinesLeft DEF ReconcilerTypeOK, IsFirst, NextPush
<1> HIDE DEF n, m
<1> DEFINE Moves ==
      \/ /\ Cardinality(owners') = n - 1 /\ Cardinality(pushes') = m /\ rpc' = "owner"
         /\ rpc \in {"owner", "setOwner", "setGecos", "setSynced"}
      \/ /\ Cardinality(owners') = n /\ Cardinality(pushes') = m - 1 /\ rpc' = "push"
         /\ rpc \in {"push", "setPushed"}
      \/ /\ UNCHANGED <<owners, pushes>>
         /\ \/ rpc = "owner" /\ rpc' \in {"setOwner", "setGecos", "push"}
            \/ rpc = "setOwner" /\ rpc' = "setGecos"
            \/ rpc = "setGecos" /\ rpc' = "setSynced"
            \/ rpc = "push" /\ rpc' \in {"setPushed", "idle"}
<1>3. Moves
  <2>1. CASE EndOwners \/ EndPass BY <2>1 DEF EndOwners, EndPass
  <2>2. ASSUME NEW v \in Vm, NEW answered \in BOOLEAN, CheckOwner(v, answered)
        PROVE  Moves
    BY <2>2, <1>1 DEF CheckOwner
  <2>3. ASSUME NEW v \in Vm, NEW o \in Outcome,
               SetOwner(v, o) \/ ReconcileGecos(v, o) \/ SetSynced(v, o)
        PROVE  Moves
    BY <2>3, <1>1 DEF SetOwner, ReconcileGecos, SetSynced, OwnerStep
  <2>4. ASSUME NEW v \in Vm, NEW o \in Outcome, RetryPush(v, o) \/ SetPushed(v, o)
        PROVE  Moves
    BY <2>4, <1>2 DEF RetryPush, SetPushed
  <2>5. QED BY <2>1, <2>2, <2>3, <2>4 DEF ReconcilerNext
<1>4. QED BY <1>0, <1>3 DEF PassLeft, PassStep, n, m

(* Where the loop over a range stands. *)
LEMMA LogsLeftBound ==
  ASSUME TypeInv, OnceInv, pc = "logs"
  PROVE  /\ LogsLeft \in 0 .. 11 * MaxEvents
         /\ toBlock - cursor \in Int
<1>1. /\ hpc \in HandlerPc /\ cursor \in Nat /\ toBlock \in Nat /\ cursor >= 1
      /\ cursor <= toBlock + 1 /\ toBlock <= MaxEvents /\ MaxEvents \in Nat
      /\ hpc # "idle" => cursor <= toBlock
  BY LedgerAssumption DEF TypeInv, TypeOK, HandlerTypeOK, PollTypeOK, Control, OnceInv
<1>2. HandlerLeft \in 0 .. 10 BY <1>1, HandlerLeftBound
<1>3. CASE hpc = "idle" BY <1>1, <1>3 DEF LogsLeft
<1>4. CASE hpc # "idle" BY <1>1, <1>2, <1>4 DEF LogsLeft
<1>5. QED BY <1>3, <1>4

LEMMA RoundLeftBound ==
  ASSUME TypeInv, OnceInv
  PROVE  /\ RoundLeft \in 0 .. RoundMax
         /\ PassMax \in Nat /\ RoundMax \in Nat
<1>1. PassMax \in Nat /\ RoundMax \in Nat /\ MaxEvents \in Nat
  BY WalletsAssumption, LedgerAssumption DEF PassMax, RoundMax
<1>2. PassLeft \in 0 .. PassMax BY PassLeftBound DEF TypeInv, TypeOK
<1>3. pc = "logs" => LogsLeft \in 0 .. 11 * MaxEvents BY LogsLeftBound
<1>4. pc \in {"down", "poll", "logs", "admin", "periodic", "reconcile"}
  BY DEF TypeInv, TypeOK, PollTypeOK
<1>5. QED BY <1>1, <1>2, <1>3, <1>4 DEF RoundLeft, RoundMax

LEMMA LogArithmetic ==
  ASSUME NEW t \in Int, NEW c \in Int, NEW h \in 1 .. 10
  PROVE  /\ 11 * (t - c) + h < 11 * (t + 1 - c)
         /\ \A k \in Int : k < h => 11 * (t - c) + k < 11 * (t - c) + h
OBVIOUS

(* The same after a step. *)
LEMMA RoundLeftNext ==
  TypeInv' /\ OnceInv' => RoundLeft' \in 0 .. RoundMax
<1> DEFINE Bounded == RoundLeft \in 0 .. RoundMax
<1>1. TypeInv /\ OnceInv => Bounded BY RoundLeftBound
<1> HIDE DEF Bounded
<1>2. TypeInv' /\ OnceInv' => Bounded' BY <1>1, PTL
<1>3. QED BY <1>2 DEF Bounded

(* The logs of a range are handled one after the other. *)
LEMMA LogsAdvance ==
  ASSUME TypeInv, OnceInv, DispatchLog \/ RunHandler
  PROVE  /\ pc = "logs" /\ pc' = "logs" /\ toBlock' = toBlock
         /\ LogsLeft' < LogsLeft
<1>0. /\ pc = "logs" /\ pc' = "logs" /\ toBlock' = toBlock
      /\ cursor \in Int /\ toBlock \in Int /\ hpc \in HandlerPc
  BY DEF DispatchLog, RunHandler, pollVars, TypeInv, TypeOK, PollTypeOK, HandlerTypeOK
<1>1. CASE DispatchLog
  <2>1. cursor \in 1 .. Len(evlog) /\ evlog \in Seq(Event) /\ Len(evlog) \in Nat
    BY <1>0, <1>1, LedgerAssumption
    DEF DispatchLog, TypeInv, TypeOK, Control, LedgerTypeOK, PollTypeOK
  <2>2. evlog[cursor] \in Event BY <2>1
  <2>3. evlog[cursor].type \in {"Created", "Extended", "Cancelled"}
    BY <2>2 DEF Event, EventType
  <2>4. hpc = "idle" /\ hpc' \in {"decrypt", "extend", "cleanup"} /\ cursor' = cursor
    BY <1>1, <2>3 DEF DispatchLog, Handle, pollVars
  <2>5. HandlerLeft' \in 1 .. 10 BY <2>4 DEF HandlerLeft
  <2>6. LogsLeft = 11 * (toBlock + 1 - cursor) BY <2>4 DEF LogsLeft
  <2>7. LogsLeft' = 11 * (toBlock - cursor) + HandlerLeft' BY <1>0, <2>4 DEF LogsLeft
  <2>8. 11 * (toBlock - cursor) + HandlerLeft' < 11 * (toBlock + 1 - cursor)
    BY <1>0, <2>5, LogArithmetic
  <2>9. QED BY <1>0, <2>6, <2>7, <2>8
<1>2. CASE RunHandler
  <2>1. hpc # "idle" /\ HandlerNext BY <1>2 DEF RunHandler
  <2>2. HandlerLeft' < HandlerLeft /\ hpc' \in HandlerPc
    BY <1>0, <2>1, HandlerAdvances
  <2>3. HandlerLeft \in 1 .. 10 BY <1>0, <2>1, HandlerLeftBound
  <2>4. HandlerLeft' \in Int BY <2>2 DEF HandlerLeft
  <2>5. CASE hpc' = "idle"
    <3>1. cursor' = cursor + 1 BY <1>2, <2>5 DEF RunHandler
    <3>2. QED BY <1>0, <2>1, <2>3, <2>5, <3>1 DEF LogsLeft
  <2>6. CASE hpc' # "idle"
    <3>1. cursor' = cursor BY <1>2, <2>6 DEF RunHandler
    <3>2. LogsLeft = 11 * (toBlock - cursor) + HandlerLeft BY <2>1 DEF LogsLeft
    <3>3. LogsLeft' = 11 * (toBlock - cursor) + HandlerLeft'
      BY <1>0, <2>6, <3>1 DEF LogsLeft
    <3>4. 11 * (toBlock - cursor) + HandlerLeft' < 11 * (toBlock - cursor) + HandlerLeft
      <4>1. \A k \in Int : k < HandlerLeft =>
              11 * (toBlock - cursor) + k < 11 * (toBlock - cursor) + HandlerLeft
        BY <1>0, <2>3, LogArithmetic
      <4>2. QED BY <2>2, <2>4, <4>1
    <3>5. QED BY <1>0, <3>2, <3>3, <3>4
  <2>7. QED BY <1>0, <2>5, <2>6
<1>3. QED BY <1>0, <1>1, <1>2

(* Each step of an iteration leaves less of it to do. *)
LEMMA RoundAdvances ==
  ASSUME TypeInv, OnceInv, TypeInv', OnceInv', MonitorNext, pc \notin {"down", "poll"}
  PROVE  RoundLeft' < RoundLeft
<1>0. /\ RoundLeft \in 0 .. RoundMax /\ PassMax \in Nat
      /\ PassLeft \in 0 .. PassMax
      /\ pc = "logs" => LogsLeft \in 0 .. 11 * MaxEvents
      /\ MaxEvents \in Nat
  BY RoundLeftBound, PassLeftBound, LogsLeftBound, LedgerAssumption DEF TypeInv, TypeOK
<1>1. CASE DispatchLog \/ RunHandler
  <2>1. pc = "logs" /\ pc' = "logs" /\ LogsLeft' < LogsLeft BY <1>1, LogsAdvance
  <2>2. LogsLeft' \in Int
    <3>1. /\ hpc' \in HandlerPc /\ cursor' \in Int /\ toBlock' \in Int
      BY DEF TypeInv, TypeOK, HandlerTypeOK, PollTypeOK
    <3>2. HandlerLeft' \in Int BY <3>1 DEF HandlerLeft, HandlerPc, CreateStep
    <3>3. QED BY <3>1, <3>2 DEF LogsLeft
  <2>3. QED BY <1>0, <2>1, <2>2 DEF RoundLeft
<1>2. CASE EndLogs BY <1>0, <1>2 DEF EndLogs, RoundLeft
<1>3. CASE EndPoll BY <1>0, <1>3 DEF EndPoll, RoundLeft
<1>4. CASE AdminError BY <1>0, <1>4 DEF AdminError, RoundLeft
<1>5. CASE SkipReconciliation BY <1>0, <1>5 DEF SkipReconciliation, RoundLeft
<1>6. CASE StartReconciliation
  <2>1. pc = "periodic" /\ pc' = "reconcile" BY <1>6 DEF StartReconciliation
  <2>2. ReconcilerTypeOK' BY DEF TypeInv, TypeOK
  <2>3. PassLeft' \in 0 .. PassMax
    <3>1. owners' \in SUBSET Vm /\ pushes' \in SUBSET Vm /\ rpc' \in ReconcilerPc
      BY <2>2 DEF ReconcilerTypeOK
    <3>2. Cardinality(owners') \in 0 .. MaxSubs /\ Cardinality(pushes') \in 0 .. MaxSubs
      BY <3>1, MachinesLeft
    <3>3. PassStep' \in 0 .. 3 BY <3>1 DEF PassStep, ReconcilerPc
    <3>4. QED BY <3>2, <3>3, WalletsAssumption DEF PassLeft, PassMax
  <2>4. QED BY <1>0, <2>1, <2>3 DEF RoundLeft
<1>7. CASE RunReconciler
  <2>1. pc = "reconcile" /\ pc' \in {"poll", "reconcile"} BY <1>7 DEF RunReconciler
  <2>2. PassLeft' < PassLeft BY <1>7, PassAdvances DEF RunReconciler, TypeInv, TypeOK
  <2>3. PassLeft' \in Int
    <3>1. owners' \in SUBSET Vm /\ pushes' \in SUBSET Vm /\ rpc' \in ReconcilerPc
      BY DEF ReconcilerTypeOK, TypeInv, TypeOK
    <3>2. Cardinality(owners') \in Int /\ Cardinality(pushes') \in Int
      BY <3>1, MachinesLeft
    <3>3. PassStep' \in Int BY <3>1 DEF PassStep, ReconcilerPc
    <3>4. QED BY <3>2, <3>3 DEF PassLeft
  <2>4. QED BY <1>0, <2>1, <2>2, <2>3 DEF RoundLeft
<1>8. QED
  BY <1>1, <1>2, <1>3, <1>4, <1>5, <1>6, <1>7 DEF MonitorNext, StartMonitor, Poll

(* What the rest of the world does leaves the iteration where it is. *)
LEMMA WorldWaits ==
  ASSUME ChainStep \/ TransferNft \/ ForeignMint \/ GarbageCollect \/ UNCHANGED vars
  PROVE  UNCHANGED <<RoundLeft, pc, toBlock, handled, missed, crashes, adminErrors>>
<1>1. UNCHANGED <<pc, toBlock, cursor, hpc, rpc, owners, pushes, handled, missed, crashes,
                  adminErrors>>
  BY DEF ChainStep, TransferNft, ForeignMint, GarbageCollect, vars, pollVars, handlerVars,
         reconcilerVars, historyVars, countVars
<1>2. UNCHANGED HandlerLeft BY <1>1 DEF HandlerLeft
<1>3. UNCHANGED LogsLeft BY <1>1, <1>2 DEF LogsLeft
<1>4. UNCHANGED PassLeft BY <1>1 DEF PassLeft, PassStep
<1>5. QED BY <1>1, <1>3, <1>4 DEF RoundLeft

(* A step of the monitor, a crash, an exception and a step of anybody else *)
(* on the way to event b.                                                  *)
Nearer(b) ==
  \/ Seen(b)'
  \/ crashes' = crashes + 1
  \/ adminErrors' = adminErrors + 1
  \/ StepsLeft(b)' < StepsLeft(b)
  \/ ~ MonitorNext /\ StepsLeft(b)' = StepsLeft(b)

LEMMA StepNearer ==
  ASSUME TypeInv, OnceInv, TypeInv', OnceInv', [Next]_vars, NEW b \in Block, Waits(b)
  PROVE  Nearer(b)
<1>a. RoundLeft \in 0 .. RoundMax /\ RoundMax \in Nat BY RoundLeftBound
<1>0. /\ RoundLeft \in 0 .. RoundMax /\ RoundMax \in Nat
      /\ b \in Nat /\ b <= Len(evlog) /\ ~ Seen(b)
      /\ lastProcessedBlock \in Nat /\ toBlock \in Nat /\ cursor \in Nat
  BY <1>a, LedgerAssumption DEF Waits, Block, TypeInv, TypeOK, PollTypeOK
<1>1. CASE Crash BY <1>1 DEF Crash, Nearer
<1>2. CASE ChainStep \/ TransferNft \/ ForeignMint \/ GarbageCollect \/ UNCHANGED vars
  <2>1. UNCHANGED <<RoundLeft, pc, toBlock>> BY <1>2, WorldWaits
  <2>2. StepsLeft(b)' = StepsLeft(b) BY <2>1 DEF StepsLeft
  <2>3. ~ MonitorNext \/ pc \in {"down", "poll"} \/ RoundLeft' < RoundLeft
    BY RoundAdvances
  <2>4. MonitorNext /\ pc \in {"down", "poll"} => pc' # pc
    BY DEF MonitorNext, StartMonitor, Poll, DispatchLog, RunHandler, EndLogs, EndPoll,
           AdminError, StartReconciliation, SkipReconciliation, RunReconciler
  <2>5. ~ MonitorNext BY <1>0, <2>1, <2>3, <2>4
  <2>6. QED BY <2>2, <2>5 DEF Nearer
<1>3. CASE StartMonitor
  <2>1. missed' = missed \cup {c \in 1 .. Len(evlog) : handled[c] = 0} /\ handled' = handled
    BY <1>3 DEF StartMonitor
  <2>2. handled[b] \in Nat BY DEF TypeInv, TypeOK, PollTypeOK
  <2>3. b \in 1 .. Len(evlog)
    BY <1>0, LedgerAssumption DEF Block, TypeInv, TypeOK, LedgerTypeOK
  <2>4. QED BY <2>1, <2>2, <2>3 DEF Nearer, Seen
<1>4. CASE Poll
  <2>1. pc = "poll" /\ b > lastProcessedBlock
    BY <1>0, <1>4 DEF Poll, OnceInv
  <2>2. pc' = "logs" /\ toBlock' = Len(evlog)
    BY <1>0, <1>4, <2>1, LedgerAssumption DEF Poll, TypeInv, TypeOK, LedgerTypeOK
  <2>3. StepsLeft(b)' = RoundLeft' BY <1>0, <2>2 DEF StepsLeft
  <2>4. StepsLeft(b) = RoundMax + 1 + RoundLeft BY <2>1 DEF StepsLeft
  <2>5. RoundLeft' \in 0 .. RoundMax BY RoundLeftNext
  <2>6. QED BY <1>0, <2>3, <2>4, <2>5 DEF Nearer
<1>5. CASE MonitorNext /\ pc \notin {"down", "poll"}
  <2>1. RoundLeft' < RoundLeft /\ RoundLeft' \in 0 .. RoundMax
    BY <1>5, RoundAdvances, RoundLeftNext
  <2>2. CASE AdminError BY <2>2 DEF AdminError, Nearer
  <2>3. CASE pc = "logs" /\ b <= toBlock
    <3>1. CASE EndLogs
      <4>1. b < cursor BY <1>0, <2>3, <3>1 DEF EndLogs
      <4>2. QED BY <1>0, <2>3, <4>1 DEF OnceInv
    <3>2. EndLogs \/ (pc' = "logs" /\ toBlock' = toBlock)
      BY <1>5, <2>3 DEF MonitorNext, StartMonitor, Poll, DispatchLog, RunHandler, EndPoll,
              AdminError, StartReconciliation, SkipReconciliation, RunReconciler, pollVars
    <3>3. QED BY <2>1, <2>3, <3>1, <3>2 DEF StepsLeft, Nearer
  <2>4. CASE ~ (pc = "logs" /\ b <= toBlock) /\ ~ AdminError
    <3>1. pc' = "logs" => pc = "logs" /\ toBlock' = toBlock
      BY <1>5, <2>4 DEF MonitorNext, StartMonitor, Poll, DispatchLog, RunHandler, EndLogs,
              EndPoll, StartReconciliation, SkipReconciliation, RunReconciler, pollVars
    <3>2. ~ (pc' = "logs" /\ b <= toBlock') BY <2>4, <3>1
    <3>3. StepsLeft(b)' = RoundMax + 1 + RoundLeft' BY <3>2 DEF StepsLeft
    <3>4. StepsLeft(b) = RoundMax + 1 + RoundLeft BY <2>4 DEF StepsLeft
    <3>5. RoundMax + 1 + RoundLeft' < RoundMax + 1 + RoundLeft
      <4>1. \A m \in Nat, k \in Nat, n \in Nat : k < n => m + 1 + k < m + 1 + n
        OBVIOUS
      <4>2. RoundLeft' \in Nat /\ RoundLeft \in Nat BY <1>0, <2>1
      <4>3. QED BY <1>0, <2>1, <4>1, <4>2
    <3>6. QED BY <3>3, <3>4, <3>5 DEF Nearer
  <2>5. QED BY <2>2, <2>3, <2>4
<1>6. QED
  BY <1>1, <1>2, <1>3, <1>4, <1>5
  DEF Next, MonitorNext, StartMonitor, Poll, DispatchLog, RunHandler, EndLogs, EndPoll,
      AdminError, StartReconciliation, SkipReconciliation, RunReconciler

(* The way to an event has an end, which depends on the number of machines *)
(* and the length of the log alone: no iteration of the poll loop goes on  *)
(* for ever, whatever its commands answer and the world does meanwhile.    *)
(* (The loops of processLogs, reconcileOwnership, reconcileNetworkConfig.) *)
THEOREM WayBounded == Spec => [](\A b \in Block : StepsLeft(b) \in 0 .. 2 * RoundMax + 1)
<1>1. TypeInv /\ OnceInv => \A b \in Block : StepsLeft(b) \in 0 .. 2 * RoundMax + 1
  <2>1. ASSUME TypeInv, OnceInv, NEW b \in Block
        PROVE  StepsLeft(b) \in 0 .. 2 * RoundMax + 1
    <3>1. RoundLeft \in 0 .. RoundMax /\ RoundMax \in Nat BY <2>1, RoundLeftBound
    <3>2. QED BY <3>1 DEF StepsLeft
  <2>2. QED BY <2>1
<1>2. QED BY TypeInvariant, OnceInvariant, <1>1, PTL

(* An event that waits comes nearer with each step of the monitor, and no  *)
(* step of anybody else sets it back: only crashes and exceptions do,      *)
(* which are bounded.  With WayBounded, all that EventsHandled still takes *)
(* is that the monitor keeps taking steps.  (poll: a range that was not    *)
(* reached is in the next one, one that was not finished is repeated.)     *)
THEOREM EventsApproached == Spec => [][\A b \in Block : Waits(b) => Nearer(b)]_vars
<1>1. ASSUME TypeInv, OnceInv, TypeInv', OnceInv', [Next]_vars
      PROVE  [\A b \in Block : Waits(b) => Nearer(b)]_vars
  BY <1>1, StepNearer
<1>2. QED BY TypeInvariant, OnceInvariant, <1>1, PTL DEF Spec

-------------------------------------------------------------------------------
(* The network_config_synced flag *)

(* NetFlagSound, what the two writers of the flag know when they write it, *)
(* and why the cleanup that takes the configuration out does no harm: it   *)
(* runs for events of the log that cancelled their subscription.           *)
NetSound(v) == subState[v] # "cancelled" => guest[v].net
NetInv ==
  /\ \A v \in Vm : db[v].netSynced = "true" => NetSound(v)
  /\ hpc = "record" /\ pushed => NetSound(event.sub)
  /\ rpc = "setPushed" => \A v \in Vm : IsFirst(v, pushes) => NetSound(v)
  /\ hpc = "cleanup" => subState[event.sub] = "cancelled"
  /\ \A i \in 1 .. Len(evlog) :
       evlog[i].type = "Cancelled" => subState[evlog[i].sub] = "cancelled"

(* Steps that leave configuration and flag of every machine as they are.   *)
FlagKept ==
  \A w \in Vm : guest'[w].net = guest[w].net /\ db'[w].netSynced = db[w].netSynced

LEMMA StatusFlag ==
  ASSUME HostTypeOK, NEW v \in Vm, NEW o \in Outcome,
         VmDestroy(v, o) \/ VmResume(v, o) \/ GcSuspend(v) \/ GcDestroy(v)
  PROVE  FlagKept
<1>1. \E st \in Status : db' = [db EXCEPT ![v].status = st] \/ db' = db
  BY DEF VmDestroy, VmResume, GcSuspend, GcDestroy, Status
<1>2. guest' = guest
  BY DEF VmDestroy, VmResume, GcSuspend, GcDestroy
<1>3. db \in [Vm -> Record] BY DEF HostTypeOK
<1>4. QED BY <1>1, <1>2, <1>3 DEF FlagKept, Record

LEMMA GecosFlag ==
  ASSUME HostTypeOK, NEW v \in Vm, NEW o \in Outcome, NEW u, UpdateGecos(v, u, o)
  PROVE  FlagKept
<1>1. guest' = [guest EXCEPT ![v].gecos = u] \/ guest' = guest
  BY DEF UpdateGecos
<1>2. db' = db BY DEF UpdateGecos
<1>3. guest \in [Vm -> Guest] BY DEF HostTypeOK
<1>4. QED BY <1>1, <1>2, <1>3 DEF FlagKept, Guest

LEMMA RecordFlag ==
  ASSUME HostTypeOK, NEW v \in Vm, NEW o \in Outcome, NEW r,
         r.netSynced = db[v].netSynced, UpdateRecord(v, r, o)
  PROVE  FlagKept
<1>1. db' = [db EXCEPT ![v] = r] \/ db' = db BY DEF UpdateRecord
<1>2. guest' = guest BY DEF UpdateRecord
<1>3. db \in [Vm -> Record] BY DEF HostTypeOK
<1>4. QED BY <1>1, <1>2, <1>3 DEF FlagKept

LEMMA NetInit == Init => NetInv
BY DEF Init, NetInv, HostInit, HandlerInit, ReconcilerInit, LedgerInit, FreshRecord

(* A step of a handler. *)
LEMMA HandlerNet ==
  ASSUME TypeInv, NetInv, RunHandler
  PROVE  NetInv'
<1>0. /\ HandlerNext /\ event.sub \in Vm /\ event.who \in Owner
      /\ HostTypeOK /\ db \in [Vm -> Record] /\ guest \in [Vm -> Guest]
      /\ UNCHANGED <<subState, evlog>> /\ rpc' = "idle"
  BY DEF RunHandler, TypeInv, TypeOK, Control, Event, Vm, Sub, HostTypeOK, ledgerVars,
         reconcilerVars
<1> DEFINE Flags == \A v \in Vm : db'[v].netSynced = "true" => NetSound(v)'
           Push == hpc' = "record" /\ pushed' => NetSound(event.sub)'
<1> SUFFICES hpc' # "cleanup" /\ Flags /\ Push
  BY <1>0 DEF NetInv
<1>a. ASSUME FlagKept PROVE Flags
  BY <1>0, <1>a DEF FlagKept, NetInv, NetSound
<1>b. UNCHANGED hostVars => FlagKept
  BY DEF hostVars, FlagKept
<1>1. CASE DecryptSignature \/ ResolveAddress \/ QuerySupply \/ ExtendExpiry
  BY <1>1, <1>a, <1>b
  DEF DecryptSignature, ResolveAddress, QuerySupply, ExtendExpiry, Goto, Return
<1>2. CASE StartCreate
  <2>1. FlagKept BY <1>2 DEF StartCreate, FlagKept
  <2>2. QED BY <1>2, <1>a, <2>1 DEF StartCreate, Goto
<1>3. ASSUME NEW o \in Outcome, FinishCreate(o) PROVE hpc' # "cleanup" /\ Flags /\ Push
  <2>1. hpc' \notin {"cleanup", "record"} BY <1>3 DEF FinishCreate, Goto, Return
  <2>2. \/ /\ db' = [db EXCEPT ![event.sub] = FreshRecord("active", event.who)]
           /\ guest' = [guest EXCEPT ![event.sub] = FreshGuest]
        \/ db' = db /\ guest' = guest
    BY <1>3 DEF FinishCreate, VmCreate
  <2>3. FreshRecord("active", event.who).netSynced # "true" BY DEF FreshRecord
  <2>4. ASSUME NEW v \in Vm, db'[v].netSynced = "true"
        PROVE  db'[v] = db[v] /\ guest'[v] = guest[v]
    BY <1>0, <2>2, <2>3, <2>4
  <2>5. Flags BY <1>0, <2>4 DEF NetInv, NetSound
  <2>6. QED BY <2>1, <2>5
<1>4. ASSUME NEW o \in Outcome, SendMint(o) PROVE hpc' # "cleanup" /\ Flags /\ Push
  BY <1>4, <1>a, <1>b DEF SendMint, Goto, Return
<1>5. ASSUME NEW o \in Outcome, PushConfig(o) PROVE hpc' # "cleanup" /\ Flags /\ Push
  <2>1. /\ hpc' = "record" /\ event' = event /\ db' = db
        /\ guest' = IF Applied(o) THEN [guest EXCEPT ![event.sub].net = TRUE] ELSE guest
        /\ pushed' = Reported(o)
    BY <1>5 DEF PushConfig, PushVmConfig
  <2>2. ASSUME NEW v \in Vm, guest[v].net PROVE guest'[v].net
    BY <1>0, <2>1, <2>2 DEF Guest
  <2>3. pushed' => guest'[event.sub].net
    BY <1>0, <2>1 DEF Reported, Applied, Guest
  <2>4. QED BY <1>0, <2>1, <2>2, <2>3 DEF NetInv, NetSound
<1>6. ASSUME NEW o \in Outcome, RecordPush(o) PROVE hpc' # "cleanup" /\ Flags /\ Push
  <2> DEFINE r == [db[event.sub] EXCEPT !.netSynced = IF pushed THEN "true" ELSE "false"]
  <2>1. /\ hpc = "record" /\ hpc' = "gecos" /\ guest' = guest
        /\ db' = [db EXCEPT ![event.sub] = r] \/ db' = db
    BY <1>6 DEF RecordPush, UpdateRecord, Goto
  <2>2. r.netSynced = "true" => pushed
    <3>1. db[event.sub] \in Record BY <1>0
    <3>2. QED BY <3>1 DEF Record
  <2> HIDE DEF r
  <2>3. \A v \in Vm : db'[v] = db[v] \/ (v = event.sub /\ db'[v] = r)
    BY <1>0, <2>1
  <2>4. Flags BY <1>0, <2>1, <2>2, <2>3 DEF NetInv, NetSound
  <2>5. QED BY <2>1, <2>4
<1>7. ASSUME NEW o \in Outcome, SetGecos(o) PROVE hpc' # "cleanup" /\ Flags /\ Push
  <2>1. FlagKept BY <1>0, <1>7, GecosFlag DEF SetGecos
  <2>2. QED BY <1>7, <1>a, <2>1 DEF SetGecos, Goto
<1>8. ASSUME NEW o \in Outcome, MarkMinted(o) PROVE hpc' # "cleanup" /\ Flags /\ Push
  <2>1. [db[event.sub] EXCEPT !.minted = TRUE, !.token = tokenId].netSynced
          = db[event.sub].netSynced
    <3>1. db[event.sub] \in Record BY <1>0
    <3>2. QED BY <3>1 DEF Record
  <2>2. FlagKept BY <1>0, <1>8, <2>1, RecordFlag DEF MarkMinted
  <2>3. QED BY <1>8, <1>a, <2>2 DEF MarkMinted, Return
<1>9. ASSUME NEW o \in Outcome, ResumeVm(o) \/ DestroyVm(o)
      PROVE  hpc' # "cleanup" /\ Flags /\ Push
  <2>1. FlagKept BY <1>0, <1>9, StatusFlag DEF ResumeVm, DestroyVm
  <2>2. QED BY <1>9, <1>a, <2>1 DEF ResumeVm, DestroyVm, Return
<1>10. ASSUME NEW o \in Outcome, CleanupNetwork(o) PROVE hpc' # "cleanup" /\ Flags /\ Push
  <2>1. /\ hpc = "cleanup" /\ hpc' = "destroy" /\ db' = db
        /\ guest' = [guest EXCEPT ![event.sub].net = FALSE] \/ guest' = guest
    BY <1>10 DEF CleanupNetwork, NetworkCleanup, Goto
  <2>2. subState[event.sub] = "cancelled" BY <2>1 DEF NetInv
  <2>3. \A v \in Vm : v # event.sub => guest'[v] = guest[v]
    BY <1>0, <2>1
  <2>4. Flags BY <1>0, <2>1, <2>2, <2>3 DEF NetInv, NetSound
  <2>5. QED BY <2>1, <2>4
<1>11. QED
  BY <1>0, <1>1, <1>2, <1>3, <1>4, <1>5, <1>6, <1>7, <1>8, <1>9, <1>10 DEF HandlerNext

(* A step of the reconciler. *)
LEMMA ReconcilerNet ==
  ASSUME TypeInv, NetInv, RunReconciler
  PROVE  NetInv'
<1>0. /\ ReconcilerNext /\ HostTypeOK /\ db \in [Vm -> Record] /\ guest \in [Vm -> Guest]
      /\ UNCHANGED <<subState, evlog>> /\ hpc' = "idle" /\ pushes \in SUBSET Vm
  BY DEF RunReconciler, TypeInv, TypeOK, Control, HostTypeOK, ledgerVars, handlerVars,
         ReconcilerTypeOK
<1> DEFINE Flags == \A v \in Vm : db'[v].netSynced = "true" => NetSound(v)'
           Push == rpc' = "setPushed" =>
                     \A v \in Vm : IsFirst(v, pushes)' => NetSound(v)'
<1> SUFFICES Flags /\ Push
  BY <1>0 DEF NetInv
<1>a. ASSUME FlagKept PROVE Flags
  BY <1>0, <1>a DEF FlagKept, NetInv, NetSound
<1>1. CASE EndOwners \/ EndPass
  BY <1>1, <1>a DEF EndOwners, EndPass, hostVars, FlagKept
<1>2. ASSUME NEW v \in Vm, NEW answered \in BOOLEAN, CheckOwner(v, answered)
      PROVE  Flags /\ Push
  <2>1. FlagKept BY <1>2 DEF CheckOwner, hostVars, FlagKept
  <2>2. rpc' # "setPushed" BY <1>2 DEF CheckOwner, NextOwner
  <2>3. QED BY <1>a, <2>1, <2>2
<1>3. ASSUME NEW v \in Vm, NEW o \in Outcome,
             SetOwner(v, o) \/ ReconcileGecos(v, o) \/ SetSynced(v, o)
      PROVE  Flags /\ Push
  <2>1. db[v] \in Record BY <1>0
  <2>2. /\ [db[v] EXCEPT !.owner = wallet, !.gecosSynced = "false"].netSynced = db[v].netSynced
        /\ [db[v] EXCEPT !.gecosSynced = "true"].netSynced = db[v].netSynced
    BY <2>1 DEF Record
  <2>3. FlagKept
    BY <1>0, <1>3, <2>2, RecordFlag, GecosFlag DEF SetOwner, ReconcileGecos, SetSynced
  <2>4. rpc' # "setPushed"
    BY <1>3 DEF SetOwner, ReconcileGecos, SetSynced, OwnerStep, NextOwner
  <2>5. QED BY <1>a, <2>3, <2>4
<1>4. ASSUME NEW v \in Vm, NEW o \in Outcome, RetryPush(v, o) PROVE Flags /\ Push
  <2>1. /\ db' = db /\ IsFirst(v, pushes)
        /\ guest' = IF Applied(o) THEN [guest EXCEPT ![v].net = TRUE] ELSE guest
    BY <1>4 DEF RetryPush, PushVmConfig
  <2>2. ASSUME NEW w \in Vm, guest[w].net PROVE guest'[w].net
    BY <1>0, <2>1, <2>2 DEF Guest
  <2>3. Flags BY <1>0, <2>1, <2>2 DEF NetInv, NetSound
  <2>4. ASSUME rpc' = "setPushed", NEW w \in Vm, IsFirst(w, pushes)' PROVE NetSound(w)'
    <3>1. Reported(o) /\ pushes' = pushes BY <1>4, <2>4 DEF RetryPush, NextPush
    <3>2. w = v BY <1>0, <2>1, <2>4, <3>1, FirstUnique DEF IsFirst
    <3>3. guest'[v].net BY <1>0, <2>1, <3>1 DEF Reported, Applied, Guest
    <3>4. QED BY <3>2, <3>3 DEF NetSound
  <2>5. QED BY <2>3, <2>4
<1>5. ASSUME NEW v \in Vm, NEW o \in Outcome, SetPushed(v, o) PROVE Flags /\ Push
  <2> DEFINE r == [db[v] EXCEPT !.netSynced = "true"]
  <2>1. /\ rpc = "setPushed" /\ IsFirst(v, pushes) /\ guest' = guest /\ rpc' = "push"
        /\ db' = [db EXCEPT ![v] = r] \/ db' = db
    BY <1>5 DEF SetPushed, UpdateRecord, NextPush
  <2> HIDE DEF r
  <2>2. \A w \in Vm : db'[w] = db[w] \/ w = v BY <1>0, <2>1
  <2>3. NetSound(v) BY <2>1 DEF NetInv
  <2>4. Flags BY <1>0, <2>1, <2>2, <2>3 DEF NetInv, NetSound
  <2>5. QED BY <2>1, <2>4
<1>6. QED BY <1>0, <1>1, <1>2, <1>3, <1>4, <1>5 DEF ReconcilerNext

LEMMA AppendEntries ==
  ASSUME NEW S, NEW s \in Seq(S), NEW e \in S, NEW i \in 1 .. Len(Append(s, e))
  PROVE  IF i <= Len(s) THEN i \in 1 .. Len(s) /\ Append(s, e)[i] = s[i]
                        ELSE i = Len(s) + 1 /\ Append(s, e)[i] = e
OBVIOUS

(* An event is emitted: a subscription that is cancelled stays cancelled.  *)
LEMMA LedgerNet ==
  ASSUME TypeInv, NetInv, ChainStep
  PROVE  NetInv'
<1>0. /\ LedgerNext /\ LedgerTypeOK /\ UNCHANGED <<db, guest, hpc, event, pushed, rpc, pushes>>
      /\ subState \in [Sub -> {"none", "active", "cancelled"}] /\ evlog \in Seq(Event)
      /\ hpc # "idle" => event.sub \in Sub
  BY DEF ChainStep, TypeInv, TypeOK, Control, LedgerTypeOK, Event, hostVars, handlerVars,
         reconcilerVars
<1>1. PICK s \in Sub :
        \/ \E u \in Owner : BuySubscription(s, u) \/ ExtendSubscription(s, u)
        \/ CancelSubscription(s)
  BY <1>0 DEF LedgerNext
<1>2. PICK e \in Event : /\ evlog' = Append(evlog, e)
                         /\ e.type = "Cancelled" => subState'[e.sub] = "cancelled"
  <2>1. CASE \E u \in Owner : BuySubscription(s, u) \/ ExtendSubscription(s, u)
    BY <2>1 DEF BuySubscription, ExtendSubscription, Emit, Event, EventType
  <2>2. CASE CancelSubscription(s)
    <3>1. subscriber[s] \in Owner BY <1>0, <2>2 DEF LedgerTypeOK, CancelSubscription
    <3>2. QED BY <1>0, <2>2, <3>1 DEF CancelSubscription, Emit, Event, EventType
  <2>3. QED BY <1>1, <2>1, <2>2
<1>3. \A r \in Sub : subState[r] = "cancelled" => subState'[r] = "cancelled"
  BY <1>0, <1>1 DEF BuySubscription, ExtendSubscription, CancelSubscription
<1>4. ASSUME NEW v \in Vm, NetSound(v) PROVE NetSound(v)'
  BY <1>0, <1>3, <1>4 DEF NetSound, Vm
<1>5. ASSUME NEW i \in 1 .. Len(evlog'), evlog'[i].type = "Cancelled"
      PROVE  subState'[evlog'[i].sub] = "cancelled"
  <2>1. CASE i <= Len(evlog)
    <3>1. evlog'[i] = evlog[i] /\ i \in 1 .. Len(evlog)
      BY <1>0, <1>2, <1>5, <2>1, AppendEntries
    <3>2. evlog[i].sub \in Sub
      <4>1. evlog[i] \in Event BY <1>0, <3>1
      <4>2. QED BY <4>1 DEF Event
    <3>3. QED BY <1>3, <1>5, <3>1, <3>2 DEF NetInv
  <2>2. CASE i > Len(evlog)
    <3>1. evlog'[i] = e BY <1>0, <1>2, <1>5, <2>2, AppendEntries
    <3>2. QED BY <1>2, <1>5, <3>1
  <2>3. QED BY <1>0, <1>2, <2>1, <2>2
<1>6. hpc' = "cleanup" => subState'[event'.sub] = "cancelled"
  BY <1>0, <1>3 DEF NetInv
<1>7. hpc' = "record" /\ pushed' => NetSound(event.sub)'
  BY <1>0, <1>3 DEF NetInv, NetSound
<1>8. QED BY <1>0, <1>4, <1>5, <1>6, <1>7 DEF NetInv, IsFirst

LEMMA NetStep == TypeInv /\ NetInv /\ [Next]_vars => NetInv'
<1> SUFFICES ASSUME TypeInv, NetInv, [Next]_vars PROVE NetInv' OBVIOUS
<1>1. CASE RunHandler BY <1>1, HandlerNet
<1>2. CASE RunReconciler BY <1>2, ReconcilerNet
<1>3. CASE ChainStep BY <1>3, LedgerNet
<1>4. CASE UNCHANGED <<subState, evlog, db, guest, hpc, event, pushed, rpc, pushes>>
  BY <1>4 DEF NetInv, NetSound, IsFirst
<1>5. CASE UNCHANGED <<subState, evlog, db, guest>>
           /\ hpc' \notin {"record", "cleanup"} /\ rpc' # "setPushed"
  BY <1>5 DEF NetInv, NetSound
<1>6. CASE DispatchLog
  <2>1. /\ UNCHANGED <<subState, evlog, db, guest, rpc, pushes>> /\ event' = evlog[cursor]
        /\ rpc = "idle"
    BY <1>6 DEF DispatchLog, Handle, ledgerVars, hostVars, reconcilerVars, TypeInv, Control
  <2>2. cursor \in 1 .. Len(evlog)
    BY <1>6 DEF DispatchLog, TypeInv, Control, TypeOK, PollTypeOK, LedgerTypeOK
  <2>3. evlog[cursor] \in Event BY <2>2 DEF TypeInv, TypeOK, LedgerTypeOK
  <2>4. hpc' # "record" /\ (hpc' = "cleanup" => evlog[cursor].type = "Cancelled")
    BY <1>6, <2>3 DEF DispatchLog, Handle, Event, EventType
  <2>5. QED BY <2>1, <2>2, <2>4 DEF NetInv, NetSound
<1>7. CASE StartReconciliation
  <2>1. hpc' = "idle" BY <1>7 DEF StartReconciliation, handlerVars, TypeInv, Control
  <2>2. QED BY <1>5, <1>7, <2>1
    DEF StartReconciliation, StartPass, hostVars, ledgerVars
<1>8. CASE Crash
  BY <1>5, <1>8 DEF Crash, Return, ledgerVars
<1>9. CASE GarbageCollect
  <2>1. PICK v \in Vm : GcSuspend(v) \/ GcDestroy(v) BY <1>9 DEF GarbageCollect
  <2>2. FlagKept BY <2>1, StatusFlag DEF TypeInv, TypeOK, Outcome
  <2>3. UNCHANGED <<subState, evlog, hpc, event, pushed, rpc, pushes>>
    BY <1>9 DEF GarbageCollect, ledgerVars, handlerVars, reconcilerVars
  <2>4. guest' = guest BY <2>1 DEF GcSuspend, GcDestroy
  <2>5. QED BY <2>2, <2>3, <2>4 DEF FlagKept, NetInv, NetSound, IsFirst
<1>10. QED
  BY <1>1, <1>2, <1>3, <1>4, <1>6, <1>7, <1>8, <1>9
  DEF Next, MonitorNext, StartMonitor, Poll, EndLogs, EndPoll, AdminError,
      SkipReconciliation, TransferNft, ForeignMint, vars, ledgerVars, hostVars, handlerVars,
      reconcilerVars

THEOREM NetInvariant == Spec => []NetInv
BY TypeInvariant, NetInit, NetStep, PTL DEF Spec

(* NetFlagSound for every number of machines, events, crashes and repeated *)
(* ranges (the flag is written by handleSubscriptionCreated and            *)
(* reconcileNetworkConfig, after the push, in a step of its own).          *)
THEOREM NetFlagCorrect == Spec => []NetFlagSound
<1>1. NetInv => NetFlagSound BY DEF NetInv, NetFlagSound, NetSound
<1>2. QED BY NetInvariant, <1>1, PTL

-------------------------------------------------------------------------------
(* Destroyed machines *)

(* Only a creation brings a machine to life, and as long as no range is    *)
(* repeated it finds a name that was never used: a subscription is bought  *)
(* once, and its purchase is handled before anything else touches it.      *)
Untouched(s) == db[s].status = "none"
Purchase(i) == evlog[i].type = "Created"
Creating == hpc \in {"decrypt", "create", "creating"}

(* Blocks that the poll loop has still before it. *)
Pending(i) ==
  \/ pc = "logs" /\ (i > cursor \/ (i = cursor /\ hpc = "idle"))
  \/ pc = "admin" /\ i > toBlock
  \/ pc \in {"poll", "periodic", "reconcile"} /\ i > lastProcessedBlock

BoughtOnce ==
  /\ \A i \in 1 .. Len(evlog) : subState[evlog[i].sub] # "none"
  /\ \A i \in 1 .. Len(evlog), j \in 1 .. Len(evlog) :
       Purchase(i) /\ Purchase(j) /\ evlog[i].sub = evlog[j].sub => i = j
AtCursor ==
  /\ pc = "logs" => cursor <= toBlock + 1
  /\ hpc # "idle" => event = evlog[cursor]
  /\ Creating => event.type = "Created"
FreshNames ==
  /\ \A s \in Sub : subState[s] = "none" => Untouched(s)
  /\ adminErrors = 0 =>
       /\ \A i \in 1 .. Len(evlog) : Purchase(i) /\ Pending(i) => Untouched(evlog[i].sub)
       /\ Creating => Untouched(event.sub)
FreshInv == BoughtOnce /\ AtCursor /\ FreshNames

(* Whatever runs on the host but vm-create leaves the status of unused and *)
(* of destroyed names as it is.                                            *)
StatusStays ==
  \A w \in Vm : db[w].status \in {"none", "destroyed"} => db'[w].status = db[w].status

LEMMA CommandStays ==
  ASSUME HostTypeOK, NEW v \in Vm, NEW o \in Outcome,
         VmDestroy(v, o) \/ VmResume(v, o) \/ GcSuspend(v) \/ GcDestroy(v)
  PROVE  StatusStays
<1>1. db \in [Vm -> Record] BY DEF HostTypeOK
<1>2. db[v].status \in {"none", "destroyed"} => db' = db
  BY DEF VmDestroy, VmResume, GcSuspend, GcDestroy, Alive
<1>3. \A w \in Vm : w # v => db'[w] = db[w]
  BY <1>1 DEF VmDestroy, VmResume, GcSuspend, GcDestroy
<1>4. QED BY <1>2, <1>3 DEF StatusStays

LEMMA RecordStays ==
  ASSUME HostTypeOK, NEW v \in Vm, NEW o \in Outcome, NEW r,
         r.status = db[v].status, UpdateRecord(v, r, o)
  PROVE  StatusStays
<1>1. db' = [db EXCEPT ![v] = r] \/ db' = db BY DEF UpdateRecord
<1>2. db \in [Vm -> Record] BY DEF HostTypeOK
<1>3. QED BY <1>1, <1>2 DEF StatusStays

(* Every step of a handler but the end of vm-create. *)
LEMMA HandlerStays ==
  ASSUME HostTypeOK, event \in Event, HandlerNext, hpc # "creating"
  PROVE  StatusStays
<1>0. event.sub \in Vm /\ db[event.sub] \in Record
  BY DEF Event, Vm, Sub, HostTypeOK
<1>1. ASSUME db' = db PROVE StatusStays
  BY <1>1 DEF StatusStays
<1>2. CASE DecryptSignature \/ StartCreate \/ ResolveAddress \/ QuerySupply \/ ExtendExpiry
  BY <1>1, <1>2
  DEF DecryptSignature, StartCreate, ResolveAddress, QuerySupply, ExtendExpiry, hostVars
<1>3. ASSUME NEW o \in Outcome,
             SendMint(o) \/ PushConfig(o) \/ SetGecos(o) \/ CleanupNetwork(o)
      PROVE  StatusStays
  BY <1>1, <1>3
  DEF SendMint, PushConfig, SetGecos, CleanupNetwork, PushVmConfig, UpdateGecos,
      NetworkCleanup, hostVars
<1>4. ASSUME NEW o \in Outcome, RecordPush(o) \/ MarkMinted(o) PROVE StatusStays
  <2>1. /\ [db[event.sub] EXCEPT !.netSynced = IF pushed THEN "true" ELSE "false"].status
             = db[event.sub].status
        /\ [db[event.sub] EXCEPT !.minted = TRUE, !.token = tokenId].status
             = db[event.sub].status
    BY <1>0 DEF Record
  <2>2. QED BY <1>0, <1>4, <2>1, RecordStays DEF RecordPush, MarkMinted
<1>5. ASSUME NEW o \in Outcome, ResumeVm(o) \/ DestroyVm(o) PROVE StatusStays
  BY <1>0, <1>5, CommandStays DEF ResumeVm, DestroyVm
<1>6. ASSUME NEW o \in Outcome PROVE ~ FinishCreate(o)
  BY DEF FinishCreate
<1>7. QED BY <1>2, <1>3, <1>4, <1>5, <1>6 DEF HandlerNext

LEMMA ReconcilerStays ==
  ASSUME HostTypeOK, ReconcilerNext
  PROVE  StatusStays
<1>0. db \in [Vm -> Record] BY DEF HostTypeOK
<1>1. ASSUME db' = db PROVE StatusStays
  BY <1>1 DEF StatusStays
<1>2. CASE EndOwners \/ EndPass
  BY <1>1, <1>2 DEF EndOwners, EndPass, hostVars
<1>3. ASSUME NEW v \in Vm, NEW answered \in BOOLEAN, CheckOwner(v, answered)
      PROVE  StatusStays
  BY <1>1, <1>3 DEF CheckOwner, hostVars
<1>4. ASSUME NEW v \in Vm, NEW o \in Outcome, ReconcileGecos(v, o) \/ RetryPush(v, o)
      PROVE  StatusStays
  BY <1>1, <1>4 DEF ReconcileGecos, RetryPush, UpdateGecos, PushVmConfig
<1>5. ASSUME NEW v \in Vm, NEW o \in Outcome,
             SetOwner(v, o) \/ SetSynced(v, o) \/ SetPushed(v, o)
      PROVE  StatusStays
  <2>1. db[v] \in Record BY <1>0
  <2>2. /\ [db[v] EXCEPT !.owner = wallet, !.gecosSynced = "false"].status = db[v].status
        /\ [db[v] EXCEPT !.gecosSynced = "true"].status = db[v].status
        /\ [db[v] EXCEPT !.netSynced = "true"].status = db[v].status
    BY <2>1 DEF Record
  <2>3. QED BY <1>5, <2>2, RecordStays DEF SetOwner, SetSynced, SetPushed
<1>6. QED BY <1>2, <1>3, <1>4, <1>5 DEF ReconcilerNext

LEMMA FreshTypes ==
  TypeInv => /\ HostTypeOK /\ db \in [Vm -> Record] /\ evlog \in Seq(Event)
             /\ Len(evlog) \in Nat /\ adminErrors \in Nat
             /\ cursor \in Nat /\ toBlock \in Nat /\ lastProcessedBlock \in Nat
             /\ subState \in [Sub -> {"none", "active", "cancelled"}]
             /\ \A i \in 1 .. Len(evlog) : evlog[i] \in Event /\ evlog[i].sub \in Sub
<1> SUFFICES ASSUME TypeInv
             PROVE  /\ HostTypeOK /\ db \in [Vm -> Record] /\ evlog \in Seq(Event)
                    /\ Len(evlog) \in Nat /\ adminErrors \in Nat
                    /\ cursor \in Nat /\ toBlock \in Nat /\ lastProcessedBlock \in Nat
                    /\ subState \in [Sub -> {"none", "active", "cancelled"}]
                    /\ \A i \in 1 .. Len(evlog) : evlog[i] \in Event /\ evlog[i].sub \in Sub
  OBVIOUS
<1>1. /\ HostTypeOK /\ db \in [Vm -> Record] /\ evlog \in Seq(Event)
      /\ subState \in [Sub -> {"none", "active", "cancelled"}]
  BY DEF TypeInv, TypeOK, HostTypeOK, LedgerTypeOK
<1>2. /\ adminErrors \in Nat /\ cursor \in Nat /\ toBlock \in Nat /\ lastProcessedBlock \in Nat
  BY LedgerAssumption, MonitorAssumption DEF TypeInv, TypeOK, PollTypeOK
<1>3. Len(evlog) \in Nat /\ \A i \in 1 .. Len(evlog) : evlog[i] \in Event
  BY <1>1
<1>4. \A e \in Event : e.sub \in Sub BY DEF Event
<1>5. QED BY <1>1, <1>2, <1>3, <1>4

LEMMA FreshInit == Init => FreshInv
<1> SUFFICES ASSUME Init PROVE FreshInv OBVIOUS
<1>1. \A s \in Sub : Untouched(s)
  BY DEF Init, HostInit, FreshRecord, Untouched, Vm
<1>2. evlog = <<>> /\ pc = "down" /\ hpc = "idle"
  BY DEF Init, LedgerInit, HandlerInit
<1>3. QED BY <1>1, <1>2 DEF FreshInv, BoughtOnce, AtCursor, FreshNames, Creating

(* Steps that touch neither the log nor an unused name, and bring no block *)
(* back before the loop.                                                   *)
LEMMA FreshKept ==
  ASSUME TypeInv, BoughtOnce, FreshNames, UNCHANGED <<subState, evlog>>, StatusStays,
         adminErrors' = 0 => adminErrors = 0,
         \A i \in 1 .. Len(evlog) : Pending(i)' => Pending(i),
         Creating' => Creating /\ event' = event,
         event \in Event \/ ~ Creating
  PROVE  BoughtOnce' /\ FreshNames'
<1>1. BoughtOnce' BY DEF BoughtOnce, Purchase
<1>2. ASSUME NEW s \in Sub, Untouched(s) PROVE Untouched(s)'
  BY <1>2 DEF StatusStays, Untouched, Vm
<1>3. \A s \in Sub : subState'[s] = "none" => Untouched(s)'
  BY <1>2 DEF FreshNames
<1>4. ASSUME adminErrors' = 0, NEW i \in 1 .. Len(evlog'), Purchase(i)', Pending(i)'
      PROVE  Untouched(evlog[i].sub)'
  <2>1. Untouched(evlog[i].sub) BY <1>4 DEF FreshNames, Purchase
  <2>2. evlog[i].sub \in Sub BY FreshTypes
  <2>3. Untouched(evlog[i].sub) => db'[evlog[i].sub].status = "none"
    BY <1>2, <2>2 DEF Untouched
  <2>4. QED BY <2>1, <2>3 DEF Untouched
<1>5. ASSUME adminErrors' = 0, Creating' PROVE Untouched(event.sub)'
  <2>1. Untouched(event.sub) /\ event' = event BY <1>5 DEF FreshNames
  <2>2. event.sub \in Sub BY <1>5 DEF Event
  <2>3. Untouched(event.sub) => db'[event.sub].status = "none"
    BY <1>2, <2>2 DEF Untouched
  <2>4. QED BY <2>1, <2>3 DEF Untouched
<1>6. QED BY <1>1, <1>3, <1>4, <1>5 DEF FreshNames

(* The loop reads a log, and steps from block to block. *)
LEMMA PollFresh ==
  ASSUME TypeInv, FreshInv,
         StartMonitor \/ Poll \/ EndLogs \/ EndPoll \/ AdminError \/ SkipReconciliation
  PROVE  FreshInv'
<1>0. /\ Len(evlog) \in Nat /\ adminErrors \in Nat
      /\ cursor \in Nat /\ toBlock \in Nat /\ lastProcessedBlock \in Nat
      /\ BoughtOnce /\ AtCursor /\ FreshNames
  BY FreshTypes DEF FreshInv
<1>1. hpc = "idle"
  BY DEF TypeInv, Control, StartMonitor, Poll, EndLogs, EndPoll, AdminError, SkipReconciliation
<1>2. UNCHANGED <<subState, evlog, db, hpc, event>>
  BY DEF StartMonitor, Poll, EndLogs, EndPoll, AdminError, SkipReconciliation, ledgerVars,
         hostVars, handlerVars
<1>3. adminErrors' = 0 => adminErrors = 0 /\ ~ AdminError
  BY <1>0 DEF StartMonitor, Poll, EndLogs, EndPoll, AdminError, SkipReconciliation, countVars
<1>4. pc' = "logs" => cursor' <= toBlock' + 1
  BY <1>0 DEF StartMonitor, Poll, EndLogs, EndPoll, AdminError, SkipReconciliation
<1>5. ASSUME ~ AdminError, NEW i \in 1 .. Len(evlog), Pending(i)' PROVE Pending(i)
  BY <1>0, <1>1, <1>2, <1>5
  DEF StartMonitor, Poll, EndLogs, EndPoll, SkipReconciliation, Pending, AtCursor
<1>6. StatusStays /\ ~ Creating' /\ ~ Creating
  BY <1>1, <1>2 DEF StatusStays, Creating
<1>7. AtCursor' BY <1>1, <1>2, <1>4, <1>6 DEF AtCursor
<1>8. CASE AdminError
  <2>1. adminErrors' # 0 BY <1>3, <1>8
  <2>2. QED
    BY <1>0, <1>2, <1>7, <2>1 DEF FreshInv, BoughtOnce, Purchase, FreshNames, Untouched
<1>9. CASE ~ AdminError
  BY <1>0, <1>2, <1>3, <1>5, <1>6, <1>7, <1>9, FreshKept DEF FreshInv
<1>10. QED BY <1>8, <1>9

(* The purchase under the cursor is taken up: nothing has used the name.   *)
LEMMA DispatchFresh ==
  ASSUME TypeInv, FreshInv, DispatchLog
  PROVE  FreshInv'
<1>0. /\ BoughtOnce /\ AtCursor /\ FreshNames /\ cursor \in 1 .. Len(evlog)
      /\ evlog[cursor] \in Event
  <2>1. cursor \in 1 .. Len(evlog)
    BY FreshTypes DEF DispatchLog, TypeInv, Control
  <2>2. QED BY <2>1, FreshTypes DEF FreshInv
<1>1. /\ pc = "logs" /\ hpc = "idle" /\ event' = evlog[cursor] /\ hpc' # "idle"
      /\ Creating' => evlog[cursor].type = "Created"
      /\ UNCHANGED <<subState, evlog, db, pc, cursor, toBlock, lastProcessedBlock, adminErrors>>
  BY <1>0 DEF DispatchLog, Handle, Creating, Event, EventType, ledgerVars, hostVars, pollVars,
              countVars
<1>2. BoughtOnce' /\ AtCursor'
  BY <1>0, <1>1 DEF BoughtOnce, AtCursor, Purchase
<1>3. ASSUME NEW i \in 1 .. Len(evlog), Pending(i)' PROVE Pending(i)
  BY <1>1, <1>3 DEF Pending
<1>4. ASSUME Creating', adminErrors' = 0 PROVE Untouched(event.sub)'
  <2>1. Purchase(cursor) /\ Pending(cursor) BY <1>1, <1>4 DEF Purchase, Pending
  <2>2. Untouched(evlog[cursor].sub) BY <1>0, <1>1, <1>4, <2>1 DEF FreshNames
  <2>3. QED BY <1>1, <2>2 DEF Untouched
<1>5. FreshNames'
  BY <1>0, <1>1, <1>3, <1>4 DEF FreshNames, Untouched, Purchase
<1>6. QED BY <1>2, <1>5 DEF FreshInv

(* vm-create ends: no other purchase is of the name it used. *)
LEMMA CreateFresh ==
  ASSUME TypeInv, FreshInv, RunHandler, hpc = "creating"
  PROVE  FreshInv'
<1>0. /\ BoughtOnce /\ AtCursor /\ FreshNames /\ cursor \in 1 .. Len(evlog)
      /\ event \in Event /\ event.sub \in Sub /\ event = evlog[cursor]
      /\ Purchase(cursor) /\ pc = "logs"
  <2>1. cursor \in 1 .. Len(evlog) /\ event \in Event /\ pc = "logs"
    BY FreshTypes DEF RunHandler, TypeInv, Control
  <2>2. event = evlog[cursor] /\ Purchase(cursor)
    BY DEF FreshInv, AtCursor, Creating, Purchase
  <2>3. event.sub \in Sub BY <2>1 DEF Event
  <2>4. QED BY <2>1, <2>2, <2>3 DEF FreshInv
<1>1. PICK o \in Outcome : FinishCreate(o)
  BY DEF RunHandler, HandlerNext, DecryptSignature, StartCreate, ResolveAddress, QuerySupply,
         ExtendExpiry, SendMint, PushConfig, RecordPush, SetGecos, MarkMinted, ResumeVm,
         CleanupNetwork, DestroyVm
<1>2. /\ UNCHANGED <<subState, evlog, pc, toBlock, lastProcessedBlock, adminErrors>>
      /\ \/ hpc' = "address" /\ event' = event /\ cursor' = cursor
         \/ hpc' = "idle" /\ cursor' = cursor + 1
  BY <1>1 DEF RunHandler, FinishCreate, Goto, Return, ledgerVars, countVars
<1>3. \A w \in Sub : w # event.sub => db'[w] = db[w]
  <2>1. \/ db' = [db EXCEPT ![event.sub] = FreshRecord("active", event.who)]
        \/ db' = db
    BY <1>1 DEF FinishCreate, VmCreate
  <2>2. db \in [Sub -> Record] BY FreshTypes DEF Vm
  <2>3. QED BY <1>0, <2>1, <2>2
<1>4. AtCursor'
  BY <1>0, <1>2, FreshTypes DEF AtCursor, Creating, TypeInv, Control
<1>5. BoughtOnce' BY <1>0, <1>2 DEF BoughtOnce, Purchase
<1>6. ASSUME NEW s \in Sub, subState'[s] = "none" PROVE Untouched(s)'
  <2>1. s # event.sub BY <1>0, <1>2, <1>6 DEF BoughtOnce
  <2>2. QED BY <1>0, <1>2, <1>3, <1>6, <2>1 DEF FreshNames, Untouched
<1>7. ASSUME adminErrors' = 0, NEW i \in 1 .. Len(evlog'), Purchase(i)', Pending(i)'
      PROVE  Untouched(evlog[i].sub)'
  <2>1. i \in 1 .. Len(evlog) /\ evlog[i].sub \in Sub /\ Purchase(i)
    BY <1>2, <1>7, FreshTypes DEF Purchase
  <2>2. i > cursor BY <1>0, <1>2, <1>7, <2>1 DEF Pending
  <2>3. Pending(i) BY <1>0, <2>2 DEF Pending
  <2>4. evlog[i].sub # event.sub BY <1>0, <2>1, <2>2 DEF BoughtOnce
  <2>5. Untouched(evlog[i].sub) BY <1>0, <1>2, <1>7, <2>1, <2>3 DEF FreshNames
  <2>6. QED BY <1>2, <1>3, <2>1, <2>4, <2>5 DEF Untouched
<1>8. ~ Creating' BY <1>2 DEF Creating
<1>9. QED BY <1>4, <1>5, <1>6, <1>7, <1>8 DEF FreshInv, FreshNames

(* Any other step of a handler. *)
LEMMA HandlerFresh ==
  ASSUME TypeInv, FreshInv, RunHandler, hpc # "creating"
  PROVE  FreshInv'
<1>0. /\ BoughtOnce /\ AtCursor /\ FreshNames /\ event \in Event /\ HostTypeOK
      /\ HandlerNext /\ hpc # "idle" /\ pc = "logs" /\ cursor \in Nat /\ toBlock \in Nat
      /\ cursor <= toBlock
  BY FreshTypes DEF FreshInv, RunHandler, TypeInv, Control
<1>1. UNCHANGED <<subState, evlog, pc, toBlock, lastProcessedBlock, adminErrors>>
  BY DEF RunHandler, ledgerVars, countVars
<1>2. StatusStays BY <1>0, HandlerStays
<1>3. \/ hpc' # "idle" /\ event' = event /\ cursor' = cursor
      \/ hpc' = "idle" /\ cursor' = cursor + 1
  BY <1>0, HandlerControl DEF RunHandler
<1>4. Creating' => Creating
  BY <1>0
  DEF Creating, HandlerNext, DecryptSignature, StartCreate, FinishCreate, ResolveAddress,
      QuerySupply, ExtendExpiry, SendMint, PushConfig, RecordPush, SetGecos, MarkMinted,
      ResumeVm, CleanupNetwork, DestroyVm, Goto, Return
<1>5. ASSUME NEW i \in 1 .. Len(evlog), Pending(i)' PROVE Pending(i)
  BY <1>0, <1>1, <1>3, <1>5 DEF Pending
<1>6. AtCursor' BY <1>0, <1>1, <1>3, <1>4 DEF AtCursor, Creating
<1>7. Creating' => event' = event BY <1>3 DEF Creating
<1>8. QED BY <1>0, <1>1, <1>2, <1>4, <1>5, <1>6, <1>7, FreshKept DEF FreshInv

(* An event is emitted, behind all others. *)
LEMMA LedgerFresh ==
  ASSUME TypeInv, FreshInv, ChainStep
  PROVE  FreshInv'
<1>0. /\ BoughtOnce /\ AtCursor /\ FreshNames /\ evlog \in Seq(Event) /\ Len(evlog) \in Nat
      /\ subState \in [Sub -> {"none", "active", "cancelled"}] /\ LedgerNext
      /\ \A i \in 1 .. Len(evlog) : evlog[i] \in Event /\ evlog[i].sub \in Sub
      /\ hpc # "idle" => cursor \in 1 .. Len(evlog) /\ event \in Event
  BY FreshTypes DEF FreshInv, ChainStep, TypeInv, Control
<1>1. UNCHANGED <<db, hpc, event, pc, cursor, toBlock, lastProcessedBlock, adminErrors>>
  BY DEF ChainStep, hostVars, handlerVars, pollVars, countVars
<1>2. PICK s \in Sub :
        \/ \E u \in Owner : BuySubscription(s, u) \/ ExtendSubscription(s, u)
        \/ CancelSubscription(s)
  BY <1>0 DEF LedgerNext
<1>3. PICK e \in Event : /\ evlog' = Append(evlog, e)
                         /\ e.sub = s
                         /\ e.type = "Created" => subState[s] = "none"
  <2>1. CASE \E u \in Owner : BuySubscription(s, u) \/ ExtendSubscription(s, u)
    BY <2>1 DEF BuySubscription, ExtendSubscription, Emit, Event, EventType
  <2>2. CASE CancelSubscription(s)
    <3>1. subscriber[s] \in Owner
      BY <1>0, <2>2 DEF TypeInv, TypeOK, LedgerTypeOK, CancelSubscription
    <3>2. QED BY <1>0, <2>2, <3>1 DEF CancelSubscription, Emit, Event, EventType
  <2>3. QED BY <1>2, <2>1, <2>2
<1>4. subState'[s] # "none" /\ \A r \in Sub : subState'[r] = "none" => subState[r] = "none"
  BY <1>0, <1>2 DEF BuySubscription, ExtendSubscription, CancelSubscription
<1>5. ASSUME NEW i \in 1 .. Len(evlog')
      PROVE  IF i <= Len(evlog) THEN i \in 1 .. Len(evlog) /\ evlog'[i] = evlog[i]
                                ELSE i = Len(evlog) + 1 /\ evlog'[i] = e
  BY <1>0, <1>3, <1>5, AppendEntries
<1>6. BoughtOnce'
  <2>1. ASSUME NEW i \in 1 .. Len(evlog') PROVE subState'[evlog'[i].sub] # "none"
    BY <1>0, <1>3, <1>4, <1>5, <2>1 DEF BoughtOnce
  <2>2. ASSUME NEW i \in 1 .. Len(evlog'), NEW j \in 1 .. Len(evlog'),
               Purchase(i)', Purchase(j)', evlog'[i].sub = evlog'[j].sub
        PROVE  i = j
    <3>1. CASE i <= Len(evlog) /\ j <= Len(evlog)
      BY <1>0, <1>5, <2>2, <3>1 DEF BoughtOnce, Purchase
    <3>2. CASE i > Len(evlog) /\ j > Len(evlog)
      BY <1>0, <1>5, <3>2
    <3>3. CASE i <= Len(evlog) /\ j > Len(evlog)
      BY <1>0, <1>3, <1>5, <2>2, <3>3 DEF BoughtOnce, Purchase
    <3>4. CASE i > Len(evlog) /\ j <= Len(evlog)
      BY <1>0, <1>3, <1>5, <2>2, <3>4 DEF BoughtOnce, Purchase
    <3>5. QED BY <1>0, <3>1, <3>2, <3>3, <3>4
  <2>3. QED BY <2>1, <2>2 DEF BoughtOnce
<1>7. AtCursor'
  <2>1. hpc # "idle" => evlog'[cursor] = evlog[cursor]
    BY <1>0, <1>3
  <2>2. QED BY <1>0, <1>1, <2>1 DEF AtCursor, Creating
<1>8. FreshNames'
  <2>1. \A r \in Sub : Untouched(r)' <=> Untouched(r)
    BY <1>1 DEF Untouched
  <2>2. \A r \in Sub : subState'[r] = "none" => Untouched(r)'
    BY <1>0, <1>4, <2>1 DEF FreshNames
  <2>3. ASSUME adminErrors' = 0, NEW i \in 1 .. Len(evlog'), Purchase(i)', Pending(i)'
        PROVE  Untouched(evlog[i].sub)'
    <3>1. Pending(i) BY <1>1, <2>3 DEF Pending
    <3>2. CASE i <= Len(evlog)
      <4>1. Untouched(evlog[i].sub)
        BY <1>0, <1>1, <1>5, <2>3, <3>1, <3>2 DEF FreshNames, Purchase
      <4>2. QED BY <1>1, <1>5, <2>3, <3>2, <4>1 DEF Untouched
    <3>3. CASE i > Len(evlog)
      <4>1. evlog'[i] = e BY <1>0, <1>5, <3>3
      <4>2. Untouched(s) BY <1>0, <1>3, <2>3, <4>1 DEF FreshNames, Purchase
      <4>3. QED BY <1>1, <1>3, <4>1, <4>2 DEF Untouched
    <3>4. QED BY <1>0, <3>2, <3>3
  <2>4. adminErrors' = 0 /\ Creating' => Untouched(event.sub)'
    BY <1>0, <1>1 DEF FreshNames, Creating, Untouched
  <2>5. QED BY <2>2, <2>3, <2>4 DEF FreshNames
<1>9. QED BY <1>6, <1>7, <1>8 DEF FreshInv

LEMMA FreshStep == TypeInv /\ FreshInv /\ [Next]_vars => FreshInv'
<1> SUFFICES ASSUME TypeInv, FreshInv, [Next]_vars PROVE FreshInv' OBVIOUS
<1>a. ASSUME UNCHANGED <<subState, evlog, hpc, event, cursor, toBlock, lastProcessedBlock,
                         adminErrors>>,
             StatusStays,
             pc' = pc \/ (pc \in {"periodic", "reconcile"} /\ pc' \in {"poll", "reconcile"})
      PROVE  FreshInv'
  <2>1. \A i \in 1 .. Len(evlog) : Pending(i)' => Pending(i)
    BY <1>a DEF Pending
  <2>2. Creating' => Creating /\ event' = event BY <1>a DEF Creating
  <2>3. event \in Event \/ ~ Creating BY DEF TypeInv, Control, Creating
  <2>4. BoughtOnce' /\ FreshNames'
    BY <1>a, <2>1, <2>2, <2>3, FreshKept DEF FreshInv
  <2>5. AtCursor' BY <1>a DEF FreshInv, AtCursor, Creating
  <2>6. QED BY <2>4, <2>5 DEF FreshInv
<1>1. CASE StartMonitor \/ Poll \/ EndLogs \/ EndPoll \/ AdminError \/ SkipReconciliation
  BY <1>1, PollFresh
<1>2. CASE DispatchLog BY <1>2, DispatchFresh
<1>3. CASE RunHandler BY <1>3, CreateFresh, HandlerFresh
<1>4. CASE ChainStep BY <1>4, LedgerFresh
<1>5. CASE StartReconciliation \/ TransferNft \/ ForeignMint \/ UNCHANGED vars
  <2>1. StatusStays
    BY <1>5 DEF StartReconciliation, TransferNft, ForeignMint, vars, hostVars, StatusStays
  <2>2. QED
    BY <1>a, <1>5, <2>1
    DEF StartReconciliation, TransferNft, ForeignMint, vars, ledgerVars, handlerVars, pollVars,
        countVars
<1>6. CASE RunReconciler
  <2>1. StatusStays BY <1>6, ReconcilerStays, FreshTypes DEF RunReconciler
  <2>2. QED BY <1>a, <1>6, <2>1 DEF RunReconciler, ledgerVars, handlerVars, countVars
<1>7. CASE GarbageCollect
  <2>1. PICK v \in Vm : GcSuspend(v) \/ GcDestroy(v) BY <1>7 DEF GarbageCollect
  <2>2. StatusStays BY <2>1, CommandStays, FreshTypes DEF Outcome
  <2>3. QED BY <1>a, <1>7, <2>2
    DEF GarbageCollect, ledgerVars, handlerVars, pollVars, countVars
<1>8. CASE Crash
  <2>1. /\ UNCHANGED <<subState, evlog, db, adminErrors>> /\ pc' = "down" /\ hpc' = "idle"
    BY <1>8 DEF Crash, Return, ledgerVars
  <2>2. AtCursor' /\ ~ Creating' /\ \A i \in 1 .. Len(evlog) : ~ Pending(i)'
    BY <2>1 DEF AtCursor, Creating, Pending
  <2>3. QED BY <2>1, <2>2 DEF FreshInv, BoughtOnce, FreshNames, Purchase, Untouched
<1>9. QED
  BY <1>1, <1>2, <1>3, <1>4, <1>5, <1>6, <1>7, <1>8 DEF Next, MonitorNext

THEOREM FreshInvariant == Spec => []FreshInv
BY TypeInvariant, FreshInit, FreshStep, PTL DEF Spec

-------------------------------------------------------------------------------
(* The service that is implemented *)

(* What the mapping to HostingService needs besides the invariants above:  *)
(* a purchase names the buyer, a handler runs on an event of its own kind, *)
(* and a token that is not minted yet was never held.                      *)
BuyersNamed ==
  \A i \in 1 .. Len(evlog) : Purchase(i) => evlog[i].who = subscriber[evlog[i].sub]
EventKinds ==
  /\ hpc \in CreateStep => event.type = "Created"
  /\ hpc \in {"extend", "resume"} => event.type = "Extended"
  /\ hpc \in {"cleanup", "destroy"} => event.type = "Cancelled"
UnmintedTokens ==
  \A t \in TokenId : t >= nextTokenId => everHeld[t] = {} /\ mintedFor[t] = 0
ServiceInv == BuyersNamed /\ EventKinds /\ UnmintedTokens

(* Each handler stays within its own steps. *)
LEMMA HandlerFlow ==
  ASSUME HandlerNext
  PROVE  /\ hpc' \in CreateStep => hpc \in CreateStep
         /\ hpc' \in {"extend", "resume"} => hpc = "extend"
         /\ hpc' \in {"cleanup", "destroy"} => hpc = "cleanup"
<1> USE DEF CreateStep
<1>1. CASE DecryptSignature \/ StartCreate \/ ResolveAddress \/ QuerySupply \/ ExtendExpiry
  BY <1>1 DEF DecryptSignature, StartCreate, ResolveAddress, QuerySupply, ExtendExpiry,
              Goto, Return
<1>2. ASSUME NEW o \in Outcome,
             FinishCreate(o) \/ SendMint(o) \/ PushConfig(o) \/ RecordPush(o) \/ SetGecos(o)
             \/ MarkMinted(o) \/ ResumeVm(o) \/ CleanupNetwork(o) \/ DestroyVm(o)
      PROVE  /\ hpc' \in CreateStep => hpc \in CreateStep
             /\ hpc' \in {"extend", "resume"} => hpc = "extend"
             /\ hpc' \in {"cleanup", "destroy"} => hpc = "cleanup"
  BY <1>2 DEF FinishCreate, SendMint, PushConfig, RecordPush, SetGecos, MarkMinted, ResumeVm,
              CleanupNetwork, DestroyVm, Goto, Return
<1>3. QED BY <1>1, <1>2 DEF HandlerNext

(* A step of a handler mints a token, or leaves the tokens alone. *)
LEMMA HandlerTokens ==
  ASSUME HandlerNext
  PROVE  (hpc = "mint" /\ Mint(event.who, event.sub)) \/ UNCHANGED nftVars
BY DEF HandlerNext, DecryptSignature, StartCreate, FinishCreate, ResolveAddress, SendMint,
       QuerySupply, ExtendExpiry, PushConfig, RecordPush, SetGecos, MarkMinted, ResumeVm,
       CleanupNetwork, DestroyVm

LEMMA MintUnminted ==
  ASSUME NftTypeOK, UnmintedTokens, NEW u \in Owner, NEW v \in 0 .. MaxSubs, Mint(u, v)
  PROVE  UnmintedTokens'
BY NftAssumption DEF NftTypeOK, UnmintedTokens, Mint, TokenId

LEMMA TransferUnminted ==
  ASSUME NftTypeOK, UnmintedTokens, NEW u \in Owner, NEW t \in TokenId, Transfer(t, u)
  PROVE  UnmintedTokens'
BY NftAssumption DEF NftTypeOK, UnmintedTokens, Transfer, TokenId

LEMMA ServiceInvInit == Init => ServiceInv
BY DEF Init, ServiceInv, BuyersNamed, EventKinds, UnmintedTokens, LedgerInit, HandlerInit,
       NftInit, CreateStep

(* An event is emitted: the buyer of a subscription never changes. *)
LEMMA LedgerBuyers ==
  ASSUME TypeInv, FreshInv, BuyersNamed, ChainStep
  PROVE  BuyersNamed'
<1>0. /\ evlog \in Seq(Event) /\ LedgerNext /\ BoughtOnce
      /\ \A i \in 1 .. Len(evlog) : evlog[i].sub \in Sub
      /\ subscriber \in [Sub -> Owner \cup {NoOwner}]
      /\ \A s \in Sub : subState[s] # "none" => subscriber[s] \in Owner
  BY FreshTypes DEF FreshInv, ChainStep, TypeInv, TypeOK, LedgerTypeOK
<1>1. PICK s \in Sub :
        \/ \E u \in Owner : BuySubscription(s, u) \/ ExtendSubscription(s, u)
        \/ CancelSubscription(s)
  BY <1>0 DEF LedgerNext
<1>2. \A r \in Sub : subState[r] # "none" => subscriber'[r] = subscriber[r]
  BY <1>0, <1>1 DEF BuySubscription, ExtendSubscription, CancelSubscription
<1>3. PICK e \in Event :
        evlog' = Append(evlog, e) /\ (e.type = "Created" => e.who = subscriber'[e.sub])
  <2>1. CASE \E u \in Owner : BuySubscription(s, u)
    BY <1>0, <2>1 DEF BuySubscription, Emit, Event, EventType
  <2>2. CASE \E u \in Owner : ExtendSubscription(s, u)
    BY <2>2 DEF ExtendSubscription, Emit, Event, EventType
  <2>3. CASE CancelSubscription(s)
    BY <1>0, <2>3 DEF CancelSubscription, Emit, Event, EventType
  <2>4. QED BY <1>1, <2>1, <2>2, <2>3
<1>4. ASSUME NEW i \in 1 .. Len(evlog'), Purchase(i)'
      PROVE  evlog'[i].who = subscriber'[evlog'[i].sub]
  <2>1. IF i <= Len(evlog) THEN i \in 1 .. Len(evlog) /\ evlog'[i] = evlog[i]
                           ELSE evlog'[i] = e
    BY <1>0, <1>3, AppendEntries
  <2>2. CASE i <= Len(evlog)
    <3>1. evlog[i].who = subscriber[evlog[i].sub]
      BY <1>4, <2>1, <2>2 DEF BuyersNamed, Purchase
    <3>2. subState[evlog[i].sub] # "none" BY <1>0, <2>1, <2>2 DEF BoughtOnce
    <3>3. QED BY <1>0, <1>2, <2>1, <2>2, <3>1, <3>2
  <2>3. CASE ~ (i <= Len(evlog))
    BY <1>3, <1>4, <2>1, <2>3 DEF Purchase
  <2>4. QED BY <2>2, <2>3
<1>5. QED BY <1>4 DEF BuyersNamed

LEMMA ServiceInvStep == TypeInv /\ FreshInv /\ ServiceInv /\ [Next]_vars => ServiceInv'
<1> SUFFICES ASSUME TypeInv, FreshInv, ServiceInv, [Next]_vars PROVE ServiceInv' OBVIOUS
<1>0. BuyersNamed /\ EventKinds /\ UnmintedTokens /\ NftTypeOK
  BY DEF ServiceInv, TypeInv, TypeOK
<1>1. BuyersNamed'
  <2>1. CASE ChainStep BY <1>0, <2>1, LedgerBuyers
  <2>2. CASE UNCHANGED <<evlog, subscriber>>
    BY <1>0, <2>2 DEF BuyersNamed, Purchase
  <2>3. QED
    BY <2>1, <2>2
    DEF Next, MonitorNext, StartMonitor, Poll, DispatchLog, RunHandler, EndLogs, EndPoll,
        AdminError, StartReconciliation, SkipReconciliation, RunReconciler, Crash,
        TransferNft, ForeignMint, GarbageCollect, vars, ledgerVars
<1>2. EventKinds'
  <2>1. CASE DispatchLog
    <3>1. evlog[cursor] \in Event
      BY <2>1, SMTT(30) DEF DispatchLog, TypeInv, Control, TypeOK, PollTypeOK, LedgerTypeOK
    <3>2. QED BY <2>1, <3>1 DEF DispatchLog, Handle, EventKinds, Event, EventType, CreateStep
  <2>2. CASE RunHandler
    <3>1. hpc' # "idle" => event' = event BY <2>2, HandlerControl DEF RunHandler
    <3>2. QED BY <1>0, <2>2, <3>1, HandlerFlow DEF RunHandler, EventKinds, CreateStep
  <2>3. CASE Crash BY <2>3 DEF Crash, Return, EventKinds, CreateStep
  <2>4. CASE UNCHANGED <<hpc, event>> BY <1>0, <2>4 DEF EventKinds
  <2>5. QED
    BY <2>1, <2>2, <2>3, <2>4
    DEF Next, MonitorNext, StartMonitor, Poll, EndLogs, EndPoll, AdminError,
        StartReconciliation, SkipReconciliation, RunReconciler, ChainStep,
        TransferNft, ForeignMint, GarbageCollect, vars, handlerVars
<1>3. UnmintedTokens'
  <2>1. CASE RunHandler
    <3>1. event \in Event /\ HandlerNext BY <2>1 DEF RunHandler, TypeInv, Control
    <3>2. event.who \in Owner /\ event.sub \in 0 .. MaxSubs
      BY <3>1, WalletsAssumption DEF Event, Sub
    <3>3. CASE Mint(event.who, event.sub) BY <1>0, <3>2, <3>3, MintUnminted
    <3>4. CASE UNCHANGED nftVars BY <1>0, <3>4 DEF nftVars, UnmintedTokens
    <3>5. QED BY <3>1, <3>3, <3>4, HandlerTokens
  <2>2. CASE TransferNft BY <1>0, <2>2, TransferUnminted DEF TransferNft
  <2>3. CASE ForeignMint
    <3>1. 0 \in 0 .. MaxSubs BY WalletsAssumption
    <3>2. QED BY <1>0, <2>3, <3>1, MintUnminted DEF ForeignMint
  <2>4. CASE UNCHANGED nftVars BY <1>0, <2>4 DEF nftVars, UnmintedTokens
  <2>5. QED
    BY <2>1, <2>2, <2>3, <2>4
    DEF Next, MonitorNext, StartMonitor, Poll, DispatchLog, EndLogs, EndPoll, AdminError,
        StartReconciliation, SkipReconciliation, RunReconciler, Crash, ChainStep,
        GarbageCollect, vars
<1>4. QED BY <1>1, <1>2, <1>3 DEF ServiceInv

THEOREM ServiceInvariant == Spec => []ServiceInv
BY TypeInvariant, FreshInvariant, ServiceInvInit, ServiceInvStep, PTL DEF Spec

(* Steps that leave the mapped state alone, part by part. *)
LEMMA ChainMapped ==
  ASSUME UNCHANGED <<subState, subscriber, evlog, mintedFor, everHeld>>
  PROVE  UNCHANGED Service!chainVars
BY DEF Service!chainVars, Extended, Holders

LEMMA MachinesMapped ==
  ASSUME \A w \in Vm : /\ db'[w].status = db[w].status /\ db'[w].owner = db[w].owner
                       /\ guest'[w].gecos = guest[w].gecos
  PROVE  UNCHANGED Service!machineVars
<1>1. MachineStatus' = MachineStatus BY DEF MachineStatus, Vm
<1>2. MachineOwner' = MachineOwner BY DEF MachineOwner, Vm
<1>3. MachineLogin' = MachineLogin BY DEF MachineLogin, Vm
<1>4. QED BY <1>1, <1>2, <1>3 DEF Service!machineVars

LEMMA RepeatedMapped == adminErrors' = adminErrors => Repeated' = Repeated
BY DEF Repeated

(* Steps of the host that change the status of one machine. *)
LEMMA StatusMapped ==
  ASSUME HostTypeOK, NEW v \in Vm, NEW st, db' = [db EXCEPT ![v].status = st], guest' = guest
  PROVE  /\ MachineStatus' = [MachineStatus EXCEPT ![v] = st]
         /\ UNCHANGED <<MachineOwner, MachineLogin>>
<1>1. db \in [Sub -> Record] /\ v \in Sub BY DEF HostTypeOK, Vm
<1>2. \A w \in Sub : /\ db'[w].status = IF w = v THEN st ELSE db[w].status
                     /\ db'[w].owner = db[w].owner
  BY <1>1 DEF Record
<1>3. MachineStatus' = [MachineStatus EXCEPT ![v] = st]
  BY <1>1, <1>2 DEF MachineStatus
<1>4. MachineOwner' = MachineOwner BY <1>2 DEF MachineOwner
<1>5. MachineLogin' = MachineLogin BY DEF MachineLogin
<1>6. QED BY <1>3, <1>4, <1>5

(* Steps that only concern the host: nothing of the chain changes.         *)
ChainKept == UNCHANGED <<subState, subscriber, evlog, mintedFor, everHeld, adminErrors>>

LEMMA ChainKeptMapped == ChainKept => UNCHANGED <<Service!chainVars, Repeated>>
BY ChainMapped, RepeatedMapped DEF ChainKept

LEMMA CollectMapped ==
  ASSUME HostTypeOK, ChainKept, NEW v \in Vm, GcSuspend(v) \/ GcDestroy(v)
  PROVE  Service!Suspend(v) \/ Service!Destroy(v)
<1>1. UNCHANGED <<Service!chainVars, Repeated>> BY ChainKeptMapped
<1>2. MachineStatus[v] = db[v].status BY DEF MachineStatus, Vm
<1>3. CASE GcSuspend(v)
  <2>1. db' = [db EXCEPT ![v].status = "suspended"] /\ guest' = guest /\ db[v].status = "active"
    BY <1>3 DEF GcSuspend
  <2>2. QED BY <1>1, <1>2, <2>1, StatusMapped DEF Service!Suspend
<1>4. CASE GcDestroy(v)
  <2>1. db' = [db EXCEPT ![v].status = "destroyed"] /\ guest' = guest /\ db[v].status = "suspended"
    BY <1>4 DEF GcDestroy
  <2>2. QED BY <1>1, <1>2, <2>1, StatusMapped DEF Service!Destroy
<1>5. QED BY <1>3, <1>4

LEMMA ResumeMapped ==
  ASSUME HostTypeOK, ChainKept, NEW v \in Vm, NEW o \in Outcome, VmResume(v, o), v \in Extended
  PROVE  Service!Resume(v) \/ UNCHANGED Service!machineVars
<1>1. UNCHANGED <<Service!chainVars, Repeated>> BY ChainKeptMapped
<1>2. MachineStatus[v] = db[v].status BY DEF MachineStatus, Vm
<1>3. CASE Applied(o)
  <2>1. db' = [db EXCEPT ![v].status = "active"] /\ guest' = guest /\ db[v].status = "suspended"
    BY <1>3 DEF VmResume
  <2>2. QED BY <1>1, <1>2, <2>1, StatusMapped DEF Service!Resume
<1>4. CASE ~ Applied(o)
  BY <1>4, MachinesMapped DEF VmResume
<1>5. QED BY <1>3, <1>4

LEMMA DestroyMapped ==
  ASSUME HostTypeOK, ChainKept, NEW v \in Vm, NEW o \in Outcome, VmDestroy(v, o),
         subState[v] = "cancelled"
  PROVE  Service!Destroy(v) \/ UNCHANGED Service!machineVars
<1>1. UNCHANGED <<Service!chainVars, Repeated>> BY ChainKeptMapped
<1>2. MachineStatus[v] = db[v].status BY DEF MachineStatus, Vm
<1>3. CASE Applied(o)
  <2>1. db' = [db EXCEPT ![v].status = "destroyed"] /\ guest' = guest /\ Alive(v)
    BY <1>3 DEF VmDestroy
  <2>2. QED BY <1>1, <1>2, <2>1, StatusMapped DEF Service!Destroy, Alive
<1>4. CASE ~ Applied(o)
  BY <1>4, MachinesMapped DEF VmDestroy
<1>5. QED BY <1>3, <1>4

LEMMA CreateMapped ==
  ASSUME HostTypeOK, ChainKept, NEW v \in Vm, NEW o \in Outcome, NEW u,
         VmCreate(v, u, o), u = subscriber[v], subState[v] # "none",
         db[v].status \in Status, Repeated \/ db[v].status = "none"
  PROVE  Service!Create(v) \/ UNCHANGED Service!machineVars
<1>1. UNCHANGED <<Service!chainVars, Repeated>> BY ChainKeptMapped
<1>2. MachineStatus[v] = db[v].status BY DEF MachineStatus, Vm
<1>3. CASE Applied(o)
  <2>1. /\ db' = [db EXCEPT ![v] = FreshRecord("active", u)]
        /\ guest' = [guest EXCEPT ![v] = FreshGuest] /\ ~ Alive(v)
    BY <1>3 DEF VmCreate
  <2>2. db \in [Sub -> Record] /\ guest \in [Sub -> Guest] /\ v \in Sub
    BY DEF HostTypeOK, Vm
  <2>3. \A w \in Sub : /\ db'[w].status = IF w = v THEN "active" ELSE db[w].status
                       /\ db'[w].owner = IF w = v THEN u ELSE db[w].owner
                       /\ guest'[w].gecos = IF w = v THEN NoOwner ELSE guest[w].gecos
    BY <2>1, <2>2 DEF FreshRecord, FreshGuest
  <2>4. /\ MachineStatus' = [MachineStatus EXCEPT ![v] = "active"]
        /\ MachineOwner' = [MachineOwner EXCEPT ![v] = subscriber[v]]
        /\ MachineLogin' = [MachineLogin EXCEPT ![v] = NoOwner]
    BY <2>2, <2>3 DEF MachineStatus, MachineOwner, MachineLogin
  <2>5. MachineStatus[v] = "none" \/ (MachineStatus[v] = "destroyed" /\ Repeated)
    BY <1>2, <2>1 DEF Alive, Status
  <2>6. QED BY <1>1, <2>4, <2>5 DEF Service!Create
<1>4. CASE ~ Applied(o)
  BY <1>4, MachinesMapped DEF VmCreate
<1>5. QED BY <1>3, <1>4

(* A write of a record registers the machine to another wallet, or shows   *)
(* nowhere in the service.                                                 *)
LEMMA RegisterMapped ==
  ASSUME HostTypeOK, ChainKept, NEW v \in Vm, NEW o \in Outcome, NEW r,
         UpdateRecord(v, r, o), r.status = db[v].status,
         r.owner = db[v].owner \/ r.owner \in Holders[v]
  PROVE  (r.owner \in Holders[v] /\ Service!Register(v, r.owner)) \/ UNCHANGED Service!machineVars
<1>1. UNCHANGED <<Service!chainVars, Repeated>> BY ChainKeptMapped
<1>2. db \in [Sub -> Record] /\ v \in Sub BY DEF HostTypeOK, Vm
<1>3. CASE Applied(o)
  <2>1. db' = [db EXCEPT ![v] = r] /\ guest' = guest /\ db[v].status # "none"
    BY <1>3 DEF UpdateRecord
  <2>2. \A w \in Sub : /\ db'[w].status = db[w].status
                       /\ db'[w].owner = IF w = v THEN r.owner ELSE db[w].owner
    BY <1>2, <2>1
  <2>3. CASE r.owner = db[v].owner
    BY <2>1, <2>2, <2>3, MachinesMapped DEF Vm
  <2>4. CASE r.owner \in Holders[v]
    <3>1. /\ MachineStatus' = MachineStatus /\ MachineLogin' = MachineLogin
          /\ MachineOwner' = [MachineOwner EXCEPT ![v] = r.owner]
      BY <1>2, <2>1, <2>2 DEF MachineStatus, MachineOwner, MachineLogin
    <3>2. MachineStatus[v] # "none" BY <1>2, <2>1 DEF MachineStatus
    <3>3. QED BY <1>1, <2>4, <3>1, <3>2 DEF Service!Register
  <2>5. QED BY <2>3, <2>4
<1>4. CASE ~ Applied(o)
  BY <1>4, MachinesMapped DEF UpdateRecord
<1>5. QED BY <1>3, <1>4

LEMMA LetInMapped ==
  ASSUME HostTypeOK, ChainKept, NEW v \in Vm, NEW o \in Outcome, NEW u \in Holders[v],
         UpdateGecos(v, u, o)
  PROVE  Service!LetIn(v, u) \/ UNCHANGED Service!machineVars
<1>1. UNCHANGED <<Service!chainVars, Repeated>> BY ChainKeptMapped
<1>2. guest \in [Sub -> Guest] /\ v \in Sub BY DEF HostTypeOK, Vm
<1>3. CASE Applied(o)
  <2>1. db' = db /\ guest' = [guest EXCEPT ![v].gecos = u] /\ db[v].status = "active"
    BY <1>3 DEF UpdateGecos
  <2>2. \A w \in Sub : guest'[w].gecos = IF w = v THEN u ELSE guest[w].gecos
    BY <1>2, <2>1 DEF Guest
  <2>3. /\ MachineStatus' = MachineStatus /\ MachineOwner' = MachineOwner
        /\ MachineLogin' = [MachineLogin EXCEPT ![v] = u]
    BY <1>2, <2>1, <2>2 DEF MachineStatus, MachineOwner, MachineLogin
  <2>4. MachineStatus[v] = "active" BY <1>2, <2>1 DEF MachineStatus
  <2>5. QED BY <1>1, <2>3, <2>4 DEF Service!LetIn
<1>4. CASE ~ Applied(o)
  BY <1>4, MachinesMapped DEF UpdateGecos
<1>5. QED BY <1>3, <1>4

LEMMA NetMapped ==
  ASSUME HostTypeOK, NEW v \in Vm, NEW o \in Outcome, PushVmConfig(v, o) \/ NetworkCleanup(v, o)
  PROVE  UNCHANGED Service!machineVars
<1>1. guest \in [Vm -> Guest] BY DEF HostTypeOK
<1>2. db' = db /\ \E b \in BOOLEAN : guest' = [guest EXCEPT ![v].net = b] \/ guest' = guest
  BY DEF PushVmConfig, NetworkCleanup
<1>3. \A w \in Vm : guest'[w].gecos = guest[w].gecos BY <1>1, <1>2 DEF Guest
<1>4. QED BY <1>2, <1>3, MachinesMapped

(* A token that serves a machine makes its holders the machine's.          *)
LEMMA HolderMapped ==
  ASSUME NftTypeOK, NEW v \in Vm, NEW u, NEW t \in TokenId, HoldsFor(v, u, t)
  PROVE  u \in Holders[v]
BY DEF HoldsFor, Linked, Serves, NftTypeOK, Holders, Vm

LEMMA MintMapped ==
  ASSUME NftTypeOK, UnmintedTokens, NEW u \in Owner, NEW v \in 0 .. MaxSubs, Mint(u, v),
         UNCHANGED <<subState, subscriber, evlog, hostVars, adminErrors>>
  PROVE  \E S \in SUBSET Sub : Service!Receive(S, u)
<1> DEFINE S == {w \in Sub : v \in {0, w}}
<1>1. /\ nextTokenId \in TokenId
      /\ mintedFor' = [mintedFor EXCEPT ![nextTokenId] = v]
      /\ everHeld' = [everHeld EXCEPT ![nextTokenId] = {u}]
      /\ mintedFor \in [TokenId -> 0 .. MaxSubs] /\ everHeld \in [TokenId -> SUBSET Owner]
  BY NftAssumption DEF Mint, TokenId, NftTypeOK
<1>2. everHeld[nextTokenId] = {} BY <1>1 DEF UnmintedTokens, TokenId
<1>3. ASSUME NEW w \in Sub, NEW x \in Owner
      PROVE  x \in Holders'[w] <=> x \in Holders[w] \/ (w \in S /\ x = u)
  <2>1. x \in Holders[w] <=> \E t \in TokenId : mintedFor[t] \in {0, w} /\ x \in everHeld[t]
    BY DEF Holders
  <2>2. x \in Holders'[w] <=> \E t \in TokenId : mintedFor'[t] \in {0, w} /\ x \in everHeld'[t]
    BY DEF Holders
  <2>3. \A t \in TokenId :
          mintedFor'[t] \in {0, w} /\ x \in everHeld'[t]
          <=> \/ mintedFor[t] \in {0, w} /\ x \in everHeld[t]
              \/ t = nextTokenId /\ w \in S /\ x = u
    BY <1>1, <1>2
  <2>4. QED BY <1>1, <2>1, <2>2, <2>3
<1>4. \A w \in Sub : Holders[w] \subseteq Owner /\ Holders'[w] \subseteq Owner BY DEF Holders
<1> HIDE DEF S
<1>5. ASSUME NEW w \in Sub
      PROVE  Holders'[w] = IF w \in S THEN Holders[w] \cup {u} ELSE Holders[w]
  BY <1>3, <1>4
<1>6. Holders' = [w \in Sub |-> IF w \in S THEN Holders[w] \cup {u} ELSE Holders[w]]
  <2>1. Holders' = [w \in Sub |-> Holders'[w]] BY DEF Holders
  <2>2. QED BY <1>5, <2>1
<1>7. UNCHANGED Service!machineVars
  BY MachinesMapped DEF hostVars
<1>8. UNCHANGED <<Extended, Repeated>> BY DEF Extended, Repeated
<1>9. S \in SUBSET Sub BY DEF S
<1>10. QED BY <1>6, <1>7, <1>8, <1>9 DEF Service!Receive, Service!Sub, Sub

LEMMA TransferMapped ==
  ASSUME NftTypeOK, NEW u \in Owner, NEW t \in TokenId, Transfer(t, u),
         UNCHANGED <<subState, subscriber, evlog, hostVars, adminErrors>>
  PROVE  \E S \in SUBSET Sub : Service!Receive(S, u)
<1> DEFINE S == {w \in Sub : mintedFor[t] \in {0, w}}
<1>1. /\ mintedFor' = mintedFor /\ everHeld' = [everHeld EXCEPT ![t] = @ \cup {u}]
      /\ everHeld \in [TokenId -> SUBSET Owner]
  BY DEF Transfer, NftTypeOK
<1>2. ASSUME NEW w \in Sub, NEW x \in Owner
      PROVE  x \in Holders'[w] <=> x \in Holders[w] \/ (w \in S /\ x = u)
  <2>1. x \in Holders[w] <=> \E k \in TokenId : mintedFor[k] \in {0, w} /\ x \in everHeld[k]
    BY DEF Holders
  <2>2. x \in Holders'[w] <=> \E k \in TokenId : mintedFor'[k] \in {0, w} /\ x \in everHeld'[k]
    BY DEF Holders
  <2>3. \A k \in TokenId : x \in everHeld'[k] <=> x \in everHeld[k] \/ (k = t /\ x = u)
    BY <1>1
  <2>4. QED BY <1>1, <2>1, <2>2, <2>3
<1>3. \A w \in Sub : Holders[w] \subseteq Owner /\ Holders'[w] \subseteq Owner BY DEF Holders
<1> HIDE DEF S
<1>4. ASSUME NEW w \in Sub
      PROVE  Holders'[w] = IF w \in S THEN Holders[w] \cup {u} ELSE Holders[w]
  BY <1>2, <1>3
<1>5. Holders' = [w \in Sub |-> IF w \in S THEN Holders[w] \cup {u} ELSE Holders[w]]
  <2>1. Holders' = [w \in Sub |-> Holders'[w]] BY DEF Holders
  <2>2. QED BY <1>4, <2>1
<1>6. UNCHANGED Service!machineVars
  BY MachinesMapped DEF hostVars
<1>7. UNCHANGED <<Extended, Repeated>> BY DEF Extended, Repeated
<1>8. S \in SUBSET Sub BY DEF S
<1>9. QED BY <1>5, <1>6, <1>7, <1>8 DEF Service!Receive, Service!Sub, Sub

LEMMA ExtendedMapped ==
  ASSUME evlog \in Seq(Event), NEW e \in Event, evlog' = Append(evlog, e)
  PROVE  Extended' = IF e.type = "Extended" THEN Extended \cup {e.sub} ELSE Extended
<1>1. Len(evlog') = Len(evlog) + 1 /\ Len(evlog) \in Nat /\ e.sub \in Sub
  BY DEF Event
<1>2. evlog'[Len(evlog) + 1] = e /\ \A i \in 1 .. Len(evlog) : evlog'[i] = evlog[i]
  OBVIOUS
<1>3. ASSUME NEW s \in Sub
      PROVE  (\E i \in 1 .. Len(evlog') : evlog'[i].type = "Extended" /\ evlog'[i].sub = s)
             <=> \/ \E i \in 1 .. Len(evlog) : evlog[i].type = "Extended" /\ evlog[i].sub = s
                 \/ e.type = "Extended" /\ e.sub = s
  <2>1. \A i \in 1 .. Len(evlog') : i \in 1 .. Len(evlog) \/ i = Len(evlog) + 1
    BY <1>1
  <2>2. Len(evlog) + 1 \in 1 .. Len(evlog') /\ \A i \in 1 .. Len(evlog) : i \in 1 .. Len(evlog')
    BY <1>1
  <2>3. QED BY <1>2, <2>1, <2>2
<1>4. QED BY <1>1, <1>3 DEF Extended

LEMMA LedgerMapped ==
  ASSUME TypeInv, ChainStep PROVE Service!Next
<1>0. /\ evlog \in Seq(Event) /\ LedgerNext
      /\ \A s \in Sub : subState[s] # "none" => subscriber[s] \in Owner
  BY DEF ChainStep, TypeInv, TypeOK, LedgerTypeOK
<1>1. UNCHANGED Service!machineVars /\ UNCHANGED <<Holders, Repeated>>
  BY MachinesMapped DEF ChainStep, hostVars, nftVars, countVars, Holders, Repeated
<1>2. ASSUME NEW s \in Sub, NEW u \in Owner, BuySubscription(s, u)
      PROVE  Service!Buy(s, u)
  <2>1. PICK e \in Event : e.type = "Created" /\ evlog' = Append(evlog, e)
    BY <1>2 DEF BuySubscription, Emit, Event, EventType
  <2>2. Extended' = Extended BY <1>0, <2>1, ExtendedMapped
  <2>3. QED BY <1>1, <1>2, <2>2 DEF BuySubscription, Service!Buy
<1>3. ASSUME NEW s \in Sub, NEW u \in Owner, ExtendSubscription(s, u)
      PROVE  Service!Extend(s)
  <2>1. PICK e \in Event : e.type = "Extended" /\ e.sub = s /\ evlog' = Append(evlog, e)
    BY <1>3 DEF ExtendSubscription, Emit, Event, EventType
  <2>2. Extended' = Extended \cup {s} BY <1>0, <2>1, ExtendedMapped
  <2>3. QED BY <1>1, <1>3, <2>2 DEF ExtendSubscription, Service!Extend
<1>4. ASSUME NEW s \in Sub, CancelSubscription(s)
      PROVE  Service!Cancel(s)
  <2>1. PICK e \in Event : e.type = "Cancelled" /\ evlog' = Append(evlog, e)
    BY <1>0, <1>4 DEF CancelSubscription, Emit, Event, EventType
  <2>2. Extended' = Extended BY <1>0, <2>1, ExtendedMapped
  <2>3. QED BY <1>1, <1>4, <2>2 DEF CancelSubscription, Service!Cancel
<1>5. QED BY <1>0, <1>2, <1>3, <1>4 DEF LedgerNext, Service!Next, Service!Sub, Sub

(* A step of a handler: the event it works on says what it may do.         *)
LEMMA HandlerMapped ==
  ASSUME TypeInv, NetInv, LinkInv, FreshInv, ServiceInv, RunHandler
  PROVE  Service!Next \/ UNCHANGED Service!vars
<1>0. /\ HandlerNext /\ hpc # "idle" /\ event \in Event /\ event = evlog[cursor]
      /\ cursor \in 1 .. Len(evlog) /\ HostTypeOK /\ NftTypeOK
      /\ UNCHANGED <<subState, subscriber, evlog, adminErrors>>
  <2>1. /\ HandlerNext /\ hpc # "idle" /\ event \in Event /\ event = evlog[cursor]
        /\ cursor \in 1 .. Len(evlog)
    BY FreshTypes DEF RunHandler, TypeInv, Control, FreshInv, AtCursor
  <2>2. QED BY <2>1 DEF RunHandler, TypeInv, TypeOK, ledgerVars, countVars
<1>1. event.sub \in Vm /\ event.sub \in Sub /\ event.who \in Owner /\ event.sub \in 0 .. MaxSubs
  BY <1>0, WalletsAssumption DEF Event, Vm, Sub
<1> DEFINE v == event.sub
<1>2. UNCHANGED nftVars => ChainKept
  BY <1>0 DEF nftVars, ChainKept
<1>3. ChainKept /\ UNCHANGED Service!machineVars => UNCHANGED Service!vars
  BY ChainKeptMapped DEF Service!vars, Service!chainVars, Service!machineVars, ChainKept
<1>a. ASSUME UNCHANGED hostVars, UNCHANGED nftVars PROVE UNCHANGED Service!vars
  BY <1>2, <1>3, <1>a, MachinesMapped DEF hostVars
<1>4. CASE DecryptSignature \/ ResolveAddress \/ QuerySupply \/ ExtendExpiry
  BY <1>4, <1>a DEF DecryptSignature, ResolveAddress, QuerySupply, ExtendExpiry
<1>5. CASE StartCreate
  BY <1>2, <1>3, <1>5, MachinesMapped DEF StartCreate
<1>6. ASSUME NEW o \in Outcome, FinishCreate(o)
      PROVE  Service!Next \/ UNCHANGED Service!vars
  <2>1. Purchase(cursor) /\ Creating BY <1>0, <1>6 DEF FinishCreate, ServiceInv, EventKinds, CreateStep, Purchase, Creating
  <2>2. event.who = subscriber[v] /\ subState[v] # "none"
    BY <1>0, <2>1 DEF ServiceInv, BuyersNamed, FreshInv, BoughtOnce
  <2>3. db[v].status \in Status BY <1>0, <1>1 DEF HostTypeOK, Record
  <2>4. Repeated \/ db[v].status = "none"
    BY <2>1, FreshTypes DEF Repeated, FreshInv, FreshNames, Untouched
  <2>5. ChainKept /\ VmCreate(v, event.who, o) BY <1>2, <1>6 DEF FinishCreate
  <2>6. Service!Create(v) \/ UNCHANGED Service!machineVars
    BY <1>0, <1>1, <2>2, <2>3, <2>4, <2>5, CreateMapped
  <2>7. QED BY <1>1, <1>3, <2>5, <2>6 DEF Service!Next, Service!Sub, Sub
<1>7. ASSUME NEW o \in Outcome, SendMint(o)
      PROVE  Service!Next \/ UNCHANGED Service!vars
  <2>1. UNCHANGED hostVars BY <1>7 DEF SendMint
  <2>2. CASE Mint(event.who, v)
    <3>1. \E S \in SUBSET Sub : Service!Receive(S, event.who)
      BY <1>0, <1>1, <2>1, <2>2, MintMapped DEF ServiceInv
    <3>2. QED BY <1>1, <3>1 DEF Service!Next, Service!Sub, Sub
  <2>3. CASE UNCHANGED nftVars BY <1>a, <2>1, <2>3
  <2>4. QED BY <1>7, <2>2, <2>3 DEF SendMint
<1>8. ASSUME NEW o \in Outcome, PushConfig(o) \/ CleanupNetwork(o)
      PROVE  Service!Next \/ UNCHANGED Service!vars
  BY <1>0, <1>1, <1>2, <1>3, <1>8, NetMapped DEF PushConfig, CleanupNetwork
<1>9. ASSUME NEW o \in Outcome, RecordPush(o) \/ MarkMinted(o)
      PROVE  Service!Next \/ UNCHANGED Service!vars
  <2>1. PICK r : /\ UpdateRecord(v, r, o)
                 /\ r = [db[v] EXCEPT !.netSynced = IF pushed THEN "true" ELSE "false"]
                    \/ r = [db[v] EXCEPT !.minted = TRUE, !.token = tokenId]
    BY <1>9 DEF RecordPush, MarkMinted
  <2>2. db[v] \in Record BY <1>0, <1>1 DEF HostTypeOK
  <2>3. r.status = db[v].status /\ r.owner = db[v].owner BY <2>1, <2>2 DEF Record
  <2>4. ChainKept BY <1>2, <1>9 DEF RecordPush, MarkMinted
  <2>5. (r.owner \in Holders[v] /\ Service!Register(v, r.owner)) \/ UNCHANGED Service!machineVars
    BY <1>0, <1>1, <2>1, <2>3, <2>4, RegisterMapped
  <2>6. Holders[v] \subseteq Owner BY <1>1 DEF Holders
  <2>7. QED BY <1>1, <1>3, <2>4, <2>5, <2>6 DEF Service!Next, Service!Sub, Sub
<1>10. ASSUME NEW o \in Outcome, SetGecos(o)
      PROVE  Service!Next \/ UNCHANGED Service!vars
  <2>1. ChainKept /\ hpc = "gecos" /\ UpdateGecos(v, event.who, o) BY <1>2, <1>10 DEF SetGecos
  <2>2. PICK t \in TokenId : HoldsFor(v, event.who, t) BY <2>1 DEF LinkInv, AfterSupply
  <2>3. event.who \in Holders[v] BY <1>0, <1>1, <2>2, HolderMapped
  <2>4. Service!LetIn(v, event.who) \/ UNCHANGED Service!machineVars
    BY <1>0, <1>1, <2>1, <2>3, LetInMapped
  <2>5. QED BY <1>1, <1>3, <2>1, <2>4 DEF Service!Next, Service!Sub, Sub
<1>11. ASSUME NEW o \in Outcome, ResumeVm(o)
      PROVE  Service!Next \/ UNCHANGED Service!vars
  <2>1. ChainKept /\ hpc = "resume" /\ VmResume(v, o) BY <1>2, <1>11 DEF ResumeVm
  <2>2. v \in Extended BY <1>0, <1>1, <2>1 DEF ServiceInv, EventKinds, Extended
  <2>3. Service!Resume(v) \/ UNCHANGED Service!machineVars
    BY <1>0, <1>1, <2>1, <2>2, ResumeMapped
  <2>4. QED BY <1>1, <1>3, <2>1, <2>3 DEF Service!Next, Service!Sub, Sub
<1>12. ASSUME NEW o \in Outcome, DestroyVm(o)
      PROVE  Service!Next \/ UNCHANGED Service!vars
  <2>1. ChainKept /\ hpc = "destroy" /\ VmDestroy(v, o) BY <1>2, <1>12 DEF DestroyVm
  <2>2. subState[v] = "cancelled" BY <1>0, <2>1 DEF ServiceInv, EventKinds, NetInv
  <2>3. Service!Destroy(v) \/ UNCHANGED Service!machineVars
    BY <1>0, <1>1, <2>1, <2>2, DestroyMapped
  <2>4. QED BY <1>1, <1>3, <2>1, <2>3 DEF Service!Next, Service!Sub, Sub
<1>13. QED
  BY <1>0, <1>4, <1>5, <1>6, <1>7, <1>8, <1>9, <1>10, <1>11, <1>12 DEF HandlerNext

(* A step of the reconciler registers or lets in the token's owner.        *)
LEMMA ReconcilerMapped ==
  ASSUME TypeInv, LinkInv, RunReconciler
  PROVE  Service!Next \/ UNCHANGED Service!vars
<1>0. /\ ReconcilerNext /\ HostTypeOK /\ NftTypeOK /\ ChainKept
  BY DEF RunReconciler, TypeInv, TypeOK, ledgerVars, nftVars, countVars, ChainKept
<1>1. UNCHANGED Service!machineVars => UNCHANGED Service!vars
  BY <1>0, ChainKeptMapped DEF Service!vars, Service!chainVars, Service!machineVars, ChainKept
<1>2. CASE EndOwners \/ EndPass
  BY <1>1, <1>2, MachinesMapped DEF EndOwners, EndPass, hostVars
<1>3. ASSUME NEW v \in Vm, NEW answered \in BOOLEAN, CheckOwner(v, answered)
      PROVE  UNCHANGED Service!vars
  BY <1>1, <1>3, MachinesMapped DEF CheckOwner, hostVars
<1>4. ASSUME NEW v \in Vm, NEW o \in Outcome, SetOwner(v, o) \/ SetSynced(v, o) \/ SetPushed(v, o)
      PROVE  Service!Next \/ UNCHANGED Service!vars
  <2>1. db[v] \in Record BY <1>0 DEF HostTypeOK
  <2>2. PICK r : /\ UpdateRecord(v, r, o) /\ r.status = db[v].status
                 /\ \/ r.owner = db[v].owner
                    \/ rpc = "setOwner" /\ IsFirst(v, owners) /\ r.owner = wallet
    <3>1. CASE SetOwner(v, o)
      <4> DEFINE r == [db[v] EXCEPT !.owner = wallet, !.gecosSynced = "false"]
      <4>1. UpdateRecord(v, r, o) /\ rpc = "setOwner" /\ IsFirst(v, owners) BY <3>1 DEF SetOwner
      <4>2. r.status = db[v].status /\ r.owner = wallet BY <2>1 DEF Record
      <4>3. QED BY <4>1, <4>2
    <3>2. CASE SetSynced(v, o)
      <4> DEFINE r == [db[v] EXCEPT !.gecosSynced = "true"]
      <4>1. UpdateRecord(v, r, o) BY <3>2 DEF SetSynced
      <4>2. r.status = db[v].status /\ r.owner = db[v].owner BY <2>1 DEF Record
      <4>3. QED BY <4>1, <4>2
    <3>3. CASE SetPushed(v, o)
      <4> DEFINE r == [db[v] EXCEPT !.netSynced = "true"]
      <4>1. UpdateRecord(v, r, o) BY <3>3 DEF SetPushed
      <4>2. r.status = db[v].status /\ r.owner = db[v].owner BY <2>1 DEF Record
      <4>3. QED BY <4>1, <4>2
    <3>4. QED BY <1>4, <3>1, <3>2, <3>3
  <2>3. r.owner = db[v].owner \/ r.owner \in Holders[v]
    <3>1. CASE rpc = "setOwner" /\ IsFirst(v, owners) /\ r.owner = wallet
      <4>1. HoldsFor(v, wallet, db[v].token) BY <3>1 DEF LinkInv
      <4>2. db[v].token \in TokenId BY <4>1 DEF HoldsFor, Linked
      <4>3. QED BY <1>0, <3>1, <4>1, <4>2, HolderMapped
    <3>2. QED BY <2>2, <3>1
  <2>4. (r.owner \in Holders[v] /\ Service!Register(v, r.owner)) \/ UNCHANGED Service!machineVars
    BY <1>0, <2>2, <2>3, RegisterMapped
  <2>5. Holders[v] \subseteq Owner BY DEF Holders, Vm
  <2>6. QED BY <1>1, <2>4, <2>5 DEF Service!Next, Service!Sub, Sub, Vm
<1>5. ASSUME NEW v \in Vm, NEW o \in Outcome, ReconcileGecos(v, o)
      PROVE  Service!Next \/ UNCHANGED Service!vars
  <2>1. rpc = "setGecos" /\ IsFirst(v, owners) /\ UpdateGecos(v, wallet, o)
    BY <1>5 DEF ReconcileGecos
  <2>2. HoldsFor(v, wallet, db[v].token) BY <2>1 DEF LinkInv
  <2>3. db[v].token \in TokenId BY <2>2 DEF HoldsFor, Linked
  <2>4. wallet \in Holders[v] BY <1>0, <2>2, <2>3, HolderMapped
  <2>5. Service!LetIn(v, wallet) \/ UNCHANGED Service!machineVars
    BY <1>0, <2>1, <2>4, LetInMapped
  <2>6. wallet \in Owner BY <2>4 DEF Holders, Vm
  <2>7. QED BY <1>1, <2>5, <2>6 DEF Service!Next, Service!Sub, Sub, Vm
<1>6. ASSUME NEW v \in Vm, NEW o \in Outcome, RetryPush(v, o)
      PROVE  UNCHANGED Service!vars
  BY <1>0, <1>1, <1>6, NetMapped DEF RetryPush
<1>7. QED BY <1>0, <1>2, <1>3, <1>4, <1>5, <1>6 DEF ReconcilerNext

LEMMA ServiceInit == Init => Service!Init
<1> SUFFICES ASSUME Init PROVE Service!Init OBVIOUS
<1>1. /\ subState = [v \in Sub |-> "none"] /\ subscriber = [v \in Sub |-> NoOwner]
      /\ evlog = <<>>
  BY DEF Init, LedgerInit
<1>2. Extended = {} BY <1>1 DEF Extended
<1>3. Holders = [v \in Sub |-> {}] BY DEF Init, NftInit, Holders
<1>4. /\ MachineStatus = [v \in Sub |-> "none"] /\ MachineOwner = [v \in Sub |-> NoOwner]
      /\ MachineLogin = [v \in Sub |-> NoOwner]
  BY DEF Init, HostInit, FreshRecord, FreshGuest, Vm, MachineStatus, MachineOwner, MachineLogin
<1>5. Repeated = FALSE BY DEF Init, Repeated
<1>6. QED BY <1>1, <1>2, <1>3, <1>4, <1>5 DEF Service!Init, Service!Sub, Sub

LEMMA ServiceStep ==
  TypeInv /\ NetInv /\ LinkInv /\ FreshInv /\ ServiceInv /\ [Next]_vars
  => [Service!Next]_(Service!vars)
<1> SUFFICES ASSUME TypeInv, NetInv, LinkInv, FreshInv, ServiceInv, [Next]_vars
             PROVE  Service!Next \/ UNCHANGED Service!vars
  OBVIOUS
<1>1. CASE RunHandler BY <1>1, HandlerMapped
<1>2. CASE RunReconciler BY <1>2, ReconcilerMapped
<1>3. CASE ChainStep BY <1>3, LedgerMapped
<1>4. CASE TransferNft
  <2>1. PICK t \in TokenId, u \in Owner : Transfer(t, u) BY <1>4 DEF TransferNft
  <2>2. \E S \in SUBSET Sub : Service!Receive(S, u)
    BY <1>4, <2>1, TransferMapped DEF TransferNft, ledgerVars, countVars, TypeInv, TypeOK
  <2>3. QED BY <2>2 DEF Service!Next, Service!Sub, Sub
<1>5. CASE ForeignMint
  <2>1. PICK u \in Owner : Mint(u, 0) BY <1>5 DEF ForeignMint
  <2>2. 0 \in 0 .. MaxSubs BY WalletsAssumption
  <2>3. \E S \in SUBSET Sub : Service!Receive(S, u)
    BY <1>5, <2>1, <2>2, MintMapped DEF ForeignMint, ledgerVars, TypeInv, TypeOK, ServiceInv
  <2>4. QED BY <2>3 DEF Service!Next, Service!Sub, Sub
<1>6. CASE GarbageCollect
  <2>1. PICK v \in Vm : GcSuspend(v) \/ GcDestroy(v) BY <1>6 DEF GarbageCollect
  <2>2. ChainKept BY <1>6 DEF GarbageCollect, ledgerVars, nftVars, countVars, ChainKept
  <2>3. Service!Suspend(v) \/ Service!Destroy(v)
    BY <2>1, <2>2, CollectMapped DEF TypeInv, TypeOK
  <2>4. QED BY <2>3 DEF Service!Next, Service!Sub, Sub, Vm
<1>a. ASSUME UNCHANGED <<ledgerVars, nftVars, db, guest>> PROVE UNCHANGED <<Service!chainVars, Service!machineVars>>
  BY <1>a, ChainMapped, MachinesMapped DEF ledgerVars, nftVars
<1>7. CASE AdminError
  <2>1. UNCHANGED <<Service!chainVars, Service!machineVars>>
    BY <1>a, <1>7 DEF AdminError, hostVars
  <2>2. Repeated' = TRUE
    BY <1>7, FreshTypes DEF AdminError, Repeated
  <2>3. QED BY <2>1, <2>2 DEF Service!Next, Service!Repeat
<1>8. CASE UNCHANGED <<ledgerVars, nftVars, db, guest, adminErrors>>
  <2>1. UNCHANGED <<Service!chainVars, Service!machineVars>> BY <1>a, <1>8
  <2>2. Repeated' = Repeated BY <1>8, RepeatedMapped
  <2>3. QED BY <2>1, <2>2 DEF Service!vars, Service!chainVars, Service!machineVars
<1>9. QED
  BY <1>1, <1>2, <1>3, <1>4, <1>5, <1>6, <1>7, <1>8
  DEF Next, MonitorNext, StartMonitor, Poll, DispatchLog, EndLogs, EndPoll,
      StartReconciliation, SkipReconciliation, Crash, vars, hostVars, countVars

(* ImplementsService: for every number of machines, wallets, tokens and    *)
(* events, every order of handlers, passes, collections and crashes, and   *)
(* every outcome of every command, the engine is the service that          *)
(* HostingService describes.                                               *)
THEOREM ServiceImplemented == Spec => ImplementsService
BY TypeInvariant, NetInvariant, LinkInvariant, FreshInvariant, ServiceInvariant,
   ServiceInit, ServiceStep, PTL
DEF Spec, ImplementsService, Service!Spec

(* What the service promises its users holds of vms.json and the guests,   *)
(* because every step of the monitor is a step of the service: Served is   *)
(* an invariant of HostingService, with no word on how it is implemented.  *)
LEMMA MappedTypes ==
  ASSUME TypeInv
  PROVE  /\ MachineStatus = [v \in Sub |-> MachineStatus[v]]
         /\ MachineOwner = [v \in Sub |-> MachineOwner[v]]
         /\ MachineLogin = [v \in Sub |-> MachineLogin[v]]
         /\ Holders = [v \in Sub |-> Holders[v]]
         /\ subState = [v \in Sub |-> subState[v]]
         /\ subscriber = [v \in Sub |-> subscriber[v]]
BY DEF TypeInv, TypeOK, LedgerTypeOK, MachineStatus, MachineOwner, MachineLogin, Holders

LEMMA ServedStep ==
  ASSUME TypeInv, Service!Served, [Service!Next]_(Service!vars)
  PROVE  Service!Served'
<1> USE MappedTypes
<1> USE DEF Service!Served, Service!Sub, Sub, Service!chainVars, Service!machineVars
<1>1. CASE UNCHANGED Service!vars BY <1>1 DEF Service!vars
<1>2. ASSUME NEW v \in Sub, Service!Extend(v) \/ Service!Cancel(v) \/ Service!Create(v)
             \/ Service!Suspend(v) \/ Service!Resume(v) \/ Service!Destroy(v)
      PROVE  Service!Served'
  BY <1>2 DEF Service!Extend, Service!Cancel, Service!Create, Service!Suspend,
              Service!Resume, Service!Destroy
<1>3. ASSUME NEW v \in Sub, NEW u \in Owner,
             Service!Buy(v, u) \/ Service!Register(v, u) \/ Service!LetIn(v, u)
      PROVE  Service!Served'
  BY <1>3 DEF Service!Buy, Service!Register, Service!LetIn
<1>4. ASSUME NEW S \in SUBSET Sub, NEW u \in Owner, Service!Receive(S, u)
      PROVE  Service!Served'
  BY <1>4 DEF Service!Receive
<1>5. CASE Service!Repeat BY <1>5 DEF Service!Repeat
<1>6. QED BY <1>1, <1>2, <1>3, <1>4, <1>5 DEF Service!Next

(* A machine in vms.json is somebody's: it was bought, it is registered to *)
(* the buyer or to one who has held its credential, and who can log in has *)
(* held it too, whatever failed, crashed or was repeated.                  *)
THEOREM ServedCorrect == Spec => []Service!Served
<1>1. Init => Service!Served
  <2>1. Init => Service!Init BY ServiceInit
  <2>2. Service!Init => Service!Served
    BY DEF Service!Init, Service!Served, Service!Sub, Sub
  <2>3. QED BY <2>1, <2>2
<1>2. TypeInv /\ NetInv /\ LinkInv /\ FreshInv /\ ServiceInv /\ Service!Served /\ [Next]_vars
      => Service!Served'
  BY ServiceStep, ServedStep
<1>3. QED
  BY TypeInvariant, NetInvariant, LinkInvariant, FreshInvariant, ServiceInvariant, <1>1, <1>2, PTL
  DEF Spec

(* NoResurrection, read off the service: no step of it makes a destroyed   *)
(* machine live again, unless a range of blocks was repeated.              *)
THEOREM NoResurrectionCorrect == Spec => NoResurrection
<1> DEFINE Stays == \A v \in Vm :
                      /\ subState[v] = "cancelled" /\ db[v].status = "destroyed"
                      /\ adminErrors = 0
                      => db'[v].status = "destroyed"
<1>1. TypeInv /\ NetInv /\ LinkInv /\ FreshInv /\ ServiceInv /\ [Next]_vars => [Stays]_vars
  <2> SUFFICES ASSUME [Service!Next]_(Service!vars), adminErrors = 0,
                      NEW v \in Vm, db[v].status = "destroyed"
               PROVE  db'[v].status = "destroyed"
    BY ServiceStep
  <2>1. MachineStatus[v] = "destroyed" /\ ~ Repeated BY DEF MachineStatus, Repeated, Vm
  <2>2. MachineStatus \in [Sub -> {db[w].status : w \in Sub}] BY DEF MachineStatus
  <2>3. ASSUME Service!Next
        PROVE  \/ MachineStatus' = MachineStatus
               \/ \E w \in Sub, st \in Status :
                    /\ MachineStatus[w] # "destroyed" \/ Repeated
                    /\ MachineStatus' = [MachineStatus EXCEPT ![w] = st]
    BY <2>3, Zenon
    DEF Service!Next, Service!machineVars, Service!Buy, Service!Extend, Service!Cancel,
        Service!Receive, Service!Create, Service!Register, Service!LetIn, Service!Suspend,
        Service!Resume, Service!Destroy, Service!Repeat, Service!Sub, Sub, Status
  <2>4. MachineStatus'[v] = "destroyed"
    BY <2>1, <2>2, <2>3 DEF Service!vars, Vm
  <2>5. QED BY <2>4 DEF MachineStatus, Vm
<1>2. QED
  BY TypeInvariant, NetInvariant, LinkInvariant, FreshInvariant, ServiceInvariant, <1>1, PTL
  DEF Spec, NoResurrection
===============================================================================
