------------------------------- MODULE Monitor --------------------------------
(***************************************************************************)
(* src/monitor/index.ts: the poll loop that drives the handlers and the    *)
(* reconciler, against a chain and a host that move on their own, with the *)
(* process crashing and being restarted by systemd at any point.           *)
(***************************************************************************)
EXTENDS Handlers, Reconciler

CONSTANTS
  MaxCrashes,       \* bound: crashes of the monitor
  MaxAdminErrors,   \* bound: exceptions out of processAdminCommands
  MaxForeignMints,  \* bound: tokens minted by anybody but the monitor
  GcEnabled,        \* the expiry garbage collector runs
  LockSurvivesKill  \* killing vm-create may leave provisioning.lock behind

ASSUME MonitorAssumption ==
  /\ MaxCrashes \in Nat
  /\ MaxAdminErrors \in Nat
  /\ MaxForeignMints \in Nat
  /\ GcEnabled \in BOOLEAN
  /\ LockSurvivesKill \in BOOLEAN

VARIABLES
  pc,                 \* "down", or where the poll loop is
  lastProcessedBlock, \* every block up to this one counts as processed
  toBlock,            \* currentBlock as read at the top of this poll
  cursor,             \* the next block whose event is to be handled
  crashes, adminErrors, foreignMints, \* how often it happened (bounded)
  handled,            \* history: per block, how often a handler finished it
  missed              \* history: blocks that were skipped by a restart

pollVars == <<pc, lastProcessedBlock, toBlock, cursor>>
countVars == <<crashes, adminErrors, foreignMints>>
historyVars == <<handled, missed>>
vars == <<ledgerVars, nftVars, hostVars, handlerVars, reconcilerVars, pollVars,
          countVars, historyVars>>

Block == 1 .. MaxEvents

PollTypeOK ==
  /\ pc \in {"down", "poll", "logs", "admin", "periodic", "reconcile"}
  /\ lastProcessedBlock \in 0 .. MaxEvents
  /\ toBlock \in 0 .. MaxEvents
  /\ cursor \in 0 .. MaxEvents + 1
  /\ crashes \in 0 .. MaxCrashes
  /\ adminErrors \in 0 .. MaxAdminErrors
  /\ foreignMints \in 0 .. MaxForeignMints
  /\ handled \in [Block -> Nat]
  /\ missed \in SUBSET Block

TypeOK ==
  /\ LedgerTypeOK /\ NftTypeOK /\ HostTypeOK
  /\ HandlerTypeOK /\ ReconcilerTypeOK /\ PollTypeOK

Init ==
  /\ LedgerInit /\ NftInit /\ HostInit /\ HandlerInit /\ ReconcilerInit
  /\ pc = "down"
  /\ lastProcessedBlock = 0 /\ toBlock = 0 /\ cursor = 0
  /\ crashes = 0 /\ adminErrors = 0 /\ foreignMints = 0
  /\ handled = [b \in Block |-> 0]
  /\ missed = {}

-------------------------------------------------------------------------------
(* The monitor process *)

\* Mutant: a restart begins with the first block.
StartMonitorAtGenesis ==
  /\ pc = "down"
  /\ pc' = "poll"
  /\ lastProcessedBlock' = 0
  /\ UNCHANGED <<ledgerVars, nftVars, hostVars, handlerVars, reconcilerVars,
                 toBlock, cursor, countVars, historyVars>>

\* main: whatever happened before the start is never looked at.
StartMonitor ==
  /\ pc = "down"
  /\ pc' = "poll"
  /\ lastProcessedBlock' = Len(evlog)
  /\ missed' = missed \cup {b \in 1 .. Len(evlog) : handled[b] = 0}
  /\ UNCHANGED <<ledgerVars, nftVars, hostVars, handlerVars, reconcilerVars,
                 toBlock, cursor, countVars, handled>>

\* Mutant: a range of a single block is left for later.
PollTwoBlocks ==
  /\ pc = "poll"
  /\ IF Len(evlog) > lastProcessedBlock + 1
       THEN /\ pc' = "logs"
            /\ toBlock' = Len(evlog)
            /\ cursor' = lastProcessedBlock + 1
       ELSE pc' = "periodic" /\ UNCHANGED <<toBlock, cursor>>
  /\ UNCHANGED <<ledgerVars, nftVars, hostVars, handlerVars, reconcilerVars,
                 lastProcessedBlock, countVars, historyVars>>

\* getBlockNumber, then getLogs over the blocks that are new.
Poll ==
  /\ pc = "poll"
  /\ IF Len(evlog) > lastProcessedBlock
       THEN /\ pc' = "logs"
            /\ toBlock' = Len(evlog)
            /\ cursor' = lastProcessedBlock + 1
       ELSE pc' = "periodic" /\ UNCHANGED <<toBlock, cursor>>
  /\ UNCHANGED <<ledgerVars, nftVars, hostVars, handlerVars, reconcilerVars,
                 lastProcessedBlock, countVars, historyVars>>

\* processLogs: the next log goes to its handler, which is awaited.
DispatchLog ==
  /\ pc = "logs"
  /\ cursor <= toBlock
  /\ Handle(evlog[cursor])
  /\ UNCHANGED <<ledgerVars, nftVars, hostVars, reconcilerVars, pollVars,
                 countVars, historyVars>>

RunHandler ==
  /\ pc = "logs"
  /\ hpc # "idle"
  /\ HandlerNext
  /\ IF hpc' = "idle"
       THEN /\ handled' = [handled EXCEPT ![cursor] = @ + 1]
            /\ cursor' = cursor + 1
       ELSE UNCHANGED <<handled, cursor>>
  /\ UNCHANGED <<ledgerVars, reconcilerVars, pc, lastProcessedBlock, toBlock,
                 countVars, missed>>

EndLogs ==
  /\ pc = "logs"
  /\ hpc = "idle"
  /\ cursor > toBlock
  /\ pc' = "admin"
  /\ UNCHANGED <<ledgerVars, nftVars, hostVars, handlerVars, reconcilerVars,
                 lastProcessedBlock, toBlock, cursor, countVars, historyVars>>

\* Mutant: the block number is read again after the range was handled.
EndPollAtHead ==
  /\ pc = "admin"
  /\ pc' = "periodic"
  /\ lastProcessedBlock' = Len(evlog)
  /\ UNCHANGED <<ledgerVars, nftVars, hostVars, handlerVars, reconcilerVars,
                 toBlock, cursor, countVars, historyVars>>

\* processAdminCommands returned: the range counts as processed.
EndPoll ==
  /\ pc = "admin"
  /\ pc' = "periodic"
  /\ lastProcessedBlock' = toBlock
  /\ UNCHANGED <<ledgerVars, nftVars, hostVars, handlerVars, reconcilerVars,
                 toBlock, cursor, countVars, historyVars>>

\* It threw: the outer catch logs it, and the next poll repeats the range.
AdminError ==
  /\ pc = "admin"
  /\ adminErrors < MaxAdminErrors
  /\ adminErrors' = adminErrors + 1
  /\ pc' = "poll"
  /\ UNCHANGED <<ledgerVars, nftVars, hostVars, handlerVars, reconcilerVars,
                 lastProcessedBlock, toBlock, cursor, crashes, foreignMints,
                 historyVars>>

\* The reconciliation interval has elapsed, and no vm-create holds the lock.
StartReconciliation ==
  /\ pc = "periodic"
  /\ StartPass
  /\ pc' = "reconcile"
  /\ UNCHANGED <<ledgerVars, nftVars, hostVars, handlerVars, lastProcessedBlock,
                 toBlock, cursor, countVars, historyVars>>

\* It has not, or a vm-create does.
SkipReconciliation ==
  /\ pc = "periodic"
  /\ pc' = "poll"
  /\ UNCHANGED <<ledgerVars, nftVars, hostVars, handlerVars, reconcilerVars,
                 lastProcessedBlock, toBlock, cursor, countVars, historyVars>>

RunReconciler ==
  /\ pc = "reconcile"
  /\ rpc # "idle"
  /\ ReconcilerNext
  /\ pc' = IF rpc' = "idle" THEN "poll" ELSE "reconcile"
  /\ UNCHANGED <<ledgerVars, nftVars, handlerVars, lastProcessedBlock, toBlock,
                 cursor, countVars, historyVars>>

MonitorNext ==
  \/ StartMonitor \/ Poll \/ DispatchLog \/ RunHandler \/ EndLogs \/ EndPoll
  \/ AdminError \/ StartReconciliation \/ SkipReconciliation \/ RunReconciler

\* The process dies, with its children; only files survive.
Crash ==
  /\ pc # "down"
  /\ crashes < MaxCrashes
  /\ crashes' = crashes + 1
  /\ pc' = "down"
  /\ lastProcessedBlock' = 0 /\ toBlock' = 0 /\ cursor' = 0
  /\ Return
  /\ rpc' = "idle" /\ owners' = {} /\ pushes' = {} /\ wallet' = NoOwner
  /\ \/ lock' = FALSE
     \/ LockSurvivesKill /\ lock' = lock
  /\ UNCHANGED <<ledgerVars, nftVars, db, guest, adminErrors, foreignMints,
                 historyVars>>

-------------------------------------------------------------------------------
(* The chain, the users and the garbage collector *)

ChainStep ==
  /\ LedgerNext
  /\ UNCHANGED <<nftVars, hostVars, handlerVars, reconcilerVars, pollVars,
                 countVars, historyVars>>

TransferNft ==
  /\ \E t \in TokenId, u \in Owner : Transfer(t, u)
  /\ UNCHANGED <<ledgerVars, hostVars, handlerVars, reconcilerVars, pollVars,
                 countVars, historyVars>>

\* The operator or the wizard runs blockhost-mint-nft.
ForeignMint ==
  /\ foreignMints < MaxForeignMints
  /\ foreignMints' = foreignMints + 1
  /\ \E u \in Owner : Mint(u, 0)
  /\ UNCHANGED <<ledgerVars, hostVars, handlerVars, reconcilerVars, pollVars,
                 crashes, adminErrors, historyVars>>

GarbageCollect ==
  /\ GcEnabled
  /\ \E v \in Vm : GcSuspend(v) \/ GcDestroy(v)
  /\ UNCHANGED <<ledgerVars, nftVars, handlerVars, reconcilerVars, pollVars,
                 countVars, historyVars>>

Next ==
  \/ MonitorNext
  \/ Crash
  \/ ChainStep
  \/ TransferNft
  \/ ForeignMint
  \/ GarbageCollect

Spec == Init /\ [][Next]_vars

-------------------------------------------------------------------------------
(* Safety *)

(* A set gecos_synced flag can be believed: the wallet inside the guest is *)
(* the wallet vms.json calls the owner, whatever failed or crashed on the  *)
(* way.  (reconcileOwnership trusts the flag and never looks again.)       *)
GecosFlagSound ==
  \A v \in Vm : db[v].gecosSynced = "true" => guest[v].gecos = db[v].owner

(* A set network_config_synced flag can be believed as long as the         *)
(* subscription stands: the configuration is in the guest.  (The           *)
(* reconciler skips flagged machines; a cancellation takes it out again.)  *)
NetFlagSound ==
  \A v \in Vm : /\ db[v].netSynced = "true"
                /\ subState[v] # "cancelled"
                => guest[v].net

\* A token minted for machine v or, once others mint too, for no machine.
Serves(t, v) == mintedFor[t] = v \/ (foreignMints > 0 /\ mintedFor[t] = 0)

(* A VM record marked as minted names a token that was minted for this VM; *)
(* when others mint as well it may name one of theirs, but never the token *)
(* of another VM.  (Steps 5 to 8 of handleSubscriptionCreated carry the id *)
(* through a child's output.)                                              *)
TokenLinked ==
  \A v \in Vm : db[v].minted => db[v].token \in TokenId /\ Serves(db[v].token, v)

(* Only wallets that hold, or once held, the NFT of a VM are ever written  *)
(* into the VM, never the holder of another VM's NFT.  (update-gecos is    *)
(* called by the handler and, with the owner read from the chain, by the   *)
(* reconciler; PAM believes what it wrote.)                                *)
AccessOnlyToHolders ==
  \A v \in Vm : guest[v].gecos # NoOwner =>
    \E t \in TokenId : Serves(t, v) /\ guest[v].gecos \in everHeld[t]

(* No event falls between two polls: every block that counts as processed, *)
(* and every block before one whose event was handled, was handled itself  *)
(* or skipped by a restart.  And it is handled at most once, and once more *)
(* for every exception that made the poll loop repeat its range; a restart *)
(* repeats nothing.  (lastProcessedBlock in the poll loop.)                *)
EachBlockOnce ==
  \A b \in Block :
    /\ (b <= lastProcessedBlock \/ \E c \in Block : b < c /\ handled[c] > 0)
         => handled[b] > 0 \/ b \in missed
    /\ handled[b] <= 1 + adminErrors

(* A destroyed VM of a cancelled subscription stays destroyed, across      *)
(* crashes and restarts, unless a range of blocks was repeated.            *)
NoResurrection ==
  [][\A v \in Vm :
       /\ subState[v] = "cancelled" /\ db[v].status = "destroyed"
       /\ adminErrors = 0
       => db'[v].status = "destroyed"]_vars

-------------------------------------------------------------------------------
(* Refinement: what HostingService calls a machine's status, owner and     *)
(* login is in vms.json and in the guest; what it calls a holder, anybody  *)
(* who ever owned a token of the machine, or one minted for no machine.    *)

Extended ==
  {s \in Sub : \E i \in 1 .. Len(evlog) : evlog[i].type = "Extended" /\ evlog[i].sub = s}
Holders ==
  [v \in Sub |-> {u \in Owner : \E t \in TokenId : mintedFor[t] \in {0, v} /\ u \in everHeld[t]}]
MachineStatus == [v \in Sub |-> db[v].status]
MachineOwner == [v \in Sub |-> db[v].owner]
MachineLogin == [v \in Sub |-> guest[v].gecos]
Repeated == adminErrors > 0

Service == INSTANCE HostingService WITH
  subscription <- subState, buyer <- subscriber, extended <- Extended, holders <- Holders,
  status <- MachineStatus, owner <- MachineOwner, login <- MachineLogin,
  repeated <- Repeated

(* The monitor, the host, the collector and the contracts together are the *)
(* service HostingService describes: a machine is made once, for a bought  *)
(* subscription, and registered to its buyer; it is resumed only after an  *)
(* extension, destroyed only when cancelled or expired; and every wallet   *)
(* it is registered to or lets in later has held its credential.           *)
(* (handlers/index.ts and reconcile/index.ts, through vms.json.)           *)
ImplementsService == Service!Spec

-------------------------------------------------------------------------------
(* Liveness.  The monitor keeps running, systemd restarts it after a       *)
(* crash, the reconciliation interval elapses again and again, and a       *)
(* command that is retried for ever succeeds in the end.  Nothing is       *)
(* assumed of commands the code runs once.                                 *)

Reconciles(A) == pc = "reconcile" /\ A /\ RunReconciler

PollFairSpec == Spec /\ WF_vars(MonitorNext)

Fairness ==
  /\ WF_vars(MonitorNext)
  /\ SF_vars(StartReconciliation)
  /\ \A v \in Vm :
       /\ SF_vars(Reconciles(CheckOwner(v, TRUE)))
       /\ SF_vars(Reconciles(SetOwner(v, "ok")))
       /\ SF_vars(Reconciles(ReconcileGecos(v, "ok")))
       /\ SF_vars(Reconciles(SetSynced(v, "ok")))
       /\ SF_vars(Reconciles(RetryPush(v, "ok")))
       /\ SF_vars(Reconciles(SetPushed(v, "ok")))

FairSpec == Spec /\ Fairness

(* Every event is eventually handled, unless the monitor was restarted     *)
(* after it was emitted.                                                   *)
EventsHandled ==
  \A b \in Block : Len(evlog) >= b ~> handled[b] > 0 \/ b \in missed

(* A transfer of the NFT reaches the guest: a machine with a login, whose  *)
(* NFT belongs to another wallet than vms.json says, eventually has the    *)
(* NFT's owner as its login, unless it is suspended or destroyed.          *)
OwnershipPropagates ==
  \A v \in Vm :
    /\ db[v].status = "active" /\ db[v].minted
    /\ guest[v].gecos # NoOwner
    /\ nftOwner[db[v].token] # db[v].owner
    ~> \/ db[v].minted /\ guest[v].gecos = nftOwner[db[v].token]
       \/ db[v].status # "active"

(* A machine left without network configuration by a failed push, or by a  *)
(* handler that died or gave up before it, gets it in the end.             *)
NetworkConverges ==
  \A v \in Vm :
    db[v].status = "active" ~>
      \/ db[v].netSynced = "true" /\ guest[v].net
      \/ db[v].status # "active"
      \/ subState[v] = "cancelled"

===============================================================================
