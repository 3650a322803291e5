# A formal model of blockhost-engine-evm

This directory holds TLA+ models of the engine that connects an Ethereum
contract to virtual machines: TLC checks them on small instances, TLAPS proves
theorems about them for every value of their constants.

    tlc -workers 2 -config MCMonitor_safety.cfg MCMonitor   # a run
    tlapm MonitorProofs.tla                                 # the proofs

`PROJECT.json` lists components, runs, a mutant for each property, the source
lines each definition stands for, findings, hazards and theorems.

## 1. The system

A user buys a subscription from a contract. A monitor on the host reads the
contract's events and has a machine created, an access NFT minted, the network
configured and the user's wallet written into the guest (its GECOS field, which
PAM believes). A reconciler repairs what failed and follows transfers of the
NFT. The administrator sends commands as transactions, a fund manager moves the
revenue, a wizard installs all of it.

| component | state | operations | talks to |
|---|---|---|---|
| Subscription contract (`contracts/BlockhostSubscriptions.sol`) | plans, payment methods, subscriptions, token balances, settings | buy, extend, cancel, plan and method administration, withdraw | Uniswap pairs (reserves), ERC-20 tokens; its events drive the monitor |
| Access NFT (`contracts/src/AccessCredentialNFT.sol`, `scripts/mint_nft.py`) | owner and holders of each token, next id | mint, transfer | handlers mint, the reconciler reads owners |
| Event monitor (`src/monitor`) | `lastProcessedBlock`, timers, PID file | poll, dispatch of logs, admin commands, periodic tasks | everything below, in one thread |
| Handlers (`src/handlers`) | the step they are in, token id, push result | created, extended, cancelled | provisioner, network hook, vmdb, mint: one child process after the other |
| Reconciler (`src/reconcile`) | a snapshot of `vms.json` | ownership pass, network pass | chain, vmdb, guests; deferred by `provisioning.lock` |
| Host programs (not in the repository) | `vms.json`, the guests, the lock | create, destroy, resume, update-gecos, push, cleanup, garbage collection | called by handlers and reconciler |
| Admin commands (`src/admin`) | `seenNonces`, `admin-nonces.json`, a save timer | validate, burn, prune, save, load, flush | monitor, knock handler |
| Port knocking (`admin/handlers/knock.ts`) | `activeKnocks`, pollers, firewall rules | open, transition after login, close | root agent, heartbeat file, auth log |
| Root agent client (`src/root-agent`) | one socket per request | call, timeout | root agent |
| Fund manager (`src/fund-manager`, `src/bw`) | state file, balances and gas of two wallets | withdraw, gas, buffer, revenue shares, remainder, swap; `bw` by hand | chain, address book |
| Address book (`src/addressbook`, `ab`) | one JSON file, key files | load, save, generate | fund manager, monitor, CLI, root agent |
| PID file (`src/monitor/index.ts`) | one file | check, write, remove | systemd, other users' monitors |
| Wizard (`blockhost/engine_evm/wizard.py`) | setup state, files, contracts | form, finalization steps | chain, address book |
| Sign-up page (`scripts/signup-engine.js`) | a browser session | connect, sign, quote, approve, purchase | wallet, contract |
| Cryptography helper, deployment, packaging | none | | |

What is hard, and what makes each component correct:

- **Monitor.** A poll lasts minutes while the chain moves; an exception repeats
  the whole range of blocks; a restart skips what it missed. Correct: no block
  falls between two polls, nothing is handled twice but a repeated range, events
  are eventually handled unless a restart skipped them, a cancelled machine
  stays destroyed.
- **Handlers, NFT.** Creation has eight steps, each of which can fail, or
  succeed and be reported as failed, or be cut by a crash; the token id comes
  from a second query. Correct: a record never names another machine's token, a
  guest admits only holders of its machine's token.
- **Reconciler.** A pass works on a snapshot while the garbage collector writes
  the same records and NFTs change hands. Correct: its two "synchronised" flags
  can be believed; transfers and network configuration get through in the end.
- **Admin commands.** Commands are valid in one window and remembered in
  another, the save is delayed, loads and saves can fail, ranges are repeated,
  a shutdown overtakes a running poll. Correct: a command runs once.
- **Contract.** Truncating arithmetic over three decimals, expiry against
  extension against cancellation, payment settings that change under
  subscriptions. Correct: time and money add up, prices keep their margin.
- **Knock, root agent.** Timer, poller, log watcher and shutdown each start
  asynchronous functions that share a session and await the root agent between
  two rules. Correct: a session that ends takes its rules along, narrowing to
  one address never cuts the user off, no session stays open for ever.
- **Funds.** Each transfer can be refused, sent without an answer, or be the last
  one before a crash; balances are read once and used for minutes, while `bw` and
  customers move money. Correct: recipients get their share of the revenue, once;
  the rest gets to the administrator; a cycle that fails is not tried for ever.
- **Address book, PID file.** Programs of several users load, change and write one
  file without a lock; a key file is made by one program and entered by another.
  Correct: what an overlap or a failed read can undo, and nothing else does.
- **Wizard.** Steps that are not idempotent are interrupted, repeated, and run again
  for other contracts. Correct: it gets to the end, all programs then use the same
  contracts, and nothing is bought, minted or deployed twice without a failure.
- **Sign-up page.** Price, account and page change between two awaited answers, and
  an answer can be lost though its transaction goes through. Correct: nobody pays
  for somebody else's credentials, more than quoted, or twice.

## 2. Modules

    Wallets ── SubscriptionLedger ──────────┐
       └────── AccessCredentialNFT ─ VmHost ┴─ Handlers ┐
                                       └────── Reconciler ┴─ Monitor ── MCMonitor, MonitorProofs
                                          (Monitor: INSTANCE HostingService)
    AdminCommands ── MCAdminCommands, AdminCommandsProofs
    Subscriptions (INSTANCE SubscriptionLedger) ── MCSubscriptions, SubscriptionsProofs
    Knock ── MCKnock, KnockProofs
    FundCycle ── MCFundCycle, FundCycleProofs
    PidLock ── Addressbook ── MCAddressbook, AddressbookProofs
    Wizard ── MCWizard, WizardProofs
    SignUp ── MCSignUp, SignUpProofs

**Wallets** has the owners and the subscription ids all of them share.

**SubscriptionLedger** is the abstract contract (`LogTells`: a reader of its log knows
what its table holds): a subscription is bought under
the next free id, extended while it is not cancelled, cancelled at most once,
and each change appends one event to the chain's log. A block holds one event,
so a block number is a position in `evlog`.

**AccessCredentialNFT** is `mint` and the transfers. `everHeld` (who ever held a
token) and `mintedFor` (for which machine it was minted, 0 for none) are history.

**VmHost** is what the host programs do, taken from how `src/` calls them: the
records of `vms.json`, the guests, the lock. Every command has three outcomes:
`ok`, `fail` (nothing happened) and `lost` (it happened, the caller sees a
failure: a timeout, a kill).

**Handlers** is one step per child process; `hpc` names the next one. Extra
disjuncts `Return` are the early exits of the code. Encryption and the parsing
of output are not modelled beyond "it worked or it did not".

**Reconciler** walks a snapshot: `owners` and `pushes` are the machines the two
loops still have to visit. Of the snapshot's fields only the status, which
decides who is visited, can differ from the file by the time it is used.

**Monitor** composes these into the single thread of `monitor/index.ts`
(`pc`: poll, logs, admin, periodic, reconcile), and adds the rest of the world:
crashes, the chain, transfers, other minters, the garbage collector. A crash
forgets everything but files. `LockSurvivesKill` says whether a `vm-create` that
is killed leaves its lock.

**HostingService** is the abstract specification of all of these together, and says
nothing of events, tokens or processes: a machine is made once for a subscription that
was bought, registered to its buyer, resumed only after an extension, ended only when
its subscription was cancelled or it was suspended, and later registered to, or opened
for, wallets that have held its credential. `Monitor` implements it under the mapping of
its last section, which takes the subscriptions from the contract, the machine's status
and owner from its record, the login from the guest, and the holders from the NFT
contract (`Holders`; a token somebody else minted counts for every machine, as
`totalSupply() - 1` may name it). One thing the code does not keep from its user:
`Repeat`. A range whose admin phase threw is handled again, and then a machine destroyed
in between is made a second time.

**AdminCommands** is the replay protection: the scan of a block range
(`BeginRange`, `Execute`, `Reject`, `FinishDispatch`), the nonce map and its file
(`Burn`, `Prune`, `SaveTimerFires`, `Start`), exceptions that repeat a range,
crashes, and the graceful shutdown (`Interrupt`, `Flush`, `Exit`). A command is
its nonce; the HMAC and the calldata format are left out: commands here are the
administrator's, or copies of them.

**Subscriptions** is the contract with its tables as sequences, block time, the
Uniswap reserves and the funds. `One[t]` is ten to the decimals of `t`, so that
all arithmetic of `_calculatePayment` is done as the code does it, truncations
included. Left out: names, payloads, the buyer's own funds, tokens that take a
fee, `nonReentrant`. Amounts are not bounded by 2^256: Solidity 0.8 reverts
there, and a transaction that reverts is no step.

**Knock** is the knock command and what it leaves running. `calls[s]` holds the
functions of session `s` that are waiting for the root agent, with the ports they
have still to do: `OpenStep`, `UndoStep`, `NarrowStep`, `RollbackStep`, `DropStep`
and `CloseStep` are one answer and the code up to the next `await`; `TimerFires`,
`Heartbeat`, `AuthLogLine` and `CloseNext` are the callbacks that start one. Lane
0 is `closeAllKnocks`, which does one session after the other. The firewall is a
bag, as in iptables: a rule made twice has to be removed twice. An answer of the
root agent is `ok`, `fail` or `lost` as above, or never comes. `knock.active` is one file for all
sessions; login shells (external) keep it fresh or remove it. The ports of a
command are taken in the same order by all its loops. Left out: the validation of
ports, addresses and durations, which are the inputs `PortSets` and `Sources`.

**FundCycle** is the fund cycle and the gas check. `pc` names the next step; a step
is one transaction with the reads before it: `Withdraw`, `TopUp`, `TopUpBuffer`,
`PlanShares`, `Share` (one recipient of one token), `PlanRemainder`,
`SendRemainder`, `Record`; `GasStart` and `Swap` for the gas check. Amounts are
units, and gas is counted in transactions it still pays; a price is whether a token
is worth withdrawing. The rounding is the code's: each share is rounded down, the
last recipient gets the difference. Between any two steps customers pay, the
operator withdraws, sends, switches payment methods or spends the server's gas, and
the process is killed; a top-up that fails, or whose balances cannot be read, ends the
job. `due` and `saved` are what the state in memory and the file
say about each interval. The history follows every unit: `covered` is the part of the
hot wallet that was shared already, `twice` what was shared again.

**PidLock** is the PID file: check, write, removal, and the two ends of a monitor,
with a PID that is used again by another program, and processes of another user
that `kill(pid, 0)` cannot see (it throws, which the code takes for "gone"). SIGINT
removes the file and ends the process a second later; until then the iteration it
interrupted goes on handling events (`Polling` counts that monitor as well).

**Addressbook** extends it: the monitors that run are among the writers. Each writer
is split at its calls (`step`, `view`, `name`): load, then the save of the whole file;
`ensureHotWallet` and `ab new` have the root agent make a key first
(`EnsureHotWallet`, `WriteKey`, `EnterWallet`). An entry is an address and whether it
names a key file. The history is kept per process: `stale` are those whose copy another
process's change has made old, `misread` those that took a failed read for an empty book;
both end with the copy.

**Wizard** is the form and the finalization steps, split where an interruption
matters (`plan` in stablecoin, look-up, `createPlan` and its `cast` fallback; the mint
in update, library and command line). `usdc` is whether the chain id has an entry in
`USDC_BY_CHAIN`: the form's "custom" allows any, and without one the stablecoin is not
set. Where `is` is missing, `cast` says only that token 0 has an owner, and the update is
tried on whoever's it is (`UpdateOther`). The installer, which is not in the repository,
calls the steps in their order and repeats one that failed.

**SignUp** is any number of pages of one wallet: connection, signature, quote,
allowance, approval, purchase, each with an answer that can be lost while the
transaction goes through. `times` counts, for each try of a page, its purchases.

## 3. Runs

| run | question | instance |
|---|---|---|
| `monitor_safety` | flags, blocks, repetition, and the refinement of the hosting service | 1 machine, 3 events, crash, repeated range, transfer, garbage collector, stale lock |
| `monitor_two` | are two machines ever mixed up? | 2 machines, 2 events, 3 tokens, one of them minted by somebody else, crash, transfer |
| `monitor_live` | does it get done? | 1 machine, 2 events, crash, transfer, every failure |
| `admin` | how often can a command run; what can an end of the process lose? | 2 commands, 3 transactions, a repeated range, a crash or shutdown, a failed read or write |
| `subscriptions` | time, money, prices, and the refinement of the ledger | 2 subscriptions, a plan, a stablecoin, a token with a pool, one change of any setting |
| `knock` | which rules stay, who is cut off, what stays open? | 2 sessions with a port in common, two functions of each at once, a login, a failed call, a crash or shutdown |
| `fund` | who gets which part of the revenue, how often is it shared, does it stay behind? | 2 tokens, 2 recipients with unequal percentages, scarce gas, a failure anywhere, an act of the operator |
| `addressbook` | when do two monitors handle events at once, which step loses an entry? | systemd's monitor, one of another user, `ab`; 2 ends of a monitor, a failed read or write or a killed agent |
| `wizard` | does it get to the end, what is then configured, what was done twice? | 2 runs of the form on chains with and without USDC, 2 failures, first contracts with and without token, stablecoin and plan |
| `signup` | who pays for whose credentials, how much, how often? | 2 pages, 2 accounts, 2 prices, a lost answer per page |
| `ahead_claim`, `broker_claim` | a statement of the repository the code does not keep | the smallest instance that shows it |

**Properties, in `Monitor`.** `GecosFlagSound` and `NetFlagSound`: a flag that is
set can be believed. `TokenLinked`, `AccessOnlyToHolders`: records and logins
belong to the right machine. `EachBlockOnce`: the poll
loop neither skips nor repeats a block, but for the restarts and exceptions that are
counted. `ImplementsService`: every step of the thread, its crashes and the world is a
step of `HostingService` or none. `EventsHandled`, `OwnershipPropagates`,
`NetworkConverges`: liveness.

**In `AdminCommands`.** `NoReplay` bounds executions by what excuses them: once,
once more per end of a process that had not saved the nonce, and once more if the
command was seen before its own timestamp. `FileCurrent`: map and file differ only
while a save is scheduled, or after a failed read or write until the next one succeeds
(`behind`), which makes it good. `ShutdownSaves`: after a flush that was written only
commands the last iteration still executes are missing on file.

**In `Subscriptions`.** `PaidTimeExact`: seconds used and seconds left are the
seconds paid for. `FundsAccounted`: what was charged in a token is held or was
withdrawn. `PriceWithinMargin`: against the exact quotient, never more than the
slippage margin above, less than one unit of each token below; it is stated for
methods whose token and stablecoin differ. (`addPaymentMethod` also accepts the
same address twice; the price is then the pair's other reserve's, a
configuration error of the owner's.) `ImplementsLedger`: the contract implements
`SubscriptionLedger`, which is what `Monitor` is built on.

**In `Knock`.** `NoRuleLeft`: once the sessions of a port are closed, no rule of it
is left. It excuses failed calls (`closePort` only logs them), and the ports of sessions
that were open when the process ended (they are kept in memory) or two functions of
which ran at once (`raced`): two transitions both pass the check of `loginSource` and
both open their rules, a close overlaps with a transition that goes on opening. What
it does say of such a session is that it harms no port but its own. The code undoes none of
these. `KeepsAccess`: an open session has a rule on each port at every moment of
a transition, finished or given up; it needs that no two functions of the
session overlapped, and that no failure of another session closed its ports (the
error path of `executeKnock` closes all ports of the command). `SessionHasEnd`:
timer, heartbeat or a running close, whatever fails or overlaps.

**In `FundCycle`.** `ShareOfRevenue`: recipients get at most the agreed share of the
revenue that left the contract, plus the share of what had to be shared again; and in
one cycle exactly the share of the balances read, whatever the rounding, unless a
transfer was refused or a role unknown. `SharedOnce`: after the sweep, money shared
already is still there only if its rest could not be sent; this is what bounds
`twice`. `AttemptsSpaced`: a cycle that always fails is not tried in every poll.
`Swept`: money does not stay in the hot wallet, unless its method is off or gas ran
out.

**In `PidLock` and `Addressbook`.** `OneMonitor`: two monitors handle events at once only
if one of them was started between the check and the write of another, in the second
between another's SIGINT and its end, or by a user who cannot see the other's process.
The other properties are about steps, not about histories with something wrong in them:
`HotWalletKept` names the two steps that can leave the hot wallet's key without its
entry, a root agent that is killed between the two and the save of a copy that is old
or was misread at that moment; `ServerKept` the one that can lose the server's, where a
misread copy of a monitor is not an excuse. Nothing locks the file, so more cannot be
said: an overlap whose last save is of the newest copy, or a misread command that ended
without a save, excuses nothing. `WalletsMatch` (no entry without its key) has no excuse.

**In `Wizard`.** All are for two runs in either mode and failures in any step.
`MonitorConfigured`: at the end all files name the same two contracts, which exist, and a
plan is for sale, in the stablecoin if the chain id is in `USDC_BY_CHAIN`. On any other
chain finalization ends without stablecoin and without a word, and the property says
nothing of one: the plan cannot be paid in a stablecoin until the operator sets one. `NothingTwice`: deployment, mint and plan. `AdminCredential` excuses
the three failures that the code does not look at (encryption, the question whose
token 0 is, the update), for the run they happen in, and no other: a later run makes
them good. `Resumes`: every interrupted finalization can be finished.

**In `SignUp`.** `PurchasesSound`: the credentials are the payer's, the price is at most
what was quoted to that account, and a try of a page buys once.

**Findings.** `ahead_claim`: a command dated ahead of the clock is
valid longer than its nonce is remembered. `broker_claim`: with a share for the broker
alone, the wizard enters his address as the developer's, and his share goes to the
administrator.

**Other disagreements**, met while modelling and part of the models, without a run:

- A mint whose record was lost is never found, though `docs/reconciler.md` lists it.
- After a failed first `update-gecos` the handler logs "reconciler will retry";
  nothing does (`AccessOnlyToHolders` is about who can log in, not about when).
- A mint between the transaction and `totalSupply()` gives a machine another token's
  id (`TokenLinked` counts the others' mints).
- After a failed save of the nonces no other is scheduled (`FileCurrent`).
- The start of a knock session removes `knock.active` as a remnant of a crash, even
  when another session lives by it; that one is closed under a user who is logged in.
- The comment at `fund-manager/index.ts:135` says that every attempt is recorded. With
  intervals counted in blocks, `getBlockNumber` can fail in the `finally`, and
  `last_fund_cycle_block` stays: `AttemptsSpaced` fails with `BlockBased = TRUE`.
- `ab new` says that key and entry are made "atomically": they are two steps, and a
  killed agent leaves the key without its entry. `docs/fund-manager.md:20` says that
  `hot.key` has mode 600; the code gives it 0640.
- A live monitor of another user is taken for stale, since `kill(pid, 0)` throws; and
  SIGINT removes the PID file before the iteration it interrupts has ended, so that a
  monitor started within that second handles events next to the old one.
- `finalize_plan` is to "set primary stablecoin" (`wizard.py:1278`); with a chain id that
  is not in its table it does not, and succeeds.
- The wizard takes addresses typed in deploy mode without looking at them, never
  repairs a `vms.json` that was cut short, and ignores the results of `systemctl` and
  `updateUserEncrypted`.
- The sign-up page does not read the user's address again after it had the wallet
  change chains.

**Bounds.** Each bounded quantity has a constant. One machine suffices for the
run's own ordering questions, as machines share only the thread, the lock and
the token counter; those are what `monitor_two` is for. Three events let a
creation, an extension and a cancellation follow each other, with a range
repeated between them. One crash can fall between any two steps; two crashes
add nothing a crash followed by a restart does not show, as only files survive.
In `AdminCommands` the clock runs to twice the window, so that a nonce can be
pruned and its command sent again. In `Subscriptions` a day is two seconds and
the clock runs to three, so that an extension comes before, at and after the
expiry; the decimals and reserves are chosen so that every quotient truncates.
In `Knock` two sessions and two
ports let a function fail half way and a second session own the same rules; one
login address is enough, as a session is narrowed to one only.
In `FundCycle` a payment of four units, a share of one half and percentages of 3 and
2 make divisions truncate, and the server's gas pays one full refill of the hot wallet; one
failure and one act of the operator meet at any two steps. (Two of each are too many
for a run: 12 million states of that instance were searched without a violation, and
the theorems of section 4 hold for any number.) In `Addressbook` one `ab` command
at a time and two monitors are three concurrent writers. In `Wizard` two failures let
a repetition fail as well, and two runs of the form can name different contracts in
different modes; a form either shares with both roles on a chain with USDC or with
nobody on one without, as shares and stablecoin meet in no step. In `SignUp` one lost answer per page lets an old transaction meet
the next try; a third account or price would add no new order.
Symmetry is used over owners, nonces, sessions and pages, in runs without liveness.

`CHECK_DEADLOCK FALSE` is set where the system waits for somebody who may never come:
`subscriptions` (transactions), `knock` (commands), `addressbook` (starts and commands),
`wizard` (a form, or contracts that are not there), `signup` (a user). The monitor, the
command scanner and the fund manager run for ever, so their runs check deadlock.

**Fairness.** `MonitorNext` is weakly fair: the process runs, systemd restarts it
(`Restart=always`), RPC calls answer in the end (a poll whose call throws is
tried again) and child processes end. The reconciler's have timeouts; the
handlers' `runCommand` has none, so there it is an assumption on the provisioner,
and a child that hangs would stop the monitor. A pass is
started with strong fairness: the interval elapses again and again, and each
later iteration looks again whether the lock is there. A command the reconciler
retries in every pass (reading the owner, update-gecos, push, their writes)
succeeds in the end if it is tried for ever. Nothing is assumed of commands that
run once, in handlers: they may all fail. The liveness run takes
`LockSurvivesKill = FALSE`: a stale lock defers the reconciler for ever, and only
the provisioner, which is not part of this repository, could remove it.
In `FundCycle` the loop and the restart are weakly fair for the same reasons. Time
passes with strong fairness (`SF_vars(IntervalPasses(j))`), as the step is put off while
a job runs: no step of a job looks at the clock, so it may as well pass between
them. In `Wizard` `WF_vars(Finalize)` says that the installer repeats a step that
failed or was cut; nothing makes a user submit the form.

## 4. Proofs

| theorem | states | along |
|---|---|---|
| `MonitorProofs!TypeInvariant`, `TypeCorrect` | `[]TypeOK` | `TypeInv` adds `Control`: a handler runs only in the log loop on an existing event, a pass only in its phase, on minted records |
| `MonitorProofs!GecosFlagCorrect` | `[]GecosFlagSound` | `GecosInv`: a record under creation was never synchronised; between the reconciler's writes, record and guest hold the wallet it works with |
| `MonitorProofs!LinkInvariant`, `TokenLinkedCorrect`, `AccessCorrect` | `[]TokenLinked`, `[]AccessOnlyToHolders` | `LinkInv`: the token a handler, a pass or a record carries exists and serves that machine, and the wallet they write has held it |
| `MonitorProofs!EachBlockOnceCorrect` | `[]EachBlockOnce` | `OnceInv`: what is behind the cursor, or behind the range when it is saved, was handled or skipped; what is ahead was handled no more often than a range was repeated |
| `MonitorProofs!NetFlagCorrect` | `[]NetFlagSound` | `NetInv`: what each of the flag's two writers has just done, and that the cleanup which takes the configuration out runs only for a cancelled subscription |
| `MonitorProofs!ServiceImplemented` | `Spec => ImplementsService` | each action is one step of the service or a stutter. `ServiceInv` says why its guard holds: `FreshInv` (a subscription is bought once, its event is ahead of the cursor until it is handled, and until then its name is unused), `EventKinds` and `BuyersNamed` (an event in the log is what the contract recorded), `UnmintedTokens`, with `NetInv` and `LinkInv` |
| `MonitorProofs!NoResurrectionCorrect`, `ServedCorrect` | the destroyed machine of a cancelled subscription stays so unless a range is repeated; `[]Service!Served` | read off the refinement: each is a property of `HostingService` |
| `MonitorProofs!WayBounded`, `EventsApproached` | what is left of `EventsHandled` without fairness | `StepsLeft(b)` counts the steps from any `pc` to the handler of block `b`, at most two rounds of the thread; each step of the thread lowers it, but for a crash or exception, which is counted, and nobody else's step raises it |
| `AdminCommandsProofs!TypeCorrect`, `FileCorrect`, `ShutdownCorrect` | `[]TypeOK`, `[]FileCurrent`, `[]ShutdownSaves` | `FileInv` relates map, file, timer, the last failure and the phase of the shutdown |
| `AdminCommandsProofs!NoReplayCorrect` | `[]NoReplay` | `ReplayInv`: an execution more than excused means the nonce is remembered, or its command is no longer valid |
| `SubscriptionsProofs!TypeCorrect`, `FundsCorrect` | `[]TypeOK`, `[]FundsAccounted` | inductive as they stand |
| `SubscriptionsProofs!PaidTimeCorrect` | `[]PaidTimeExact` | `TimeInv` adds that ids not yet sold have used no time |
| `SubscriptionsProofs!PriceCorrect` | `[]PriceWithinMargin` | `PriceArithmetic`: the three quotients, one after the other |
| `SubscriptionsProofs!LedgerCorrect` | `Spec => ImplementsLedger` | each step is a ledger step or a stutter |
| `SubscriptionsProofs!LogCorrect` | `[]Ledger!LogTells` | `LogTells` is an invariant of `SubscriptionLedger`; the contract has it because each of its steps is one of the ledger |
| `KnockProofs!TypeCorrect`, `EndCorrect` | `[]TypeOK`, `[]SessionHasEnd` | `Sessions`: what each waiting function implies about its session (a close has stopped timer and poller, a narrowing knows an address) |
| `KnockProofs!CountInvariant`, `NoRuleLeftCorrect`, `KeepsAccessCorrect` | `[]NoRuleLeft`, `[]KeepsAccess` | `Counted`: there are at least as many rules for a port and a source as sessions that answer for one, and exactly as many if nothing failed, and on its port nothing overlapped and no session was cut off; `Alone`: only one function works for a session that has not raced |
| `KnockProofs!FunctionsAdvance` | a function that waits for the root agent comes to its end with the answers it waits for | each answer takes a port from it or begins its second half (`Less`), and no callback or other function gives it more to do |
| `FundCycleProofs!TypeCorrect` | `[]TypeOK` | with `Kept`: what was shared already is part of the hot wallet |
| `FundCycleProofs!SharedOnceCorrect` | `[]SharedOnce` | `SharedInv`: during the sweep such money is in a token still to come, no more than the balance read for it |
| `FundCycleProofs!ShareCorrect` | `[]ShareOfRevenue` | `PaidInv` (what is paid is allowed by the revenue counted, less the shares still to come) and `LoopInv` (where the two nested loops are: never more given than the percentages so far) |
| `FundCycleProofs!SweepEmpties`, `JobAdvances` | what is left of `Swept` without fairness | `SweepInv`: in a sweep the operator does not disturb, each token is still to come, gone from the hot wallet, or one that could not be sent; `Phase` and the sizes of what is still to do order the steps of a job |
| `FundCycleProofs!AttemptsCorrect` | `[](~ BlockBased => AttemptsSpaced)` | `AttemptInv` adds the file to what is said of the memory |
| `AddressbookProofs!TypeCorrect`, `LockCorrect` | `[]TypeOK`, `[]OneMonitor` | `Locked`: as long as nobody passed the check who should not have, a monitor that runs has its PID in the file, is the only one past the check, and so is seen |
| `AddressbookProofs!HotWalletCorrect`, `WalletsCorrect`, `ServerCorrect` | `HotWalletKept`, `[]WalletsMatch`, `ServerKept` | `Copies`: a copy that is neither old nor misread has lost none of the wallets of the file, and a monitor never waits with a misread one; the steps that save no copy keep both entries |
| `SignUpProofs!TypeCorrect`, `PurchasesCorrect` | `[]TypeOK`, `[]PurchasesSound` | a transaction that was sent carries the payer's signature and at most his quote; each try sends one |
| `WizardProofs!Invariant`, `TypeCorrect`, `ConfiguredCorrect` | `[]TypeOK`, `[]MonitorConfigured` | `Placed` and `Reached`: what each step that is done has left in the files and on the chain, and that later steps leave it there |
| `WizardProofs!NothingTwiceCorrect` | `[]NothingTwice` | `Made`: what the run may still make once is not made yet, so the bound is one lower before the step than after it |
| `WizardProofs!FinalizationAdvances` | what is left of `Resumes` without fairness | `Possible`: addresses given in existing mode are of contracts, until the contracts are verified; then each step of the finalization lowers `StepsLeft` or is one of the `MaxFaults` failures |
| `WizardProofs!AdminCorrect` | `[]AdminCredential` | `Owned`: a contract deployed now has no token before the mint, and the first that is made carries the new details |

`ShareOfRevenue` is the hardest of these. The revenue a share may be taken from is
not a variable of the code: money comes into the hot wallet from the contract, leaves
it for the server, and is shared by a balance that was read earlier. `Calm` says what
every step but a share does to it, once, and both invariants follow from it for all
of them; a share is allowed because `Sum`, the percentages of the recipients so far,
bounds what the token has given.

None of the safety properties of `Monitor` is inductive: a flag is set several
steps after the fact it stands for, with crashes, transfers and the garbage
collector in between, so the invariants follow the value through `hpc` and `rpc`.
`TokenLinked` needs the others' mints counted: without them the number
`totalSupply() - 1` is the token just minted, with them it may be somebody's, but
never one minted for another machine, since one thread mints for machines.
`NoReplay` needs the window not smaller than the tolerance; with a smaller one a
nonce is forgotten and seen ahead of its time again and again.

Assumptions are the named `ASSUME`s on the constants, no more: natural numbers,
disjoint "no" values, a non-empty day, positive powers of ten, a default slippage
within the limit the setter enforces, percentages that add up to no more than the
total and recipients that are not the hot wallet itself (both as the wizard writes
them).

A rule of the firewall does not name the session it was made for: two sessions with
the same port and source have two equal rules, and either may take one away.  So
`NoRuleLeft` and `KeepsAccess` cannot be followed session by session.  `Counted`
compares, for each port and source, the number of rules with the number of sessions
that have opened one and not yet taken it away, by the phase they are in and the
function that waits; each answer of the root agent changes both by one.

`ServiceImplemented` is where the invariants of `Monitor` meet. A handler that calls
`vm-create` is a step of the service only if the machine has none yet, which is what
`FreshInv` says of an event that is still ahead of the cursor; the reconciler that writes
an owner is one only if the wallet it read long ago did hold the token, which is
`LinkInv`; the cleanup of a cancelled machine is one only if the event it works on is
still what the contract recorded. A crash, a lost answer or a failed command stutters, as
the service has no word for the memory they take.

So every safety property, action property and refinement of the passing runs is a theorem
(`AttemptsSpaced` where intervals are counted in time, as its run has it).  Only
model-checked are the five liveness properties, as fairness and `ENABLED` are out of the
prover's reach: `EventsHandled`, `OwnershipPropagates`, `NetworkConverges`, `Swept`,
`Resumes`. For three of them the rest of the argument is proved, for every instance: a
measure that each step of the process lowers and nobody else's raises
(`EventsApproached`, `JobAdvances`, `FinalizationAdvances`; `FunctionsAdvance` is the
same for the knock command, which has no liveness property, as an answer may never
come), so that all that is left to TLC is that a process which can take a step takes
one. The other two have none that is as simple: a pass may fail for as long as the
commands of the host do, and only strong fairness ends that.

## 5. Not modelled, and why

- The HMAC, encryption and calldata formats: pure functions.
- Chain reorganisations: the code has no confirmation depth and says nothing of them.
- Payloads, plan names, and what `updateUserEncrypted` writes (in `Wizard` it is old,
  empty or new): nothing here depends on them.
- Tokens sent to the subscription contract without a purchase: `withdrawFunds` takes them
  along, so `FundsAccounted` is about the money that was charged.
- Single invalid entries of `addressbook.json`, which `loadAddressbook` leaves out and the
  next save drops: the writers of `Addressbook` write valid entries only.
- HTML, sign-up page generation, `bhcrypt.py`, packaging, deployment scripts,
  the Solidity tests and mocks, the read-only commands: no state of their own.
- Resumption and destruction that fail on extension or cancellation: logged, never
  tried again, so there is nothing to say of them but what `Handlers` shows.
- An administrator's command in a block that could not be fetched is skipped: its
  sender sees that nothing happened and sends another.
- Rules of knock sessions that a crash leaves in the firewall: the code keeps no
  record of them.
- The framing of the root agent's messages, the summary and the deploy button of the
  wizard, the list of plans and credentials of the sign-up page, `bw split`, `is` and
  `who`: reads, or single transactions.

## 6. Plan

Done: the provisioning pipeline and its refinement of the hosting service, the
administrator's commands, the contract and its refinement of the ledger, the knock
command, the fund manager, the address book and the PID file, the wizard, the sign-up
page, with the proofs of section 4. Left: an abstract firewall that the knock sessions
implement (`Counted` is the mapping's core; failed calls are what it has to excuse), and
the fund cycle, the knock sessions and the handlers in one thread with `Monitor`, of
which they share only the order in which they run.
