------------------------------ MODULE FundCycle --------------------------------
(***************************************************************************)
(* src/fund-manager and the transfers of src/bw: the monitor's loop moves  *)
(* revenue from the contract to the hot wallet, shares it, sends the rest  *)
(* to the administrator, and swaps stablecoin for gas.                     *)
(*                                                                         *)
(* One step of the process is one transaction with the reads before it,    *)
(* or a decision; the operator's bw commands, payments and crashes come    *)
(* between the steps.  Amounts are units of a token; a wallet's gas is     *)
(* counted in the transactions it can still pay.                           *)
(***************************************************************************)
EXTENDS Integers, Sequences

CONSTANTS
  Token, Stable,         \* payment methods; the primary stablecoin
  Recipients,            \* of revenue-share.json: <<[role, percent], ...>>
  TotalPercent, Whole,   \* share of the whole, in scaled percent
  MinWithdrawal,         \* per token: what is worth min_withdrawal_usd
  Buffer,                \* server_stablecoin_buffer_usd
  HotGas, LowGas,        \* hot_wallet_gas_eth, gas_low_threshold_usd
  SwapAmount, SwapGas,   \* gas_swap_amount_usd, and the gas it buys
  BlockBased,            \* intervals are counted in blocks
  ServerGas,             \* the server's gas at first
  Payment, MaxRevenue,   \* bounds: sizes of payments; revenue per token
  MaxFaults, MaxManual   \* bounds: failures; acts of the operator

ASSUME FundAssumption ==
  /\ Stable \in Token /\ MinWithdrawal \in [Token -> Nat]
  /\ Recipients \in Seq([role : STRING, percent : Nat]) /\ Recipients # <<>>
  /\ \A i \in DOMAIN Recipients : Recipients[i].role \notin {"contract", "hot"} \* the wizard: dev, broker
  /\ TotalPercent \in Nat \ {0} /\ Whole \in Nat /\ TotalPercent <= Whole
  /\ \E sum \in [0 .. Len(Recipients) -> 0 .. TotalPercent] : \* as the wizard writes them
       sum[0] = 0 /\ \A i \in DOMAIN Recipients : sum[i] = sum[i - 1] + Recipients[i].percent
  /\ {Buffer, LowGas, SwapAmount, SwapGas, ServerGas, MaxFaults, MaxManual} \subseteq Nat
  /\ HotGas \in Nat \ {0} /\ BlockBased \in BOOLEAN
  /\ Payment \subseteq Nat \ {0} /\ MaxRevenue \in [Token -> Nat]

Role == {Recipients[i].role : i \in DOMAIN Recipients}
Wallet == {"hot", "server"}
Account == {"contract", "admin", "pool"} \cup Wallet \cup Role
Job == {"cycle", "gas"}
CycleSteps == {"withdraw", "topup", "buffer", "plan", "share", "remainder", "sweep", "record"}
GasSteps == {"gastopup", "swap", "gasrecord"}
NoAmounts == [t \in Token |-> 0]

VARIABLES
  bal,          \* tokens of each account
  eth,          \* gas of the wallets that sign
  active,       \* payment methods the contract has enabled
  pc,           \* where the process is; idle and gaspoll: shouldRun... is next
  todo,         \* tokens the loop of this step has not come to
  snap,         \* getAllTokenBalances, as read
  next, distributed, \* of the recipient loop
  known,        \* roles the address book of this cycle resolves
  due,          \* jobs whose interval has passed, by the state in memory
  saved,        \* the same by fund-manager-state.json
  faults, manual, \* how often it happened (bounded)
  revenue,      \* history: all payments
  paid,         \* history: sent to recipients, ever
  given,        \* history: sent to recipients in this cycle
  again,        \* history: part of the balances read for the shares that was shared already
  covered,      \* history: part of the hot wallet that was shared already
  twice,        \* history: shared although it had been shared before
  unsent,       \* history: tokens a share of which was not sent in this cycle
  unswept,      \* history: tokens whose rest could not go to the administrator
  entitled,     \* history: jobs that have an interval or a lost record to their credit
  unsaved       \* history: jobs run whose record is not in the file

moneyVars == <<bal, eth>>
loopVars == <<todo, snap, next, distributed, known>>
stateVars == <<due, saved, entitled, unsaved>>
shareVars == <<paid, given, again, covered, twice, unsent, unswept>>
envVars == <<active, manual, revenue>>
vars == <<moneyVars, loopVars, stateVars, shareVars, envVars, pc, faults>>

TypeOK ==
  /\ bal \in [Account -> [Token -> Nat]]
  /\ eth \in [Wallet -> Nat]
  /\ active \in SUBSET Token /\ unsent \in SUBSET Token /\ unswept \in SUBSET Token
  /\ pc \in {"idle", "gaspoll", "down"} \cup CycleSteps \cup GasSteps
  /\ todo \in SUBSET Token
  /\ snap \in [Token -> Nat]
  /\ next \in DOMAIN Recipients /\ distributed \in Nat
  /\ known \in SUBSET ({"admin"} \cup Role)
  /\ {due, saved, entitled, unsaved} \subseteq SUBSET Job
  /\ faults \in 0 .. MaxFaults /\ manual \in 0 .. MaxManual
  /\ {revenue, paid, given, again, covered, twice} \subseteq [Token -> Nat]

Init ==
  /\ bal = [a \in Account |-> NoAmounts]
  /\ eth = [w \in Wallet |-> IF w = "server" THEN ServerGas ELSE 0]
  /\ active = Token
  /\ pc = "idle" /\ todo = {} /\ snap = NoAmounts /\ next = 1 /\ distributed = 0 /\ known = {}
  /\ due = Job /\ saved = Job /\ entitled = Job /\ unsaved = {}
  /\ faults = 0 /\ manual = 0
  /\ revenue = NoAmounts /\ paid = NoAmounts /\ given = NoAmounts /\ again = NoAmounts
  /\ covered = NoAmounts /\ twice = NoAmounts /\ unsent = {} /\ unswept = {}

-----------------------------------------------------------------------------
(* Transactions *)

Fault == faults < MaxFaults /\ faults' = faults + 1
NoFault == UNCHANGED faults

Moved(b, t, from, to, n) == [b EXCEPT ![from][t] = @ - n, ![to][t] = @ + n]

\* executeSend, executeWithdraw: n of t go from one account to another, signed by w.
Transfer(w, t, from, to, n) ==
  /\ bal[from][t] >= n /\ eth[w] > 0
  /\ bal' = Moved(bal, t, from, to, n)
  /\ eth' = [eth EXCEPT ![w] = @ - 1]

\* The transaction is refused, for want of tokens or gas, or it is not sent.
Refused(w, t, from, n) ==
  /\ IF bal[from][t] >= n /\ eth[w] > 0 THEN Fault ELSE NoFault
  /\ UNCHANGED moneyVars

\* Tokens that leave the hot wallet: those shared already go first.
Leaves(t, n) == covered' = [covered EXCEPT ![t] = IF @ > n THEN @ - n ELSE 0]

\* listActivePaymentTokens and the price of each: a token whose query fails is left out.
Listed(S) == S \subseteq active /\ IF S = active THEN NoFault ELSE Fault

-----------------------------------------------------------------------------
(* The fund cycle *)

\* shouldRunFundCycle is asked, then shouldRunGasCheck.
NotDue ==
  /\ \/ pc = "idle" /\ "cycle" \notin due /\ pc' = "gaspoll"
     \/ pc = "gaspoll" /\ "gas" \notin due /\ pc' = "idle"
  /\ UNCHANGED <<moneyVars, loopVars, stateVars, shareVars, envVars, faults>>

\* Mutant: what goes wrong before the first step is not recorded as an attempt.
CycleStartUnrecorded ==
  /\ pc = "idle" /\ "cycle" \in due
  /\ entitled' = entitled \ {"cycle"}
  /\ \/ NoFault /\ known' = {"admin"} \cup Role /\ pc' = "withdraw" /\ todo' = active
     \/ Fault /\ pc' = "gaspoll" /\ UNCHANGED <<known, todo>>
  /\ UNCHANGED <<moneyVars, snap, next, distributed, due, saved, unsaved, shareVars, envVars>>

CycleStart ==
  /\ pc = "idle" /\ "cycle" \in due
  /\ entitled' = entitled \ {"cycle"}
  /\ \/ /\ \E B \in SUBSET ({"admin"} \cup Role) :
             /\ IF B = {"admin"} \cup Role THEN NoFault ELSE Fault
             /\ known' = B
        /\ pc' = "withdraw" /\ todo' = active
     \/ /\ Fault \* no contract, empty book, or ensureHotWallet throws
        /\ pc' = "record" /\ UNCHANGED <<known, todo>>
  /\ UNCHANGED <<moneyVars, snap, next, distributed, due, saved, unsaved, shareVars, envVars>>

\* Step 1: withdrawFromContract; withdrawFunds takes whatever the contract holds.
Withdraw(t) ==
  /\ pc = "withdraw" /\ t \in todo
  /\ todo' = todo \ {t}
  /\ \/ /\ bal["contract"][t] > 0 /\ bal["contract"][t] >= MinWithdrawal[t]
        /\ Transfer("server", t, "contract", "hot", bal["contract"][t]) /\ NoFault
     \/ /\ bal["contract"][t] < MinWithdrawal[t] \/ bal["contract"][t] = 0
        /\ NoFault /\ UNCHANGED moneyVars
     \/ /\ bal["contract"][t] >= MinWithdrawal[t]
        /\ Refused("server", t, "contract", bal["contract"][t]) \* or no price
  /\ UNCHANGED <<pc, snap, next, distributed, known, stateVars, shareVars, envVars>>

WithdrawDone ==
  /\ pc = "withdraw" /\ todo = {}
  /\ pc' = "topup"
  /\ UNCHANGED <<moneyVars, loopVars, stateVars, shareVars, envVars, faults>>

\* Mutant: the reserve of the server is not looked at.
TopUpUnchecked ==
  LET needed == HotGas - eth["hot"]
  IN /\ pc \in {"topup", "gastopup"} /\ NoFault
     /\ pc' = IF pc = "topup" THEN "buffer" ELSE "swap"
     /\ eth' = IF needed <= 0 THEN eth ELSE [eth EXCEPT !["hot"] = HotGas, !["server"] = @ - needed - 1]
     /\ UNCHANGED <<bal, loopVars, stateVars, shareVars, envVars>>

\* Mutant: without a full tank the cycle ends.
TopUpOrEnd ==
  LET needed == HotGas - eth["hot"]
      poor == needed > 0 /\ eth["server"] < 2 * needed
      topped == [eth EXCEPT !["hot"] = HotGas, !["server"] = @ - needed - 1]
  IN /\ pc \in {"topup", "gastopup"} /\ NoFault
     /\ pc' = IF pc = "gastopup" THEN "swap" ELSE IF poor THEN "record" ELSE "buffer"
     /\ eth' = IF needed <= 0 \/ poor THEN eth ELSE topped
     /\ UNCHANGED <<bal, loopVars, stateVars, shareVars, envVars>>

\* Step 2, and the first of the gas check: topUpHotWalletGas.
TopUp ==
  LET needed == HotGas - eth["hot"]
      onward(p) == pc' = IF pc = "topup" THEN p[1] ELSE p[2]
      topped == [eth EXCEPT !["hot"] = HotGas, !["server"] = @ - needed - 1]
  IN /\ pc \in {"topup", "gastopup"}
     /\ \/ /\ needed <= 0 \/ eth["server"] < 2 * needed
           /\ NoFault /\ onward(<<"buffer", "swap">>) /\ UNCHANGED eth
        \/ /\ needed > 0 /\ eth["server"] >= 2 * needed /\ eth' = topped
           /\ \/ NoFault /\ onward(<<"buffer", "swap">>)
              \/ Fault /\ onward(<<"record", "gasrecord">>) \* sent, the answer is lost
        \/ Fault /\ onward(<<"record", "gasrecord">>) /\ UNCHANGED eth \* not sent, or a balance cannot be read
     /\ UNCHANGED <<bal, loopVars, stateVars, shareVars, envVars>>

\* Step 3: topUpServerStablecoinBuffer.  An exception here ends the cycle.
TopUpBuffer ==
  LET needed == Buffer - bal["server"][Stable]
  IN /\ pc = "buffer"
     /\ \/ /\ needed <= 0 \/ bal["hot"][Stable] < needed
           /\ NoFault /\ pc' = "plan" /\ UNCHANGED <<moneyVars, covered>>
        \/ /\ Fault /\ UNCHANGED <<moneyVars, covered>>
           /\ pc' \in {"plan", "record"} \* getPrimaryStablecoin fails; getTokenBalance throws
        \/ /\ 0 < needed
           /\ Transfer("hot", Stable, "hot", "server", needed) /\ Leaves(Stable, needed)
           /\ \/ NoFault /\ pc' = "plan"
              \/ Fault /\ pc' = "record" \* sent, the answer is lost
        \/ /\ 0 < needed /\ needed <= bal["hot"][Stable]
           /\ Refused("hot", Stable, "hot", needed) /\ pc' = "record" /\ UNCHANGED covered
     /\ UNCHANGED <<loopVars, stateVars, paid, given, again, twice, unsent, unswept, envVars>>

ShareTotal(n) == (n * TotalPercent) \div Whole

\* Step 4: the balances are read once, before the first share is sent.
PlanShares ==
  /\ pc = "plan"
  /\ \E S \in SUBSET active :
       /\ Listed(S)
       /\ snap' = [t \in Token |-> IF t \in S THEN bal["hot"][t] ELSE 0]
  /\ todo' = {t \in Token : ShareTotal(snap'[t]) > 0}
  /\ pc' = "share" /\ next' = 1 /\ distributed' = 0 /\ again' = covered
  /\ UNCHANGED <<moneyVars, known, stateVars, paid, given, covered, twice, unsent, unswept, envVars>>

\* loadRevenueShareConfig cannot read the file: no shares in this cycle.
SharesDisabled ==
  /\ pc = "plan" /\ Fault
  /\ pc' = "remainder"
  /\ UNCHANGED <<moneyVars, loopVars, stateVars, shareVars, envVars>>

\* Mutant: the last recipient's share is rounded down like the others.
ShareOfRounded(i, t) == (ShareTotal(snap[t]) * Recipients[i].percent) \div TotalPercent

ShareOf(i, t) ==
  IF i = Len(Recipients)
  THEN IF distributed >= ShareTotal(snap[t]) THEN 0 ELSE ShareTotal(snap[t]) - distributed
  ELSE (ShareTotal(snap[t]) * Recipients[i].percent) \div TotalPercent

\* The first share of a token that is sent: all of the balance read is now shared,
\* what was shared before for another time.
Covers(t, share) ==
  LET kept == IF snap[t] <= bal["hot"][t] THEN snap[t] - share ELSE bal["hot"][t] - share
  IN /\ covered' = [covered EXCEPT ![t] = kept]
     /\ twice' = [twice EXCEPT ![t] = @ + again[t]]

\* One recipient of one token.  What could not be sent still counts as distributed.
Share ==
  /\ pc = "share" /\ todo # {}
  /\ LET t == CHOOSE x \in todo : TRUE
         last == next = Len(Recipients)
         role == Recipients[next].role
         share == IF role \in known THEN ShareOf(next, t) ELSE 0
     IN /\ next' = IF last THEN 1 ELSE next + 1
        /\ distributed' = IF last THEN 0 ELSE distributed + share
        /\ todo' = IF last THEN todo \ {t} ELSE todo
        /\ \/ /\ share = 0 /\ NoFault
              /\ unsent' = IF role \in known THEN unsent ELSE unsent \cup {t}
              /\ UNCHANGED <<moneyVars, paid, given, covered, twice>>
           \/ /\ share > 0 /\ Transfer("hot", t, "hot", role, share) /\ NoFault
              /\ IF given[t] = 0
                 THEN Covers(t, share)
                 ELSE Leaves(t, share) /\ UNCHANGED twice
              /\ paid' = [paid EXCEPT ![t] = @ + share]
              /\ given' = [given EXCEPT ![t] = @ + share]
              /\ UNCHANGED unsent
           \/ /\ share > 0 /\ Refused("hot", t, "hot", share)
              /\ unsent' = unsent \cup {t}
              /\ UNCHANGED <<paid, given, covered, twice>>
  /\ UNCHANGED <<pc, snap, known, stateVars, again, unswept, envVars>>

ShareDone ==
  /\ pc = "share" /\ todo = {}
  /\ pc' = "remainder"
  /\ UNCHANGED <<moneyVars, loopVars, stateVars, shareVars, envVars, faults>>

\* Mutant: the remainder is computed from the balances of step 4.
PlanRemainderComputed ==
  /\ pc = "remainder" /\ NoFault
  /\ IF "admin" \in known
     THEN /\ snap' = [t \in Token |-> snap[t] - ShareTotal(snap[t])]
          /\ todo' = {t \in Token : snap'[t] > 0}
          /\ pc' = "sweep" /\ UNCHANGED unswept
     ELSE unswept' = Token /\ pc' = "record" /\ UNCHANGED <<snap, todo>>
  /\ UNCHANGED <<moneyVars, next, distributed, known, stateVars, paid, given, again, covered, twice, unsent, envVars>>

\* Step 5: the balances are read anew; everything left goes to the administrator.
PlanRemainder ==
  /\ pc = "remainder"
  /\ \/ /\ "admin" \in known
        /\ \E S \in SUBSET active :
             /\ Listed(S)
             /\ snap' = [t \in Token |-> IF t \in S THEN bal["hot"][t] ELSE 0]
             /\ unswept' = unswept \cup (Token \ S)
        /\ todo' = {t \in Token : snap'[t] > 0}
        /\ pc' = "sweep"
     \/ /\ "admin" \notin known /\ NoFault
        /\ unswept' = Token
        /\ pc' = "record" /\ UNCHANGED <<snap, todo>>
  /\ UNCHANGED <<moneyVars, next, distributed, known, stateVars, paid, given, again, covered, twice, unsent, envVars>>

SendRemainder(t) ==
  /\ pc = "sweep" /\ t \in todo
  /\ todo' = todo \ {t}
  /\ \/ /\ Transfer("hot", t, "hot", "admin", snap[t]) /\ NoFault
        /\ Leaves(t, snap[t])
        /\ unswept' = unswept \ {t}
     \/ /\ Refused("hot", t, "hot", snap[t])
        /\ unswept' = unswept \cup {t}
        /\ UNCHANGED covered
  /\ UNCHANGED <<pc, snap, next, distributed, known, stateVars, paid, given, again, twice, unsent, envVars>>

SweepDone ==
  /\ pc = "sweep" /\ todo = {}
  /\ pc' = "record"
  /\ UNCHANGED <<moneyVars, loopVars, stateVars, shareVars, envVars, faults>>

-----------------------------------------------------------------------------
(* The record of an attempt (finally, updateState, saveState) *)

\* The state in memory changes first; the file gets all of it, or stays as it is.
Remember(D) ==
  /\ due' = D
  /\ \/ saved' = D /\ unsaved' = {} /\ NoFault
     \/ saved' = saved /\ unsaved' = Job /\ Fault

LocalsGone ==
  /\ todo' = {} /\ snap' = NoAmounts /\ next' = 1 /\ distributed' = 0 /\ known' = {}
  /\ given' = NoAmounts /\ again' = NoAmounts /\ unsent' = {}

Record(j, p, q) ==
  /\ pc = p /\ pc' = q
  /\ \/ Remember(due \ {j})
     \* getBlockNumber fails: only the time is recorded.
     \/ /\ faults < MaxFaults
        /\ due' = IF BlockBased THEN due ELSE due \ {j}
        /\ saved' = due' /\ unsaved' = {} /\ faults' = faults + 1
  /\ LocalsGone
  /\ UNCHANGED <<moneyVars, entitled, paid, covered, twice, unswept, envVars>>

RecordCycle == Record("cycle", "record", "gaspoll")
RecordGas == Record("gas", "gasrecord", "idle")

-----------------------------------------------------------------------------
(* The gas check *)

GasStart ==
  /\ pc = "gaspoll" /\ "gas" \in due
  /\ entitled' = entitled \ {"gas"}
  /\ \/ pc' = "gastopup" /\ NoFault
     \/ pc' = "gasrecord" /\ Fault \* no contract, or an empty book
  /\ UNCHANGED <<moneyVars, loopVars, due, saved, unsaved, shareVars, envVars>>

\* checkAndSwapGas and executeSwap: stablecoin of the server for gas.
Swap ==
  LET swapped == /\ bal' = Moved(bal, Stable, "server", "pool", SwapAmount)
                 /\ eth' = [eth EXCEPT !["server"] = @ - 1 + SwapGas]
  IN /\ pc = "swap" /\ pc' = "gasrecord"
     /\ IF eth["server"] >= LowGas \/ bal["server"][Stable] < SwapAmount
        THEN NoFault /\ UNCHANGED moneyVars
        ELSE \/ eth["server"] > 0 /\ swapped /\ (NoFault \/ Fault)
             \/ Refused("server", Stable, "server", SwapAmount) \* or a drained pair
     /\ UNCHANGED <<loopVars, stateVars, shareVars, envVars>>

-----------------------------------------------------------------------------
(* Crashes, customers and the operator *)

RunningJob == (IF pc \in CycleSteps THEN {"cycle"} ELSE {}) \cup (IF pc \in GasSteps THEN {"gas"} ELSE {})

Crash ==
  /\ pc # "down" /\ Fault
  /\ pc' = "down"
  /\ unsaved' = unsaved \cup RunningJob
  /\ unswept' = unswept \cup {t \in Token : covered[t] > 0}
  /\ LocalsGone /\ due' = {}
  /\ UNCHANGED <<moneyVars, saved, entitled, paid, covered, twice, envVars>>

\* loadState finds what was saved.
Restart ==
  /\ pc = "down" /\ pc' = "idle"
  /\ due' = saved
  /\ entitled' = entitled \cup unsaved
  /\ UNCHANGED <<moneyVars, loopVars, saved, unsaved, shareVars, envVars, faults>>

\* No step of a job looks at the intervals, so they pass between the jobs.
IntervalPasses(j) ==
  /\ pc \in {"idle", "gaspoll", "down"}
  /\ j \notin IF pc = "down" THEN saved ELSE due
  /\ due' = IF pc = "down" THEN due ELSE due \cup {j}
  /\ saved' = saved \cup {j}
  /\ entitled' = entitled \cup {j}
  /\ UNCHANGED <<moneyVars, loopVars, unsaved, shareVars, envVars, pc, faults>>

Pay(t, n) ==
  /\ revenue[t] + n <= MaxRevenue[t]
  /\ t \in active
  /\ revenue' = [revenue EXCEPT ![t] = @ + n]
  /\ bal' = [bal EXCEPT !["contract"][t] = @ + n]
  /\ UNCHANGED <<eth, loopVars, stateVars, shareVars, active, manual, pc, faults>>

Manually == manual < MaxManual /\ manual' = manual + 1

\* bw withdraw <token> hot, and bw send ... hot admin.
BwWithdraw(t) ==
  /\ Manually /\ t \in active
  /\ bal["contract"][t] > 0
  /\ Transfer("server", t, "contract", "hot", bal["contract"][t])
  /\ UNCHANGED <<loopVars, stateVars, shareVars, active, revenue, pc, faults>>

BwSend(t) ==
  /\ Manually
  /\ \E n \in 1 .. bal["hot"][t] : Transfer("hot", t, "hot", "admin", n) /\ Leaves(t, n)
  /\ UNCHANGED <<loopVars, stateVars, paid, given, again, twice, unsent, unswept, active, revenue, pc, faults>>

\* is, cast: a payment method is switched on or off.  The server also pays for mints.
SwitchMethod(t) ==
  /\ Manually
  /\ active' = IF t \in active THEN active \ {t} ELSE active \cup {t}
  /\ unswept' = unswept \cup {t}
  /\ UNCHANGED <<moneyVars, loopVars, stateVars, paid, given, again, covered, twice, unsent, revenue, pc, faults>>

ServerPays ==
  /\ Manually /\ eth["server"] > 0
  /\ eth' = [eth EXCEPT !["server"] = @ - 1]
  /\ UNCHANGED <<bal, loopVars, stateVars, shareVars, active, revenue, pc, faults>>

Run ==
  \/ NotDue \/ CycleStart \/ WithdrawDone \/ TopUp \/ TopUpBuffer \/ PlanShares \/ SharesDisabled
  \/ Share \/ ShareDone \/ PlanRemainder \/ SweepDone \/ RecordCycle \/ GasStart \/ Swap \/ RecordGas
  \/ \E t \in Token : Withdraw(t) \/ SendRemainder(t)

World ==
  \/ \E j \in Job : IntervalPasses(j)
  \/ \E t \in Token : BwWithdraw(t) \/ BwSend(t) \/ SwitchMethod(t)
  \/ \E t \in Token, n \in Payment : Pay(t, n)
  \/ ServerPays

Next == Run \/ World \/ Crash \/ Restart

\* The loop runs on, systemd restarts it, and time passes (strong fairness, because
\* IntervalPasses is put off while a job runs).
Spec ==
  /\ Init /\ [][Next]_vars
  /\ WF_vars(Run) /\ WF_vars(Restart)
  /\ \A j \in Job : SF_vars(IntervalPasses(j))

-----------------------------------------------------------------------------
(* Properties *)

\* Of all revenue that left the contract, recipients get at most the agreed share;
\* only money that had to be shared again (distribution.ts:126) comes on top.  In one
\* cycle they get exactly the share of what was in the wallet, whatever the rounding,
\* unless one of them is unknown or a transfer to it was refused.
ShareOfRevenue ==
  \A t \in Token :
    /\ paid[t] * Whole <= TotalPercent * (revenue[t] - bal["contract"][t] + twice[t])
    /\ pc = "remainder" /\ t \notin unsent => given[t] = ShareTotal(snap[t])

\* From the sweep to the next shares, money that was shared already is in the hot wallet
\* only if its rest could not be sent on: a crash, a refused transfer, no price, no administrator.
SharedOnce ==
  pc \notin {"share", "remainder", "sweep"} =>
    \A t \in Token : covered[t] > 0 => t \in unswept

\* A job is tried once per interval, whatever goes wrong in it (index.ts:135-140);
\* only a restart that did not find its record in the file may repeat it.
AttemptsSpaced == due \subseteq entitled \cup RunningJob

\* Money in the hot wallet does not stay there, unless its method is off or the wallet has no gas.
Swept ==
  \A t \in Token : bal["hot"][t] > 0 ~> (bal["hot"][t] = 0 \/ t \notin active \/ eth["hot"] = 0)

===============================================================================
