---------------------------- MODULE Subscriptions ------------------------------
(***************************************************************************)
(* contracts/BlockhostSubscriptions.sol: plans, payment methods, the price *)
(* of a subscription, its life and the contract's funds.  A transaction is *)
(* one step; one that reverts changes nothing and is no step.              *)
(*                                                                         *)
(* Left out: names, encrypted payloads, reentrancy (nonReentrant), the     *)
(* buyer's own funds (without them the transfer reverts) and tokens that   *)
(* take a fee.  Ids count from 1: the next id is the length of the         *)
(* sequence plus one.                                                      *)
(***************************************************************************)
EXTENDS Wallets, Sequences

CONSTANTS
  Token,         \* ERC-20 tokens
  NoToken,       \* address(0)
  One,           \* 10^decimals of each token
  Pair,          \* Uniswap V2 pairs
  NoPair,
  Token0, Token1, \* the tokens of a pair
  Reserves,      \* pairs of reserves a pool may hold
  DaySeconds,    \* 1 days
  Prices,        \* inputs: price per day, in cents
  DayCounts,     \* inputs: days bought
  SlippageValues, LiquidityValues, \* inputs of the two setters
  DefaultSlippage, DefaultLiquidity,
  MaxTime,       \* bound: the clock
  MaxPlans, MaxMethods, \* bounds
  MaxSettings,   \* bound: changes to existing plans, methods and settings
  MaxEvents      \* bound: the event log

ASSUME SubscriptionsAssumption ==
  /\ NoToken \notin Token /\ NoPair \notin Pair
  /\ One \in [Token -> Nat \ {0}]
  /\ Token0 \in [Pair -> Token] /\ Token1 \in [Pair -> Token]
  /\ Reserves \subseteq Nat \X Nat
  /\ DaySeconds \in Nat \ {0}
  /\ Prices \subseteq Nat /\ DayCounts \subseteq Nat
  /\ SlippageValues \subseteq Nat /\ LiquidityValues \subseteq Nat
  /\ DefaultSlippage \in 0 .. 1000 /\ DefaultLiquidity \in Nat
  /\ MaxTime \in Nat /\ MaxPlans \in Nat /\ MaxMethods \in Nat
  /\ MaxSettings \in Nat /\ MaxEvents \in Nat

Plan == [price : Nat, active : BOOLEAN]
Method == [token : Token \cup {NoToken}, pair : Pair \cup {NoPair},
           stable : Token \cup {NoToken}, active : BOOLEAN]
Subscription == [plan : Nat, subscriber : Owner, expiresAt : Nat, cancelled : BOOLEAN]
Event == [type : {"Created", "Extended", "Cancelled"}, sub : Sub, who : Owner]

VARIABLES
  now,          \* block.timestamp
  plans, methods, subs, \* the three tables, by id
  slippageBps, minLiquidityUsd,
  reserves,     \* per pair: reserves of token0 and token1
  balance,      \* per token: what the contract holds
  evlog,
  settings,     \* how often the owner changed something (bounded)
  charged,      \* history, per token: what was charged
  withdrawn,    \* history, per token: what was withdrawn
  bought,       \* history, per subscription: seconds paid for
  used          \* history, per subscription: seconds it was active

tableVars == <<plans, methods, subs>>
settingVars == <<slippageBps, minLiquidityUsd>>
fundVars == <<balance, charged, withdrawn>>
timeVars == <<bought, used>>
vars == <<now, tableVars, settingVars, reserves, fundVars, evlog, settings, timeVars>>

\* A method priced by a pair is for tokens of that pair.
OfPair(m) == m.pair \in Pair /\ {m.token, m.stable} \subseteq {Token0[m.pair], Token1[m.pair]}

TypeOK ==
  /\ now \in Nat
  /\ plans \in Seq(Plan) /\ methods \in Seq(Method) /\ subs \in Seq(Subscription)
  /\ Len(subs) <= MaxSubs /\ methods # <<>>
  /\ \A s \in 1 .. Len(subs) : subs[s].plan \in 1 .. Len(plans)
  /\ methods[1].pair = NoPair
  /\ \A i \in 2 .. Len(methods) : OfPair(methods[i])
  /\ slippageBps \in 0 .. 1000 /\ minLiquidityUsd \in Nat
  /\ reserves \in [Pair -> Nat \X Nat]
  /\ balance \in [Token -> Nat] /\ charged \in [Token -> Nat] /\ withdrawn \in [Token -> Nat]
  /\ evlog \in Seq(Event)
  /\ settings \in Nat
  /\ bought \in [Sub -> Nat] /\ used \in [Sub -> Nat]

Unset == [token |-> NoToken, pair |-> NoPair, stable |-> NoToken, active |-> FALSE]

Init ==
  /\ now = 0
  /\ plans = <<>> /\ methods = <<Unset>> /\ subs = <<>>
  /\ slippageBps = DefaultSlippage /\ minLiquidityUsd = DefaultLiquidity
  /\ reserves \in [Pair -> Reserves]
  /\ balance = [t \in Token |-> 0] /\ charged = balance /\ withdrawn = balance
  /\ evlog = <<>>
  /\ settings = 0
  /\ bought = [s \in Sub |-> 0] /\ used = bought

-------------------------------------------------------------------------------
(* The price of a subscription *)

\* _isValidPaymentMethod
IsValidPaymentMethod(id) == id \in 1 .. Len(methods) /\ methods[id].token # NoToken

\* Mutant: token0 is taken for the payment token.
GetReservesUnordered(m) == reserves[m.pair]

\* _getReserves: of the payment token and of the stablecoin.
GetReserves(m) ==
  LET r == reserves[m.pair] IN
    IF Token0[m.pair] = m.token THEN r ELSE <<r[2], r[1]>>

\* The stablecoin's reserve in units of six decimals: one quotient for the
\* division and the multiplication by the power of ten the decimals differ by.
Normalized(m) == (GetReserves(m)[2] * 1000000) \div One[m.stable]

Units(cents, t) == (cents * One[t]) \div 100

\* Where _calculatePayment does not revert.
Priced(m) ==
  m.pair # NoPair => Normalized(m) >= minLiquidityUsd /\ GetReserves(m)[2] # 0

\* _calculatePayment
CalculatePayment(plan, days, m) ==
  LET cents == plan.price * days IN
    IF m.pair = NoPair THEN Units(cents, m.token)
    ELSE LET r == GetReserves(m)
             amount == (Units(cents, m.stable) * r[1]) \div r[2]
         IN  amount + (amount * slippageBps) \div 10000

-------------------------------------------------------------------------------
(* Subscriptions *)

Emit(type, s, u) ==
  /\ Len(evlog) < MaxEvents
  /\ evlog' = Append(evlog, [type |-> type, sub |-> s, who |-> u])

\* What buying and extending check alike, and the transfer of the payment.
Pay(planId, days, id) ==
  /\ plans[planId].active
  /\ days # 0
  /\ IsValidPaymentMethod(id)
  /\ methods[id].active
  /\ Priced(methods[id])
  /\ LET amount == CalculatePayment(plans[planId], days, methods[id])
         t == methods[id].token
     IN  /\ balance' = [balance EXCEPT ![t] = @ + amount]
         /\ charged' = [charged EXCEPT ![t] = @ + amount]
  /\ UNCHANGED withdrawn

BuySubscription(u, planId, days, id) ==
  /\ Len(subs) < MaxSubs
  /\ Pay(planId, days, id)
  /\ LET s == Len(subs) + 1 IN
       /\ subs' = Append(subs, [plan |-> planId, subscriber |-> u,
                                expiresAt |-> now + days * DaySeconds, cancelled |-> FALSE])
       /\ Emit("Created", s, u)
       /\ bought' = [bought EXCEPT ![s] = days * DaySeconds]
  /\ UNCHANGED <<now, plans, methods, settingVars, reserves, settings, used>>

\* Mutant: days are added to the old expiry, even if it has passed.
ExtendFromExpiry(u, s, days, id) ==
  /\ ~subs[s].cancelled
  /\ Pay(subs[s].plan, days, id)
  /\ subs' = [subs EXCEPT ![s].expiresAt = @ + days * DaySeconds]
  /\ Emit("Extended", s, u)
  /\ bought' = [bought EXCEPT ![s] = @ + days * DaySeconds]
  /\ UNCHANGED <<now, plans, methods, settingVars, reserves, settings, used>>

\* Mutant: a cancelled subscription can be extended.
ExtendCancelled(u, s, days, id) ==
  /\ Pay(subs[s].plan, days, id)
  /\ LET base == IF subs[s].expiresAt > now THEN subs[s].expiresAt ELSE now IN
       subs' = [subs EXCEPT ![s].expiresAt = base + days * DaySeconds]
  /\ Emit("Extended", s, u)
  /\ bought' = [bought EXCEPT ![s] = @ + days * DaySeconds]
  /\ UNCHANGED <<now, plans, methods, settingVars, reserves, settings, used>>

ExtendSubscription(u, s, days, id) ==
  /\ ~subs[s].cancelled
  /\ Pay(subs[s].plan, days, id)
  /\ LET base == IF subs[s].expiresAt > now THEN subs[s].expiresAt ELSE now IN
       subs' = [subs EXCEPT ![s].expiresAt = base + days * DaySeconds]
  /\ Emit("Extended", s, u)
  /\ bought' = [bought EXCEPT ![s] = @ + days * DaySeconds]
  /\ UNCHANGED <<now, plans, methods, settingVars, reserves, settings, used>>

CancelSubscription(s) ==
  /\ ~subs[s].cancelled
  /\ subs' = [subs EXCEPT ![s].cancelled = TRUE, ![s].expiresAt = now]
  /\ Emit("Cancelled", s, subs[s].subscriber)
  /\ UNCHANGED <<now, plans, methods, settingVars, reserves, fundVars, settings, timeVars>>

\* isSubscriptionActive
IsSubscriptionActive(s) == ~subs[s].cancelled /\ subs[s].expiresAt > now

-------------------------------------------------------------------------------
(* The contract's owner *)

Setting == settings < MaxSettings /\ settings' = settings + 1

SetPrimaryStablecoin(t) ==
  /\ IF methods[1] = Unset THEN UNCHANGED settings ELSE Setting
  /\ methods' = [methods EXCEPT ![1] = [token |-> t, pair |-> NoPair, stable |-> t,
                                        active |-> TRUE]]
  /\ UNCHANGED <<now, plans, subs, settingVars, reserves, fundVars, evlog, timeVars>>

CreatePlan(price) ==
  /\ Len(plans) < MaxPlans
  /\ price # 0
  /\ plans' = Append(plans, [price |-> price, active |-> TRUE])
  /\ UNCHANGED <<now, methods, subs, settingVars, reserves, fundVars, evlog, settings, timeVars>>

UpdatePlan(planId, price, active) ==
  /\ Setting
  /\ price # 0
  /\ plans' = [plans EXCEPT ![planId] = [price |-> price, active |-> active]]
  /\ UNCHANGED <<now, methods, subs, settingVars, reserves, fundVars, evlog, timeVars>>

\* The pair must hold both tokens.
AddPaymentMethod(t, pair, stable) ==
  /\ Len(methods) < MaxMethods
  /\ {t, stable} \subseteq {Token0[pair], Token1[pair]}
  /\ methods' = Append(methods, [token |-> t, pair |-> pair, stable |-> stable,
                                 active |-> TRUE])
  /\ UNCHANGED <<now, plans, subs, settingVars, reserves, fundVars, evlog, settings, timeVars>>

UpdatePaymentMethod(id, active) ==
  /\ Setting
  /\ IsValidPaymentMethod(id)
  /\ methods' = [methods EXCEPT ![id].active = active]
  /\ UNCHANGED <<now, plans, subs, settingVars, reserves, fundVars, evlog, timeVars>>

\* Mutant: no upper limit.
SetSlippageUnchecked(v) ==
  /\ Setting
  /\ slippageBps' = v
  /\ UNCHANGED <<now, tableVars, minLiquidityUsd, reserves, fundVars, evlog, timeVars>>

SetSlippageBps(v) ==
  /\ Setting
  /\ v <= 1000
  /\ slippageBps' = v
  /\ UNCHANGED <<now, tableVars, minLiquidityUsd, reserves, fundVars, evlog, timeVars>>

SetMinLiquidity(v) ==
  /\ Setting
  /\ minLiquidityUsd' = v
  /\ UNCHANGED <<now, tableVars, slippageBps, reserves, fundVars, evlog, timeVars>>

\* Mutant: what is sent is what was charged with the token, not the balance.
WithdrawCharged(t) ==
  /\ balance[t] # 0
  /\ balance' = [balance EXCEPT ![t] = 0]
  /\ withdrawn' = [withdrawn EXCEPT ![t] = @ + charged[t]]
  /\ UNCHANGED <<now, tableVars, settingVars, reserves, charged, evlog, settings, timeVars>>

WithdrawFunds(t) ==
  /\ balance[t] # 0
  /\ balance' = [balance EXCEPT ![t] = 0]
  /\ withdrawn' = [withdrawn EXCEPT ![t] = @ + balance[t]]
  /\ UNCHANGED <<now, tableVars, settingVars, reserves, charged, evlog, settings, timeVars>>

-------------------------------------------------------------------------------
(* The world: time passes, the pools trade *)

Tick ==
  /\ now < MaxTime
  /\ now' = now + 1
  /\ used' = [s \in Sub |-> IF s \in 1 .. Len(subs) /\ IsSubscriptionActive(s)
                            THEN used[s] + 1 ELSE used[s]]
  /\ UNCHANGED <<tableVars, settingVars, reserves, fundVars, evlog, settings, bought>>

Trade(pair, r) ==
  /\ Setting
  /\ reserves' = [reserves EXCEPT ![pair] = r]
  /\ UNCHANGED <<now, tableVars, settingVars, fundVars, evlog, timeVars>>

UserStep ==
  \E u \in Owner, days \in DayCounts, id \in 1 .. Len(methods) :
    \/ \E planId \in 1 .. Len(plans) : BuySubscription(u, planId, days, id)
    \/ \E s \in 1 .. Len(subs) : ExtendSubscription(u, s, days, id)

OwnerStep ==
  \/ \E s \in 1 .. Len(subs) : CancelSubscription(s)
  \/ \E price \in Prices :
       \/ CreatePlan(price)
       \/ \E planId \in 1 .. Len(plans), active \in BOOLEAN : UpdatePlan(planId, price, active)
  \/ \E t \in Token :
       \/ SetPrimaryStablecoin(t)
       \/ WithdrawFunds(t)
       \/ \E pair \in Pair, stable \in Token : AddPaymentMethod(t, pair, stable)
  \/ \E id \in 1 .. Len(methods), active \in BOOLEAN : UpdatePaymentMethod(id, active)
  \/ \E v \in SlippageValues : SetSlippageBps(v)
  \/ \E v \in LiquidityValues : SetMinLiquidity(v)

WorldStep ==
  \/ Tick
  \/ \E pair \in Pair, r \in Reserves : Trade(pair, r)

Next == UserStep \/ OwnerStep \/ WorldStep

Spec == Init /\ [][Next]_vars

-------------------------------------------------------------------------------
(* The contract implements the ledger the rest of the system relies on:    *)
(* whatever happens to plans, prices, methods and settings, ids are handed *)
(* out in order, a cancelled subscription stays cancelled and is never     *)
(* extended, and each change of a subscription emits its one event.        *)
Ledger == INSTANCE SubscriptionLedger WITH
  subState <- [s \in Sub |-> IF s > Len(subs) THEN "none"
                             ELSE IF subs[s].cancelled THEN "cancelled" ELSE "active"],
  subscriber <- [s \in Sub |-> IF s > Len(subs) THEN NoOwner ELSE subs[s].subscriber]

ImplementsLedger == Ledger!LedgerSpec

(* The time a subscription was active and the time it still has make up    *)
(* exactly what was paid for, through expiry and late extension; of a      *)
(* cancelled one no time is left.  (buySubscription, extendSubscription,   *)
(* cancelSubscription, isSubscriptionActive.)                              *)
PaidTimeExact ==
  \A s \in 1 .. Len(subs) :
    IF subs[s].cancelled THEN subs[s].expiresAt <= now /\ used[s] <= bought[s]
    ELSE bought[s] = used[s] + (IF subs[s].expiresAt > now THEN subs[s].expiresAt - now ELSE 0)

(* Every unit charged is in the contract or was withdrawn, in its own      *)
(* token, also when the primary stablecoin is replaced or a method is      *)
(* disabled in between.  (safeTransferFrom, withdrawFunds.)                *)
FundsAccounted == \A t \in Token : charged[t] = balance[t] + withdrawn[t]

(* A price in tokens exceeds the exact one by no more than the slippage    *)
(* margin, and falls short of it by less than one unit of each token.      *)
(* (_calculatePayment, whose truncations meet, against the exact quotient  *)
(* of reserves looked up by token.)                                        *)
ReserveOf(pair, t) == IF Token0[pair] = t THEN reserves[pair][1] ELSE reserves[pair][2]

PriceWithinMargin ==
  \A p \in 1 .. Len(plans), days \in DayCounts, id \in 2 .. Len(methods) :
    LET m == methods[id]
        tokens == ReserveOf(m.pair, m.token)
        coins == ReserveOf(m.pair, m.stable)
        exact == plans[p].price * days * One[m.stable] * tokens \* times 100 * coins
        price == CalculatePayment(plans[p], days, m)
    IN  m.token # m.stable /\ Priced(m) =>
          /\ price * 100 * coins * 10000 <= exact * (10000 + slippageBps)
          /\ (price + 1) * 100 * coins > exact - 100 * tokens
===============================================================================
