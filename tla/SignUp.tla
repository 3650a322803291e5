-------------------------------- MODULE SignUp ---------------------------------
(***************************************************************************)
(* scripts/signup-engine.js: pages in a browser on which a user connects a *)
(* wallet, signs, and buys a subscription: a quote, an approval if the     *)
(* allowance is too small, and the purchase.  The price may change, the    *)
(* wallet may be switched to another account, and answers may be lost      *)
(* while their transactions still go through.                              *)
(***************************************************************************)
EXTENDS Integers

CONSTANTS
  Tab, Account, NoAccount,
  Price,     \* what the chosen plan and days may cost
  Money,     \* stablecoin of each account at first
  MaxFaults  \* bound: answers that are lost

ASSUME SignUpAssumption ==
  /\ NoAccount \notin Account
  /\ Price \subseteq Nat \ {0} /\ Price # {}
  /\ Money \in [Account -> Nat] /\ MaxFaults \in Nat

VARIABLES
  price, money, allowance, \* of the contract and the stablecoin
  selected,                \* account the wallet offers
  pc, user, signer, sig,   \* of each page: userAddress, signer, who made userSignature
  quote,                   \* paymentAmount
  sent,                    \* transactions not yet mined
  lost,                    \* answers each page did not get: the number of its try
  bought,                  \* history: purchases
  times,                   \* history: how often each try of a page has bought
  quoted                   \* history: the highest quote of each account

tokenVars == <<money, allowance>>
pageVars == <<pc, user, signer, sig, quote>>
histVars == <<bought, times, quoted>>
vars == <<price, tokenVars, selected, pageVars, sent, lost, histVars>>

PageState == {"start", "switch", "sign", "ready", "quoted", "approve", "approving", "buy",
              "buying", "done"}
Try == 0 .. MaxFaults
Tx == [kind : {"approve", "buy"}, tab : Tab, try : Try, by : Account, amount : Nat, sig : Account]
Purchase == [by : Account, sig : Account, paid : Nat]

TypeOK ==
  /\ price \in Price
  /\ money \in [Account -> Nat] /\ allowance \in [Account -> Nat]
  /\ selected \in Account
  /\ pc \in [Tab -> PageState]
  /\ user \in [Tab -> Account \cup {NoAccount}] /\ signer \in [Tab -> Account \cup {NoAccount}]
  /\ sig \in [Tab -> Account \cup {NoAccount}]
  /\ quote \in [Tab -> Nat]
  /\ sent \in SUBSET Tx
  /\ lost \in [Tab -> Try]
  /\ bought \in SUBSET Purchase /\ times \in [Tab -> [Try -> Nat]]
  /\ quoted \in [Account -> Nat]
  /\ \A t \in Tab : pc[t] \notin {"start", "switch", "sign"} => sig[t] # NoAccount

Init ==
  /\ price \in Price /\ money = Money /\ allowance = [a \in Account |-> 0]
  /\ selected \in Account
  /\ pc = [t \in Tab |-> "start"]
  /\ user = [t \in Tab |-> NoAccount] /\ signer = user /\ sig = user
  /\ quote = [t \in Tab |-> 0] /\ sent = {}
  /\ lost = [t \in Tab |-> 0]
  /\ bought = {} /\ times = [t \in Tab |-> [n \in Try |-> 0]] /\ quoted = [a \in Account |-> 0]

Goes(t, p) == pc' = [pc EXCEPT ![t] = p]

-----------------------------------------------------------------------------
(* Connect and sign *)

\* btn-connect: on another chain than CONFIG.chainId the wallet is asked to switch.
Connect(t) ==
  /\ pc[t] = "start"
  /\ user' = [user EXCEPT ![t] = selected]
  /\ signer' = [signer EXCEPT ![t] = selected]
  /\ Goes(t, "sign") \/ Goes(t, "switch")
  /\ UNCHANGED <<price, tokenVars, selected, sig, quote, sent, lost, histVars>>

\* The signer is taken anew, userAddress is not; a refusal brings the button back.
SwitchChain(t) ==
  /\ pc[t] = "switch"
  /\ \/ Goes(t, "sign") /\ signer' = [signer EXCEPT ![t] = selected]
     \/ Goes(t, "start") /\ UNCHANGED signer
  /\ UNCHANGED <<price, tokenVars, selected, user, sig, quote, sent, lost, histVars>>

\* Mutant: the purchase is enabled before the signature is there.
SignEarly(t) ==
  /\ pc[t] = "sign" /\ Goes(t, "ready")
  /\ UNCHANGED <<price, tokenVars, selected, user, signer, sig, quote, sent, lost, histVars>>

\* btn-sign: signature, encryption; a refusal leaves the button.
Sign(t) ==
  /\ pc[t] = "sign" /\ Goes(t, "ready")
  /\ sig' = [sig EXCEPT ![t] = signer[t]]
  /\ UNCHANGED <<price, tokenVars, selected, user, signer, quote, sent, lost, histVars>>

-----------------------------------------------------------------------------
(* btn-purchase: anything that fails brings the button back (ready). *)

Quote(t) ==
  /\ pc[t] = "ready" /\ Goes(t, "quoted")
  /\ quote' = [quote EXCEPT ![t] = price]
  /\ quoted' = [quoted EXCEPT ![signer[t]] = IF @ < price THEN price ELSE @]
  /\ UNCHANGED <<price, tokenVars, selected, user, signer, sig, sent, lost, bought, times>>

\* Balance and allowance are those of userAddress.
CheckFunds(t) ==
  /\ pc[t] = "quoted"
  /\ \/ Goes(t, IF money[user[t]] < quote[t] THEN "ready"
                ELSE IF allowance[user[t]] < quote[t] THEN "approve" ELSE "buy")
     \/ Goes(t, "ready")
  /\ UNCHANGED <<price, tokenVars, selected, user, signer, sig, quote, sent, lost, histVars>>

Order(t, k, n) ==
  [kind |-> k, tab |-> t, try |-> lost[t], by |-> signer[t], amount |-> n, sig |-> sig[t]]

\* Mutant: all the money is approved, once and for all.
ApproveAll(t) ==
  /\ pc[t] = "approve"
  /\ Goes(t, "approving") /\ sent' = sent \cup {Order(t, "approve", Money[signer[t]])}
  /\ UNCHANGED <<price, tokenVars, selected, user, signer, sig, quote, lost, histVars>>

Approve(t) ==
  /\ pc[t] = "approve"
  /\ \/ Goes(t, "approving") /\ sent' = sent \cup {Order(t, "approve", quote[t])}
     \/ Goes(t, "ready") /\ UNCHANGED sent
  /\ UNCHANGED <<price, tokenVars, selected, user, signer, sig, quote, lost, histVars>>

\* The wallet's estimate refuses what would be reverted now.
Covered(a) == price <= allowance[a] /\ price <= money[a]

Buy(t) ==
  /\ pc[t] = "buy"
  /\ \/ Covered(signer[t]) /\ Goes(t, "buying") /\ sent' = sent \cup {Order(t, "buy", quote[t])}
     \/ Goes(t, "ready") /\ UNCHANGED sent
  /\ UNCHANGED <<price, tokenVars, selected, user, signer, sig, quote, lost, histVars>>

\* The page gives up waiting; the transaction stays.
LoseAnswer(t) ==
  /\ pc[t] \in {"approving", "buying"} /\ lost[t] < MaxFaults
  /\ Goes(t, "ready")
  /\ lost' = [lost EXCEPT ![t] = @ + 1]
  /\ UNCHANGED <<price, tokenVars, selected, user, signer, sig, quote, sent, histVars>>

-----------------------------------------------------------------------------
(* The chain and the wallet *)

\* The page that waits for this transaction gets its receipt.
Receipt(x, p) ==
  LET waits == pc[x.tab] = IF x.kind = "buy" THEN "buying" ELSE "approving"
  IN pc' = IF waits /\ x.try = lost[x.tab] THEN [pc EXCEPT ![x.tab] = p] ELSE pc

MineApproval(x) ==
  /\ x.kind = "approve" /\ sent' = sent \ {x}
  /\ allowance' = [allowance EXCEPT ![x.by] = x.amount]
  /\ Receipt(x, "buy")
  /\ UNCHANGED <<price, money, selected, user, signer, sig, quote, lost, histVars>>

\* buySubscription charges the price of the day it is mined.
MinePurchase(x) ==
  /\ x.kind = "buy" /\ sent' = sent \ {x}
  /\ IF Covered(x.by)
     THEN /\ money' = [money EXCEPT ![x.by] = @ - price]
          /\ allowance' = [allowance EXCEPT ![x.by] = @ - price]
          /\ bought' = bought \cup {[by |-> x.by, sig |-> x.sig, paid |-> price]}
          /\ times' = [times EXCEPT ![x.tab][x.try] = @ + 1]
          /\ Receipt(x, "done")
     ELSE Receipt(x, "ready") /\ UNCHANGED <<tokenVars, bought, times>>
  /\ UNCHANGED <<price, selected, user, signer, sig, quote, quoted, lost>>

ChangePrice(p) ==
  /\ price' = p /\ p # price
  /\ UNCHANGED <<tokenVars, selected, pageVars, sent, lost, histVars>>

SelectAccount(a) ==
  /\ selected' = a /\ a # selected
  /\ UNCHANGED <<price, tokenVars, pageVars, sent, lost, histVars>>

Next ==
  \/ \E t \in Tab : \/ Connect(t) \/ SwitchChain(t) \/ Sign(t) \/ Quote(t) \/ CheckFunds(t)
                    \/ Approve(t) \/ Buy(t) \/ LoseAnswer(t)
  \/ \E x \in sent : MineApproval(x) \/ MinePurchase(x)
  \/ \E p \in Price : ChangePrice(p)
  \/ \E a \in Account : SelectAccount(a)

Spec == Init /\ [][Next]_vars

-----------------------------------------------------------------------------
(* Properties *)

\* Every purchase carries credentials of the account that pays, which is what the
\* machine will believe; it costs no more than the page has quoted to that account,
\* however the price moved; and a page buys once, and once more per answer lost.
PurchasesSound ==
  /\ \A p \in bought : p.sig = p.by /\ p.paid <= quoted[p.by]
  /\ \A t \in Tab, n \in Try : times[t][n] <= 1

===============================================================================
