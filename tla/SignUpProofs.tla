----------------------------- MODULE SignUpProofs ------------------------------
(***************************************************************************)
(* What the sign-up page promises, for any number of pages and accounts.   *)
(***************************************************************************)
EXTENDS SignUp, TLAPS

Unsigned == {"start", "switch", "sign"}

\* A page that is past the signature signs and pays with one and the same account.
Signed ==
  \A t \in Tab : /\ pc[t] # "start" => signer[t] \in Account
                 /\ pc[t] \notin Unsigned => sig[t] = signer[t]
                 /\ pc[t] \in {"quoted", "approve"} => quote[t] <= quoted[signer[t]]

\* What waits to be mined was signed by its payer, and approves what was quoted to him.
Orders ==
  \A x \in sent : x.sig = x.by /\ (x.kind = "approve" => x.amount <= quoted[x.by])

Allowed == \A a \in Account : allowance[a] <= quoted[a]

Paid == \A p \in bought : p.sig = p.by /\ p.paid <= quoted[p.by]

\* A try has at most one purchase, waiting or made, and the page knows of the last one.
Waiting(x) ==
  /\ x.try <= lost[x.tab] /\ times[x.tab][x.try] = 0
  /\ x.try = lost[x.tab] => pc[x.tab] = "buying"

OnePerTry ==
  /\ \A x \in sent : x.kind = "buy" => Waiting(x)
  /\ \A x, y \in sent : x.kind = "buy" /\ y.kind = "buy" /\ x.tab = y.tab /\ x.try = y.try => x = y
  /\ \A t \in Tab : pc[t] # "done" => times[t][lost[t]] = 0
  /\ \A t \in Tab, n \in Try : times[t][n] <= 1 /\ (n > lost[t] => times[t][n] = 0)

IInv == TypeOK /\ Signed /\ Orders /\ Allowed /\ Paid /\ OnePerTry

-----------------------------------------------------------------------------
\* An order of a page past the signature is one of its signer's.
LEMMA OrderType ==
  ASSUME TypeOK, Signed, NEW t \in Tab, pc[t] \notin Unsigned, NEW k \in {"approve", "buy"}, NEW n \in Nat
  PROVE  /\ Order(t, k, n) \in Tx
         /\ Order(t, k, n).sig = Order(t, k, n).by
         /\ Order(t, k, n).kind = k /\ Order(t, k, n).tab = t /\ Order(t, k, n).try = lost[t]
         /\ Order(t, k, n).by = signer[t] /\ Order(t, k, n).amount = n
  BY DEF TypeOK, Signed, Order, Tx, Unsigned

\* A receipt moves at most the page it is for, and only if that page waits for it.
LEMMA ReceiptMoves ==
  ASSUME TypeOK, NEW x \in sent, NEW p \in {"ready", "buy", "done"}, Receipt(x, p),
         Signed, \A t \in Tab : pc[t] \notin Unsigned => sig[t] # NoAccount
  PROVE  /\ pc' \in [Tab -> PageState]
         /\ \A t \in Tab : pc'[t] = pc[t] \/ (/\ t = x.tab /\ x.try = lost[t] /\ pc'[t] = p
                                             /\ pc[t] = IF x.kind = "buy" THEN "buying" ELSE "approving")
         /\ x.try = lost[x.tab] /\ pc[x.tab] = (IF x.kind = "buy" THEN "buying" ELSE "approving") => pc'[x.tab] = p
         /\ \A t \in Tab : pc'[t] \in Unsigned <=> pc[t] \in Unsigned
  BY DEF TypeOK, Receipt, Tx, Unsigned, PageState

\* The initial state satisfies the invariant.
LEMMA InitInv == Init => IInv
  BY SignUpAssumption
     DEF Init, IInv, TypeOK, Signed, Orders, Allowed, Paid, OnePerTry, Unsigned, Try, PageState

-----------------------------------------------------------------------------
\* Every step keeps the types.
LEMMA TypeStep == IInv /\ [Next]_vars => TypeOK'
<1> SUFFICES ASSUME IInv, [Next]_vars PROVE TypeOK'
  OBVIOUS
<1>0. TypeOK /\ Signed
  BY DEF IInv
<1>1. ASSUME NEW t \in Tab, Connect(t) PROVE TypeOK'
  BY <1>0, <1>1 DEF Connect, TypeOK, PageState, Goes, histVars, tokenVars
<1>2. ASSUME NEW t \in Tab, SwitchChain(t) PROVE TypeOK'
  BY <1>0, <1>2 DEF SwitchChain, TypeOK, PageState, Goes, histVars, tokenVars
<1>3. ASSUME NEW t \in Tab, Sign(t) PROVE TypeOK'
  BY <1>0, <1>3, SignUpAssumption DEF Sign, TypeOK, PageState, Signed, Goes, histVars, tokenVars
<1>4. ASSUME NEW t \in Tab, Quote(t) PROVE TypeOK'
  <2>1. price \in Nat /\ signer[t] \in Account
    BY <1>0, <1>4, SignUpAssumption DEF Quote, TypeOK, Signed
  <2> QED
    BY <1>0, <1>4, <2>1 DEF Quote, TypeOK, PageState, Goes, histVars, tokenVars
<1>5. ASSUME NEW t \in Tab, CheckFunds(t) PROVE TypeOK'
  BY <1>0, <1>5 DEF CheckFunds, TypeOK, PageState, Goes, histVars, tokenVars
<1>6. ASSUME NEW t \in Tab, Approve(t) PROVE TypeOK'
  <2>1. Order(t, "approve", quote[t]) \in Tx
    BY <1>0, <1>6, OrderType DEF Approve, Unsigned, TypeOK
  <2> QED
    BY <1>0, <1>6, <2>1 DEF Approve, TypeOK, PageState, Goes, histVars, tokenVars
<1>7. ASSUME NEW t \in Tab, Buy(t) PROVE TypeOK'
  <2>1. Order(t, "buy", quote[t]) \in Tx
    BY <1>0, <1>7, OrderType DEF Buy, Unsigned, TypeOK
  <2> QED
    BY <1>0, <1>7, <2>1 DEF Buy, TypeOK, PageState, Goes, histVars, tokenVars
<1>8. ASSUME NEW t \in Tab, LoseAnswer(t) PROVE TypeOK'
  <2>1. lost[t] + 1 \in Try
    BY <1>0, <1>8, SignUpAssumption DEF LoseAnswer, TypeOK, Try
  <2>2. pc' \in [Tab -> PageState] /\ \A u \in Tab : pc[u] \in Unsigned => pc'[u] \in Unsigned
    BY <1>0, <1>8 DEF LoseAnswer, TypeOK, PageState, Goes, Unsigned
  <2>3. lost' \in [Tab -> Try] /\ UNCHANGED <<price, money, allowance, selected, user, signer, sig,
                                             quote, sent, bought, times, quoted>>
    BY <1>0, <1>8, <2>1 DEF LoseAnswer, TypeOK, histVars, tokenVars
  <2> QED
    BY <1>0, <2>2, <2>3 DEF TypeOK, Unsigned
<1>9. ASSUME NEW x \in sent, MineApproval(x) PROVE TypeOK'
  <2>1. x \in Tx /\ (\A t \in Tab : pc[t] \notin Unsigned => sig[t] # NoAccount)
    BY <1>0 DEF TypeOK, Unsigned
  <2>2. /\ pc' \in [Tab -> PageState]
        /\ \A t \in Tab : pc'[t] \in Unsigned <=> pc[t] \in Unsigned
    BY <1>0, <1>9, <2>1, ReceiptMoves DEF MineApproval
  <2> QED
    BY <1>0, <1>9, <2>1, <2>2 DEF MineApproval, TypeOK, Tx, Unsigned, histVars
<1>10. ASSUME NEW x \in sent, MinePurchase(x) PROVE TypeOK'
  <2>1. x \in Tx /\ price \in Nat /\ (\A t \in Tab : pc[t] \notin Unsigned => sig[t] # NoAccount)
    BY <1>0, SignUpAssumption DEF TypeOK, Unsigned
  <2>2. /\ pc' \in [Tab -> PageState]
        /\ \A t \in Tab : pc'[t] \in Unsigned <=> pc[t] \in Unsigned
    BY <1>0, <1>10, <2>1, ReceiptMoves DEF MinePurchase
  <2>3. CASE Covered(x.by)
    <3>a. /\ x.by \in Account /\ x.sig \in Account /\ x.tab \in Tab /\ x.try \in Try
          /\ money[x.by] - price \in Nat /\ allowance[x.by] - price \in Nat
      BY <1>0, <2>1, <2>3 DEF TypeOK, Tx, Covered
    <3>1. money' \in [Account -> Nat] /\ allowance' \in [Account -> Nat]
      <4>1. /\ money' = [money EXCEPT ![x.by] = money[x.by] - price]
            /\ allowance' = [allowance EXCEPT ![x.by] = allowance[x.by] - price]
        BY <1>10, <2>3 DEF MinePurchase
      <4>2. money \in [Account -> Nat] /\ allowance \in [Account -> Nat]
        BY <1>0 DEF TypeOK
      <4> QED
        BY <3>a, <4>1, <4>2
    <3>b. times[x.tab] \in [Try -> Nat] /\ times[x.tab][x.try] + 1 \in Nat
      BY <1>0, <3>a DEF TypeOK
    <3>c. [times[x.tab] EXCEPT ![x.try] = @ + 1] \in [Try -> Nat]
      BY <3>b
    <3>2. bought' \in SUBSET Purchase /\ times' \in [Tab -> [Try -> Nat]]
      <4>1. /\ bought' = bought \cup {[by |-> x.by, sig |-> x.sig, paid |-> price]}
            /\ times' = [times EXCEPT ![x.tab] = [times[x.tab] EXCEPT ![x.try] = times[x.tab][x.try] + 1]]
        BY <1>10, <2>3 DEF MinePurchase
      <4>2. bought \in SUBSET Purchase /\ times \in [Tab -> [Try -> Nat]]
        BY <1>0 DEF TypeOK
      <4>3. [by |-> x.by, sig |-> x.sig, paid |-> price] \in Purchase
        BY <2>1, <3>a DEF Purchase
      <4> QED
        BY <3>a, <3>c, <4>1, <4>2, <4>3
    <3> QED
      BY <1>0, <1>10, <2>1, <2>2, <3>1, <3>2 DEF MinePurchase, TypeOK, Unsigned
  <2>4. CASE ~Covered(x.by)
    BY <1>0, <1>10, <2>1, <2>2, <2>4 DEF MinePurchase, TypeOK, Unsigned, tokenVars
  <2> QED
    BY <2>3, <2>4
<1>11. ASSUME NEW p \in Price, ChangePrice(p) PROVE TypeOK'
  BY <1>0, <1>11 DEF ChangePrice, TypeOK, pageVars, histVars, tokenVars
<1>12. ASSUME NEW a \in Account, SelectAccount(a) PROVE TypeOK'
  BY <1>0, <1>12 DEF SelectAccount, TypeOK, pageVars, histVars, tokenVars
<1>13. CASE UNCHANGED vars
  BY <1>0, <1>13 DEF vars, TypeOK, pageVars, histVars, tokenVars
<1> QED
  BY <1>0, <1>1, <1>2, <1>3, <1>4, <1>5, <1>6, <1>7, <1>8, <1>9, <1>10, <1>11, <1>12, <1>13 DEF Next

-----------------------------------------------------------------------------
\* A step of a page, with the page's variables after it.
LEMMA SignedStep == IInv /\ TypeOK' /\ [Next]_vars => Signed'
<1> SUFFICES ASSUME IInv, TypeOK', [Next]_vars PROVE Signed'
  OBVIOUS
<1>0. TypeOK /\ Signed
  BY DEF IInv
<1>1. ASSUME NEW t \in Tab, Connect(t) PROVE Signed'
  BY <1>0, <1>1 DEF Connect, TypeOK, Signed, Unsigned, Goes, histVars
<1>2. ASSUME NEW t \in Tab, SwitchChain(t) PROVE Signed'
  BY <1>0, <1>2 DEF SwitchChain, TypeOK, Signed, Unsigned, Goes, histVars
<1>3. ASSUME NEW t \in Tab, Sign(t) PROVE Signed'
  BY <1>0, <1>3 DEF Sign, TypeOK, Signed, Unsigned, Goes, histVars
<1>4. ASSUME NEW t \in Tab, Quote(t) PROVE Signed'
  <2>1. /\ price \in Nat /\ signer[t] \in Account
        /\ \A u \in Tab : pc[u] # "start" => signer[u] \in Account
    BY <1>0, <1>4, SignUpAssumption DEF Quote, TypeOK, Signed
  <2>2. \A a \in Account : quoted[a] <= quoted'[a]
    BY <1>0, <1>4, <2>1 DEF Quote, TypeOK
  <2>3. quote'[t] <= quoted'[signer[t]]
    BY <1>0, <1>4, <2>1 DEF Quote, TypeOK
  <2>4. ASSUME NEW u \in Tab, u # t PROVE pc'[u] = pc[u] /\ quote'[u] = quote[u] /\ quote[u] \in Nat
    BY <1>0, <1>4, <2>4 DEF Quote, TypeOK, Goes
  <2>5. ASSUME NEW u \in Tab, pc'[u] \in {"quoted", "approve"} PROVE quote'[u] <= quoted'[signer[u]]
    <3>1. CASE u # t
      <4>1. signer[u] \in Account /\ quote[u] <= quoted[signer[u]]
        BY <1>0, <2>1, <2>4, <2>5, <3>1 DEF Signed
      <4>2. quoted[signer[u]] \in Nat /\ quoted'[signer[u]] \in Nat /\ quote[u] \in Nat
        BY <1>0, <4>1 DEF TypeOK
      <4> QED
        BY <2>2, <2>4, <3>1, <4>1, <4>2
    <3> QED
      BY <2>3, <3>1
  <2> QED
    BY <1>0, <1>4, <2>1, <2>5 DEF Quote, TypeOK, Signed, Unsigned, Goes
<1>5. ASSUME NEW t \in Tab, CheckFunds(t) PROVE Signed'
  <2>1. pc[t] = "quoted" /\ pc' \in {[pc EXCEPT ![t] = p] : p \in {"ready", "approve", "buy"}}
    BY <1>0, <1>5 DEF CheckFunds, Goes
  <2> QED
    BY <1>0, <1>5, <2>1 DEF CheckFunds, TypeOK, Signed, Unsigned, histVars
<1>6. ASSUME NEW t \in Tab, Approve(t) PROVE Signed'
  BY <1>0, <1>6 DEF Approve, TypeOK, Signed, Unsigned, Goes, histVars
<1>7. ASSUME NEW t \in Tab, Buy(t) PROVE Signed'
  BY <1>0, <1>7 DEF Buy, TypeOK, Signed, Unsigned, Goes, histVars
<1>8. ASSUME NEW t \in Tab, LoseAnswer(t) PROVE Signed'
  BY <1>0, <1>8 DEF LoseAnswer, TypeOK, Signed, Unsigned, Goes, histVars
<1>9. ASSUME NEW x \in sent, NEW p \in {"ready", "buy", "done"}, Receipt(x, p),
             UNCHANGED <<signer, sig, quote, quoted>>
      PROVE  Signed'
  <2>1. \A t \in Tab : pc[t] \notin Unsigned => sig[t] # NoAccount
    BY <1>0 DEF TypeOK, Unsigned
  <2>2. \A t \in Tab : pc'[t] = pc[t] \/ (pc'[t] = p /\ pc[t] \in {"buying", "approving"})
    BY <1>0, <1>9, <2>1, ReceiptMoves
  <2> QED
    BY <1>9, <1>0, <2>2 DEF Signed, Unsigned
<1>10. ASSUME NEW x \in sent, MineApproval(x) \/ MinePurchase(x) PROVE Signed'
  <2>1. UNCHANGED <<signer, sig, quote, quoted>> /\ \E p \in {"ready", "buy", "done"} : Receipt(x, p)
    BY <1>10 DEF MineApproval, MinePurchase, histVars
  <2> QED
    BY <1>9, <2>1
<1>11. ASSUME NEW p \in Price, ChangePrice(p) PROVE Signed'
  BY <1>0, <1>11 DEF ChangePrice, Signed, pageVars, histVars
<1>12. ASSUME NEW a \in Account, SelectAccount(a) PROVE Signed'
  BY <1>0, <1>12 DEF SelectAccount, Signed, pageVars, histVars
<1>13. CASE UNCHANGED vars
  BY <1>0, <1>13 DEF vars, Signed, pageVars, histVars
<1> QED
  BY <1>1, <1>2, <1>3, <1>4, <1>5, <1>6, <1>7, <1>8, <1>10, <1>11, <1>12, <1>13 DEF Next

-----------------------------------------------------------------------------
\* Quotes only grow.
LEMMA QuotedGrows ==
  ASSUME TypeOK, Signed, NEW t \in Tab, Quote(t)
  PROVE  \A a \in Account : quoted[a] \in Nat /\ quoted'[a] \in Nat /\ quoted[a] <= quoted'[a]
<1>1. price \in Nat /\ signer[t] \in Account
  BY SignUpAssumption DEF Quote, TypeOK, Signed
<1> QED
  BY <1>1 DEF Quote, TypeOK

\* Orders and allowances stay within the quotes, and purchases too.
LEMMA MoneyStep == IInv /\ TypeOK' /\ [Next]_vars => (Orders /\ Allowed /\ Paid)'
<1> SUFFICES ASSUME IInv, TypeOK', [Next]_vars PROVE (Orders /\ Allowed /\ Paid)'
  OBVIOUS
<1>0. TypeOK /\ Signed /\ Orders /\ Allowed /\ Paid
  BY DEF IInv
<1>t. \A x \in sent : x.by \in Account /\ x.amount \in Nat
  BY <1>0 DEF TypeOK, Tx
<1>p. \A p \in bought : p.by \in Account /\ p.paid \in Nat
  BY <1>0 DEF TypeOK, Purchase
<1>1. ASSUME UNCHANGED <<sent, allowance, bought, quoted>> PROVE (Orders /\ Allowed /\ Paid)'
  BY <1>0, <1>1 DEF Orders, Allowed, Paid
<1>2. ASSUME NEW t \in Tab, Connect(t) \/ SwitchChain(t) \/ Sign(t) \/ CheckFunds(t) \/ LoseAnswer(t)
      PROVE  (Orders /\ Allowed /\ Paid)'
  BY <1>1, <1>2 DEF Connect, SwitchChain, Sign, CheckFunds, LoseAnswer, tokenVars, histVars
<1>3. ASSUME NEW t \in Tab, Quote(t) PROVE (Orders /\ Allowed /\ Paid)'
  <2>1. \A a \in Account : quoted[a] \in Nat /\ quoted'[a] \in Nat /\ quoted[a] <= quoted'[a]
    BY <1>0, <1>3, QuotedGrows
  <2>2. UNCHANGED <<sent, allowance, bought>> /\ allowance \in [Account -> Nat]
    BY <1>0, <1>3 DEF Quote, tokenVars, TypeOK
  <2>3. Orders'
    BY <1>0, <1>t, <2>1, <2>2 DEF Orders
  <2>4. Allowed'
    BY <1>0, <2>1, <2>2 DEF Allowed
  <2>5. Paid'
    BY <1>0, <1>p, <2>1, <2>2 DEF Paid
  <2> QED
    BY <2>3, <2>4, <2>5
<1>4. ASSUME NEW t \in Tab, NEW k \in {"approve", "buy"}, pc[t] \in {"approve", "buy"}, k = pc[t],
             sent' \in {sent, sent \cup {Order(t, k, quote[t])}}, UNCHANGED <<allowance, bought, quoted>>
      PROVE  (Orders /\ Allowed /\ Paid)'
  <2>1. pc[t] \notin Unsigned /\ quote[t] \in Nat
    BY <1>0, <1>4 DEF Unsigned, TypeOK
  <2>2. /\ Order(t, k, quote[t]).sig = Order(t, k, quote[t]).by
        /\ Order(t, k, quote[t]).kind = k /\ Order(t, k, quote[t]).by = signer[t]
        /\ Order(t, k, quote[t]).amount = quote[t]
    BY <1>0, <2>1, OrderType
  <2>3. k = "approve" => quote[t] <= quoted[signer[t]]
    BY <1>0, <1>4 DEF Signed
  <2> QED
    BY <1>0, <1>4, <2>2, <2>3 DEF Orders, Allowed, Paid
<1>5. ASSUME NEW t \in Tab, Approve(t) \/ Buy(t) PROVE (Orders /\ Allowed /\ Paid)'
  <2>1. CASE Approve(t)
    BY <1>4, <2>1 DEF Approve, tokenVars, histVars
  <2>2. CASE Buy(t)
    BY <1>4, <2>2 DEF Buy, tokenVars, histVars
  <2> QED
    BY <1>5, <2>1, <2>2
<1>6. ASSUME NEW x \in sent, MineApproval(x) PROVE (Orders /\ Allowed /\ Paid)'
  <2>1. /\ sent' \subseteq sent /\ UNCHANGED <<bought, quoted>> /\ x.kind = "approve"
        /\ allowance' = [allowance EXCEPT ![x.by] = x.amount]
    BY <1>6 DEF MineApproval, histVars
  <2>2. \A a \in Account : allowance'[a] = IF a = x.by THEN x.amount ELSE allowance[a]
    BY <1>0, <2>1 DEF TypeOK
  <2>3. x.amount <= quoted[x.by]
    BY <1>0, <2>1 DEF Orders
  <2> QED
    BY <1>0, <2>1, <2>2, <2>3 DEF Orders, Allowed, Paid
<1>7. ASSUME NEW x \in sent, MinePurchase(x) PROVE (Orders /\ Allowed /\ Paid)'
  <2>1. CASE ~Covered(x.by)
    BY <1>0, <1>7, <2>1 DEF MinePurchase, tokenVars, Orders, Allowed, Paid
  <2>2. CASE Covered(x.by)
    <3>1. /\ sent' \subseteq sent /\ quoted' = quoted
          /\ allowance' = [allowance EXCEPT ![x.by] = allowance[x.by] - price]
          /\ bought' = bought \cup {[by |-> x.by, sig |-> x.sig, paid |-> price]}
      BY <1>7, <2>2 DEF MinePurchase
    <3>2. /\ price \in Nat /\ price <= allowance[x.by] /\ x.by \in Account /\ x.sig = x.by
          /\ allowance \in [Account -> Nat] /\ quoted \in [Account -> Nat]
      BY <1>0, <1>t, <2>2, SignUpAssumption DEF TypeOK, Covered, Orders
    <3>3. \A a \in Account : allowance'[a] <= quoted'[a]
      BY <1>0, <3>1, <3>2 DEF Allowed
    <3>4. price <= quoted[x.by]
      BY <1>0, <3>2 DEF Allowed
    <3>5. Paid'
      BY <1>0, <3>1, <3>2, <3>4 DEF Paid
    <3> QED
      BY <1>0, <3>1, <3>3, <3>5 DEF Orders, Allowed
  <2> QED
    BY <2>1, <2>2
<1>8. ASSUME NEW p \in Price, ChangePrice(p) PROVE (Orders /\ Allowed /\ Paid)'
  BY <1>1, <1>8 DEF ChangePrice, tokenVars, histVars
<1>9. ASSUME NEW a \in Account, SelectAccount(a) PROVE (Orders /\ Allowed /\ Paid)'
  BY <1>1, <1>9 DEF SelectAccount, tokenVars, histVars
<1>10. CASE UNCHANGED vars
  BY <1>1, <1>10 DEF vars, tokenVars, histVars
<1> QED
  BY <1>2, <1>3, <1>5, <1>6, <1>7, <1>8, <1>9, <1>10 DEF Next

-----------------------------------------------------------------------------
\* What keeps the count of purchases: the same tries, orders and pages.
LEMMA TryStep == IInv /\ TypeOK' /\ [Next]_vars => OnePerTry'
<1> SUFFICES ASSUME IInv, TypeOK', [Next]_vars PROVE OnePerTry'
  OBVIOUS
<1>0. TypeOK /\ Signed /\ OnePerTry
  BY DEF IInv
<1>t. \A x \in sent : x.tab \in Tab /\ x.try \in Try
  BY <1>0 DEF TypeOK, Tx
<1>n. \A t \in Tab : lost[t] \in Try /\ lost[t] \in Nat /\ \A n \in Try : n \in Nat /\ times[t][n] \in Nat
  <2>1. Try \subseteq Nat
    BY SignUpAssumption DEF Try
  <2>2. lost \in [Tab -> Try] /\ \A t \in Tab : times[t] \in [Try -> Nat]
    BY <1>0 DEF TypeOK
  <2> QED
    BY <2>1, <2>2
<1>1. ASSUME NEW t \in Tab, NEW p \in PageState, pc' = [pc EXCEPT ![t] = p],
             pc[t] \notin {"buying", "done"}, UNCHANGED <<sent, lost, times>>
      PROVE  OnePerTry'
  <2>1. \A u \in Tab : pc'[u] = IF u = t THEN p ELSE pc[u]
    BY <1>0, <1>1 DEF TypeOK
  <2>2. \A x \in sent' : x.kind = "buy" => Waiting(x)'
    BY <1>0, <1>1, <1>t, <2>1 DEF OnePerTry, Waiting
  <2>3. \A u \in Tab : pc'[u] # "done" => times'[u][lost'[u]] = 0
    BY <1>0, <1>1, <2>1 DEF OnePerTry
  <2> QED
    BY <1>0, <1>1, <2>2, <2>3 DEF OnePerTry
<1>2. ASSUME NEW t \in Tab, Connect(t) \/ SwitchChain(t) \/ Sign(t) \/ Quote(t) \/ CheckFunds(t)
      PROVE  OnePerTry'
  <2>1. pc[t] \notin {"buying", "done"} /\ UNCHANGED <<sent, lost, times>>
    BY <1>2 DEF Connect, SwitchChain, Sign, Quote, CheckFunds, histVars
  <2>2. \E p \in PageState : pc' = [pc EXCEPT ![t] = p]
    BY <1>2 DEF Connect, SwitchChain, Sign, Quote, CheckFunds, Goes, PageState
  <2> QED
    BY <1>1, <2>1, <2>2
<1>3. ASSUME NEW t \in Tab, LoseAnswer(t) PROVE OnePerTry'
  <2>1. /\ pc[t] # "done" /\ pc' = [pc EXCEPT ![t] = "ready"]
        /\ lost' = [lost EXCEPT ![t] = lost[t] + 1] /\ UNCHANGED <<sent, times>>
    BY <1>3 DEF LoseAnswer, Goes, histVars
  <2>2. \A u \in Tab : /\ pc'[u] = IF u = t THEN "ready" ELSE pc[u]
                       /\ lost'[u] = IF u = t THEN lost[u] + 1 ELSE lost[u]
                       /\ lost'[u] \in Try
    BY <1>0, <2>1 DEF TypeOK
  <2>3. \A x \in sent' : x.kind = "buy" => Waiting(x)'
    <3> SUFFICES ASSUME NEW x \in sent, x.kind = "buy" PROVE Waiting(x)'
      BY <2>1
    <3>1. Waiting(x) /\ x.tab \in Tab /\ x.try \in Nat /\ lost[x.tab] \in Nat
      BY <1>0, <1>t, <1>n DEF OnePerTry
    <3> QED
      BY <2>1, <2>2, <3>1 DEF Waiting
  <2>4. \A u \in Tab : pc'[u] # "done" => times'[u][lost'[u]] = 0
    BY <1>0, <1>n, <2>1, <2>2 DEF OnePerTry
  <2>5. \A u \in Tab, n \in Try : times'[u][n] <= 1 /\ (n > lost'[u] => times'[u][n] = 0)
    BY <1>0, <1>n, <2>1, <2>2 DEF OnePerTry
  <2> QED
    BY <1>0, <2>1, <2>3, <2>4, <2>5 DEF OnePerTry
<1>4. ASSUME NEW t \in Tab, Approve(t) PROVE OnePerTry'
  <2>1. CASE UNCHANGED sent
    <3>1. pc[t] = "approve" /\ UNCHANGED <<lost, times>> /\ \E p \in PageState : pc' = [pc EXCEPT ![t] = p]
      BY <1>4 DEF Approve, Goes, PageState, histVars
    <3> QED
      BY <1>1, <2>1, <3>1
  <2>2. CASE sent' = sent \cup {Order(t, "approve", quote[t])}
    <3>1. pc[t] = "approve" /\ pc' \in {[pc EXCEPT ![t] = p] : p \in {"approving", "ready"}}
          /\ UNCHANGED <<lost, times>>
      BY <1>4 DEF Approve, Goes, histVars
    <3>2. Order(t, "approve", quote[t]).kind = "approve"
      BY DEF Order
    <3>3. \A u \in Tab : u # t => pc'[u] = pc[u]
      BY <1>0, <3>1 DEF TypeOK
    <3>4. pc'[t] # "done"
      BY <1>0, <3>1 DEF TypeOK
    <3>5. \A x \in sent' : x.kind = "buy" => x \in sent /\ (x.tab # t \/ x.try # lost[t])
      <4> SUFFICES ASSUME NEW x \in sent', x.kind = "buy" PROVE x \in sent /\ (x.tab # t \/ x.try # lost[t])
        OBVIOUS
      <4>1. x \in sent
        BY <2>2, <3>2
      <4>2. Waiting(x)
        BY <1>0, <4>1 DEF OnePerTry
      <4> QED
        BY <3>1, <4>1, <4>2 DEF Waiting
    <3>6. \A x \in sent' : x.kind = "buy" => Waiting(x)'
      BY <1>0, <1>t, <3>1, <3>3, <3>5 DEF OnePerTry, Waiting
    <3> QED
      BY <1>0, <2>2, <3>1, <3>3, <3>5, <3>6 DEF OnePerTry
  <2> QED
    BY <1>4, <2>1, <2>2 DEF Approve
<1>5. ASSUME NEW t \in Tab, Buy(t) PROVE OnePerTry'
  <2>0. pc[t] = "buy" /\ UNCHANGED <<lost, times>>
    BY <1>5 DEF Buy, histVars
  <2>1. CASE UNCHANGED sent /\ Goes(t, "ready")
    BY <1>1, <2>0, <2>1 DEF Goes, PageState
  <2>2. CASE sent' = sent \cup {Order(t, "buy", quote[t])} /\ Goes(t, "buying")
    <3> DEFINE o == Order(t, "buy", quote[t])
    <3>1. o.tab = t /\ o.try = lost[t] /\ o.kind = "buy"
      BY DEF Order
    <3>2. \A u \in Tab : pc'[u] = IF u = t THEN "buying" ELSE pc[u]
      BY <1>0, <2>2 DEF TypeOK, Goes
    <3>3. ASSUME NEW x \in sent, x.kind = "buy" PROVE Waiting(x)' /\ ~(x.tab = t /\ x.try = lost[t])
      BY <1>0, <1>t, <2>0, <3>2, <3>3 DEF OnePerTry, Waiting
    <3> HIDE DEF o
    <3>5. \A x \in sent' : x = o \/ x \in sent
      BY <2>2 DEF o
    <3>4. ASSUME NEW x \in sent', x = o PROVE Waiting(x)'
      <4>1. x.tab = t /\ x.try = lost[t] /\ lost[t] \in Nat /\ times[t][lost[t]] = 0
        BY <1>0, <1>n, <2>0, <3>1, <3>4 DEF OnePerTry
      <4> QED
        BY <2>0, <3>2, <4>1 DEF Waiting
    <3>6. \A x, y \in sent' : x.kind = "buy" /\ y.kind = "buy" /\ x.tab = y.tab /\ x.try = y.try => x = y
      BY <1>0, <3>1, <3>3, <3>5 DEF OnePerTry
    <3>7. \A u \in Tab : pc'[u] # "done" => times'[u][lost'[u]] = 0
      BY <1>0, <2>0, <3>2 DEF OnePerTry
    <3> QED
      BY <1>0, <2>0, <3>3, <3>4, <3>5, <3>6, <3>7 DEF OnePerTry
  <2> QED
    BY <1>5, <2>1, <2>2 DEF Buy
<1>u. \A t \in Tab : pc[t] \notin Unsigned => sig[t] # NoAccount
  BY <1>0 DEF TypeOK, Unsigned
<1>6. ASSUME NEW x \in sent, NEW p \in {"ready", "buy"}, Receipt(x, p), sent' = sent \ {x},
             UNCHANGED <<lost, times>>, x.kind = "approve" \/ p = "ready"
      PROVE  OnePerTry'
  <2>1. \A t \in Tab : pc'[t] = pc[t] \/ (/\ t = x.tab /\ x.try = lost[t] /\ pc'[t] = p
                                          /\ pc[t] = IF x.kind = "buy" THEN "buying" ELSE "approving")
    BY <1>0, <1>6, <1>u, ReceiptMoves, p \in {"ready", "buy", "done"}
  <2>2. ASSUME NEW y \in sent', y.kind = "buy" PROVE Waiting(y)'
    <3>1. y \in sent /\ y # x /\ Waiting(y) /\ y.tab \in Tab
      BY <1>0, <1>6, <1>t, <2>2 DEF OnePerTry
    <3>2. y.try = lost[y.tab] => pc'[y.tab] = "buying"
      BY <1>0, <1>6, <2>1, <2>2, <3>1 DEF OnePerTry, Waiting
    <3> QED
      BY <1>6, <3>1, <3>2 DEF Waiting
  <2>3. \A u \in Tab : pc'[u] # "done" => times'[u][lost'[u]] = 0
    BY <1>0, <1>6, <2>1 DEF OnePerTry
  <2> QED
    BY <1>0, <1>6, <2>2, <2>3 DEF OnePerTry
<1>7. ASSUME NEW x \in sent, x.kind = "buy", Receipt(x, "done"), sent' = sent \ {x}, UNCHANGED lost,
             times' = [times EXCEPT ![x.tab][x.try] = @ + 1]
      PROVE  OnePerTry'
  <2>0. x.tab \in Tab /\ x.try \in Try /\ Waiting(x) /\ x.try \in Nat /\ times[x.tab][x.try] = 0
    BY <1>0, <1>7, <1>t, <1>n DEF OnePerTry, Waiting
  <2>1. \A t \in Tab : pc'[t] = pc[t] \/ (t = x.tab /\ x.try = lost[t] /\ pc'[t] = "done")
    BY <1>0, <1>7, <1>u, ReceiptMoves
  <2>2. x.try = lost[x.tab] => pc'[x.tab] = "done"
    BY <1>0, <1>7, <1>u, <2>0, ReceiptMoves DEF Waiting
  <2>3. \A t \in Tab, n \in Try : times'[t][n] = IF t = x.tab /\ n = x.try THEN 1 ELSE times[t][n]
    <3>1. times \in [Tab -> [Try -> Nat]]
      BY <1>0 DEF TypeOK
    <3>2. times' = [times EXCEPT ![x.tab] = [times[x.tab] EXCEPT ![x.try] = 1]]
      BY <1>7, <2>0
    <3>a. times[x.tab] \in [Try -> Nat]
      BY <2>0, <3>1
    <3>3. \A n \in Try : [times[x.tab] EXCEPT ![x.try] = 1][n] = IF n = x.try THEN 1 ELSE times[x.tab][n]
      BY <2>0, <3>a
    <3> QED
      BY <2>0, <3>1, <3>2, <3>3
  <2>4. ASSUME NEW y \in sent', y.kind = "buy" PROVE Waiting(y)'
    <3>1. /\ y \in sent /\ y # x /\ Waiting(y) /\ y.tab \in Tab /\ y.try \in Try
          /\ ~(y.tab = x.tab /\ y.try = x.try)
      BY <1>0, <1>7, <1>t, <2>4 DEF OnePerTry
    <3>2. y.try = lost[y.tab] => pc'[y.tab] = "buying"
      BY <2>1, <3>1 DEF Waiting
    <3> QED
      BY <1>7, <2>3, <3>1, <3>2 DEF Waiting
  <2>5. \A u \in Tab : pc'[u] # "done" => times'[u][lost'[u]] = 0
    <3> SUFFICES ASSUME NEW u \in Tab, pc'[u] # "done" PROVE times'[u][lost[u]] = 0
      BY <1>7
    <3>1. pc[u] # "done" /\ ~(u = x.tab /\ lost[u] = x.try) /\ lost[u] \in Try
      BY <1>n, <2>1, <2>2
    <3> QED
      BY <1>0, <2>3, <3>1 DEF OnePerTry
  <2>6. \A t \in Tab, n \in Try : times'[t][n] <= 1 /\ (n > lost'[t] => times'[t][n] = 0)
    BY <1>0, <1>7, <1>n, <2>0, <2>3 DEF OnePerTry, Waiting
  <2> QED
    BY <1>0, <1>7, <2>4, <2>5, <2>6 DEF OnePerTry
<1>8. ASSUME NEW x \in sent, MineApproval(x) PROVE OnePerTry'
  BY <1>6, <1>8 DEF MineApproval, histVars
<1>9. ASSUME NEW x \in sent, MinePurchase(x) PROVE OnePerTry'
  <2>1. CASE Covered(x.by)
    BY <1>7, <1>9, <2>1 DEF MinePurchase
  <2>2. CASE ~Covered(x.by)
    BY <1>6, <1>9, <2>2 DEF MinePurchase
  <2> QED
    BY <2>1, <2>2
<1>10. ASSUME UNCHANGED <<pc, sent, lost, times>> PROVE OnePerTry'
  BY <1>0, <1>10 DEF OnePerTry, Waiting
<1>11. ASSUME NEW p \in Price, ChangePrice(p) PROVE OnePerTry'
  BY <1>10, <1>11 DEF ChangePrice, pageVars, histVars
<1>12. ASSUME NEW a \in Account, SelectAccount(a) PROVE OnePerTry'
  BY <1>10, <1>12 DEF SelectAccount, pageVars, histVars
<1>13. CASE UNCHANGED vars
  BY <1>10, <1>13 DEF vars, pageVars, histVars
<1> QED
  BY <1>2, <1>3, <1>4, <1>5, <1>8, <1>9, <1>11, <1>12, <1>13 DEF Next

-----------------------------------------------------------------------------
\* The invariant holds in every reachable state.
THEOREM Invariant == Spec => []IInv
<1>1. IInv /\ [Next]_vars => IInv'
  BY TypeStep, SignedStep, MoneyStep, TryStep DEF IInv
<1> QED
  BY InitInv, <1>1, PTL DEF Spec

\* Every variable keeps its type, and no page gets to the purchase without a signature.
THEOREM TypeCorrect == Spec => []TypeOK
<1>1. IInv => TypeOK
  BY DEF IInv
<1> QED
  BY <1>1, Invariant, PTL

\* For any pages, accounts, prices and lost answers (signup-engine.js:366-511): whoever
\* pays pays for credentials of his own and at most what he was quoted, and every try
\* of a page buys at most once.
THEOREM PurchasesCorrect == Spec => []PurchasesSound
<1>1. IInv => PurchasesSound
  BY DEF IInv, Paid, OnePerTry, PurchasesSound
<1> QED
  BY <1>1, Invariant, PTL

===============================================================================
