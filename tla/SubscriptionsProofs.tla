-------------------------- MODULE SubscriptionsProofs ---------------------------
(***************************************************************************)
(* Proofs about Subscriptions, for every value of its constants.           *)
(***************************************************************************)
EXTENDS Subscriptions, TLAPS

-------------------------------------------------------------------------------
(* Prices *)

(* Truncating division. *)
LEMMA DivBounds ==
  \A a \in Nat, b \in Nat \ {0} :
    /\ a \div b \in Nat
    /\ (a \div b) * b <= a
    /\ a < (a \div b + 1) * b
OBVIOUS

(* Products of naturals. *)
LEMMA TimesMono == \A x, y, z \in Nat : x <= y => x * z <= y * z
OBVIOUS

LEMMA TimesNat == \A x, y \in Nat : x * y \in Nat
OBVIOUS

(* The tokens of a method of a pair. *)
LEMMA PairTokens ==
  ASSUME NEW m, OfPair(m)
  PROVE  m.pair \in Pair /\ m.token \in Token /\ m.stable \in Token
<1>1. m.pair \in Pair BY DEF OfPair
<1>2. Token0[m.pair] \in Token /\ Token1[m.pair] \in Token BY <1>1, SubscriptionsAssumption
<1>3. QED BY <1>1, <1>2 DEF OfPair

LEMMA SlippageNat == TypeOK => slippageBps \in Nat
<1>1. TypeOK => slippageBps \in 0 .. 1000 BY Zenon DEF TypeOK
<1>2. QED BY <1>1

(* What is charged is a number of tokens. *)
LEMMA PaymentNat ==
  ASSUME TypeOK, NEW p \in 1 .. Len(plans), NEW days \in DayCounts,
         NEW id \in 1 .. Len(methods), IsValidPaymentMethod(id), Priced(methods[id])
  PROVE  CalculatePayment(plans[p], days, methods[id]) \in Nat /\ methods[id].token \in Token
<1> DEFINE m == methods[id]
           cents == plans[p].price * days
<1>1. m \in Method
  <2>1. methods \in Seq(Method) /\ id \in 1 .. Len(methods) BY DEF TypeOK
  <2>2. QED BY <2>1
<1>2. m.token \in Token BY <1>1 DEF IsValidPaymentMethod, Method
<1>3. cents \in Nat
  <2>1. plans[p].price \in Nat
    <3>1. plans \in Seq(Plan) /\ p \in 1 .. Len(plans) BY DEF TypeOK
    <3>2. plans[p] \in Plan BY <3>1
    <3>3. QED BY <3>2 DEF Plan
  <2>2. days \in Nat BY SubscriptionsAssumption
  <2> HIDE DEF m
  <2>3. QED BY <2>1, <2>2
<1>4. ASSUME NEW t \in Token PROVE Units(cents, t) \in Nat
  <2>1. One[t] \in Nat BY SubscriptionsAssumption
  <2> HIDE DEF cents
  <2>2. cents * One[t] \in Nat BY <1>3, <2>1
  <2>3. QED BY <2>2, DivBounds DEF Units
<1>5. CASE m.pair = NoPair
  BY <1>2, <1>4, <1>5 DEF CalculatePayment
<1>6. CASE m.pair # NoPair
  <2>1. id # 1 /\ id \in 2 .. Len(methods) BY <1>6 DEF TypeOK
  <2>2. m.pair \in Pair /\ m.stable \in Token BY <2>1, PairTokens DEF TypeOK
  <2> DEFINE r == GetReserves(m)
             units == Units(cents, m.stable)
  <2>3. r[1] \in Nat /\ r[2] \in Nat
    <3>1. reserves[m.pair] \in Nat \X Nat BY <2>2 DEF TypeOK
    <3>2. QED BY <3>1 DEF GetReserves
  <2>4. r[2] # 0 BY <1>6 DEF Priced
  <2>5. units \in Nat BY <1>4, <2>2
  <2> DEFINE amount == (units * r[1]) \div r[2]
  <2>6. amount \in Nat
    <3> HIDE DEF units, r
    <3>1. units * r[1] \in Nat BY <2>3, <2>5
    <3>2. QED BY <2>3, <2>4, <3>1, DivBounds
  <2>7. CalculatePayment(plans[p], days, m) = amount + (amount * slippageBps) \div 10000
    BY <1>6 DEF CalculatePayment
  <2>8. amount + (amount * slippageBps) \div 10000 \in Nat
    <3> HIDE DEF amount
    <3>1. slippageBps \in Nat BY SlippageNat
    <3>2. amount * slippageBps \in Nat BY <2>6, <3>1
    <3>3. QED BY <2>6, <3>2, DivBounds
  <2>9. QED BY <1>2, <2>7, <2>8
<1>7. QED BY <1>5, <1>6

(* A payment goes to the contract and into the history alike. *)
LEMMA PayStep ==
  ASSUME TypeOK, NEW p \in 1 .. Len(plans), NEW days \in DayCounts,
         NEW id \in 1 .. Len(methods), Pay(p, days, id)
  PROVE  \E t \in Token, amount \in Nat :
           /\ balance' = [balance EXCEPT ![t] = @ + amount]
           /\ charged' = [charged EXCEPT ![t] = @ + amount]
           /\ withdrawn' = withdrawn
<1>1. IsValidPaymentMethod(id) /\ Priced(methods[id]) BY DEF Pay
<1>2. CalculatePayment(plans[p], days, methods[id]) \in Nat /\ methods[id].token \in Token
  BY <1>1, PaymentNat
<1>3. QED BY <1>2 DEF Pay

-------------------------------------------------------------------------------
(* Types *)

LEMMA TypeInit == Init => TypeOK
<1> SUFFICES ASSUME Init PROVE TypeOK OBVIOUS
<1>1. methods \in Seq(Method) /\ methods # <<>> /\ methods[1].pair = NoPair /\ Len(methods) = 1
  <2>1. Unset \in Method BY DEF Unset, Method
  <2>2. methods = <<Unset>> BY DEF Init
  <2>3. QED BY <2>1, <2>2 DEF Unset
<1>2. plans \in Seq(Plan) /\ subs \in Seq(Subscription) /\ Len(subs) = 0 /\ evlog \in Seq(Event)
  BY DEF Init
<1>3. Len(subs) <= MaxSubs BY <1>2, WalletsAssumption
<1>4. reserves \in [Pair -> Nat \X Nat] BY SubscriptionsAssumption DEF Init
<1>5. slippageBps \in 0 .. 1000 /\ minLiquidityUsd \in Nat
  BY SubscriptionsAssumption DEF Init
<1>6. /\ balance \in [Token -> Nat] /\ charged \in [Token -> Nat]
      /\ withdrawn \in [Token -> Nat] /\ bought \in [Sub -> Nat] /\ used \in [Sub -> Nat]
      /\ now \in Nat /\ settings \in Nat
  BY DEF Init
<1>7. QED BY <1>1, <1>2, <1>3, <1>4, <1>5, <1>6 DEF TypeOK

(* The tables a step leaves alone keep their types. *)
LEMMA TablesType ==
  ASSUME TypeOK, subs' \in Seq(Subscription), Len(subs') <= MaxSubs,
         \A s \in 1 .. Len(subs') : subs'[s].plan \in 1 .. Len(plans),
         evlog' \in Seq(Event), bought' \in [Sub -> Nat],
         balance' \in [Token -> Nat], charged' \in [Token -> Nat], withdrawn' \in [Token -> Nat],
         UNCHANGED <<now, plans, methods, settingVars, reserves, settings, used>>
  PROVE  TypeOK'
BY DEF TypeOK, settingVars

(* A payment keeps the funds typed. *)
LEMMA PayType ==
  ASSUME TypeOK, NEW p \in 1 .. Len(plans), NEW days \in DayCounts,
         NEW id \in 1 .. Len(methods), Pay(p, days, id)
  PROVE  /\ balance' \in [Token -> Nat] /\ charged' \in [Token -> Nat]
         /\ withdrawn' \in [Token -> Nat]
<1>1. PICK t \in Token, amount \in Nat :
        /\ balance' = [balance EXCEPT ![t] = @ + amount]
        /\ charged' = [charged EXCEPT ![t] = @ + amount]
        /\ withdrawn' = withdrawn
  BY PayStep
<1>2. balance \in [Token -> Nat] /\ charged \in [Token -> Nat] /\ withdrawn \in [Token -> Nat]
  BY DEF TypeOK
<1>3. QED BY <1>1, <1>2

(* Seconds paid for. *)
LEMMA SecondsNat == \A days \in DayCounts : days * DaySeconds \in Nat
BY SubscriptionsAssumption

LEMMA BuyType ==
  ASSUME TypeOK, NEW u \in Owner, NEW p \in 1 .. Len(plans), NEW days \in DayCounts,
         NEW id \in 1 .. Len(methods), BuySubscription(u, p, days, id)
  PROVE  TypeOK'
<1> DEFINE s == Len(subs) + 1
           seconds == days * DaySeconds
           new == [plan |-> p, subscriber |-> u, expiresAt |-> now + seconds, cancelled |-> FALSE]
<1>1. seconds \in Nat BY SecondsNat
<1>2. /\ subs' = Append(subs, new)
      /\ evlog' = Append(evlog, [type |-> "Created", sub |-> s, who |-> u])
      /\ bought' = [bought EXCEPT ![s] = seconds]
      /\ Pay(p, days, id)
      /\ UNCHANGED <<now, plans, methods, settingVars, reserves, settings, used>>
      /\ Len(subs) < MaxSubs
  BY DEF BuySubscription, Emit
<1> HIDE DEF seconds
<1>3. Len(subs) \in Nat /\ Len(plans) \in Nat /\ now \in Nat BY DEF TypeOK
<1>4. s \in Sub BY <1>2, <1>3, WalletsAssumption DEF Sub
<1>5. new \in Subscription BY <1>1, <1>3 DEF Subscription
<1> HIDE DEF new
<1>6. /\ subs' \in Seq(Subscription) /\ Len(subs') = Len(subs) + 1
      /\ \A i \in 1 .. Len(subs) : subs'[i] = subs[i]
      /\ subs'[Len(subs) + 1] = new
  BY <1>2, <1>5 DEF TypeOK
<1>7. \A i \in 1 .. Len(subs') : subs'[i].plan \in 1 .. Len(plans)
  <2>1. new.plan = p BY DEF new
  <2>2. \A i \in 1 .. Len(subs) : subs[i].plan \in 1 .. Len(plans) BY DEF TypeOK
  <2>3. \A i \in 1 .. Len(subs') : i \in 1 .. Len(subs) \/ i = Len(subs) + 1 BY <1>3, <1>6
  <2>4. subs'[Len(subs) + 1].plan \in 1 .. Len(plans)
    BY <1>6, <2>1
  <2>5. QED BY <1>6, <2>2, <2>3, <2>4
<1>8. evlog' \in Seq(Event)
  <2>1. [type |-> "Created", sub |-> s, who |-> u] \in Event BY <1>4 DEF Event
  <2>2. evlog \in Seq(Event) BY DEF TypeOK
  <2>3. QED BY <1>2, <2>1, <2>2
<1>9. bought' \in [Sub -> Nat] BY <1>1, <1>2 DEF TypeOK
<1>10. Len(subs') <= MaxSubs BY <1>2, <1>3, <1>6, WalletsAssumption
<1>11. QED BY <1>2, <1>6, <1>7, <1>8, <1>9, <1>10, PayType, TablesType

(* Changing the expiry of a subscription, or cancelling it, keeps the table. *)
LEMMA ChangeType ==
  ASSUME TypeOK, NEW s \in 1 .. Len(subs), NEW e \in Nat, NEW c \in BOOLEAN,
         subs' = [subs EXCEPT ![s] = [@ EXCEPT !.expiresAt = e, !.cancelled = c]]
  PROVE  /\ subs' \in Seq(Subscription) /\ Len(subs') = Len(subs) /\ Len(subs') <= MaxSubs
         /\ \A i \in 1 .. Len(subs') : subs'[i].plan \in 1 .. Len(plans)
         /\ s \in Sub
         /\ subs'[s].expiresAt = e /\ subs'[s].cancelled = c
         /\ subs'[s].subscriber = subs[s].subscriber
         /\ \A i \in 1 .. Len(subs) \ {s} : subs'[i] = subs[i]
<1> DEFINE new == [subs[s] EXCEPT !.expiresAt = e, !.cancelled = c]
<1>1. subs \in Seq(Subscription) /\ Len(subs) \in Nat /\ Len(subs) <= MaxSubs BY DEF TypeOK
<1>2. subs[s] \in Subscription BY <1>1
<1>3. /\ new \in Subscription /\ new.plan = subs[s].plan /\ new.expiresAt = e
      /\ new.cancelled = c /\ new.subscriber = subs[s].subscriber
  BY <1>2 DEF Subscription
<1>4. subs' = [subs EXCEPT ![s] = new] OBVIOUS
<1> HIDE DEF new
<1>5. subs' \in Seq(Subscription) /\ Len(subs') = Len(subs) BY <1>1, <1>3, <1>4
<1>6. subs'[s] = new /\ \A i \in 1 .. Len(subs) \ {s} : subs'[i] = subs[i]
  <2>1. DOMAIN subs = 1 .. Len(subs) BY <1>1
  <2>2. QED BY <1>4, <2>1, Zenon
<1>7. s \in Sub BY <1>1, WalletsAssumption DEF Sub
<1>8. \A i \in 1 .. Len(subs') : subs'[i].plan \in 1 .. Len(plans)
  BY <1>3, <1>5, <1>6 DEF TypeOK
<1>9. QED BY <1>1, <1>3, <1>5, <1>6, <1>7, <1>8

(* What an extension does, in the form the lemma above wants. *)
LEMMA ExtendChange ==
  ASSUME TypeOK, NEW u \in Owner, NEW s \in 1 .. Len(subs), NEW days \in DayCounts,
         NEW id \in 1 .. Len(methods), ExtendSubscription(u, s, days, id)
  PROVE  \E e \in Nat :
           /\ subs' = [subs EXCEPT ![s] = [@ EXCEPT !.expiresAt = e, !.cancelled = FALSE]]
           /\ e = (IF subs[s].expiresAt > now THEN subs[s].expiresAt ELSE now)
                  + days * DaySeconds
           /\ subs[s].cancelled = FALSE
<1> DEFINE base == IF subs[s].expiresAt > now THEN subs[s].expiresAt ELSE now
           seconds == days * DaySeconds
           e == base + seconds
<1>1. subs[s] \in Subscription /\ now \in Nat
  <2>1. subs \in Seq(Subscription) /\ s \in 1 .. Len(subs) BY DEF TypeOK
  <2>2. QED BY <2>1 DEF TypeOK
<1>2. base \in Nat BY <1>1 DEF Subscription
<1>3. seconds \in Nat BY SecondsNat
<1>4. e \in Nat
  <2> HIDE DEF base, seconds
  <2>1. QED BY <1>2, <1>3
<1>5. subs' = [subs EXCEPT ![s].expiresAt = e] /\ subs[s].cancelled = FALSE
  BY <1>1 DEF ExtendSubscription, Subscription
<1>6. e = (IF subs[s].expiresAt > now THEN subs[s].expiresAt ELSE now) + days * DaySeconds
  OBVIOUS
<1> HIDE DEF e, base, seconds
<1>7. [subs[s] EXCEPT !.expiresAt = e] = [subs[s] EXCEPT !.expiresAt = e, !.cancelled = FALSE]
  BY <1>1, <1>5 DEF Subscription
<1>8. QED BY <1>4, <1>5, <1>6, <1>7

LEMMA ExtendType ==
  ASSUME TypeOK, NEW u \in Owner, NEW s \in 1 .. Len(subs), NEW days \in DayCounts,
         NEW id \in 1 .. Len(methods), ExtendSubscription(u, s, days, id)
  PROVE  TypeOK'
<1> DEFINE seconds == days * DaySeconds
<1>1. seconds \in Nat BY SecondsNat
<1>2. /\ evlog' = Append(evlog, [type |-> "Extended", sub |-> s, who |-> u])
      /\ bought' = [bought EXCEPT ![s] = @ + seconds]
      /\ Pay(subs[s].plan, days, id)
      /\ UNCHANGED <<now, plans, methods, settingVars, reserves, settings, used>>
  BY DEF ExtendSubscription, Emit
<1> HIDE DEF seconds
<1>e. \E e \in Nat :
        /\ subs' = [subs EXCEPT ![s] = [@ EXCEPT !.expiresAt = e, !.cancelled = FALSE]]
        /\ e = (IF subs[s].expiresAt > now THEN subs[s].expiresAt ELSE now)
               + days * DaySeconds
        /\ subs[s].cancelled = FALSE
  BY ExtendChange
<1>3. PICK e \in Nat :
        subs' = [subs EXCEPT ![s] = [@ EXCEPT !.expiresAt = e, !.cancelled = FALSE]]
  BY <1>e
<1>4. /\ subs' \in Seq(Subscription) /\ Len(subs') <= MaxSubs /\ s \in Sub
      /\ \A i \in 1 .. Len(subs') : subs'[i].plan \in 1 .. Len(plans)
  BY <1>3, ChangeType
<1>5. evlog' \in Seq(Event)
  <2>1. [type |-> "Extended", sub |-> s, who |-> u] \in Event BY <1>4 DEF Event
  <2>2. evlog \in Seq(Event) BY DEF TypeOK
  <2>3. QED BY <1>2, <2>1, <2>2
<1>6. bought' \in [Sub -> Nat] BY <1>1, <1>2, <1>4, SMTT(30) DEF TypeOK
<1>7. subs[s].plan \in 1 .. Len(plans) BY DEF TypeOK
<1>8. QED BY <1>2, <1>4, <1>5, <1>6, <1>7, PayType, TablesType

LEMMA CancelChange ==
  ASSUME TypeOK, NEW s \in 1 .. Len(subs), CancelSubscription(s)
  PROVE  subs' = [subs EXCEPT ![s] = [@ EXCEPT !.expiresAt = now, !.cancelled = TRUE]]
<1>1. subs[s] \in Subscription
  <2>1. subs \in Seq(Subscription) /\ s \in 1 .. Len(subs) BY DEF TypeOK
  <2>2. QED BY <2>1
<1>2. subs' = [subs EXCEPT ![s] = [[@ EXCEPT !.cancelled = TRUE] EXCEPT !.expiresAt = now]]
  BY DEF CancelSubscription
<1>3. [[subs[s] EXCEPT !.cancelled = TRUE] EXCEPT !.expiresAt = now]
      = [subs[s] EXCEPT !.expiresAt = now, !.cancelled = TRUE]
  BY <1>1 DEF Subscription
<1>4. QED BY <1>2, <1>3

LEMMA CancelType ==
  ASSUME TypeOK, NEW s \in 1 .. Len(subs), CancelSubscription(s)
  PROVE  TypeOK'
<1>1. now \in Nat /\ subs[s].subscriber \in Owner
  <2>1. subs \in Seq(Subscription) /\ s \in 1 .. Len(subs) BY DEF TypeOK
  <2>2. subs[s] \in Subscription BY <2>1
  <2>3. QED BY <2>2 DEF Subscription, TypeOK
<1>2. /\ subs' \in Seq(Subscription) /\ Len(subs') <= MaxSubs /\ s \in Sub
      /\ \A i \in 1 .. Len(subs') : subs'[i].plan \in 1 .. Len(plans)
  BY <1>1, CancelChange, ChangeType
<1>3. evlog' = Append(evlog, [type |-> "Cancelled", sub |-> s, who |-> subs[s].subscriber])
  BY DEF CancelSubscription, Emit
<1>4. evlog' \in Seq(Event)
  <2>1. [type |-> "Cancelled", sub |-> s, who |-> subs[s].subscriber] \in Event
    BY <1>1, <1>2 DEF Event
  <2>2. evlog \in Seq(Event) BY DEF TypeOK
  <2>3. QED BY <1>3, <2>1, <2>2
<1>5. UNCHANGED <<now, plans, methods, settingVars, reserves, fundVars, settings, timeVars>>
  BY DEF CancelSubscription
<1>6. QED BY <1>2, <1>4, <1>5, TablesType DEF fundVars, timeVars, TypeOK

(* Adding an entry to a table, or replacing one. *)
LEMMA AppendType ==
  ASSUME NEW S, NEW q \in Seq(S), NEW e \in S
  PROVE  /\ Append(q, e) \in Seq(S) /\ Len(Append(q, e)) = Len(q) + 1
         /\ \A i \in 1 .. Len(q) : Append(q, e)[i] = q[i]
         /\ Append(q, e)[Len(q) + 1] = e
OBVIOUS

LEMMA ExceptType ==
  ASSUME NEW S, NEW q \in Seq(S), NEW i \in 1 .. Len(q), NEW e \in S
  PROVE  /\ [q EXCEPT ![i] = e] \in Seq(S) /\ Len([q EXCEPT ![i] = e]) = Len(q)
         /\ [q EXCEPT ![i] = e][i] = e
         /\ \A j \in 1 .. Len(q) \ {i} : [q EXCEPT ![i] = e][j] = q[j]
OBVIOUS

LEMMA OwnerType == TypeOK /\ OwnerStep => TypeOK'
<1> SUFFICES ASSUME TypeOK, OwnerStep PROVE TypeOK' OBVIOUS
<1>0. /\ settings \in Nat /\ Len(plans) \in Nat /\ Len(methods) \in Nat
      /\ plans \in Seq(Plan) /\ methods \in Seq(Method) /\ 1 \in 1 .. Len(methods)
      /\ methods[1].pair = NoPair
      /\ \A i \in 2 .. Len(methods) : OfPair(methods[i])
      /\ \A s \in 1 .. Len(subs) : subs[s].plan \in 1 .. Len(plans)
  BY DEF TypeOK
<1>s. ASSUME Setting PROVE settings' \in Nat BY <1>0, <1>s DEF Setting
<1>1. ASSUME NEW s \in 1 .. Len(subs), CancelSubscription(s) PROVE TypeOK'
  BY <1>1, CancelType
<1>2. ASSUME NEW price \in Prices, CreatePlan(price) PROVE TypeOK'
  <2> DEFINE new == [price |-> price, active |-> TRUE]
  <2>1. new \in Plan BY SubscriptionsAssumption DEF Plan
  <2>2. plans' = Append(plans, new) BY <1>2 DEF CreatePlan
  <2> HIDE DEF new
  <2>3. plans' \in Seq(Plan) /\ Len(plans') = Len(plans) + 1 BY <1>0, <2>1, <2>2, AppendType
  <2>4. UNCHANGED <<now, methods, subs, settingVars, reserves, fundVars, evlog, settings, timeVars>>
    BY <1>2 DEF CreatePlan
  <2>5. \A s \in 1 .. Len(subs) : subs[s].plan \in 1 .. Len(plans')
    BY <1>0, <2>3
  <2>6. QED BY <2>3, <2>4, <2>5 DEF TypeOK, settingVars, fundVars, timeVars
<1>3. ASSUME NEW p \in 1 .. Len(plans), NEW price \in Prices, NEW active \in BOOLEAN,
             UpdatePlan(p, price, active)
      PROVE  TypeOK'
  <2> DEFINE new == [price |-> price, active |-> active]
  <2>1. new \in Plan BY SubscriptionsAssumption DEF Plan
  <2>2. plans' = [plans EXCEPT ![p] = new] BY <1>3 DEF UpdatePlan
  <2> HIDE DEF new
  <2>3. plans' \in Seq(Plan) /\ Len(plans') = Len(plans) BY <1>0, <2>1, <2>2, ExceptType
  <2>4. UNCHANGED <<now, methods, subs, settingVars, reserves, fundVars, evlog, timeVars>>
        /\ settings' \in Nat
    BY <1>3, <1>s DEF UpdatePlan
  <2>5. \A s \in 1 .. Len(subs) : subs[s].plan \in 1 .. Len(plans') BY <1>0, <2>3
  <2>6. QED BY <2>3, <2>4, <2>5 DEF TypeOK, settingVars, fundVars, timeVars
<1>4. ASSUME NEW t \in Token, SetPrimaryStablecoin(t) PROVE TypeOK'
  <2> DEFINE new == [token |-> t, pair |-> NoPair, stable |-> t, active |-> TRUE]
  <2>1. new \in Method /\ new.pair = NoPair BY DEF Method
  <2>2. methods' = [methods EXCEPT ![1] = new] BY <1>4 DEF SetPrimaryStablecoin
  <2> HIDE DEF new
  <2>3. /\ methods' \in Seq(Method) /\ Len(methods') = Len(methods)
        /\ methods'[1] = new
        /\ \A i \in 1 .. Len(methods) \ {1} : methods'[i] = methods[i]
    BY <1>0, <2>1, <2>2, ExceptType
  <2>4. UNCHANGED <<now, plans, subs, settingVars, reserves, fundVars, evlog, timeVars>>
        /\ settings' \in Nat
    BY <1>0, <1>4, <1>s DEF SetPrimaryStablecoin
  <2>5. \A i \in 2 .. Len(methods') : OfPair(methods'[i])
    BY <1>0, <2>3
  <2>6. methods' # <<>> BY <1>0, <2>3
  <2>7. methods'[1].pair = NoPair BY <2>1, <2>3
  <2>8. QED BY <2>3, <2>4, <2>5, <2>6, <2>7, SMTT(30) DEF TypeOK, settingVars, fundVars, timeVars
<1>5. ASSUME NEW t \in Token, NEW pair \in Pair, NEW stable \in Token,
             AddPaymentMethod(t, pair, stable)
      PROVE  TypeOK'
  <2> DEFINE new == [token |-> t, pair |-> pair, stable |-> stable, active |-> TRUE]
  <2>1. new \in Method /\ OfPair(new) BY <1>5 DEF Method, OfPair, AddPaymentMethod
  <2>2. methods' = Append(methods, new) BY <1>5 DEF AddPaymentMethod
  <2> HIDE DEF new
  <2>3. /\ methods' \in Seq(Method) /\ Len(methods') = Len(methods) + 1
        /\ \A i \in 1 .. Len(methods) : methods'[i] = methods[i]
        /\ methods'[Len(methods) + 1] = new
    BY <1>0, <2>1, <2>2, AppendType
  <2>4. UNCHANGED <<now, plans, subs, settingVars, reserves, fundVars, evlog, settings, timeVars>>
    BY <1>5 DEF AddPaymentMethod
  <2>5. ASSUME NEW i \in 2 .. Len(methods')
        PROVE  OfPair(methods'[i])
    <3>1. i \in 2 .. Len(methods) \/ i = Len(methods) + 1 BY <1>0, <2>3
    <3>2. CASE i = Len(methods) + 1 BY <2>1, <2>3, <3>2
    <3>3. CASE i \in 2 .. Len(methods)
      <4>1. methods'[i] = methods[i] BY <1>0, <2>3, <3>3
      <4>2. QED BY <1>0, <3>3, <4>1
    <3>4. QED BY <3>1, <3>2, <3>3
  <2>6. methods' # <<>> BY <1>0, <2>3
  <2>7. methods'[1].pair = NoPair BY <1>0, <2>3
  <2>8. QED BY <2>3, <2>4, <2>5, <2>6, <2>7, SMTT(30) DEF TypeOK, settingVars, fundVars, timeVars
<1>6. ASSUME NEW id \in 1 .. Len(methods), NEW active \in BOOLEAN,
             UpdatePaymentMethod(id, active)
      PROVE  TypeOK'
  <2> DEFINE new == [methods[id] EXCEPT !.active = active]
  <2>1. methods[id] \in Method BY <1>0
  <2>2. /\ new \in Method /\ new.pair = methods[id].pair /\ new.token = methods[id].token
        /\ new.stable = methods[id].stable
    BY <2>1 DEF Method
  <2>3. methods' = [methods EXCEPT ![id] = new] BY <1>6 DEF UpdatePaymentMethod
  <2> HIDE DEF new
  <2>4. /\ methods' \in Seq(Method) /\ Len(methods') = Len(methods)
        /\ methods'[id] = new
        /\ \A i \in 1 .. Len(methods) \ {id} : methods'[i] = methods[i]
    BY <1>0, <2>2, <2>3, ExceptType
  <2>5. UNCHANGED <<now, plans, subs, settingVars, reserves, fundVars, evlog, timeVars>>
        /\ settings' \in Nat
    BY <1>6, <1>s DEF UpdatePaymentMethod
  <2>6. \A i \in 1 .. Len(methods) :
          /\ methods'[i].pair = methods[i].pair /\ methods'[i].token = methods[i].token
          /\ methods'[i].stable = methods[i].stable
    BY <2>2, <2>4
  <2>7. methods' # <<>> BY <1>0, <2>4
  <2>8. \A i \in 2 .. Len(methods') : OfPair(methods'[i])
    BY <1>0, <2>4, <2>6 DEF OfPair
  <2>9. methods'[1].pair = NoPair BY <1>0, <2>6
  <2>10. QED BY <2>4, <2>5, <2>7, <2>8, <2>9 DEF TypeOK, settingVars, fundVars, timeVars
<1>7. ASSUME NEW v \in SlippageValues, SetSlippageBps(v) PROVE TypeOK'
  <2>1. slippageBps' \in 0 .. 1000 /\ settings' \in Nat
    BY <1>7, <1>s, SubscriptionsAssumption DEF SetSlippageBps
  <2>2. UNCHANGED <<now, tableVars, minLiquidityUsd, reserves, fundVars, evlog, timeVars>>
    BY <1>7 DEF SetSlippageBps
  <2>3. minLiquidityUsd' \in Nat /\ now' \in Nat BY <2>2 DEF TypeOK
  <2>4. UNCHANGED <<plans, methods, subs, balance, charged, withdrawn, bought, used>>
    BY <2>2 DEF tableVars, fundVars, timeVars
  <2>5. QED BY <2>1, <2>2, <2>3, <2>4 DEF TypeOK
<1>8. ASSUME NEW v \in LiquidityValues, SetMinLiquidity(v) PROVE TypeOK'
  <2>1. minLiquidityUsd' \in Nat /\ settings' \in Nat
    BY <1>8, <1>s, SubscriptionsAssumption DEF SetMinLiquidity
  <2>2. UNCHANGED <<now, tableVars, slippageBps, reserves, fundVars, evlog, timeVars>>
    BY <1>8 DEF SetMinLiquidity
  <2>3. QED BY <2>1, <2>2 DEF TypeOK, tableVars, fundVars, timeVars
<1>9. ASSUME NEW t \in Token, WithdrawFunds(t) PROVE TypeOK'
  <2>1. balance' \in [Token -> Nat] /\ withdrawn' \in [Token -> Nat]
    BY <1>9 DEF WithdrawFunds, TypeOK
  <2>2. UNCHANGED <<now, tableVars, settingVars, reserves, charged, evlog, settings, timeVars>>
    BY <1>9 DEF WithdrawFunds
  <2>3. QED BY <2>1, <2>2 DEF TypeOK, tableVars, settingVars, timeVars
<1>10. QED
  BY <1>1, <1>2, <1>3, <1>4, <1>5, <1>6, <1>7, <1>8, <1>9 DEF OwnerStep

LEMMA WorldType == TypeOK /\ WorldStep => TypeOK'
<1> SUFFICES ASSUME TypeOK, WorldStep PROVE TypeOK' OBVIOUS
<1>1. CASE Tick
  <2>1. used' \in [Sub -> Nat] /\ now' \in Nat BY <1>1 DEF Tick, TypeOK
  <2>2. UNCHANGED <<tableVars, settingVars, reserves, fundVars, evlog, settings, bought>>
    BY <1>1 DEF Tick
  <2>3. QED BY <2>1, <2>2 DEF TypeOK, tableVars, settingVars, fundVars
<1>2. ASSUME NEW pair \in Pair, NEW r \in Reserves, Trade(pair, r) PROVE TypeOK'
  <2>1. r \in Nat \X Nat BY SubscriptionsAssumption
  <2>2. reserves' \in [Pair -> Nat \X Nat] /\ settings' \in Nat
    BY <1>2, <2>1 DEF Trade, Setting, TypeOK
  <2>3. UNCHANGED <<now, tableVars, settingVars, fundVars, evlog, timeVars>>
    BY <1>2 DEF Trade
  <2>4. QED BY <2>2, <2>3 DEF TypeOK, tableVars, settingVars, fundVars, timeVars
<1>3. QED BY <1>1, <1>2 DEF WorldStep

LEMMA TypeStep == TypeOK /\ [Next]_vars => TypeOK'
<1> SUFFICES ASSUME TypeOK, [Next]_vars PROVE TypeOK' OBVIOUS
<1>1. CASE UserStep BY <1>1, BuyType, ExtendType DEF UserStep
<1>2. CASE UNCHANGED vars
  BY <1>2 DEF TypeOK, vars, tableVars, settingVars, fundVars, timeVars
<1>3. QED BY <1>1, <1>2, OwnerType, WorldType DEF Next

(* Tables, settings and funds keep their types; a subscription's plan      *)
(* exists, and only method 1 has no pair.                                  *)
THEOREM TypeCorrect == Spec => []TypeOK
BY TypeInit, TypeStep, PTL DEF Spec

-------------------------------------------------------------------------------
(* Funds *)

LEMMA FundsStep == TypeOK /\ FundsAccounted /\ [Next]_vars => FundsAccounted'
<1> SUFFICES ASSUME TypeOK, FundsAccounted, [Next]_vars PROVE FundsAccounted' OBVIOUS
<1>0. /\ balance \in [Token -> Nat] /\ charged \in [Token -> Nat]
      /\ withdrawn \in [Token -> Nat]
  BY DEF TypeOK
<1>1. ASSUME NEW p \in 1 .. Len(plans), NEW days \in DayCounts, NEW id \in 1 .. Len(methods),
             Pay(p, days, id)
      PROVE  FundsAccounted'
  <2>1. PICK t \in Token, amount \in Nat :
          /\ balance' = [balance EXCEPT ![t] = @ + amount]
          /\ charged' = [charged EXCEPT ![t] = @ + amount]
          /\ withdrawn' = withdrawn
    BY <1>1, PayStep
  <2>2. QED BY <1>0, <2>1 DEF FundsAccounted
<1>2. CASE UserStep
  <2>1. \A s \in 1 .. Len(subs) : subs[s].plan \in 1 .. Len(plans) BY DEF TypeOK
  <2>2. QED BY <1>1, <1>2, <2>1 DEF UserStep, BuySubscription, ExtendSubscription
<1>3. ASSUME NEW t \in Token, WithdrawFunds(t) PROVE FundsAccounted'
  <2>1. /\ balance' = [balance EXCEPT ![t] = 0] /\ charged' = charged
        /\ withdrawn' = [withdrawn EXCEPT ![t] = @ + balance[t]]
    BY <1>3 DEF WithdrawFunds
  <2>2. QED BY <1>0, <2>1 DEF FundsAccounted
<1>4. CASE UNCHANGED fundVars BY <1>4 DEF FundsAccounted, fundVars
<1>5. QED
  BY <1>2, <1>3, <1>4
  DEF Next, OwnerStep, WorldStep, CancelSubscription, CreatePlan, UpdatePlan,
      SetPrimaryStablecoin, AddPaymentMethod, UpdatePaymentMethod, SetSlippageBps,
      SetMinLiquidity, Tick, Trade, vars

(* No unit that was charged is lost (safeTransferFrom, withdrawFunds),     *)
(* whatever the owner changes in between.                                  *)
THEOREM FundsCorrect == Spec => []FundsAccounted
<1>1. Init => FundsAccounted BY DEF Init, FundsAccounted
<1>2. QED BY <1>1, TypeInit, TypeStep, FundsStep, PTL DEF Spec

-------------------------------------------------------------------------------
(* Time *)

Left(s) == IF subs[s].expiresAt > now THEN subs[s].expiresAt - now ELSE 0

(* An id not handed out yet was never active. *)
TimeInv == PaidTimeExact /\ \A s \in Sub : s > Len(subs) => used[s] = 0

LEMMA TimeTypes ==
  ASSUME TypeOK, NEW s \in 1 .. Len(subs)
  PROVE  /\ subs[s].expiresAt \in Nat /\ subs[s].cancelled \in BOOLEAN /\ now \in Nat
         /\ bought[s] \in Nat /\ used[s] \in Nat /\ s \in Sub /\ Len(subs) \in Nat
<1>1. subs \in Seq(Subscription) /\ Len(subs) \in Nat /\ Len(subs) <= MaxSubs BY DEF TypeOK
<1>2. subs[s] \in Subscription BY <1>1
<1>3. s \in Sub BY <1>1, WalletsAssumption DEF Sub
<1>4. QED BY <1>1, <1>2, <1>3, SMTT(30) DEF Subscription, TypeOK

LEMMA BuyTime ==
  ASSUME TypeOK, TimeInv, NEW u \in Owner, NEW p \in 1 .. Len(plans), NEW days \in DayCounts,
         NEW id \in 1 .. Len(methods), BuySubscription(u, p, days, id)
  PROVE  TimeInv'
<1> DEFINE n == Len(subs) + 1
           seconds == days * DaySeconds
           new == [plan |-> p, subscriber |-> u, expiresAt |-> now + seconds, cancelled |-> FALSE]
<1>1. seconds \in Nat BY SecondsNat
<1>2. /\ subs' = Append(subs, new) /\ bought' = [bought EXCEPT ![n] = seconds]
      /\ now' = now /\ used' = used /\ Len(subs) < MaxSubs
  BY DEF BuySubscription
<1> HIDE DEF seconds
<1>3. Len(subs) \in Nat /\ now \in Nat /\ bought \in [Sub -> Nat] /\ used \in [Sub -> Nat]
  BY DEF TypeOK
<1>4. n \in Sub /\ used[n] = 0 BY <1>2, <1>3, WalletsAssumption DEF Sub, TimeInv
<1>5. new \in Subscription /\ new.expiresAt = now + seconds /\ new.cancelled = FALSE
  BY <1>1, <1>3 DEF Subscription
<1> HIDE DEF new
<1>6. /\ Len(subs') = Len(subs) + 1 /\ subs'[n] = new
      /\ \A s \in 1 .. Len(subs) : subs'[s] = subs[s]
  BY <1>2, <1>5, AppendType DEF TypeOK
<1>7. \A s \in Sub : s > Len(subs') => used'[s] = 0
  BY <1>2, <1>3, <1>6 DEF TimeInv, Sub
<1>8. ASSUME NEW s \in 1 .. Len(subs')
      PROVE  IF subs'[s].cancelled THEN subs'[s].expiresAt <= now' /\ used'[s] <= bought'[s]
             ELSE bought'[s] = used'[s] + Left(s)'
  <2>1. CASE s = n
    <3>1. bought'[s] = seconds /\ used'[s] = 0 BY <1>2, <1>3, <1>4, <2>1
    <3>2. Left(s)' = seconds BY <1>1, <1>2, <1>3, <1>5, <1>6, <2>1 DEF Left
    <3>3. QED BY <1>1, <1>5, <1>6, <2>1, <3>1, <3>2
  <2>2. CASE s \in 1 .. Len(subs)
    <3>1. s # n BY <1>3, <2>2
    <3>2. /\ bought'[s] = bought[s] /\ used'[s] = used[s] /\ subs'[s] = subs[s]
          /\ Left(s)' = Left(s)
      BY <1>2, <1>3, <1>6, <2>2, <3>1 DEF Left
    <3>3. QED BY <1>2, <2>2, <3>2 DEF TimeInv, PaidTimeExact, Left
  <2>3. QED BY <1>3, <1>6, <2>1, <2>2
<1>9. QED BY <1>7, <1>8 DEF TimeInv, PaidTimeExact, Left

(* A step that sets the expiry of one subscription; bought follows. *)
LEMMA ChangeTime ==
  ASSUME TypeOK, TimeInv, NEW s \in 1 .. Len(subs), NEW e \in Nat, NEW c \in BOOLEAN,
         subs' = [subs EXCEPT ![s] = [@ EXCEPT !.expiresAt = e, !.cancelled = c]],
         NEW seconds \in Nat, bought' = [bought EXCEPT ![s] = @ + seconds],
         UNCHANGED <<now, used>>,
         IF c THEN e = now ELSE ~subs[s].cancelled /\ e = now + Left(s) + seconds
  PROVE  TimeInv'
<1>1. /\ Len(subs') = Len(subs) /\ s \in Sub /\ subs'[s].expiresAt = e
      /\ subs'[s].cancelled = c
      /\ \A i \in 1 .. Len(subs) \ {s} : subs'[i] = subs[i]
  BY ChangeType
<1>2. bought \in [Sub -> Nat] /\ used \in [Sub -> Nat] /\ now \in Nat BY DEF TypeOK
<1>3. \A i \in Sub : i > Len(subs') => used'[i] = 0 BY <1>1 DEF TimeInv
<1>4. /\ subs[s].expiresAt \in Nat /\ subs[s].cancelled \in BOOLEAN
      /\ bought[s] \in Nat /\ used[s] \in Nat
  BY TimeTypes
<1>5. Left(s) \in Nat BY <1>2, <1>4 DEF Left
<1>6. bought'[s] = bought[s] + seconds /\ used'[s] = used[s] BY <1>1, <1>2
<1>7. CASE c
  <2>1. used[s] <= bought[s] BY <1>2, <1>4 DEF TimeInv, PaidTimeExact
  <2>2. subs'[s].expiresAt <= now' /\ used'[s] <= bought'[s]
    BY <1>1, <1>2, <1>4, <1>6, <1>7, <2>1
  <2>3. ASSUME NEW i \in 1 .. Len(subs) \ {s}
        PROVE  subs'[i] = subs[i] /\ bought'[i] = bought[i] /\ used'[i] = used[i]
    BY <1>1, <1>2, TimeTypes
  <2>4. QED BY <1>1, <1>3, <1>7, <2>2, <2>3 DEF TimeInv, PaidTimeExact
<1>8. CASE ~c
  <2>1. bought[s] = used[s] + Left(s) BY <1>8 DEF TimeInv, PaidTimeExact, Left
  <2>2. Left(s)' = Left(s) + seconds BY <1>1, <1>2, <1>5, <1>8, SMTT(30) DEF Left
  <2>3. bought'[s] = used'[s] + Left(s)' BY <1>4, <1>5, <1>6, <2>1, <2>2
  <2>4. ASSUME NEW i \in 1 .. Len(subs) \ {s}
        PROVE  subs'[i] = subs[i] /\ bought'[i] = bought[i] /\ used'[i] = used[i]
    BY <1>1, <1>2, TimeTypes
  <2>5. QED BY <1>1, <1>3, <1>8, <2>3, <2>4 DEF TimeInv, PaidTimeExact, Left
<1>9. QED BY <1>7, <1>8

LEMMA TickTime == ASSUME TypeOK, TimeInv, Tick PROVE TimeInv'
<1>1. /\ now' = now + 1 /\ subs' = subs /\ bought' = bought
      /\ used' = [s \in Sub |-> IF s \in 1 .. Len(subs) /\ IsSubscriptionActive(s)
                                THEN used[s] + 1 ELSE used[s]]
  BY DEF Tick, tableVars
<1>2. Len(subs) \in Nat BY DEF TypeOK
<1>3. \A s \in Sub : s > Len(subs') => used'[s] = 0 BY <1>1, <1>2 DEF TimeInv, Sub
<1>4. ASSUME NEW s \in 1 .. Len(subs)
      PROVE  IF subs[s].cancelled THEN subs[s].expiresAt <= now' /\ used'[s] <= bought[s]
             ELSE bought[s] = used'[s] + Left(s)'
  <2>1. /\ subs[s].expiresAt \in Nat /\ subs[s].cancelled \in BOOLEAN /\ now \in Nat
        /\ bought[s] \in Nat /\ used[s] \in Nat /\ s \in Sub
    BY TimeTypes
  <2>2. used'[s] = IF IsSubscriptionActive(s) THEN used[s] + 1 ELSE used[s] BY <1>1, <2>1
  <2>3. IF subs[s].cancelled THEN subs[s].expiresAt <= now /\ used[s] <= bought[s]
        ELSE bought[s] = used[s] + Left(s)
    BY DEF TimeInv, PaidTimeExact, Left
  <2>4. Left(s)' = IF subs[s].expiresAt > now + 1 THEN subs[s].expiresAt - (now + 1) ELSE 0
    BY <1>1 DEF Left
  <2>5. CASE subs[s].cancelled
    <3>1. used'[s] = used[s] BY <2>2, <2>5 DEF IsSubscriptionActive
    <3>2. QED BY <1>1, <2>1, <2>3, <2>5, <3>1
  <2>6. CASE ~subs[s].cancelled /\ subs[s].expiresAt > now
    <3>1. used'[s] = used[s] + 1 BY <2>2, <2>6 DEF IsSubscriptionActive
    <3>2. Left(s) = subs[s].expiresAt - now BY <2>6 DEF Left
    <3>3. Left(s)' = subs[s].expiresAt - (now + 1) BY <2>1, <2>4, <2>6
    <3>4. bought[s] = used[s] + (subs[s].expiresAt - now) BY <2>3, <2>6, <3>2
    <3>5. bought[s] = (used[s] + 1) + (subs[s].expiresAt - (now + 1))
      <4>1. \A b, a, e, n \in Nat : b = a + (e - n) => b = (a + 1) + (e - (n + 1)) BY SMTT(30)
      <4>2. QED BY <2>1, <3>4, <4>1, SMTT(30)
    <3>6. QED BY <2>6, <3>1, <3>3, <3>5
  <2>7. CASE ~subs[s].cancelled /\ ~(subs[s].expiresAt > now)
    <3>1. used'[s] = used[s] BY <2>2, <2>7 DEF IsSubscriptionActive
    <3>2. Left(s) = 0 /\ Left(s)' = 0 BY <2>1, <2>4, <2>7 DEF Left
    <3>3. QED BY <2>1, <2>3, <2>7, <3>1, <3>2
  <2>8. QED BY <2>5, <2>6, <2>7
<1>5. QED BY <1>1, <1>3, <1>4 DEF TimeInv, PaidTimeExact, Left

LEMMA TimeStep == TypeOK /\ TimeInv /\ [Next]_vars => TimeInv'
<1> SUFFICES ASSUME TypeOK, TimeInv, [Next]_vars PROVE TimeInv' OBVIOUS
<1>1. ASSUME NEW u \in Owner, NEW s \in 1 .. Len(subs), NEW days \in DayCounts,
             NEW id \in 1 .. Len(methods), ExtendSubscription(u, s, days, id)
      PROVE  TimeInv'
  <2> DEFINE seconds == days * DaySeconds
  <2>1. seconds \in Nat BY SecondsNat
  <2>2. bought' = [bought EXCEPT ![s] = @ + seconds] /\ UNCHANGED <<now, used>>
    BY <1>1 DEF ExtendSubscription
  <2>3. \E e \in Nat :
          /\ subs' = [subs EXCEPT ![s] = [@ EXCEPT !.expiresAt = e, !.cancelled = FALSE]]
          /\ e = (IF subs[s].expiresAt > now THEN subs[s].expiresAt ELSE now) + seconds
          /\ subs[s].cancelled = FALSE
    BY <1>1, ExtendChange
  <2> HIDE DEF seconds
  <2>4. PICK e \in Nat :
          /\ subs' = [subs EXCEPT ![s] = [@ EXCEPT !.expiresAt = e, !.cancelled = FALSE]]
          /\ e = (IF subs[s].expiresAt > now THEN subs[s].expiresAt ELSE now) + seconds
          /\ subs[s].cancelled = FALSE
    BY <2>3
  <2>5. e = now + Left(s) + seconds BY <2>1, <2>4, TimeTypes DEF Left
  <2>6. QED BY <2>1, <2>2, <2>4, <2>5, ChangeTime
<1>2. ASSUME NEW s \in 1 .. Len(subs), CancelSubscription(s) PROVE TimeInv'
  <2>1. subs' = [subs EXCEPT ![s] = [@ EXCEPT !.expiresAt = now, !.cancelled = TRUE]]
    BY <1>2, CancelChange
  <2>2. UNCHANGED <<now, used, bought>> BY <1>2 DEF CancelSubscription, timeVars
  <2>3. now \in Nat /\ bought' = [bought EXCEPT ![s] = @ + 0]
    BY <2>2, TimeTypes DEF TypeOK
  <2>4. QED BY <2>1, <2>2, <2>3, ChangeTime
<1>3. CASE UserStep BY <1>1, <1>3, BuyTime DEF UserStep
<1>4. CASE Tick BY <1>4, TickTime
<1>5. CASE UNCHANGED <<now, subs, bought, used>>
  BY <1>5 DEF TimeInv, PaidTimeExact
<1>6. QED
  BY <1>2, <1>3, <1>4, <1>5
  DEF Next, OwnerStep, WorldStep, CreatePlan, UpdatePlan, SetPrimaryStablecoin, WithdrawFunds,
      AddPaymentMethod, UpdatePaymentMethod, SetSlippageBps, SetMinLiquidity, Trade, vars,
      tableVars, timeVars

(* Every second paid for is granted once, and no other (buySubscription,   *)
(* extendSubscription, cancelSubscription).                                *)
THEOREM PaidTimeCorrect == Spec => []PaidTimeExact
<1>1. Init => TimeInv BY DEF Init, TimeInv, PaidTimeExact
<1>2. TimeInv => PaidTimeExact BY DEF TimeInv
<1>3. QED BY <1>1, <1>2, TypeInit, TypeStep, TimeStep, PTL DEF Spec

-------------------------------------------------------------------------------
(* The ledger *)

LEMMA LedgerInitial == Init => Ledger!LedgerInit
<1> SUFFICES ASSUME Init PROVE Ledger!LedgerInit OBVIOUS
<1>1. Len(subs) = 0 /\ evlog = <<>> BY DEF Init
<1>2. \A s \in Sub : s > Len(subs) BY <1>1, WalletsAssumption DEF Sub
<1>3. QED BY <1>1, <1>2 DEF Ledger!LedgerInit, Ledger!Sub, Sub

LEMMA LedgerSimulation ==
  TypeOK /\ [Next]_vars => [Ledger!LedgerNext]_(Ledger!ledgerVars)
<1> SUFFICES ASSUME TypeOK, [Next]_vars
             PROVE  Ledger!LedgerNext \/ UNCHANGED Ledger!ledgerVars
  OBVIOUS
<1> DEFINE state == [s \in Sub |-> IF s > Len(subs) THEN "none"
                                   ELSE IF subs[s].cancelled THEN "cancelled" ELSE "active"]
           buyer == [s \in Sub |-> IF s > Len(subs) THEN NoOwner ELSE subs[s].subscriber]
<1>0. Len(subs) \in Nat /\ Len(subs) <= MaxSubs /\ subs \in Seq(Subscription) BY DEF TypeOK
<1>1. ASSUME NEW u \in Owner, NEW p \in 1 .. Len(plans), NEW days \in DayCounts,
             NEW id \in 1 .. Len(methods), BuySubscription(u, p, days, id)
      PROVE  Ledger!LedgerNext
  <2> DEFINE n == Len(subs) + 1
             seconds == days * DaySeconds
             new == [plan |-> p, subscriber |-> u, expiresAt |-> now + seconds,
                     cancelled |-> FALSE]
  <2>1. subs' = Append(subs, new) /\ Len(subs) < MaxSubs /\ Emit("Created", n, u)
    BY <1>1 DEF BuySubscription
  <2>2. new.subscriber = u /\ new.cancelled = FALSE OBVIOUS
  <2>3. new \in Subscription
    <3>1. seconds \in Nat BY SecondsNat
    <3> HIDE DEF seconds
    <3>2. now \in Nat BY DEF TypeOK
    <3>3. QED BY <3>1, <3>2 DEF Subscription
  <2> HIDE DEF new
  <2>4. /\ Len(subs') = Len(subs) + 1 /\ subs'[n] = new
        /\ \A s \in 1 .. Len(subs) : subs'[s] = subs[s]
    BY <1>0, <2>1, <2>3, AppendType
  <2>5. n \in Sub /\ state[n] = "none" /\ \A r \in Sub : r < n => state[r] # "none"
    BY <1>0, <2>1, WalletsAssumption DEF Sub
  <2>6. ASSUME NEW s \in Sub
        PROVE  /\ state'[s] = IF s = n THEN "active" ELSE state[s]
               /\ buyer'[s] = IF s = n THEN u ELSE buyer[s]
    <3>1. CASE s = n BY <1>0, <2>2, <2>4, <3>1
    <3>2. CASE s < n
      <4>1. s \in 1 .. Len(subs) /\ ~(s > Len(subs)) /\ ~(s > Len(subs')) /\ s # n
        BY <1>0, <2>4, <3>2 DEF Sub
      <4>2. subs'[s] = subs[s] BY <2>4, <4>1
      <4>3. QED BY <4>1, <4>2
    <3>3. CASE s > n
      <4>1. s > Len(subs) /\ s > Len(subs') /\ s # n
        BY <1>0, <2>4, <3>3, WalletsAssumption DEF Sub
      <4>2. QED BY <4>1
    <3>4. QED BY <1>0, <3>1, <3>2, <3>3, WalletsAssumption DEF Sub
  <2>7. state' = [state EXCEPT ![n] = "active"] /\ buyer' = [buyer EXCEPT ![n] = u]
    BY <2>5, <2>6
  <2>8. Ledger!BuySubscription(n, u)
    BY <2>1, <2>5, <2>7 DEF Ledger!BuySubscription, Ledger!Emit, Emit, Ledger!Sub, Sub
  <2>9. QED BY <2>5, <2>8 DEF Ledger!LedgerNext, Ledger!Sub, Sub
<1>2. ASSUME NEW u \in Owner, NEW s \in 1 .. Len(subs), NEW days \in DayCounts,
             NEW id \in 1 .. Len(methods), ExtendSubscription(u, s, days, id)
      PROVE  Ledger!LedgerNext
  <2>1. \E e \in Nat :
          /\ subs' = [subs EXCEPT ![s] = [@ EXCEPT !.expiresAt = e, !.cancelled = FALSE]]
          /\ e = (IF subs[s].expiresAt > now THEN subs[s].expiresAt ELSE now)
                 + days * DaySeconds
          /\ subs[s].cancelled = FALSE
    BY <1>2, ExtendChange
  <2>2. PICK e \in Nat :
          /\ subs' = [subs EXCEPT ![s] = [@ EXCEPT !.expiresAt = e, !.cancelled = FALSE]]
          /\ subs[s].cancelled = FALSE
    BY <2>1
  <2>3. /\ Len(subs') = Len(subs) /\ s \in Sub /\ subs'[s].cancelled = FALSE
        /\ subs'[s].subscriber = subs[s].subscriber
        /\ \A i \in 1 .. Len(subs) \ {s} : subs'[i] = subs[i]
    BY <2>2, ChangeType
  <2>4. Emit("Extended", s, u) BY <1>2 DEF ExtendSubscription
  <2>5. state' = state /\ buyer' = buyer
    <3>1. ASSUME NEW i \in Sub PROVE state'[i] = state[i] /\ buyer'[i] = buyer[i]
      <4>1. CASE i = s BY <1>0, <2>2, <2>3, <4>1
      <4>2. CASE i # s /\ i \in 1 .. Len(subs) BY <1>0, <2>3, <4>2
      <4>3. CASE i > Len(subs) BY <2>3, <4>3
      <4>4. QED BY <1>0, <4>1, <4>2, <4>3, WalletsAssumption DEF Sub
    <3>2. QED BY <3>1
  <2>6. state[s] = "active" BY <1>0, <2>2, <2>3
  <2>7. Ledger!ExtendSubscription(s, u)
    BY <2>4, <2>5, <2>6 DEF Ledger!ExtendSubscription, Ledger!Emit, Emit, Ledger!Sub, Sub
  <2>8. QED BY <2>3, <2>7 DEF Ledger!LedgerNext, Ledger!Sub, Sub
<1>3. ASSUME NEW s \in 1 .. Len(subs), CancelSubscription(s)
      PROVE  Ledger!LedgerNext
  <2>1. subs' = [subs EXCEPT ![s] = [@ EXCEPT !.expiresAt = now, !.cancelled = TRUE]]
    BY <1>3, CancelChange
  <2>2. now \in Nat BY DEF TypeOK
  <2>3. /\ Len(subs') = Len(subs) /\ s \in Sub /\ subs'[s].cancelled = TRUE
        /\ subs'[s].subscriber = subs[s].subscriber
        /\ \A i \in 1 .. Len(subs) \ {s} : subs'[i] = subs[i]
    BY <2>1, <2>2, ChangeType
  <2>4. Emit("Cancelled", s, subs[s].subscriber) /\ ~subs[s].cancelled
    BY <1>3 DEF CancelSubscription
  <2>5. ASSUME NEW i \in Sub
        PROVE  /\ state'[i] = IF i = s THEN "cancelled" ELSE state[i]
               /\ buyer'[i] = buyer[i]
    <3>1. CASE i = s BY <1>0, <2>3, <3>1
    <3>2. CASE i # s /\ i \in 1 .. Len(subs) BY <1>0, <2>3, <3>2
    <3>3. CASE i # s /\ i > Len(subs) BY <2>3, <3>3
    <3>4. QED BY <1>0, <3>1, <3>2, <3>3, WalletsAssumption DEF Sub
  <2>6. state' = [state EXCEPT ![s] = "cancelled"] /\ buyer' = buyer BY <2>3, <2>5
  <2>7. state[s] = "active" /\ buyer[s] = subs[s].subscriber BY <1>0, <2>3, <2>4
  <2>8. Ledger!CancelSubscription(s)
    BY <2>4, <2>6, <2>7 DEF Ledger!CancelSubscription, Ledger!Emit, Emit, Ledger!Sub, Sub
  <2>9. QED BY <2>3, <2>8 DEF Ledger!LedgerNext, Ledger!Sub, Sub
<1>4. CASE UserStep BY <1>1, <1>2, <1>4 DEF UserStep
<1>5. CASE UNCHANGED <<subs, evlog>>
  BY <1>5 DEF Ledger!ledgerVars
<1>6. QED
  BY <1>3, <1>4, <1>5
  DEF Next, OwnerStep, WorldStep, CreatePlan, UpdatePlan, SetPrimaryStablecoin, WithdrawFunds,
      AddPaymentMethod, UpdatePaymentMethod, SetSlippageBps, SetMinLiquidity, Tick, Trade, vars,
      tableVars

(* The contract implements the ledger the provisioning pipeline is         *)
(* modelled over (BlockhostSubscriptions.sol).                             *)
THEOREM LedgerCorrect == Spec => ImplementsLedger
<1>1. QED
  BY LedgerInitial, LedgerSimulation, TypeInit, TypeStep, PTL
  DEF Spec, ImplementsLedger, Ledger!LedgerSpec

-------------------------------------------------------------------------------
(* A reader of the log                                                     *)
(* An invariant of the ledger, which the contract has because each of its  *)
(* steps is one of the ledger.                                             *)

LEMMA LogInit == Ledger!LedgerInit => Ledger!LogTells
BY WalletsAssumption
DEF Ledger!LedgerInit, Ledger!LogTells, Ledger!EventsOf, Ledger!Sub, Sub

LEMMA LogStep ==
  ASSUME TypeOK, Ledger!LogTells, [Ledger!LedgerNext]_(Ledger!ledgerVars)
  PROVE  Ledger!LogTells'
<1> DEFINE state == [s \in Sub |-> IF s > Len(subs) THEN "none"
                                   ELSE IF subs[s].cancelled THEN "cancelled" ELSE "active"]
           buyer == [s \in Sub |-> IF s > Len(subs) THEN NoOwner ELSE subs[s].subscriber]
           Of(s) == {i \in 1 .. Len(evlog) : evlog[i].sub = s}
           Told(s, c, b, l, E) ==
             /\ c = "none" <=> E = {}
             /\ c = "cancelled" <=> \E i \in E : l[i].type = "Cancelled"
             /\ \A i, j \in E :
                  /\ l[i].type = "Created" => i <= j /\ l[i].who = b
                  /\ l[i].type = "Cancelled" => j <= i
             /\ \A i \in E : (\A j \in E : i <= j) => l[i].type = "Created"
           Tells == \A s \in Sub : Told(s, state[s], buyer[s], evlog, Of(s))
<1>0. evlog \in Seq(Event) /\ subs \in Seq(Subscription) BY DEF TypeOK
<1>1. Tells <=> Ledger!LogTells
  BY DEF Ledger!LogTells, Ledger!EventsOf, Ledger!Sub, Sub
<1>2. Tells' <=> Ledger!LogTells'
  BY DEF Ledger!LogTells, Ledger!EventsOf, Ledger!Sub, Sub
<1>3. Tells BY <1>1
<1>4. \A s \in Sub : Of(s) \in SUBSET (1 .. Len(evlog)) /\ Len(evlog) \in Nat
  BY <1>0
<1>5. ASSUME NEW s \in Sub, NEW e \in Event, e.sub = s, evlog' = Append(evlog, e)
      PROVE  /\ Of(s)' = Of(s) \cup {Len(evlog) + 1}
             /\ \A t \in Sub : t # s => Of(t)' = Of(t)
             /\ evlog'[Len(evlog) + 1] = e
             /\ \A i \in 1 .. Len(evlog) : evlog'[i] = evlog[i]
  <2>1. /\ Len(evlog') = Len(evlog) + 1 /\ evlog'[Len(evlog) + 1] = e
        /\ \A i \in 1 .. Len(evlog) : evlog'[i] = evlog[i]
    BY <1>0, <1>5, AppendType
  <2>2. QED BY <1>0, <1>5, <2>1
<1>6. CASE UNCHANGED Ledger!ledgerVars
  <2>1. state' = state /\ buyer' = buyer /\ evlog' = evlog
    BY <1>6 DEF Ledger!ledgerVars, Ledger!Sub, Sub
  <2>2. Tells' BY <1>3, <2>1
  <2>3. QED BY <1>2, <2>2
<1>7. ASSUME NEW s \in Sub, NEW u \in Owner, Ledger!BuySubscription(s, u) PROVE Tells'
  <2> DEFINE e == [type |-> "Created", sub |-> s, who |-> u]
             n == Len(evlog) + 1
  <2>1. /\ state[s] = "none" /\ state' = [state EXCEPT ![s] = "active"]
        /\ buyer' = [buyer EXCEPT ![s] = u] /\ evlog' = Append(evlog, e)
    BY <1>7 DEF Ledger!BuySubscription, Ledger!Emit, Ledger!Sub, Sub
  <2>2. e \in Event /\ e.sub = s /\ e.type = "Created" /\ e.who = u BY DEF Event
  <2>3. /\ Of(s)' = Of(s) \cup {n} /\ evlog'[n] = e
        /\ \A t \in Sub : t # s => Of(t)' = Of(t)
        /\ \A i \in 1 .. Len(evlog) : evlog'[i] = evlog[i]
    BY <1>5, <2>1, <2>2
  <2>4. /\ state'[s] = "active" /\ buyer'[s] = u
        /\ \A t \in Sub : t # s => state'[t] = state[t] /\ buyer'[t] = buyer[t]
    BY <2>1
  <2>5. Of(s) = {} BY <1>3, <2>1
  <2> HIDE DEF e, state, buyer, Of
  <2>6. Told(s, state'[s], buyer'[s], evlog', Of(s)') BY <1>4, <2>2, <2>3, <2>4, <2>5
  <2>7. ASSUME NEW t \in Sub, t # s PROVE Told(t, state'[t], buyer'[t], evlog', Of(t)')
    BY <1>3, <1>4, <2>3, <2>4, <2>7
  <2>8. QED BY <2>6, <2>7
<1>8. ASSUME NEW s \in Sub, NEW u \in Owner, Ledger!ExtendSubscription(s, u) PROVE Tells'
  <2> DEFINE e == [type |-> "Extended", sub |-> s, who |-> u]
             n == Len(evlog) + 1
  <2>1. state[s] = "active" /\ state' = state /\ buyer' = buyer /\ evlog' = Append(evlog, e)
    BY <1>8 DEF Ledger!ExtendSubscription, Ledger!Emit, Ledger!Sub, Sub
  <2>2. e \in Event /\ e.sub = s /\ e.type = "Extended" BY DEF Event
  <2>3. /\ Of(s)' = Of(s) \cup {n} /\ evlog'[n] = e
        /\ \A t \in Sub : t # s => Of(t)' = Of(t)
        /\ \A i \in 1 .. Len(evlog) : evlog'[i] = evlog[i]
    BY <1>5, <2>1, <2>2
  <2>4. Of(s) # {} /\ \A i \in Of(s) : evlog[i].type # "Cancelled" BY <1>3, <2>1
  <2> HIDE DEF e, state, buyer, Of
  <2>6. Told(s, state'[s], buyer'[s], evlog', Of(s)') BY <1>3, <1>4, <2>1, <2>2, <2>3, <2>4
  <2>7. ASSUME NEW t \in Sub, t # s PROVE Told(t, state'[t], buyer'[t], evlog', Of(t)')
    BY <1>3, <1>4, <2>1, <2>3, <2>7
  <2>8. QED BY <2>6, <2>7
<1>9. ASSUME NEW s \in Sub, Ledger!CancelSubscription(s) PROVE Tells'
  <2> DEFINE e == [type |-> "Cancelled", sub |-> s, who |-> buyer[s]]
             n == Len(evlog) + 1
  <2>1. /\ state[s] = "active" /\ state' = [state EXCEPT ![s] = "cancelled"] /\ buyer' = buyer
        /\ evlog' = Append(evlog, e)
    BY <1>9 DEF Ledger!CancelSubscription, Ledger!Emit, Ledger!Sub, Sub
  <2>2. e \in Event /\ e.sub = s /\ e.type = "Cancelled"
    <3>1. s \in 1 .. Len(subs) /\ buyer[s] = subs[s].subscriber BY <1>0, <2>1 DEF Sub
    <3>2. subs[s] \in Subscription BY <1>0, <3>1
    <3>3. subs[s].subscriber \in Owner BY <3>2 DEF Subscription
    <3>4. buyer[s] \in Owner BY <3>1, <3>3
    <3> HIDE DEF buyer
    <3>5. QED BY <3>4 DEF Event
  <2>3. /\ Of(s)' = Of(s) \cup {n} /\ evlog'[n] = e
        /\ \A t \in Sub : t # s => Of(t)' = Of(t)
        /\ \A i \in 1 .. Len(evlog) : evlog'[i] = evlog[i]
    BY <1>5, <2>1, <2>2
  <2>4. /\ state'[s] = "cancelled"
        /\ \A t \in Sub : t # s => state'[t] = state[t]
    BY <2>1
  <2>5. Of(s) # {} /\ \A i \in Of(s) : evlog[i].type # "Cancelled" BY <1>3, <2>1
  <2> HIDE DEF e, state, buyer, Of
  <2>6. Told(s, state'[s], buyer'[s], evlog', Of(s)')
    BY <1>3, <1>4, <2>1, <2>2, <2>3, <2>4, <2>5
  <2>7. ASSUME NEW t \in Sub, t # s PROVE Told(t, state'[t], buyer'[t], evlog', Of(t)')
    BY <1>3, <1>4, <2>1, <2>3, <2>4, <2>7
  <2>8. QED BY <2>6, <2>7
<1>10. QED
  BY <1>2, <1>6, <1>7, <1>8, <1>9 DEF Ledger!LedgerNext, Ledger!Sub, Sub

(* Whatever is bought, extended, cancelled, priced or set, in any order: the *)
(* log alone says who bought which subscription and whether it was cancelled, *)
(* first purchase, last cancellation (the emits of buySubscription,           *)
(* extendSubscription and cancelSubscription).                                *)
THEOREM LogCorrect == Spec => []Ledger!LogTells
<1>1. Init => Ledger!LogTells BY LedgerInitial, LogInit
<1>2. TypeOK /\ Ledger!LogTells /\ [Next]_vars => Ledger!LogTells' BY LedgerSimulation, LogStep
<1>3. QED BY <1>1, <1>2, TypeInit, TypeStep, PTL DEF Spec

-------------------------------------------------------------------------------
(* Prices, within their margin *)

Truncated(E, T, S, g, U, A, P) ==
  U = E \div 100 /\ A = (U * T) \div S /\ P = A + (A * g) \div 10000

WithinMargin(E, T, S, g, P) ==
  /\ P * 100 * S * 10000 <= E * T * (10000 + g)
  /\ (P + 1) * 100 * S > E * T - 100 * T

(* The three truncations of _calculatePayment, one after the other: of E   *)
(* hundredths of stablecoin units, at T tokens for S units, with g basis   *)
(* points on top.                                                          *)
LEMMA PriceArithmetic ==
  \A E, T, g, U, A, P \in Nat, S \in Nat \ {0} :
    Truncated(E, T, S, g, U, A, P) => WithinMargin(E, T, S, g, P)
<1> SUFFICES ASSUME NEW E \in Nat, NEW T \in Nat, NEW g \in Nat, NEW U \in Nat, NEW A \in Nat,
                    NEW P \in Nat, NEW S \in Nat \ {0},
                    U = E \div 100, A = (U * T) \div S, P = A + (A * g) \div 10000
             PROVE  /\ P * 100 * S * 10000 <= E * T * (10000 + g)
                    /\ (P + 1) * 100 * S > E * T - 100 * T
  BY DEF Truncated, WithinMargin
<1>1. U * 100 <= E /\ E < (U + 1) * 100 BY DivBounds
<1>2. U * T \in Nat BY TimesNat
<1>3. A * S <= U * T /\ U * T < (A + 1) * S BY <1>2, DivBounds
<1>4. A * g \in Nat BY TimesNat
<1>5. P * 10000 <= A * (10000 + g)
  <2>1. ((A * g) \div 10000) * 10000 <= A * g BY <1>4, DivBounds
  <2>2. (A * g) \div 10000 \in Nat BY <1>4, DivBounds
  <2>3. QED BY <1>4, <2>1, <2>2
<1>6. A <= P BY <1>4, DivBounds
<1>7. (P * 10000) * (S * 100) <= (A * (10000 + g)) * (S * 100)
  <2>1. P * 10000 \in Nat /\ A * (10000 + g) \in Nat /\ S * 100 \in Nat BY TimesNat
  <2>2. QED BY <1>5, <2>1, TimesMono
<1>8. (A * S) * ((10000 + g) * 100) <= (U * T) * ((10000 + g) * 100)
  <2>1. A * S \in Nat /\ (10000 + g) * 100 \in Nat BY TimesNat
  <2>2. QED BY <1>2, <1>3, <2>1, TimesMono
<1>9. (U * 100) * (T * (10000 + g)) <= E * (T * (10000 + g))
  <2>1. U * 100 \in Nat /\ T * (10000 + g) \in Nat BY TimesNat
  <2>2. QED BY <1>1, <2>1, TimesMono
<1>10. P * 100 * S * 10000 <= E * T * (10000 + g)
  <2>1. P * 100 * S * 10000 = (P * 10000) * (S * 100) OBVIOUS
  <2>2. (A * (10000 + g)) * (S * 100) = (A * S) * ((10000 + g) * 100)
    <3>1. \A a, b, c \in Nat : (a * b) * (c * 100) = (a * c) * (b * 100) OBVIOUS
    <3> DEFINE h == 10000 + g
    <3>2. h \in Nat OBVIOUS
    <3> HIDE DEF h
    <3>3. (A * h) * (S * 100) = (A * S) * (h * 100) BY <3>1, <3>2
    <3>4. QED BY <3>3 DEF h
  <2>3. (U * T) * ((10000 + g) * 100) = (U * 100) * (T * (10000 + g)) OBVIOUS
  <2>4. E * (T * (10000 + g)) = E * T * (10000 + g) OBVIOUS
  <2>5. QED BY <1>7, <1>8, <1>9, <2>1, <2>2, <2>3, <2>4
<1>11. (P + 1) * 100 * S > E * T - 100 * T
  <2>1. (A + 1) * S <= (P + 1) * S BY <1>6, TimesMono
  <2>2. E <= U * 100 + 100 BY <1>1
  <2>3. E * T <= (U * 100 + 100) * T
    <3>1. U * 100 + 100 \in Nat OBVIOUS
    <3>2. QED BY <2>2, <3>1, TimesMono
  <2>4. (U * 100 + 100) * T = 100 * (U * T) + 100 * T OBVIOUS
  <2>5. (P + 1) * 100 * S = 100 * ((P + 1) * S) OBVIOUS
  <2>6. U * T < (P + 1) * S
    <3>1. (A + 1) * S \in Nat /\ (P + 1) * S \in Nat BY TimesNat
    <3>2. QED BY <1>2, <1>3, <2>1, <3>1
  <2>7. E * T \in Nat /\ 100 * T \in Nat /\ (P + 1) * S \in Nat BY TimesNat
  <2>8. QED
    <3>1. 100 * (U * T) < 100 * ((P + 1) * S) BY <1>2, <2>6, <2>7
    <3>2. E * T <= 100 * (U * T) + 100 * T BY <2>3, <2>4
    <3>3. \A a, b, c, d \in Nat : a <= b + c /\ b < d => d > a - c OBVIOUS
    <3>4. 100 * (U * T) \in Nat /\ 100 * ((P + 1) * S) \in Nat BY <1>2, <2>7
    <3>5. QED BY <2>5, <2>7, <3>1, <3>2, <3>3, <3>4
<1>12. QED BY <1>10, <1>11

(* A price is exact but for the slippage margin above and one unit of each *)
(* token below, for all prices, decimals, reserves and settings            *)
(* (_calculatePayment, _getReserves).                                      *)
THEOREM PriceCorrect == Spec => []PriceWithinMargin
<1>1. TypeOK => PriceWithinMargin
  <2> SUFFICES ASSUME TypeOK, NEW p \in 1 .. Len(plans), NEW days \in DayCounts,
                      NEW id \in 2 .. Len(methods), methods[id].token # methods[id].stable,
                      Priced(methods[id])
      PROVE  LET m == methods[id]
                 tokens == ReserveOf(m.pair, m.token)
                 coins == ReserveOf(m.pair, m.stable)
                 exact == plans[p].price * days * One[m.stable] * tokens
                 price == CalculatePayment(plans[p], days, m)
             IN  /\ price * 100 * coins * 10000 <= exact * (10000 + slippageBps)
                 /\ (price + 1) * 100 * coins > exact - 100 * tokens
    BY DEF PriceWithinMargin
  <2> DEFINE m == methods[id]
             tokens == ReserveOf(m.pair, m.token)
             coins == ReserveOf(m.pair, m.stable)
             cents == plans[p].price * days
             E == cents * One[m.stable]
             units == Units(cents, m.stable)
             amount == (units * tokens) \div coins
             price == CalculatePayment(plans[p], days, m)
  <2>1. OfPair(m) /\ m.stable \in Token /\ m.pair \in Pair BY PairTokens DEF TypeOK
  <2>2. m.pair # NoPair BY <2>1, SubscriptionsAssumption
  <2>3. reserves[m.pair] \in Nat \X Nat BY <2>1 DEF TypeOK
  <2>4. GetReserves(m)[1] = tokens /\ GetReserves(m)[2] = coins
    BY <2>1, <2>3 DEF GetReserves, ReserveOf, OfPair
  <2>5. tokens \in Nat /\ coins \in Nat \ {0}
    BY <2>2, <2>3, <2>4 DEF Priced, ReserveOf
  <2>6. cents \in Nat /\ E \in Nat
    <3>1. plans[p].price \in Nat
      <4>1. plans \in Seq(Plan) /\ p \in 1 .. Len(plans) BY DEF TypeOK
      <4>2. plans[p] \in Plan BY <4>1
      <4>3. QED BY <4>2 DEF Plan
    <3>2. days \in Nat BY SubscriptionsAssumption
    <3>3. cents \in Nat BY <3>1, <3>2, TimesNat
    <3>4. One[m.stable] \in Nat BY <2>1, SubscriptionsAssumption
    <3> HIDE DEF cents
    <3>5. QED BY <3>3, <3>4, TimesNat
  <2>7. units = E \div 100 /\ units \in Nat BY <2>6, DivBounds DEF Units
  <2> HIDE DEF units
  <2>8. amount \in Nat
    <3> HIDE DEF tokens, coins
    <3>1. units * tokens \in Nat BY <2>5, <2>7, TimesNat
    <3>2. QED BY <2>5, <3>1, DivBounds
  <2>9. slippageBps \in Nat BY SlippageNat
  <2>10. price = amount + (amount * slippageBps) \div 10000
    BY <2>2, <2>4 DEF CalculatePayment, units
  <2> HIDE DEF tokens, coins, E, amount, price
  <2>11. price \in Nat
    <3>1. amount * slippageBps \in Nat BY <2>8, <2>9, TimesNat
    <3>2. (amount * slippageBps) \div 10000 \in Nat BY <3>1, DivBounds
    <3>3. QED BY <2>8, <2>10, <3>2
  <2>12. amount = (units * tokens) \div coins BY DEF amount
  <2>13. units = E \div 100 BY <2>7
  <2>14. Truncated(E, tokens, coins, slippageBps, units, amount, price)
    BY <2>10, <2>12, <2>13 DEF Truncated
  <2>15. WithinMargin(E, tokens, coins, slippageBps, price)
    BY <2>5, <2>6, <2>7, <2>8, <2>9, <2>11, <2>14, PriceArithmetic
  <2>16. /\ price * 100 * coins * 10000 <= E * tokens * (10000 + slippageBps)
         /\ (price + 1) * 100 * coins > E * tokens - 100 * tokens
    BY <2>15 DEF WithinMargin
  <2>17. E = plans[p].price * days * One[m.stable] BY DEF E
  <2>18. QED BY <2>16, <2>17 DEF price, tokens, coins
<1>2. QED BY <1>1, TypeInit, TypeStep, PTL DEF Spec
===============================================================================
