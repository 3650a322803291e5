---------------------------- MODULE FundCycleProofs -----------------------------
(***************************************************************************)
(* Proofs about FundCycle, for every value of its constants.               *)
(***************************************************************************)
EXTENDS FundCycle, TLAPS

-----------------------------------------------------------------------------
(* Arithmetic and accounts *)

(* Truncating division. *)
LEMMA DivBounds ==
  \A a \in Nat, b \in Nat \ {0} : a \div b \in Nat /\ (a \div b) * b <= a
OBVIOUS

(* Products of naturals. *)
LEMMA TimesMono == \A x, y, z \in Nat : x <= y => z * x <= z * y /\ x * z <= y * z
OBVIOUS

LEMMA TimesNat == \A x, y \in Nat : x * y \in Nat
OBVIOUS

(* A product that is no larger than another with the same positive factor. *)
LEMMA TimesCancel == \A x, y, z \in Nat : z > 0 /\ x * z <= y * z => x <= y
OBVIOUS

(* The accounts of the code and those of the recipients. *)
LEMMA Accounts ==
  /\ {"hot", "server", "contract", "admin", "pool"} \subseteq Account
  /\ Role \subseteq Account /\ "hot" \notin Role /\ "contract" \notin Role
  /\ \A i \in DOMAIN Recipients : Recipients[i].role \in Role /\ Recipients[i].percent \in Nat
  /\ Len(Recipients) \in Nat \ {0} /\ DOMAIN Recipients = 1 .. Len(Recipients)
<1>1. Len(Recipients) \in Nat /\ DOMAIN Recipients = 1 .. Len(Recipients) /\ Len(Recipients) # 0
  BY FundAssumption
<1>2. \A i \in DOMAIN Recipients : Recipients[i] \in [role : STRING, percent : Nat]
  <2> DEFINE R == [role : STRING, percent : Nat]
  <2>1. Recipients \in Seq(R)
    BY FundAssumption
  <2> HIDE DEF R
  <2>2. \A i \in DOMAIN Recipients : Recipients[i] \in R
    BY <2>1
  <2> QED
    BY <2>2 DEF R
<1>3. \A i \in DOMAIN Recipients : Recipients[i].role \in Role /\ Recipients[i].percent \in Nat
  BY <1>2 DEF Role
<1>4. "hot" \notin Role /\ "contract" \notin Role
  BY FundAssumption DEF Role
<1>5. Role \subseteq Account /\ {"hot", "server", "contract", "admin", "pool"} \subseteq Account
  BY DEF Account, Wallet
<1> QED
  BY <1>1, <1>3, <1>4, <1>5

(* Tokens move between two accounts and nowhere else. *)
LEMMA MovedFacts ==
  ASSUME NEW b \in [Account -> [Token -> Nat]], NEW t \in Token,
         NEW from \in Account, NEW to \in Account, from # to,
         NEW n \in Nat, n <= b[from][t]
  PROVE  /\ Moved(b, t, from, to, n) \in [Account -> [Token -> Nat]]
         /\ Moved(b, t, from, to, n)[from][t] = b[from][t] - n
         /\ Moved(b, t, from, to, n)[to][t] = b[to][t] + n
         /\ \A a \in Account, u \in Token :
              u # t \/ a \notin {from, to} => Moved(b, t, from, to, n)[a][u] = b[a][u]
<1> DEFINE c == [b EXCEPT ![from] = [b[from] EXCEPT ![t] = b[from][t] - n]]
           d == [c EXCEPT ![to] = [c[to] EXCEPT ![t] = c[to][t] + n]]
<1>1. Moved(b, t, from, to, n) = d
  BY DEF Moved
<1>2. b[from] \in [Token -> Nat] /\ b[to] \in [Token -> Nat] /\ b[from][t] \in Nat
  OBVIOUS
<1>3. [b[from] EXCEPT ![t] = b[from][t] - n] \in [Token -> Nat]
  BY <1>2
<1>4. /\ c \in [Account -> [Token -> Nat]] /\ c[to] = b[to]
      /\ c[from] = [b[from] EXCEPT ![t] = b[from][t] - n]
      /\ \A a \in Account \ {from} : c[a] = b[a]
  BY <1>3
<1>5. [b[to] EXCEPT ![t] = b[to][t] + n] \in [Token -> Nat]
  BY <1>2
<1> HIDE DEF c
<1>6. /\ d \in [Account -> [Token -> Nat]] /\ d[from] = c[from]
      /\ d[to] = [b[to] EXCEPT ![t] = b[to][t] + n]
      /\ \A a \in Account \ {from, to} : d[a] = b[a]
  BY <1>4, <1>5
<1> HIDE DEF d
<1>7. d[from][t] = b[from][t] - n /\ d[to][t] = b[to][t] + n
  BY <1>6, <1>4, <1>2
<1>8. \A u \in Token : u # t => d[from][u] = b[from][u] /\ d[to][u] = b[to][u]
  BY <1>6, <1>4, <1>2
<1> QED
  BY <1>1, <1>6, <1>7, <1>8

(* What is shared of a balance is a part of it, and of nothing nothing. *)
LEMMA ShareTotalFacts ==
  /\ \A n \in Nat : ShareTotal(n) \in Nat /\ ShareTotal(n) <= n /\ ShareTotal(n) * Whole <= n * TotalPercent
  /\ ShareTotal(0) = 0
<1> DEFINE q(n) == ShareTotal(n)
<1>1. ASSUME NEW n \in Nat
      PROVE  q(n) \in Nat /\ q(n) <= n /\ q(n) * Whole <= n * TotalPercent
  <2>1. n * TotalPercent \in Nat /\ Whole \in Nat \ {0} /\ TotalPercent \in Nat
    BY FundAssumption, TimesNat
  <2>2. q(n) \in Nat /\ q(n) * Whole <= n * TotalPercent
    BY <2>1, DivBounds DEF ShareTotal
  <2>3. n * TotalPercent <= n * Whole
    BY <2>1, FundAssumption, TimesMono
  <2> HIDE DEF q
  <2>4. q(n) * Whole \in Nat /\ n * Whole \in Nat
    BY <2>1, <2>2, TimesNat
  <2>5. q(n) * Whole <= n * Whole
    BY <2>1, <2>2, <2>3, <2>4
  <2>6. q(n) <= n
    BY <2>1, <2>2, <2>5, TimesCancel
  <2> QED
    BY <2>2, <2>6
<1> HIDE DEF q
<1>2. q(0) = 0
  BY <1>1
<1> QED
  BY <1>1, <1>2 DEF q

(* One recipient's share is no more than all of them. *)
LEMMA ShareOfType ==
  ASSUME TypeOK, NEW i \in DOMAIN Recipients, NEW t \in Token
  PROVE  ShareOf(i, t) \in Nat
<1> DEFINE total == ShareTotal(snap[t])
<1>1. total \in Nat
  BY ShareTotalFacts DEF TypeOK
<1> HIDE DEF total
<1>2. total * Recipients[i].percent \in Nat /\ TotalPercent \in Nat \ {0}
  BY <1>1, TimesNat, Accounts, FundAssumption
<1>3. (total * Recipients[i].percent) \div TotalPercent \in Nat
  BY <1>2, DivBounds
<1>4. distributed \in Nat
  BY DEF TypeOK
<1>5. ShareOf(i, t) = IF i = Len(Recipients) THEN IF distributed >= total THEN 0 ELSE total - distributed
                      ELSE (total * Recipients[i].percent) \div TotalPercent
  BY DEF ShareOf, total
<1> QED
  BY <1>1, <1>3, <1>4, <1>5

-----------------------------------------------------------------------------
(* Transactions *)

(* A counter of failures stays within its bound. *)
LEMMA FaultFacts ==
  TypeOK /\ (Fault \/ NoFault) => faults' \in 0 .. MaxFaults
<1>1. TypeOK => faults \in 0 .. MaxFaults
  BY DEF TypeOK
<1>2. MaxFaults \in Nat
  BY FundAssumption
<1> QED
  BY <1>1, <1>2 DEF Fault, NoFault

(* And so does the counter of the operator's acts. *)
LEMMA ManualFacts ==
  TypeOK /\ Manually => manual' \in 0 .. MaxManual
<1>1. TypeOK => manual \in 0 .. MaxManual
  BY DEF TypeOK
<1>2. MaxManual \in Nat
  BY FundAssumption
<1> QED
  BY <1>1, <1>2 DEF Manually

(* A transaction takes what it sends from one account, adds it to the other, and costs gas. *)
LEMMA TransferFacts ==
  ASSUME TypeOK, NEW w \in Wallet, NEW t \in Token, NEW from \in Account, NEW to \in Account,
         from # to, NEW n \in Nat, Transfer(w, t, from, to, n)
  PROVE  /\ bal' \in [Account -> [Token -> Nat]] /\ eth' \in [Wallet -> Nat]
         /\ n <= bal[from][t] /\ bal'[from][t] = bal[from][t] - n /\ bal'[to][t] = bal[to][t] + n
         /\ \A a \in Account, u \in Token : u # t \/ a \notin {from, to} => bal'[a][u] = bal[a][u]
<1>1. bal \in [Account -> [Token -> Nat]] /\ eth \in [Wallet -> Nat]
  BY DEF TypeOK
<1>2. bal[from][t] \in Nat /\ n <= bal[from][t] /\ eth[w] > 0 /\ bal' = Moved(bal, t, from, to, n)
      /\ eth' = [eth EXCEPT ![w] = eth[w] - 1]
  BY <1>1 DEF Transfer
<1>3. eth' \in [Wallet -> Nat]
  BY <1>1, <1>2
<1> QED
  BY <1>1, <1>2, <1>3, MovedFacts

(* What leaves the hot wallet is taken from what was shared already, if there is any. *)
LEMMA LeavesFacts ==
  ASSUME TypeOK, NEW t \in Token, NEW n \in Nat, Leaves(t, n)
  PROVE  /\ covered' \in [Token -> Nat]
         /\ covered'[t] = IF covered[t] > n THEN covered[t] - n ELSE 0
         /\ \A u \in Token \ {t} : covered'[u] = covered[u]
<1>1. covered \in [Token -> Nat] /\ covered[t] \in Nat
  BY DEF TypeOK
<1>2. covered' = [covered EXCEPT ![t] = IF covered[t] > n THEN covered[t] - n ELSE 0]
  BY DEF Leaves
<1> QED
  BY <1>1, <1>2

(* A refused transaction moves nothing. *)
LEMMA RefusedFacts ==
  ASSUME TypeOK, NEW w, NEW t, NEW from, NEW n, Refused(w, t, from, n)
  PROVE  UNCHANGED moneyVars /\ faults' \in 0 .. MaxFaults
BY FaultFacts DEF Refused

-----------------------------------------------------------------------------
(* Types *)

LEMMA InitType == Init => TypeOK
<1> SUFFICES ASSUME Init PROVE TypeOK
  OBVIOUS
<1>1. NoAmounts \in [Token -> Nat]
  BY DEF NoAmounts
<1>2. bal \in [Account -> [Token -> Nat]]
  BY <1>1 DEF Init
<1>3. eth \in [Wallet -> Nat]
  BY FundAssumption DEF Init, Wallet
<1>4. 1 \in DOMAIN Recipients /\ {ServerGas, MaxFaults, MaxManual} \subseteq Nat
  BY Accounts, FundAssumption
<1> QED
  BY <1>1, <1>2, <1>3, <1>4 DEF Init, TypeOK

(* The steps that neither move money nor touch a balance read. *)
LEMMA TypeQuiet ==
  ASSUME TypeOK,
         \/ NotDue \/ CycleStart \/ WithdrawDone \/ SharesDisabled \/ ShareDone \/ SweepDone
         \/ GasStart \/ Restart
         \/ \E j \in Job : IntervalPasses(j)
         \/ \E t \in Token : SwitchMethod(t)
  PROVE  TypeOK'
<1> USE DEF TypeOK, moneyVars, loopVars, stateVars, shareVars, envVars
<1>1. CASE NotDue BY <1>1 DEF NotDue
<1>2. CASE CycleStart
  <2>1. faults' \in 0 .. MaxFaults /\ entitled' \subseteq Job /\ todo' \subseteq Token
        /\ known' \subseteq {"admin"} \cup Role /\ pc' \in CycleSteps \cup GasSteps \cup {"gaspoll"}
    BY <1>2, FaultFacts DEF CycleStart, CycleSteps
  <2> QED
    BY <1>2, <2>1 DEF CycleStart
<1>3. CASE WithdrawDone BY <1>3 DEF WithdrawDone, CycleSteps
<1>4. CASE SharesDisabled BY <1>4, FaultFacts DEF SharesDisabled, CycleSteps
<1>5. CASE ShareDone BY <1>5 DEF ShareDone, CycleSteps
<1>6. CASE SweepDone BY <1>6 DEF SweepDone, CycleSteps
<1>7. CASE GasStart
  <2>1. faults' \in 0 .. MaxFaults /\ entitled' \subseteq Job /\ pc' \in GasSteps
    BY <1>7, FaultFacts DEF GasStart, GasSteps
  <2> QED
    BY <1>7, <2>1 DEF GasStart
<1>8. CASE Restart BY <1>8 DEF Restart
<1>9. CASE \E j \in Job : IntervalPasses(j) BY <1>9 DEF IntervalPasses
<1>10. CASE \E t \in Token : SwitchMethod(t)
  <2>1. manual' \in 0 .. MaxManual
    BY <1>10, ManualFacts DEF SwitchMethod
  <2> QED
    BY <1>10, <2>1 DEF SwitchMethod
<1> QED
  BY <1>1, <1>2, <1>3, <1>4, <1>5, <1>6, <1>7, <1>8, <1>9, <1>10

-----------------------------------------------------------------------------
(* Steps that share nothing *)

(* What was shared already is still in the hot wallet. *)
Kept == \A u \in Token : covered[u] <= bal["hot"][u]

(* Revenue comes into the hot wallet, or tokens leave it, those shared first. *)
Comes(u) ==
  /\ covered'[u] = covered[u] /\ bal'["hot"][u] >= bal["hot"][u]
  /\ revenue'[u] - bal'["contract"][u] = revenue[u] - bal["contract"][u] + bal'["hot"][u] - bal["hot"][u]

Goes(u) ==
  /\ revenue'[u] - bal'["contract"][u] = revenue[u] - bal["contract"][u]
  /\ covered'[u] <= covered[u] /\ covered'[u] <= bal'["hot"][u]
  /\ bal'["hot"][u] <= bal["hot"][u] /\ bal'["hot"][u] - covered'[u] <= bal["hot"][u] - covered[u]

Calm == \A u \in Token : Comes(u) \/ Goes(u)

(* The numbers that these talk about. *)
LEMMA Amounts ==
  ASSUME TypeOK, NEW u \in Token
  PROVE  {covered[u], bal["hot"][u], bal["contract"][u], revenue[u], twice[u], paid[u], given[u],
          again[u], snap[u], ShareTotal(snap[u])} \subseteq Nat
<1>1. {revenue[u], paid[u], given[u], again[u], covered[u], twice[u], snap[u]} \subseteq Nat
  BY DEF TypeOK
<1>2. bal["hot"] \in [Token -> Nat] /\ bal["contract"] \in [Token -> Nat]
  BY Accounts DEF TypeOK
<1>3. ShareTotal(snap[u]) \in Nat
  BY <1>1, ShareTotalFacts
<1> QED
  BY <1>1, <1>2, <1>3

LEMMA StillCalm ==
  ASSUME TypeOK, Kept, UNCHANGED <<bal, covered, revenue>>
  PROVE  Calm
<1> SUFFICES ASSUME NEW u \in Token PROVE Comes(u) \/ Goes(u)
  BY DEF Calm
<1>1. Goes(u)
  BY Amounts DEF Goes, Kept
<1> QED
  BY <1>1

LEMMA TakeCalm ==
  ASSUME TypeOK, Kept, NEW t \in Token, Transfer("server", t, "contract", "hot", bal["contract"][t]),
         UNCHANGED <<covered, revenue>>
  PROVE  Calm
<1>1. "server" \in Wallet /\ "hot" \in Account /\ "contract" \in Account /\ bal["contract"][t] \in Nat
  BY Accounts, Amounts DEF Wallet
<1>2. /\ bal'["contract"][t] = bal["contract"][t] - bal["contract"][t]
      /\ bal'["hot"][t] = bal["hot"][t] + bal["contract"][t]
      /\ \A a \in Account, u \in Token : u # t \/ a \notin {"contract", "hot"} => bal'[a][u] = bal[a][u]
  <2> HIDE DEF TypeOK
  <2> QED
    BY <1>1, TransferFacts
<1> SUFFICES ASSUME NEW u \in Token PROVE Comes(u) \/ Goes(u)
  BY DEF Calm
<1>3. CASE u = t
  <2>1. Comes(u)
    BY <1>1, <1>2, <1>3, Amounts DEF Comes
  <2> QED
    BY <2>1
<1>4. CASE u # t
  <2>1. Goes(u)
    BY <1>1, <1>2, <1>4, Amounts DEF Goes, Kept
  <2> QED
    BY <2>1
<1> QED
  BY <1>3, <1>4

LEMMA LeaveCalm ==
  ASSUME TypeOK, Kept, NEW w \in Wallet, NEW t \in Token, NEW to \in Account \ {"hot", "contract"}, NEW n \in Nat,
         Transfer(w, t, "hot", to, n), Leaves(t, n), UNCHANGED revenue
  PROVE  Calm
<1>1. "hot" \in Account /\ "contract" \in Account
  BY Accounts
<1>2. /\ n <= bal["hot"][t] /\ bal'["hot"][t] = bal["hot"][t] - n
      /\ \A a \in Account, u \in Token : u # t \/ a \notin {"hot", to} => bal'[a][u] = bal[a][u]
  BY <1>1, TransferFacts
<1>3. /\ covered'[t] = IF covered[t] > n THEN covered[t] - n ELSE 0
      /\ \A u \in Token \ {t} : covered'[u] = covered[u]
  BY LeavesFacts
<1> SUFFICES ASSUME NEW u \in Token PROVE Comes(u) \/ Goes(u)
  BY DEF Calm
<1>4. Goes(u)
  <2>1. bal'["contract"][u] = bal["contract"][u]
    BY <1>1, <1>2
  <2>2. CASE u = t
    BY <1>2, <1>3, <2>1, <2>2, Amounts DEF Goes, Kept
  <2>3. CASE u # t
    BY <1>1, <1>2, <1>3, <2>1, <2>3, Amounts DEF Goes, Kept
  <2> QED
    BY <2>2, <2>3
<1> QED
  BY <1>4

(* The names that the steps below need. *)
LEMMA Names ==
  /\ "hot" \in Wallet /\ "server" \in Wallet
  /\ {"hot", "server", "contract", "admin", "pool"} \subseteq Account
  /\ {"server", "admin", "pool"} \subseteq Account \ {"hot", "contract"}
BY Accounts DEF Wallet

LEMMA WithdrawStep ==
  ASSUME TypeOK, Kept, NEW t \in Token, Withdraw(t)
  PROVE  TypeOK' /\ Calm
<1> DEFINE n == bal["contract"][t]
<1>1. n \in Nat
  BY Amounts
<1>2. /\ bal' \in [Account -> [Token -> Nat]] /\ eth' \in [Wallet -> Nat]
      /\ faults' \in 0 .. MaxFaults /\ Calm
  <2>1. UNCHANGED <<covered, revenue>>
    BY DEF Withdraw, shareVars, envVars
  <2>2. CASE Transfer("server", t, "contract", "hot", n) /\ NoFault
    <3>1. bal' \in [Account -> [Token -> Nat]] /\ eth' \in [Wallet -> Nat]
      BY <1>1, <2>2, Names, TransferFacts
    <3> QED
      BY <2>1, <2>2, <3>1, TakeCalm, FaultFacts
  <2>3. CASE NoFault /\ UNCHANGED moneyVars
    BY <2>1, <2>3, StillCalm, FaultFacts DEF moneyVars, TypeOK
  <2>4. CASE Refused("server", t, "contract", n)
    <3>1. UNCHANGED moneyVars /\ faults' \in 0 .. MaxFaults
      BY <2>4, RefusedFacts
    <3> QED
      BY <2>1, <3>1, StillCalm DEF moneyVars, TypeOK
  <2> QED
    BY <2>2, <2>3, <2>4 DEF Withdraw
<1>3. TypeOK'
  BY <1>2 DEF Withdraw, TypeOK, stateVars, shareVars, envVars
<1> QED
  BY <1>2, <1>3

LEMMA TopUpStep ==
  ASSUME TypeOK, Kept, TopUp
  PROVE  TypeOK' /\ Calm
<1> DEFINE needed == HotGas - eth["hot"]
           topped == [eth EXCEPT !["hot"] = HotGas, !["server"] = @ - needed - 1]
<1>1. HotGas \in Nat /\ eth \in [Wallet -> Nat] /\ eth["hot"] \in Nat /\ eth["server"] \in Nat
  BY FundAssumption, Names DEF TypeOK
<1>2. ~ (needed <= 0 \/ eth["server"] < 2 * needed) => topped \in [Wallet -> Nat]
  <2>1. needed \in Int
    BY <1>1
  <2>2. ~ (needed <= 0 \/ eth["server"] < 2 * needed) => eth["server"] - needed - 1 \in Nat
    BY <1>1, <2>1
  <2> QED
    BY <1>1, <2>2, Names
<1>3. faults' \in 0 .. MaxFaults /\ pc' \in CycleSteps \cup GasSteps
  BY FaultFacts DEF TopUp, CycleSteps, GasSteps
<1>4. eth' \in [Wallet -> Nat]
  BY <1>1, <1>2 DEF TopUp
<1>5. UNCHANGED <<bal, loopVars, stateVars, shareVars, envVars>>
  BY DEF TopUp
<1>6. TypeOK'
  BY <1>3, <1>4, <1>5 DEF TypeOK, loopVars, stateVars, shareVars, envVars
<1>7. Calm
  BY <1>5, StillCalm DEF shareVars, envVars
<1> QED
  BY <1>6, <1>7

LEMMA TopUpBufferStep ==
  ASSUME TypeOK, Kept, TopUpBuffer
  PROVE  TypeOK' /\ Calm
<1> DEFINE needed == Buffer - bal["server"][Stable]
<1>1. Stable \in Token /\ needed \in Int
  <2>1. bal["server"] \in [Token -> Nat]
    BY Names DEF TypeOK
  <2>2. Stable \in Token /\ Buffer \in Nat
    BY FundAssumption
  <2> QED
    BY <2>1, <2>2
<1>2. UNCHANGED revenue
  BY DEF TopUpBuffer, envVars
<1>3. /\ bal' \in [Account -> [Token -> Nat]] /\ eth' \in [Wallet -> Nat] /\ covered' \in [Token -> Nat]
      /\ faults' \in 0 .. MaxFaults /\ Calm
  <2>1. CASE (NoFault \/ Fault) /\ UNCHANGED <<moneyVars, covered>>
    BY <1>2, <2>1, StillCalm, FaultFacts DEF moneyVars, TypeOK
  <2>2. CASE /\ 0 < needed /\ Transfer("hot", Stable, "hot", "server", needed) /\ Leaves(Stable, needed)
             /\ (NoFault \/ Fault)
    <3>1. needed \in Nat
      BY <1>1, <2>2
    <3>2. bal' \in [Account -> [Token -> Nat]] /\ eth' \in [Wallet -> Nat]
      BY <1>1, <2>2, <3>1, Names, TransferFacts
    <3>3. covered' \in [Token -> Nat]
      BY <1>1, <2>2, <3>1, LeavesFacts
    <3>4. Calm
      BY <1>1, <1>2, <2>2, <3>1, Names, LeaveCalm
    <3> QED
      BY <2>2, <3>2, <3>3, <3>4, FaultFacts
  <2>3. CASE Refused("hot", Stable, "hot", needed) /\ UNCHANGED covered
    <3>1. UNCHANGED moneyVars /\ faults' \in 0 .. MaxFaults
      BY <2>3, RefusedFacts
    <3> QED
      BY <1>2, <2>3, <3>1, StillCalm DEF moneyVars, TypeOK
  <2> QED
    BY <2>1, <2>2, <2>3 DEF TopUpBuffer
<1>4. pc' \in CycleSteps
  BY DEF TopUpBuffer, CycleSteps
<1>5. TypeOK'
  BY <1>3, <1>4 DEF TopUpBuffer, TypeOK, loopVars, stateVars, envVars
<1> QED
  BY <1>3, <1>5

LEMMA SendRemainderStep ==
  ASSUME TypeOK, Kept, NEW t \in Token, SendRemainder(t)
  PROVE  TypeOK' /\ Calm
<1>1. snap[t] \in Nat
  BY Amounts
<1>2. UNCHANGED revenue
  BY DEF SendRemainder, envVars
<1>3. /\ bal' \in [Account -> [Token -> Nat]] /\ eth' \in [Wallet -> Nat] /\ covered' \in [Token -> Nat]
      /\ faults' \in 0 .. MaxFaults /\ Calm
  <2>1. CASE Transfer("hot", t, "hot", "admin", snap[t]) /\ Leaves(t, snap[t]) /\ NoFault
    <3>1. bal' \in [Account -> [Token -> Nat]] /\ eth' \in [Wallet -> Nat]
      BY <1>1, <2>1, Names, TransferFacts
    <3>2. covered' \in [Token -> Nat]
      BY <1>1, <2>1, LeavesFacts
    <3>3. Calm
      BY <1>1, <1>2, <2>1, Names, LeaveCalm
    <3> QED
      BY <2>1, <3>1, <3>2, <3>3, FaultFacts
  <2>2. CASE Refused("hot", t, "hot", snap[t]) /\ UNCHANGED covered
    <3>1. UNCHANGED moneyVars /\ faults' \in 0 .. MaxFaults
      BY <2>2, RefusedFacts
    <3> QED
      BY <1>2, <2>2, <3>1, StillCalm DEF moneyVars, TypeOK
  <2> QED
    BY <2>1, <2>2 DEF SendRemainder
<1>4. unswept' \subseteq Token /\ todo' \subseteq Token
  BY DEF SendRemainder, TypeOK
<1>5. TypeOK'
  BY <1>3, <1>4 DEF SendRemainder, TypeOK, stateVars, envVars
<1> QED
  BY <1>3, <1>5

(* The balances as read: of a token left out, zero. *)
LEMMA ReadFacts ==
  ASSUME TypeOK, NEW S \in SUBSET active
  PROVE  [t \in Token |-> IF t \in S THEN bal["hot"][t] ELSE 0] \in [Token -> Nat]
BY Amounts

LEMMA PlanSharesStep ==
  ASSUME TypeOK, Kept, PlanShares
  PROVE  TypeOK' /\ Calm
<1>1. snap' \in [Token -> Nat] /\ faults' \in 0 .. MaxFaults
  BY ReadFacts, FaultFacts DEF PlanShares, Listed
<1>2. todo' \subseteq Token /\ 1 \in DOMAIN Recipients /\ pc' \in CycleSteps
  BY Accounts DEF PlanShares, CycleSteps
<1>3. again' \in [Token -> Nat] /\ next' \in DOMAIN Recipients
  BY <1>2 DEF PlanShares, TypeOK
<1>4. TypeOK'
  BY <1>1, <1>2, <1>3 DEF PlanShares, TypeOK, moneyVars, stateVars, envVars
<1>5. Calm
  BY StillCalm DEF PlanShares, moneyVars, envVars
<1> QED
  BY <1>4, <1>5

LEMMA PlanRemainderStep ==
  ASSUME TypeOK, Kept, PlanRemainder
  PROVE  TypeOK' /\ Calm
<1>1. snap' \in [Token -> Nat] /\ faults' \in 0 .. MaxFaults
  <2>1. snap \in [Token -> Nat]
    BY DEF TypeOK
  <2>2. CASE \E S \in SUBSET active :
               Listed(S) /\ snap' = [t \in Token |-> IF t \in S THEN bal["hot"][t] ELSE 0]
    BY <2>2, ReadFacts, FaultFacts DEF Listed
  <2>3. CASE NoFault /\ UNCHANGED snap
    BY <2>1, <2>3, FaultFacts
  <2> QED
    BY <2>2, <2>3 DEF PlanRemainder
<1>2. todo' \subseteq Token /\ unswept' \subseteq Token /\ pc' \in CycleSteps
  BY DEF PlanRemainder, CycleSteps, TypeOK
<1>3. TypeOK'
  BY <1>1, <1>2 DEF PlanRemainder, TypeOK, moneyVars, stateVars, envVars
<1>4. Calm
  BY StillCalm DEF PlanRemainder, moneyVars, envVars
<1> QED
  BY <1>3, <1>4

LEMMA RecordStep ==
  ASSUME TypeOK, Kept, NEW j \in Job, NEW p, NEW q \in {"gaspoll", "idle"}, Record(j, p, q)
  PROVE  TypeOK' /\ Calm
<1>1. due' \subseteq Job /\ saved' \subseteq Job /\ unsaved' \subseteq Job
  BY DEF Record, Remember, TypeOK
<1>2. faults' \in 0 .. MaxFaults
  BY FaultFacts DEF Record, Remember, Fault
<1>3. 1 \in DOMAIN Recipients /\ NoAmounts \in [Token -> Nat]
  BY Accounts DEF NoAmounts
<1>4. TypeOK'
  BY <1>1, <1>2, <1>3 DEF Record, LocalsGone, TypeOK, moneyVars, envVars
<1>5. Calm
  BY StillCalm DEF Record, moneyVars, envVars
<1> QED
  BY <1>4, <1>5

LEMMA CrashStep ==
  ASSUME TypeOK, Kept, Crash
  PROVE  TypeOK' /\ Calm
<1>1. unsaved' \subseteq Job /\ unswept' \subseteq Token
  BY DEF Crash, RunningJob, TypeOK, Job
<1>2. faults' \in 0 .. MaxFaults
  BY FaultFacts DEF Crash
<1>3. 1 \in DOMAIN Recipients /\ NoAmounts \in [Token -> Nat]
  BY Accounts DEF NoAmounts
<1>4. TypeOK'
  BY <1>1, <1>2, <1>3 DEF Crash, LocalsGone, TypeOK, moneyVars, envVars
<1>5. Calm
  BY StillCalm DEF Crash, moneyVars, envVars
<1> QED
  BY <1>4, <1>5

LEMMA SwapStep ==
  ASSUME TypeOK, Kept, Swap
  PROVE  TypeOK' /\ Calm
<1>1. Stable \in Token /\ SwapAmount \in Nat /\ SwapGas \in Nat
  BY FundAssumption
<1>2. eth \in [Wallet -> Nat] /\ bal \in [Account -> [Token -> Nat]] /\ eth["server"] \in Nat
  BY Names DEF TypeOK
<1>3. UNCHANGED <<covered, revenue>>
  BY DEF Swap, shareVars, envVars
<1>4. bal' \in [Account -> [Token -> Nat]] /\ eth' \in [Wallet -> Nat] /\ faults' \in 0 .. MaxFaults /\ Calm
  <2>1. CASE NoFault /\ UNCHANGED moneyVars
    BY <1>3, <2>1, StillCalm, FaultFacts DEF moneyVars, TypeOK
  <2>2. CASE /\ ~ (eth["server"] >= LowGas \/ bal["server"][Stable] < SwapAmount)
             /\ eth["server"] > 0 /\ bal' = Moved(bal, Stable, "server", "pool", SwapAmount)
             /\ eth' = [eth EXCEPT !["server"] = @ - 1 + SwapGas]
             /\ (NoFault \/ Fault)
    <3>1. SwapAmount <= bal["server"][Stable]
      BY <1>1, <1>2, <2>2, Names
    <3>2. /\ bal' \in [Account -> [Token -> Nat]]
          /\ \A a \in Account, u \in Token : a \notin {"server", "pool"} => bal'[a][u] = bal[a][u]
      <4> DEFINE b == Moved(bal, Stable, "server", "pool", SwapAmount)
      <4>1. "server" \in Account /\ "pool" \in Account /\ "server" # "pool"
        BY Names
      <4>2. ASSUME NEW from \in Account, NEW to \in Account, from # to, SwapAmount <= bal[from][Stable]
            PROVE  /\ Moved(bal, Stable, from, to, SwapAmount) \in [Account -> [Token -> Nat]]
                   /\ \A a \in Account, u \in Token :
                        a \notin {from, to} => Moved(bal, Stable, from, to, SwapAmount)[a][u] = bal[a][u]
        BY <1>1, <1>2, <4>2, MovedFacts
      <4>3. /\ b \in [Account -> [Token -> Nat]]
            /\ \A a \in Account, u \in Token : a \notin {"server", "pool"} => b[a][u] = bal[a][u]
        BY <3>1, <4>1, <4>2
      <4> QED
        BY <2>2, <4>3
    <3>3. eth["server"] - 1 + SwapGas \in Nat
      BY <1>1, <1>2, <2>2
    <3>4. eth' \in [Wallet -> Nat]
      BY <1>2, <2>2, <3>3
    <3>5. \A u \in Token : bal'["hot"][u] = bal["hot"][u] /\ bal'["contract"][u] = bal["contract"][u]
      BY <3>2, Names
    <3>6. Calm
      BY <1>3, <3>5, Amounts DEF Calm, Goes, Kept
    <3> QED
      BY <2>2, <3>2, <3>4, <3>6, FaultFacts
  <2>3. CASE Refused("server", Stable, "server", SwapAmount)
    <3>1. UNCHANGED moneyVars /\ faults' \in 0 .. MaxFaults
      BY <2>3, RefusedFacts
    <3> QED
      BY <1>3, <3>1, StillCalm DEF moneyVars, TypeOK
  <2> QED
    BY <2>1, <2>2, <2>3 DEF Swap
<1>5. TypeOK'
  BY <1>4 DEF Swap, TypeOK, loopVars, stateVars, shareVars, envVars, GasSteps
<1> QED
  BY <1>4, <1>5

LEMMA PayStep ==
  ASSUME TypeOK, Kept, NEW t \in Token, NEW n \in Payment, Pay(t, n)
  PROVE  TypeOK' /\ Calm
<1>1. n \in Nat /\ "contract" \in Account
  BY FundAssumption, Names
<1>2. bal \in [Account -> [Token -> Nat]] /\ revenue \in [Token -> Nat] /\ bal["contract"] \in [Token -> Nat]
  BY <1>1 DEF TypeOK
<1> DEFINE column == [bal["contract"] EXCEPT ![t] = bal["contract"][t] + n]
<1>3. bal' = [bal EXCEPT !["contract"] = column] /\ revenue' = [revenue EXCEPT ![t] = revenue[t] + n]
  BY DEF Pay
<1>4. /\ column \in [Token -> Nat] /\ column[t] = bal["contract"][t] + n
      /\ \A u \in Token \ {t} : column[u] = bal["contract"][u]
  BY <1>1, <1>2
<1> HIDE DEF column
<1>5. /\ bal' \in [Account -> [Token -> Nat]] /\ bal'["contract"] = column
      /\ \A a \in Account \ {"contract"} : bal'[a] = bal[a]
  BY <1>1, <1>2, <1>3, <1>4
<1>6. /\ revenue' \in [Token -> Nat] /\ revenue'[t] = revenue[t] + n
      /\ \A u \in Token \ {t} : revenue'[u] = revenue[u]
  BY <1>1, <1>2, <1>3
<1>7. TypeOK'
  BY <1>5, <1>6 DEF Pay, TypeOK, loopVars, stateVars, shareVars
<1>8. ASSUME NEW u \in Token
      PROVE  Comes(u) \/ Goes(u)
  <2>1. bal'["hot"][u] = bal["hot"][u] /\ covered'[u] = covered[u]
    BY <1>5, Names DEF Pay, shareVars
  <2>2. revenue'[u] - bal'["contract"][u] = revenue[u] - bal["contract"][u]
    BY <1>1, <1>4, <1>5, <1>6, Amounts
  <2> QED
    BY <2>1, <2>2, Amounts DEF Goes, Kept
<1> QED
  BY <1>7, <1>8 DEF Calm

LEMMA BwStep ==
  ASSUME TypeOK, Kept, NEW t \in Token, BwWithdraw(t) \/ BwSend(t)
  PROVE  TypeOK' /\ Calm
<1>1. manual' \in 0 .. MaxManual
  BY ManualFacts DEF BwWithdraw, BwSend
<1>2. CASE BwWithdraw(t)
  <2>1. Transfer("server", t, "contract", "hot", bal["contract"][t]) /\ bal["contract"][t] \in Nat
    BY <1>2, Amounts DEF BwWithdraw
  <2>2. bal' \in [Account -> [Token -> Nat]] /\ eth' \in [Wallet -> Nat]
    BY <2>1, Names, TransferFacts
  <2>3. TypeOK'
    BY <1>1, <1>2, <2>2 DEF BwWithdraw, TypeOK, loopVars, stateVars, shareVars
  <2>4. Calm
    BY <1>2, <2>1, TakeCalm DEF BwWithdraw, shareVars
  <2> QED
    BY <2>3, <2>4
<1>3. CASE BwSend(t)
  <2>1. PICK n \in 1 .. bal["hot"][t] : Transfer("hot", t, "hot", "admin", n) /\ Leaves(t, n)
    BY <1>3 DEF BwSend
  <2>2. n \in Nat
    BY <2>1, Amounts
  <2>3. bal' \in [Account -> [Token -> Nat]] /\ eth' \in [Wallet -> Nat]
    BY <2>1, <2>2, Names, TransferFacts
  <2>4. covered' \in [Token -> Nat]
    BY <2>1, <2>2, LeavesFacts
  <2>5. TypeOK'
    BY <1>1, <1>3, <2>3, <2>4 DEF BwSend, TypeOK, loopVars, stateVars
  <2>6. UNCHANGED revenue
    BY <1>3 DEF BwSend
  <2>7. Calm
    BY <2>1, <2>2, <2>6, Names, LeaveCalm
  <2> QED
    BY <2>5, <2>7
<1> QED
  BY <1>2, <1>3

LEMMA ServerPaysStep ==
  ASSUME TypeOK, Kept, ServerPays
  PROVE  TypeOK' /\ Calm
<1>1. eth \in [Wallet -> Nat] /\ eth["server"] \in Nat
  BY Names DEF TypeOK
<1>2. eth' \in [Wallet -> Nat] /\ manual' \in 0 .. MaxManual
  <2>1. eth["server"] > 0 /\ eth' = [eth EXCEPT !["server"] = eth["server"] - 1]
    BY DEF ServerPays
  <2>2. eth["server"] - 1 \in Nat
    BY <1>1, <2>1
  <2>3. eth' \in [Wallet -> Nat]
    BY <1>1, <2>1, <2>2
  <2> QED
    BY <2>3, ManualFacts DEF ServerPays
<1>3. TypeOK'
  BY <1>2 DEF ServerPays, TypeOK, loopVars, stateVars, shareVars
<1>4. Calm
  BY StillCalm DEF ServerPays, shareVars
<1> QED
  BY <1>3, <1>4

(* The steps of TypeQuiet. *)
LEMMA QuietCalm ==
  ASSUME TypeOK, Kept,
         \/ NotDue \/ CycleStart \/ WithdrawDone \/ SharesDisabled \/ ShareDone \/ SweepDone
         \/ GasStart \/ Restart
         \/ \E j \in Job : IntervalPasses(j)
         \/ \E t \in Token : SwitchMethod(t)
  PROVE  Calm
<1>1. UNCHANGED <<bal, covered, revenue>>
  BY DEF NotDue, CycleStart, WithdrawDone, SharesDisabled, ShareDone, SweepDone, GasStart, Restart,
         IntervalPasses, SwitchMethod, moneyVars, shareVars, envVars
<1> QED
  BY <1>1, StillCalm

(* Every step but one that shares. *)
LEMMA CalmStep ==
  ASSUME TypeOK, Kept, Next, ~ Share
  PROVE  TypeOK' /\ Calm
<1>1. CASE \/ NotDue \/ CycleStart \/ WithdrawDone \/ SharesDisabled \/ ShareDone \/ SweepDone
           \/ GasStart \/ Restart
           \/ \E j \in Job : IntervalPasses(j)
           \/ \E t \in Token : SwitchMethod(t)
  BY <1>1, TypeQuiet, QuietCalm
<1>2. CASE \E t \in Token : Withdraw(t) \/ SendRemainder(t)
  BY <1>2, WithdrawStep, SendRemainderStep
<1>3. CASE TopUp \/ TopUpBuffer \/ PlanShares \/ PlanRemainder \/ Swap \/ Crash \/ ServerPays
  BY <1>3, TopUpStep, TopUpBufferStep, PlanSharesStep, PlanRemainderStep, SwapStep, CrashStep, ServerPaysStep
<1>4. CASE RecordCycle \/ RecordGas
  <2>1. {"cycle", "gas"} \subseteq Job
    BY DEF Job
  <2> QED
    BY <1>4, <2>1, RecordStep DEF RecordCycle, RecordGas
<1>5. CASE \E t \in Token : BwWithdraw(t) \/ BwSend(t)
  BY <1>5, BwStep
<1>6. CASE \E t \in Token, n \in Payment : Pay(t, n)
  BY <1>6, PayStep
<1> QED
  BY <1>1, <1>2, <1>3, <1>4, <1>5, <1>6 DEF Next, Run, World

-----------------------------------------------------------------------------
(* The step that shares *)

(* What the recipients up to i get together, in scaled percent. *)
Sum == CHOOSE sum \in [0 .. Len(Recipients) -> 0 .. TotalPercent] :
         sum[0] = 0 /\ \A i \in DOMAIN Recipients : sum[i] = sum[i - 1] + Recipients[i].percent

LEMMA SumFacts ==
  /\ Sum \in [0 .. Len(Recipients) -> 0 .. TotalPercent] /\ Sum[0] = 0
  /\ \A i \in DOMAIN Recipients :
       /\ Sum[i] = Sum[i - 1] + Recipients[i].percent
       /\ Sum[i] \in 0 .. TotalPercent /\ Sum[i - 1] \in 0 .. TotalPercent
       /\ Recipients[i].percent \in 0 .. TotalPercent
<1> DEFINE Adds(sum) == sum[0] = 0 /\ \A i \in DOMAIN Recipients : sum[i] = sum[i - 1] + Recipients[i].percent
<1>1. \E sum \in [0 .. Len(Recipients) -> 0 .. TotalPercent] : Adds(sum)
  BY FundAssumption
<1>2. Sum = CHOOSE sum \in [0 .. Len(Recipients) -> 0 .. TotalPercent] : Adds(sum)
  BY DEF Sum
<1> HIDE DEF Adds
<1>3. Sum \in [0 .. Len(Recipients) -> 0 .. TotalPercent] /\ Adds(Sum)
  BY <1>1, <1>2
<1>4. TotalPercent \in Nat
  BY FundAssumption
<1>5. ASSUME NEW i \in DOMAIN Recipients
      PROVE  Sum[i] \in 0 .. TotalPercent /\ Sum[i - 1] \in 0 .. TotalPercent
  <2>1. i \in 0 .. Len(Recipients) /\ i - 1 \in 0 .. Len(Recipients)
    BY Accounts
  <2> QED
    BY <1>3, <2>1
<1>6. ASSUME NEW i \in DOMAIN Recipients
      PROVE  Sum[i] = Sum[i - 1] + Recipients[i].percent /\ Recipients[i].percent \in 0 .. TotalPercent
  <2>1. Sum[i] = Sum[i - 1] + Recipients[i].percent
    BY <1>3 DEF Adds
  <2>2. Recipients[i].percent \in Nat
    BY Accounts
  <2> QED
    BY <1>4, <1>5, <2>1, <2>2
<1> QED
  BY <1>3, <1>5, <1>6 DEF Adds

(* The token and the share that the loop has come to. *)
Current == CHOOSE x \in todo : TRUE
Known == Recipients[next].role \in known
Due == IF Known THEN ShareOf(next, Current) ELSE 0

LEMMA DueFacts ==
  ASSUME TypeOK, todo # {}
  PROVE  /\ Current \in todo /\ Current \in Token
         /\ Due \in Nat /\ Due <= ShareTotal(snap[Current])
<1>1. Current \in todo /\ Current \in Token /\ next \in DOMAIN Recipients /\ distributed \in Nat
  BY DEF Current, TypeOK
<1> DEFINE total == ShareTotal(snap[Current])
           percent == Recipients[next].percent
<1>2. total \in Nat /\ percent \in Nat /\ percent <= TotalPercent /\ TotalPercent \in Nat \ {0}
  BY <1>1, SumFacts, Amounts, FundAssumption
<1>3. ShareOf(next, Current) \in Nat
  BY <1>1, ShareOfType
<1>4. ShareOf(next, Current) <= total
  <2>1. CASE next = Len(Recipients)
    BY <1>1, <1>2, <2>1 DEF ShareOf
  <2>2. CASE next # Len(Recipients)
    <3>1. ShareOf(next, Current) = (total * percent) \div TotalPercent
      BY <2>2 DEF ShareOf
    <3> HIDE DEF total, percent
    <3>2. total * percent \in Nat /\ total * TotalPercent \in Nat /\ total * percent <= total * TotalPercent
      BY <1>2, TimesNat, TimesMono
    <3>3. ShareOf(next, Current) * TotalPercent <= total * percent
      BY <1>2, <3>1, <3>2, DivBounds
    <3>4. ShareOf(next, Current) * TotalPercent \in Nat
      BY <1>2, <1>3, TimesNat
    <3>5. ShareOf(next, Current) * TotalPercent <= total * TotalPercent
      BY <3>2, <3>3, <3>4
    <3> QED
      BY <1>2, <1>3, <3>5, TimesCancel
  <2> QED
    BY <2>1, <2>2
<1> QED
  BY <1>1, <1>2, <1>3, <1>4 DEF Due

(* The two outcomes of a share. *)
NotSent ==
  /\ UNCHANGED <<moneyVars, paid, given, covered, twice>>
  /\ \/ Known /\ Due = 0 /\ unsent' = unsent
     \/ unsent' = unsent \cup {Current}

Sent ==
  /\ Known /\ Due > 0 /\ Transfer("hot", Current, "hot", Recipients[next].role, Due)
  /\ IF given[Current] = 0 THEN Covers(Current, Due) ELSE Leaves(Current, Due) /\ UNCHANGED twice
  /\ paid' = [paid EXCEPT ![Current] = @ + Due]
  /\ given' = [given EXCEPT ![Current] = @ + Due]
  /\ unsent' = unsent

LEMMA ShareCases ==
  ASSUME TypeOK, Share
  PROVE  /\ pc = "share" /\ todo # {}
         /\ next' = IF next = Len(Recipients) THEN 1 ELSE next + 1
         /\ distributed' = IF next = Len(Recipients) THEN 0 ELSE distributed + Due
         /\ todo' = IF next = Len(Recipients) THEN todo \ {Current} ELSE todo
         /\ NotSent \/ Sent
         /\ UNCHANGED <<pc, snap, known, stateVars, again, unswept, envVars>>
         /\ faults' \in 0 .. MaxFaults
<1>1. /\ pc = "share" /\ todo # {}
      /\ next' = IF next = Len(Recipients) THEN 1 ELSE next + 1
      /\ distributed' = IF next = Len(Recipients) THEN 0 ELSE distributed + Due
      /\ todo' = IF next = Len(Recipients) THEN todo \ {Current} ELSE todo
      /\ UNCHANGED <<pc, snap, known, stateVars, again, unswept, envVars>>
  BY DEF Share, Current, Due, Known
<1>2. \/ /\ Due = 0 /\ NoFault
         /\ unsent' = IF Known THEN unsent ELSE unsent \cup {Current}
         /\ UNCHANGED <<moneyVars, paid, given, covered, twice>>
      \/ /\ Due > 0 /\ Transfer("hot", Current, "hot", Recipients[next].role, Due) /\ NoFault
         /\ IF given[Current] = 0 THEN Covers(Current, Due) ELSE Leaves(Current, Due) /\ UNCHANGED twice
         /\ paid' = [paid EXCEPT ![Current] = @ + Due]
         /\ given' = [given EXCEPT ![Current] = @ + Due]
         /\ UNCHANGED unsent
      \/ /\ Due > 0 /\ Refused("hot", Current, "hot", Due)
         /\ unsent' = unsent \cup {Current}
         /\ UNCHANGED <<paid, given, covered, twice>>
  BY DEF Share, Current, Due, Known
<1>3. Due > 0 => Known
  BY DEF Due
<1>4. faults' \in 0 .. MaxFaults
  BY <1>2, FaultFacts, RefusedFacts
<1>5. NotSent \/ Sent
  BY <1>2, <1>3, RefusedFacts DEF NotSent, Sent
<1> QED
  BY <1>1, <1>4, <1>5

(* What a share that is sent changes: the hot wallet, and the histories of its token. *)
LEMMA SentFacts ==
  ASSUME TypeOK, todo # {}, Sent
  PROVE  /\ bal' \in [Account -> [Token -> Nat]] /\ eth' \in [Wallet -> Nat]
         /\ {paid', given', covered', twice'} \subseteq [Token -> Nat]
         /\ Due <= bal["hot"][Current] /\ bal'["hot"][Current] = bal["hot"][Current] - Due
         /\ paid'[Current] = paid[Current] + Due /\ given'[Current] = given[Current] + Due
         /\ given[Current] = 0 =>
              /\ twice'[Current] = twice[Current] + again[Current]
              /\ covered'[Current] = IF snap[Current] <= bal["hot"][Current]
                                     THEN snap[Current] - Due ELSE bal["hot"][Current] - Due
         /\ given[Current] # 0 =>
              /\ twice'[Current] = twice[Current]
              /\ covered'[Current] = IF covered[Current] > Due THEN covered[Current] - Due ELSE 0
         /\ \A u \in Token : bal'["contract"][u] = bal["contract"][u]
         /\ \A u \in Token \ {Current} :
              /\ bal'["hot"][u] = bal["hot"][u] /\ covered'[u] = covered[u] /\ twice'[u] = twice[u]
              /\ paid'[u] = paid[u] /\ given'[u] = given[u]
<1> DEFINE t == Current
           role == Recipients[next].role
<1>1. t \in Token /\ Due \in Nat /\ Due <= ShareTotal(snap[t])
  BY DueFacts
<1>2. role \in Account /\ role \notin {"hot", "contract"} /\ "hot" \in Wallet /\ {"hot", "contract"} \subseteq Account
  BY Accounts, Names DEF TypeOK
<1> HIDE DEF t, role
<1>3. Transfer("hot", t, "hot", role, Due)
  BY DEF Sent, t, role
<1>4. /\ bal' \in [Account -> [Token -> Nat]] /\ eth' \in [Wallet -> Nat]
      /\ Due <= bal["hot"][t] /\ bal'["hot"][t] = bal["hot"][t] - Due
      /\ \A a \in Account, u \in Token : u # t \/ a \notin {"hot", role} => bal'[a][u] = bal[a][u]
  BY <1>1, <1>2, <1>3, TransferFacts
<1>5. {paid[t], given[t], covered[t], twice[t], again[t], snap[t], bal["hot"][t]} \subseteq Nat
  BY <1>1, Amounts
<1>6. {paid, given, covered, twice} \subseteq [Token -> Nat]
  BY DEF TypeOK
<1>7. paid' \in [Token -> Nat] /\ paid'[t] = paid[t] + Due /\ \A u \in Token \ {t} : paid'[u] = paid[u]
  BY <1>1, <1>5, <1>6 DEF Sent, t
<1>8. given' \in [Token -> Nat] /\ given'[t] = given[t] + Due /\ \A u \in Token \ {t} : given'[u] = given[u]
  BY <1>1, <1>5, <1>6 DEF Sent, t
<1>9. CASE given[t] = 0
  <2> DEFINE kept == IF snap[t] <= bal["hot"][t] THEN snap[t] - Due ELSE bal["hot"][t] - Due
  <2>1. covered' = [covered EXCEPT ![t] = kept] /\ twice' = [twice EXCEPT ![t] = twice[t] + again[t]]
    BY <1>9 DEF Sent, Covers, t
  <2>2. kept \in Nat
    <3>1. ShareTotal(snap[t]) <= snap[t] /\ ShareTotal(snap[t]) \in Nat
      BY <1>5, ShareTotalFacts
    <3> QED
      BY <1>1, <1>4, <1>5, <3>1
  <2> HIDE DEF kept
  <2>3. /\ covered' \in [Token -> Nat] /\ covered'[t] = kept
        /\ \A u \in Token \ {t} : covered'[u] = covered[u]
    BY <1>1, <1>6, <2>1, <2>2
  <2>4. /\ twice' \in [Token -> Nat] /\ twice'[t] = twice[t] + again[t]
        /\ \A u \in Token \ {t} : twice'[u] = twice[u]
    BY <1>1, <1>5, <1>6, <2>1
  <2> QED
    BY <1>1, <1>2, <1>4, <1>7, <1>8, <1>9, <2>3, <2>4 DEF kept, t
<1>10. CASE given[t] # 0
  <2>1. Leaves(t, Due) /\ twice' = twice
    BY <1>10 DEF Sent, t
  <2>2. /\ covered' \in [Token -> Nat]
        /\ covered'[t] = IF covered[t] > Due THEN covered[t] - Due ELSE 0
        /\ \A u \in Token \ {t} : covered'[u] = covered[u]
    BY <1>1, <2>1, LeavesFacts
  <2> QED
    BY <1>1, <1>2, <1>4, <1>6, <1>7, <1>8, <1>10, <2>1, <2>2 DEF t
<1> QED
  BY <1>9, <1>10

LEMMA ShareStep ==
  ASSUME TypeOK, Kept, Share
  PROVE  TypeOK' /\ Kept'
<1>1. /\ todo # {} /\ todo' \subseteq Token /\ faults' \in 0 .. MaxFaults
      /\ NotSent \/ Sent
      /\ UNCHANGED <<pc, snap, known, stateVars, again, unswept, envVars>>
  BY ShareCases DEF TypeOK
<1>2. next' \in DOMAIN Recipients
  <2>1. next \in 1 .. Len(Recipients) /\ Len(Recipients) \in Nat \ {0} /\ DOMAIN Recipients = 1 .. Len(Recipients)
    BY Accounts DEF TypeOK
  <2>2. next' = IF next = Len(Recipients) THEN 1 ELSE next + 1
    BY ShareCases
  <2>3. next' \in 1 .. Len(Recipients)
    <3> DEFINE last == Len(Recipients)
    <3>1. next \in 1 .. last /\ last \in Nat \ {0}
      BY <2>1
    <3>2. next' = IF next = last THEN 1 ELSE next + 1
      BY <2>2
    <3> HIDE DEF last
    <3>3. 1 <= next /\ next <= last /\ next \in Int
      BY <3>1
    <3>4. next' \in 1 .. last
      BY <3>1, <3>2, <3>3
    <3> QED
      BY <3>4 DEF last
  <2> QED
    BY <2>1, <2>3
<1>3. distributed' \in Nat
  <2>1. distributed \in Nat /\ Due \in Nat
    BY <1>1, DueFacts DEF TypeOK
  <2>2. distributed' = IF next = Len(Recipients) THEN 0 ELSE distributed + Due
    BY ShareCases
  <2> QED
    BY <2>1, <2>2
<1>4. unsent' \subseteq Token
  BY <1>1, DueFacts DEF NotSent, Sent, TypeOK
<1>5. CASE NotSent
  BY <1>1, <1>2, <1>3, <1>4, <1>5 DEF NotSent, TypeOK, Kept, moneyVars, stateVars, envVars
<1>6. CASE Sent
  <2>1. TypeOK'
    <3>1. /\ bal' \in [Account -> [Token -> Nat]] /\ eth' \in [Wallet -> Nat]
          /\ {paid', given', covered', twice'} \subseteq [Token -> Nat]
      BY <1>1, <1>6, SentFacts
    <3> QED
      BY <1>1, <1>2, <1>3, <1>4, <3>1 DEF TypeOK, stateVars, envVars
  <2>2. ASSUME NEW u \in Token
        PROVE  covered'[u] <= bal'["hot"][u]
    <3>1. Current \in Token /\ Due \in Nat
      BY <1>1, DueFacts
    <3>2. CASE u # Current
      <4>1. covered'[u] = covered[u] /\ bal'["hot"][u] = bal["hot"][u]
        BY <1>1, <1>6, <3>2, SentFacts
      <4> QED
        BY <4>1 DEF Kept
    <3>3. CASE u = Current
      <4>1. {covered[u], bal["hot"][u], snap[u], given[u]} \subseteq Nat /\ covered[u] <= bal["hot"][u]
        BY Amounts DEF Kept
      <4>2. /\ Due <= bal["hot"][u] /\ bal'["hot"][u] = bal["hot"][u] - Due
            /\ given[u] = 0 => covered'[u] = IF snap[u] <= bal["hot"][u] THEN snap[u] - Due ELSE bal["hot"][u] - Due
            /\ given[u] # 0 => covered'[u] = IF covered[u] > Due THEN covered[u] - Due ELSE 0
        BY <1>1, <1>6, <3>3, SentFacts
      <4> QED
        BY <3>1, <4>1, <4>2
    <3> QED
      BY <3>2, <3>3
  <2> QED
    BY <2>1, <2>2 DEF Kept
<1> QED
  BY <1>1, <1>5, <1>6

-----------------------------------------------------------------------------
(* What every step keeps *)

LEMMA StillStep ==
  ASSUME TypeOK, Kept, UNCHANGED vars
  PROVE  TypeOK' /\ Calm /\ UNCHANGED vars
<1>1. TypeOK' /\ UNCHANGED <<bal, covered, revenue>>
  BY DEF vars, moneyVars, loopVars, stateVars, shareVars, envVars, TypeOK
<1> QED
  BY <1>1, StillCalm

LEMMA CalmKept ==
  ASSUME TypeOK, Kept, TypeOK', Calm
  PROVE  Kept'
<1> SUFFICES ASSUME NEW u \in Token PROVE covered'[u] <= bal'["hot"][u]
  BY DEF Kept
<1>1. covered[u] <= bal["hot"][u] /\ {covered[u], bal["hot"][u], bal'["hot"][u]} \subseteq Nat
  BY Names, Amounts DEF Kept, TypeOK
<1>2. CASE Comes(u)
  BY <1>1, <1>2 DEF Comes
<1>3. CASE Goes(u)
  BY <1>3 DEF Goes
<1> QED
  BY <1>2, <1>3 DEF Calm

LEMMA BaseStep ==
  ASSUME TypeOK, Kept, [Next]_vars
  PROVE  TypeOK' /\ Kept'
BY CalmStep, CalmKept, ShareStep, StillStep

LEMMA BaseInit == Init => TypeOK /\ Kept
<1>1. ASSUME Init, NEW u \in Token
      PROVE  covered[u] <= bal["hot"][u]
  <2>1. covered[u] = 0 /\ bal["hot"][u] = 0
    BY <1>1, Names DEF Init, NoAmounts
  <2> QED
    BY <2>1
<1> QED
  BY <1>1, InitType DEF Kept

\* Every variable of the fund manager keeps its type: no step sends more than there
\* is, and nothing is counted below zero.
THEOREM TypeCorrect == Spec => []TypeOK
<1>1. Spec => [](TypeOK /\ Kept)
  BY BaseInit, BaseStep, PTL DEF Spec
<1> QED
  BY <1>1, PTL

-----------------------------------------------------------------------------
(* Attempts *)

(* Without blocks, a job is due by the state in memory or in the file only if it may be. *)
AttemptInv ==
  ~ BlockBased =>
    /\ due \subseteq entitled \cup RunningJob
    /\ saved \subseteq entitled \cup unsaved \cup RunningJob

LEMMA AttemptInit == Init => AttemptInv
BY DEF Init, AttemptInv

(* A step that leaves the records alone ends no job without a record. *)
LEMMA AttemptQuiet ==
  ASSUME AttemptInv, UNCHANGED stateVars, RunningJob \subseteq RunningJob'
  PROVE  AttemptInv'
<1>1. due' = due /\ saved' = saved /\ entitled' = entitled /\ unsaved' = unsaved
  BY DEF stateVars
<1> QED
  BY <1>1 DEF AttemptInv

LEMMA AttemptStep ==
  ASSUME TypeOK, AttemptInv, [Next]_vars
  PROVE  AttemptInv'
<1> USE DEF RunningJob, CycleSteps, GasSteps
<1>1. CASE NotDue \/ WithdrawDone \/ SharesDisabled \/ ShareDone \/ SweepDone
  <2>1. UNCHANGED stateVars /\ RunningJob \subseteq RunningJob'
    BY <1>1 DEF NotDue, WithdrawDone, SharesDisabled, ShareDone, SweepDone
  <2> QED
    BY <2>1, AttemptQuiet
<1>2. CASE TopUp \/ TopUpBuffer \/ PlanShares \/ PlanRemainder \/ Swap
  <2>1. UNCHANGED stateVars /\ RunningJob \subseteq RunningJob'
    BY <1>2 DEF TopUp, TopUpBuffer, PlanShares, PlanRemainder, Swap
  <2> QED
    BY <2>1, AttemptQuiet
<1>3. CASE Share \/ \E t \in Token : Withdraw(t) \/ SendRemainder(t)
  <2>1. UNCHANGED <<stateVars, pc>>
    BY <1>3, ShareCases DEF Withdraw, SendRemainder
  <2> QED
    BY <2>1, AttemptQuiet
<1>4. CASE CycleStart
  BY <1>4 DEF CycleStart, AttemptInv
<1>5. CASE GasStart
  BY <1>5 DEF GasStart, AttemptInv
<1>6. CASE RecordCycle
  BY <1>6 DEF RecordCycle, Record, Remember, AttemptInv, TypeOK, Job
<1>7. CASE RecordGas
  BY <1>7 DEF RecordGas, Record, Remember, AttemptInv, TypeOK, Job
<1>8. CASE Crash
  <2>1. /\ due' = {} /\ saved' = saved /\ entitled' = entitled /\ unsaved' = unsaved \cup RunningJob
    BY <1>8 DEF Crash
  <2> QED
    BY <2>1 DEF AttemptInv
<1>9. CASE Restart
  BY <1>9 DEF Restart, AttemptInv
<1>10. CASE \E j \in Job : IntervalPasses(j)
  BY <1>10 DEF IntervalPasses, AttemptInv
<1>11. CASE \/ \E t \in Token : BwWithdraw(t) \/ BwSend(t) \/ SwitchMethod(t)
            \/ \E t \in Token, n \in Payment : Pay(t, n)
            \/ ServerPays \/ UNCHANGED vars
  <2>1. UNCHANGED <<stateVars, pc>>
    BY <1>11 DEF BwWithdraw, BwSend, SwitchMethod, Pay, ServerPays, vars
  <2> QED
    BY <2>1, AttemptQuiet
<1> QED
  BY <1>1, <1>2, <1>3, <1>4, <1>5, <1>6, <1>7, <1>8, <1>9, <1>10, <1>11 DEF Next, Run, World

\* A job counted in time is tried once per interval, for any recipients, faults and acts
\* of the operator (index.ts:135-140); counted in blocks, it is not (README, section 3).
THEOREM AttemptsCorrect == Spec => [](~ BlockBased => AttemptsSpaced)
<1>1. Init => TypeOK /\ Kept /\ AttemptInv
  BY BaseInit, AttemptInit
<1>2. TypeOK /\ Kept /\ AttemptInv /\ [Next]_vars => (TypeOK /\ Kept /\ AttemptInv)'
  BY BaseStep, AttemptStep
<1>3. AttemptInv => (~ BlockBased => AttemptsSpaced)
  BY DEF AttemptInv, AttemptsSpaced
<1> QED
  BY <1>1, <1>2, <1>3, PTL DEF Spec

-----------------------------------------------------------------------------
(* Nothing is shared twice unnoticed *)

Sharing == {"share", "remainder", "sweep"}

(* The sweep has come to, or still will come to, all that was shared already. *)
SharedInv ==
  /\ SharedOnce
  /\ pc = "sweep" => \A u \in Token :
       /\ covered[u] > 0 => u \in unswept \cup todo
       /\ u \in todo => covered[u] <= snap[u]

LEMMA SharedInit == Init => SharedInv
BY DEF Init, SharedInv, SharedOnce, NoAmounts

(* A calm step adds nothing to what was shared already. *)
LEMMA CalmLess ==
  ASSUME TypeOK, TypeOK', Calm, NEW u \in Token
  PROVE  /\ covered'[u] <= covered[u] /\ {covered[u], covered'[u], snap[u], snap'[u]} \subseteq Nat
         /\ covered'[u] > 0 => covered[u] > 0
<1>1. {covered[u], covered'[u], snap[u], snap'[u]} \subseteq Nat
  BY DEF TypeOK
<1>2. covered'[u] <= covered[u]
  BY <1>1 DEF Calm, Comes, Goes
<1> QED
  BY <1>1, <1>2

(* Steps that stay on one side of the sharing, or start it. *)
LEMMA SharedQuiet ==
  ASSUME TypeOK, TypeOK', SharedInv, Calm, unswept \subseteq unswept',
         \/ pc \notin Sharing /\ pc' \notin Sharing
         \/ pc' \in {"share", "remainder"}
         \/ pc' = pc /\ UNCHANGED <<todo, snap>>
  PROVE  SharedInv'
<1>1. ASSUME pc' \notin Sharing, NEW u \in Token, covered'[u] > 0
      PROVE  u \in unswept'
  BY <1>1, CalmLess DEF SharedInv, SharedOnce, Sharing
<1>2. ASSUME pc' = "sweep", NEW u \in Token
      PROVE  (covered'[u] > 0 => u \in unswept' \cup todo') /\ (u \in todo' => covered'[u] <= snap'[u])
  <2>1. pc = "sweep" /\ todo' = todo /\ snap' = snap
    BY <1>2 DEF Sharing
  <2>2. (covered[u] > 0 => u \in unswept \cup todo) /\ (u \in todo => covered[u] <= snap[u])
    BY <2>1 DEF SharedInv
  <2> QED
    BY <2>1, <2>2, CalmLess
<1> QED
  BY <1>1, <1>2 DEF SharedInv, SharedOnce, Sharing

LEMMA SharedPlan ==
  ASSUME TypeOK, Kept, PlanRemainder
  PROVE  SharedInv'
<1>1. CASE \E S \in SUBSET active :
             /\ snap' = [t \in Token |-> IF t \in S THEN bal["hot"][t] ELSE 0]
             /\ unswept' = unswept \cup (Token \ S)
             /\ todo' = {t \in Token : snap'[t] > 0}
             /\ pc' = "sweep"
  <2>1. PICK S \in SUBSET active :
          /\ snap' = [t \in Token |-> IF t \in S THEN bal["hot"][t] ELSE 0]
          /\ unswept' = unswept \cup (Token \ S)
          /\ todo' = {t \in Token : snap'[t] > 0}
    BY <1>1
  <2>2. covered' = covered
    BY DEF PlanRemainder
  <2>3. ASSUME NEW u \in Token
        PROVE  (covered'[u] > 0 => u \in unswept' \cup todo') /\ (u \in todo' => covered'[u] <= snap'[u])
    <3>1. covered[u] <= bal["hot"][u] /\ {covered[u], bal["hot"][u]} \subseteq Nat
      BY Amounts DEF Kept
    <3>2. CASE u \in S
      <4>1. snap'[u] = bal["hot"][u] /\ (u \in todo' <=> bal["hot"][u] > 0)
        BY <2>1, <3>2
      <4> QED
        BY <2>2, <3>1, <4>1
    <3>3. CASE u \notin S
      <4>1. snap'[u] = 0 /\ u \in unswept' /\ u \notin todo'
        BY <2>1, <3>3
      <4> QED
        BY <4>1
    <3> QED
      BY <3>2, <3>3
  <2> QED
    BY <1>1, <2>3 DEF SharedInv, SharedOnce
<1>2. CASE unswept' = Token /\ pc' = "record"
  BY <1>2 DEF SharedInv, SharedOnce
<1> QED
  BY <1>1, <1>2 DEF PlanRemainder

LEMMA SharedSweep ==
  ASSUME TypeOK, TypeOK', Kept, SharedInv, NEW t \in Token, SendRemainder(t)
  PROVE  SharedInv'
<1>1. pc = "sweep" /\ pc' = "sweep" /\ t \in todo /\ todo' = todo \ {t} /\ snap' = snap
  BY DEF SendRemainder
<1>2. \A u \in Token : (covered[u] > 0 => u \in unswept \cup todo) /\ (u \in todo => covered[u] <= snap[u])
  BY <1>1 DEF SharedInv
<1>3. Calm
  BY SendRemainderStep
<1>4. CASE Leaves(t, snap[t]) /\ unswept' = unswept \ {t}
  <2>1. covered[t] <= snap[t] /\ snap[t] \in Nat /\ covered[t] \in Nat
    BY <1>1, <1>2, Amounts
  <2>2. covered'[t] = 0
    BY <1>4, <2>1, LeavesFacts
  <2> QED
    BY <1>1, <1>2, <1>3, <1>4, <2>2, CalmLess DEF SharedInv, SharedOnce
<1>5. CASE unswept' = unswept \cup {t}
  BY <1>1, <1>2, <1>3, <1>5, CalmLess DEF SharedInv, SharedOnce
<1> QED
  BY <1>4, <1>5 DEF SendRemainder

LEMMA SharedStep ==
  ASSUME TypeOK, Kept, SharedInv, [Next]_vars
  PROVE  SharedInv'
<1>1. TypeOK'
  BY BaseStep
<1>2. ~ Share => Calm
  BY CalmStep, StillStep
<1>3. CASE NotDue \/ CycleStart \/ WithdrawDone \/ GasStart \/ Restart \/ TopUp \/ TopUpBuffer \/ Swap
           \/ \E t \in Token : Withdraw(t)
  <2>1. \/ pc' \notin Sharing /\ pc \notin Sharing
        \/ pc' = pc /\ UNCHANGED <<todo, snap>>
    BY <1>3 DEF NotDue, CycleStart, WithdrawDone, GasStart, Restart, TopUp, TopUpBuffer, Swap, Withdraw, Sharing, loopVars
  <2>2. unswept' = unswept
    BY <1>3 DEF NotDue, CycleStart, WithdrawDone, GasStart, Restart, TopUp, TopUpBuffer, Swap, Withdraw, shareVars
  <2>3. Calm
    BY <1>3, QuietCalm, TopUpStep, TopUpBufferStep, SwapStep, WithdrawStep
  <2> QED
    BY <1>1, <2>1, <2>2, <2>3, SharedQuiet
<1>4. CASE RecordCycle \/ RecordGas
  <2>1. pc \notin Sharing /\ pc' \notin Sharing /\ unswept' = unswept
    BY <1>4 DEF RecordCycle, RecordGas, Record, Sharing
  <2>2. Calm
    BY <1>4, RecordStep DEF RecordCycle, RecordGas, Job
  <2> QED
    BY <1>1, <2>1, <2>2, SharedQuiet
<1>5. CASE PlanShares \/ SharesDisabled \/ ShareDone
  <2>1. pc' \in {"share", "remainder"} /\ unswept' = unswept
    BY <1>5 DEF PlanShares, SharesDisabled, ShareDone, shareVars
  <2>2. Calm
    BY <1>5, QuietCalm, PlanSharesStep
  <2> QED
    BY <1>1, <2>1, <2>2, SharedQuiet
<1>6. CASE Share
  <2>1. pc' = "share"
    BY <1>6, ShareCases
  <2> QED
    BY <2>1 DEF SharedInv, SharedOnce
<1>7. CASE PlanRemainder
  BY <1>7, SharedPlan
<1>8. CASE \E t \in Token : SendRemainder(t)
  BY <1>1, <1>8, SharedSweep
<1>9. CASE SweepDone
  BY <1>9 DEF SweepDone, SharedInv, SharedOnce, shareVars, loopVars
<1>10. CASE Crash
  BY <1>10 DEF Crash, SharedInv, SharedOnce
<1>11. CASE \/ \E j \in Job : IntervalPasses(j)
            \/ \E t \in Token : BwWithdraw(t) \/ BwSend(t) \/ SwitchMethod(t)
            \/ \E t \in Token, n \in Payment : Pay(t, n)
            \/ ServerPays \/ UNCHANGED vars
  <2>1. pc' = pc /\ UNCHANGED <<todo, snap>> /\ unswept \subseteq unswept'
    BY <1>11 DEF IntervalPasses, BwWithdraw, BwSend, SwitchMethod, Pay, ServerPays, vars, loopVars, shareVars
  <2>2. Calm
    BY <1>11, QuietCalm, BwStep, PayStep, ServerPaysStep, StillStep
  <2> QED
    BY <1>1, <2>1, <2>2, SharedQuiet
<1> QED
  BY <1>3, <1>4, <1>5, <1>6, <1>7, <1>8, <1>9, <1>10, <1>11 DEF Next, Run, World

\* Whatever crashes, is refused or is switched off: what was shared already is in the hot
\* wallet when a cycle starts (distribution.ts:126) only where its rest could not be sent.
THEOREM SharedOnceCorrect == Spec => []SharedOnce
<1>1. Spec => [](TypeOK /\ Kept /\ SharedInv)
  BY BaseInit, BaseStep, SharedInit, SharedStep, PTL DEF Spec
<1>2. SharedInv => SharedOnce
  BY DEF SharedInv
<1> QED
  BY <1>1, <1>2, PTL

-----------------------------------------------------------------------------
(* What is left of Swept without fairness: a job ends, and a sweep that    *)
(* ends leaves nothing                                                     *)

(* During the sweep, a token still to come is in the hot wallet as it was  *)
(* read, and one that is done is gone or counted as unswept.               *)
SweepInv ==
  manual = 0 =>
    /\ active = Token
    /\ pc = "sweep" =>
         \A t \in Token :
           IF t \in todo THEN bal["hot"][t] = snap[t]
                         ELSE bal["hot"][t] = 0 \/ t \in unswept

(* The steps of a job that are still to come after this one. *)
Phase ==
  CASE pc = "withdraw" -> 8
    [] pc = "topup" -> 7
    [] pc = "buffer" -> 6
    [] pc = "plan" -> 5
    [] pc = "share" -> 4
    [] pc \in {"remainder", "gastopup"} -> 3
    [] pc \in {"sweep", "swap"} -> 2
    [] pc \in {"record", "gasrecord"} -> 1
    [] OTHER -> 0

(* A step of a job ends its phase, a token or a recipient. *)
Advances ==
  \/ Phase' < Phase
  \/ pc' = pc /\ todo' \subseteq todo /\ todo' # todo
  \/ pc' = pc /\ todo' = todo /\ next' > next

LEMMA SweepInit == Init => SweepInv
BY DEF Init, SweepInv

(* The balances are read as they are; what could not be read is unswept. *)
LEMMA SweepPlan ==
  ASSUME TypeOK, active = Token, PlanRemainder, pc' = "sweep", NEW t \in Token
  PROVE  IF t \in todo' THEN bal'["hot"][t] = snap'[t] ELSE bal'["hot"][t] = 0 \/ t \in unswept'
<1>1. PICK S \in SUBSET active :
        /\ snap' = [u \in Token |-> IF u \in S THEN bal["hot"][u] ELSE 0]
        /\ unswept' = unswept \cup (Token \ S)
  BY DEF PlanRemainder
<1>2. todo' = {u \in Token : snap'[u] > 0} /\ bal' = bal
  BY DEF PlanRemainder, moneyVars
<1>3. bal["hot"][t] \in Nat BY Amounts
<1>4. snap'[t] = IF t \in S THEN bal["hot"][t] ELSE 0 BY <1>1
<1>5. QED BY <1>1, <1>2, <1>3, <1>4

(* What is sent is all there is, and a token not sent is unswept. *)
LEMMA SweepSend ==
  ASSUME TypeOK, NEW s \in Token, SendRemainder(s), NEW t \in Token,
         IF t \in todo THEN bal["hot"][t] = snap[t] ELSE bal["hot"][t] = 0 \/ t \in unswept
  PROVE  IF t \in todo' THEN bal'["hot"][t] = snap'[t] ELSE bal'["hot"][t] = 0 \/ t \in unswept'
<1>1. s \in todo /\ todo' = todo \ {s} /\ snap' = snap BY DEF SendRemainder
<1>2. snap[s] \in Nat /\ bal["hot"][t] \in Nat BY Amounts
<1>3. CASE Transfer("hot", s, "hot", "admin", snap[s]) /\ unswept' = unswept \ {s}
  <2>1. /\ bal'["hot"][s] = bal["hot"][s] - snap[s]
        /\ t # s => bal'["hot"][t] = bal["hot"][t]
    BY <1>2, <1>3, Names, TransferFacts
  <2>2. CASE t = s BY <1>1, <1>2, <2>1, <2>2
  <2>3. CASE t # s BY <1>1, <1>3, <2>1, <2>3
  <2> QED BY <2>2, <2>3
<1>4. CASE Refused("hot", s, "hot", snap[s]) /\ unswept' = unswept \cup {s}
  BY <1>1, <1>4, RefusedFacts DEF moneyVars
<1> QED BY <1>3, <1>4 DEF SendRemainder

LEMMA SweepStep ==
  ASSUME TypeOK, SweepInv, [Next]_vars
  PROVE  SweepInv'
<1> SUFFICES ASSUME manual' = 0 PROVE SweepInv' BY DEF SweepInv
<1>1. ~ Manually
  BY DEF Manually, TypeOK
<1>2. manual' = manual /\ active' = active
  BY <1>1
  DEF Next, Run, World, NotDue, CycleStart, WithdrawDone, TopUp, TopUpBuffer, PlanShares,
      SharesDisabled, Share, ShareDone, PlanRemainder, SweepDone, RecordCycle, RecordGas, Record,
      GasStart, Swap, Withdraw, SendRemainder, IntervalPasses, BwWithdraw, BwSend, SwitchMethod,
      Pay, ServerPays, Crash, Restart, envVars, vars
<1>3. active = Token BY <1>2 DEF SweepInv
<1>4. CASE PlanRemainder
  BY <1>2, <1>3, <1>4, SweepPlan DEF SweepInv
<1>5. CASE \E s \in Token : SendRemainder(s)
  <2>1. PICK s \in Token : SendRemainder(s) BY <1>5
  <2>2. pc = "sweep" BY <2>1 DEF SendRemainder
  <2> QED BY <1>2, <1>3, <2>1, <2>2, SweepSend DEF SweepInv
<1>6. CASE \E t \in Token, n \in Payment : Pay(t, n)
  <2>1. PICK t \in Token, n \in Payment : Pay(t, n) BY <1>6
  <2>2. bal'["hot"] = bal["hot"] BY <2>1, Names DEF Pay, TypeOK
  <2> QED BY <1>2, <1>3, <2>1, <2>2 DEF Pay, SweepInv, loopVars, shareVars
<1>7. CASE UNCHANGED vars
  BY <1>7 DEF SweepInv, vars, moneyVars, loopVars, shareVars, envVars
<1>8. CASE pc' # "sweep" BY <1>2, <1>3, <1>8 DEF SweepInv
<1> QED
  BY <1>1, <1>4, <1>5, <1>6, <1>7, <1>8
  DEF Next, Run, World, NotDue, CycleStart, WithdrawDone, TopUp, TopUpBuffer, PlanShares,
      SharesDisabled, Share, ShareDone, SweepDone, RecordCycle, RecordGas, Record, GasStart,
      Swap, Withdraw, IntervalPasses, BwWithdraw, BwSend, SwitchMethod, ServerPays, Crash, Restart

\* When the sweep of a cycle is over, without an act of the operator, a token is either gone
\* from the hot wallet or counted as unswept: it was refused, or its balance was not read
\* (distribution.ts, the balances of step 5 read anew).
THEOREM SweepEmpties ==
  Spec => [](pc = "sweep" /\ todo = {} /\ manual = 0
             => \A t \in Token : bal["hot"][t] = 0 \/ t \in unswept)
<1>1. Spec => [](TypeOK /\ Kept /\ SweepInv)
  BY BaseInit, BaseStep, SweepInit, SweepStep, PTL DEF Spec
<1>2. SweepInv => (pc = "sweep" /\ todo = {} /\ manual = 0
                   => \A t \in Token : bal["hot"][t] = 0 \/ t \in unswept)
  BY DEF SweepInv
<1> QED
  BY <1>1, <1>2, PTL

(* What a step of a job is, and what anybody else's. *)
JobStep ==
  RunningJob # {} =>
    \/ Run /\ Advances
    \/ ~ Run /\ UNCHANGED <<pc, todo, next>>
    \/ pc' = "down"

LEMMA RunAdvances ==
  ASSUME TypeOK, Run, RunningJob # {}
  PROVE  Advances
<1> USE DEF Advances
<1>1. pc \in CycleSteps \cup GasSteps BY DEF RunningJob
<1>2. CASE \E t \in Token : Withdraw(t) \/ SendRemainder(t)
  BY <1>2 DEF Withdraw, SendRemainder
<1>3. CASE Share
  <2>1. next \in Int BY Accounts DEF TypeOK
  <2>2. next' = IF next = Len(Recipients) THEN 1 ELSE next + 1 BY <1>3 DEF Share
  <2>3. pc' = pc /\ todo' = IF next = Len(Recipients) THEN todo \ {Current} ELSE todo
    BY <1>3 DEF Share, Current
  <2>4. Current \in todo BY <1>3 DEF Share, Current
  <2>5. CASE next = Len(Recipients) BY <2>3, <2>4, <2>5
  <2>6. CASE next # Len(Recipients) BY <2>1, <2>2, <2>3, <2>6
  <2> QED BY <2>5, <2>6
<1>4. CASE WithdrawDone \/ ShareDone \/ SweepDone \/ SharesDisabled \/ PlanShares \/ Swap
  BY <1>4 DEF WithdrawDone, ShareDone, SweepDone, SharesDisabled, PlanShares, Swap, Phase
<1>5. CASE TopUp
  <2>1. \/ pc = "topup" /\ pc' \in {"buffer", "record"}
        \/ pc = "gastopup" /\ pc' \in {"swap", "gasrecord"}
    BY <1>5 DEF TopUp
  <2> QED BY <2>1 DEF Phase
<1>6. CASE TopUpBuffer
  <2>1. pc = "buffer" /\ pc' \in {"plan", "record"} BY <1>6 DEF TopUpBuffer
  <2> QED BY <2>1 DEF Phase
<1>7. CASE PlanRemainder
  <2>1. pc = "remainder" /\ pc' \in {"sweep", "record"} BY <1>7 DEF PlanRemainder
  <2> QED BY <2>1 DEF Phase
<1>8. CASE RecordCycle \/ RecordGas
  <2>1. pc \in {"record", "gasrecord"} /\ pc' \in {"gaspoll", "idle"}
    BY <1>8 DEF RecordCycle, RecordGas, Record
  <2> QED BY <2>1 DEF Phase
<1> QED
  BY <1>1, <1>2, <1>3, <1>4, <1>5, <1>6, <1>7, <1>8
  DEF Run, NotDue, CycleStart, GasStart, CycleSteps, GasSteps

\* A job that was begun comes to its record, whatever is refused or lost on the way: each
\* of its steps ends a phase, a token or a recipient, and nobody else's step sets it back
\* (the loops of runFundCycle, distributeRevenue and sendRemainderToAdmin).
THEOREM JobAdvances == Spec => [][JobStep]_vars
<1>1. ASSUME TypeOK, [Next]_vars PROVE [JobStep]_vars
  <2>1. CASE Run
    <3>1. RunningJob # {} => Advances BY <1>1, <2>1, RunAdvances
    <3> QED BY <2>1, <3>1 DEF JobStep
  <2>2. CASE ~ Run /\ (World \/ Restart \/ Crash)
    <3>1. pc' = "down" \/ pc = "down" \/ UNCHANGED <<pc, todo, next>>
      BY <2>2 DEF World, IntervalPasses, BwWithdraw, BwSend, SwitchMethod, Pay, ServerPays, Restart,
              Crash, loopVars
    <3> QED BY <2>2, <3>1 DEF JobStep, RunningJob, CycleSteps, GasSteps
  <2> QED BY <1>1, <2>1, <2>2 DEF Next
<1>2. Spec => []TypeOK BY TypeCorrect
<1> QED
  BY <1>1, <1>2, PTL DEF Spec

-----------------------------------------------------------------------------
(* The share of the revenue *)

(* p may be paid out of q. *)
Allowed(p, q) == p * Whole <= TotalPercent * q

LEMMA AllowedMono ==
  ASSUME NEW p \in Int, NEW q \in Int, NEW r \in Int, q <= r, Allowed(p, q)
  PROVE  Allowed(p, r)
<1>1. TotalPercent \in Nat /\ Whole \in Nat
  BY FundAssumption
<1>2. \A x, y \in Int, z \in Nat : x <= y => z * x <= z * y
  OBVIOUS
<1>3. TotalPercent * q <= TotalPercent * r
  BY <1>1, <1>2
<1>4. \A x, y \in Int : x * y \in Int
  OBVIOUS
<1>5. {p * Whole, TotalPercent * q, TotalPercent * r} \subseteq Int
  BY <1>1, <1>4
<1> QED
  BY <1>3, <1>5 DEF Allowed

LEMMA AllowedShare ==
  ASSUME NEW p \in Int, NEW q \in Int, NEW n \in Nat, NEW s \in Nat, n <= ShareTotal(s), Allowed(p, q - s)
  PROVE  Allowed(p + n, q)
<1>1. TotalPercent \in Nat /\ Whole \in Nat
  BY FundAssumption
<1>2. \A x, y \in Int : x * y \in Int
  OBVIOUS
<1>3. \A x, y, z \in Int : (x + y) * z = x * z + y * z /\ z * (x - y) = z * x - z * y
  OBVIOUS
<1>4. ShareTotal(s) \in Nat /\ ShareTotal(s) * Whole <= s * TotalPercent
  BY ShareTotalFacts
<1>5. n * Whole <= ShareTotal(s) * Whole
  BY <1>1, <1>4, TimesMono
<1>6. (p + n) * Whole = p * Whole + n * Whole
  BY <1>1, <1>3
<1>7. TotalPercent * (q - s) = TotalPercent * q - TotalPercent * s
  BY <1>1, <1>3
<1>8. s * TotalPercent = TotalPercent * s
  BY <1>1
<1>9. {p * Whole, n * Whole, ShareTotal(s) * Whole, TotalPercent * q, TotalPercent * s} \subseteq Int
  BY <1>1, <1>2, <1>4
<1>10. p * Whole <= TotalPercent * q - TotalPercent * s
  BY <1>7 DEF Allowed
<1>11. n * Whole <= TotalPercent * s
  BY <1>4, <1>5, <1>8, <1>9
<1>12. p * Whole + n * Whole <= TotalPercent * q
  BY <1>9, <1>10, <1>11
<1> QED
  BY <1>6, <1>12 DEF Allowed

(* Revenue that came out of the contract, the money shared again with it, without what
   is in the hot wallet and still to be shared. *)
Counted(u) == revenue[u] - bal["contract"][u] + twice[u] - bal["hot"][u] + covered[u]

(* The same, as it will be with the first share of u in this cycle. *)
Over(u) == IF bal["hot"][u] > snap[u] THEN bal["hot"][u] - snap[u] ELSE 0
CountedThen(u) == revenue[u] - bal["contract"][u] + twice[u] + again[u] - Over(u)

LEMMA CountedInt ==
  ASSUME TypeOK, NEW u \in Token
  PROVE  {Counted(u), CountedThen(u), CountedThen(u) - snap[u], Counted(u) - snap[u]} \subseteq Int
BY Amounts DEF Counted, CountedThen, Over

(* A calm step takes nothing from what is counted. *)
LEMMA CalmCounted ==
  ASSUME TypeOK, TypeOK', Calm, UNCHANGED twice, NEW u \in Token
  PROVE  /\ Counted(u) <= Counted(u)'
         /\ UNCHANGED <<again, snap>> => CountedThen(u) <= CountedThen(u)'
<1>1. {covered[u], bal["hot"][u], bal["contract"][u], revenue[u], twice[u], again[u], snap[u]} \subseteq Nat
  BY Amounts
<1>2. {covered'[u], bal'["hot"][u], bal'["contract"][u], revenue'[u], twice'[u], again'[u], snap'[u]} \subseteq Nat
  BY Names DEF TypeOK
<1>3. twice'[u] = twice[u]
  OBVIOUS
<1>4. Counted(u) <= Counted(u)'
  BY <1>1, <1>2, <1>3 DEF Calm, Comes, Goes, Counted
<1>5. ASSUME UNCHANGED <<again, snap>>
      PROVE  CountedThen(u) <= CountedThen(u)'
  <2>1. again'[u] = again[u] /\ snap'[u] = snap[u]
    BY <1>5
  <2> QED
    BY <1>1, <1>2, <1>3, <2>1 DEF Calm, Comes, Goes, CountedThen, Over
<1> QED
  BY <1>4, <1>5

(* What is paid is allowed: of the revenue counted, and in a cycle with the shares of
   the balances read still to come. *)
PaidInv ==
  \A u \in Token :
    /\ Allowed(paid[u], Counted(u))
    /\ pc = "share" =>
         /\ given[u] = 0 => Allowed(paid[u], CountedThen(u) - snap[u])
         /\ given[u] > 0 => Allowed(paid[u] - given[u], Counted(u) - snap[u])

(* Where the loop over tokens and recipients is. *)
LoopInv ==
  /\ pc \notin {"share", "remainder", "sweep", "record"} => given = NoAmounts /\ snap = NoAmounts
  /\ pc = "remainder" => \A u \in Token \ unsent : given[u] = ShareTotal(snap[u])
  /\ pc = "share" =>
       /\ \A u \in Token \ todo :
            given[u] <= ShareTotal(snap[u]) /\ (u \notin unsent => given[u] = ShareTotal(snap[u]))
       /\ \A u \in todo \ {Current} : given[u] = 0
       /\ todo # {} =>
            /\ given[Current] <= distributed /\ (Current \notin unsent => given[Current] = distributed)
            /\ distributed * TotalPercent <= ShareTotal(snap[Current]) * Sum[next - 1]

(* There is room for the next share in what is to be shared of the token. *)
LEMMA LoopRoom ==
  ASSUME TypeOK, todo # {}, distributed * TotalPercent <= ShareTotal(snap[Current]) * Sum[next - 1]
  PROVE  /\ distributed + Due <= ShareTotal(snap[Current])
         /\ next # Len(Recipients) =>
              (distributed + Due) * TotalPercent <= ShareTotal(snap[Current]) * Sum[next]
         /\ next = Len(Recipients) /\ Known => distributed + Due = ShareTotal(snap[Current])
<1> DEFINE total == ShareTotal(snap[Current])
           percent == Recipients[next].percent
           before == Sum[next - 1]
           after == Sum[next]
<1>1. /\ Current \in Token /\ next \in DOMAIN Recipients /\ distributed \in Nat /\ Due \in Nat
      /\ total \in Nat /\ TotalPercent \in Nat \ {0}
  BY DueFacts, Amounts, FundAssumption DEF TypeOK
<1>2. /\ before \in Nat /\ after \in Nat /\ percent \in Nat
      /\ after = before + percent /\ before <= TotalPercent /\ after <= TotalPercent
  BY <1>1, SumFacts
<1>3. Due = IF Known THEN ShareOf(next, Current) ELSE 0
  BY DEF Due
<1>4. ShareOf(next, Current) = IF next = Len(Recipients)
                               THEN IF distributed >= total THEN 0 ELSE total - distributed
                               ELSE (total * percent) \div TotalPercent
  BY DEF ShareOf
<1>5. distributed * TotalPercent <= total * before
  OBVIOUS
<1> HIDE DEF total, percent, before, after
<1>6. /\ total * before \in Nat /\ total * percent \in Nat /\ total * after \in Nat /\ total * TotalPercent \in Nat
      /\ distributed * TotalPercent \in Nat
  BY <1>1, <1>2, TimesNat
<1>7. distributed <= total
  <2>1. total * before <= total * TotalPercent
    BY <1>1, <1>2, TimesMono
  <2>2. distributed * TotalPercent <= total * TotalPercent
    BY <1>5, <1>6, <2>1
  <2> QED
    BY <1>1, <2>2, TimesCancel
<1>8. CASE next = Len(Recipients)
  BY <1>1, <1>3, <1>4, <1>7, <1>8 DEF total, after
<1>9. CASE next # Len(Recipients)
  <2>1. Due * TotalPercent <= total * percent /\ Due * TotalPercent \in Nat
    <3>1. CASE Known
      BY <1>1, <1>3, <1>4, <1>6, <1>9, <3>1, DivBounds, TimesNat
    <3>2. CASE ~ Known
      BY <1>1, <1>3, <1>6, <3>2
    <3> QED
      BY <3>1, <3>2
  <2>2. (distributed + Due) * TotalPercent = distributed * TotalPercent + Due * TotalPercent
    <3>1. \A x, y, z \in Nat : (x + y) * z = x * z + y * z
      OBVIOUS
    <3> QED
      BY <1>1, <3>1
  <2>3. total * (before + percent) = total * before + total * percent
    <3>1. \A x, y, z \in Nat : z * (x + y) = z * x + z * y
      OBVIOUS
    <3> QED
      BY <1>1, <1>2, <3>1
  <2>4. (distributed + Due) * TotalPercent <= total * after
    BY <1>2, <1>5, <1>6, <2>1, <2>2, <2>3
  <2>5. distributed + Due <= total
    <3>1. total * after <= total * TotalPercent
      BY <1>1, <1>2, TimesMono
    <3>2. distributed + Due \in Nat
      BY <1>1
    <3>3. (distributed + Due) * TotalPercent \in Nat
      BY <1>1, <3>2, TimesNat
    <3>4. (distributed + Due) * TotalPercent <= total * TotalPercent
      BY <1>6, <2>4, <3>1, <3>3
    <3> QED
      BY <1>1, <3>2, <3>4, TimesCancel
  <2> QED
    BY <1>9, <2>4, <2>5 DEF total, after
<1> QED
  BY <1>8, <1>9

LEMMA LoopInit == Init => LoopInv
BY DEF Init, LoopInv

(* Of a balance of zero nothing is shared. *)
LEMMA NothingShared ==
  \A u \in Token : ShareTotal(NoAmounts[u]) = NoAmounts[u] /\ NoAmounts[u] = 0
BY ShareTotalFacts DEF NoAmounts

LEMMA LoopPlan ==
  ASSUME TypeOK, TypeOK', LoopInv, PlanShares
  PROVE  LoopInv'
<1>1. /\ pc' = "share" /\ next' = 1 /\ distributed' = 0 /\ given' = NoAmounts
      /\ todo' = {u \in Token : ShareTotal(snap'[u]) > 0}
  BY DEF PlanShares, LoopInv
<1>2. \A u \in Token : ShareTotal(snap'[u]) \in Nat /\ given'[u] = 0
  BY <1>1, ShareTotalFacts, NothingShared DEF TypeOK
<1>3. \A u \in Token \ todo' : given'[u] = ShareTotal(snap'[u]) /\ given'[u] <= ShareTotal(snap'[u])
  BY <1>1, <1>2
<1>4. todo' # {} => Current' \in todo' /\ Current' \in Token
  BY <1>1 DEF Current
<1>5. todo' # {} => distributed' * TotalPercent <= ShareTotal(snap'[Current']) * Sum[next' - 1]
  <2>1. Sum[0] = 0 /\ next' - 1 = 0 /\ TotalPercent \in Nat
    BY <1>1, SumFacts, FundAssumption
  <2>2. todo' # {} => ShareTotal(snap'[Current']) \in Nat
    BY <1>2, <1>4
  <2> QED
    BY <1>1, <2>1, <2>2
<1> QED
  BY <1>1, <1>2, <1>3, <1>4, <1>5 DEF LoopInv

LEMMA LoopShare ==
  ASSUME TypeOK, TypeOK', LoopInv, Share
  PROVE  LoopInv'
<1> DEFINE t == Current
           total == ShareTotal(snap[t])
<1>1. /\ pc = "share" /\ pc' = "share" /\ todo # {} /\ snap' = snap
      /\ next' = IF next = Len(Recipients) THEN 1 ELSE next + 1
      /\ distributed' = IF next = Len(Recipients) THEN 0 ELSE distributed + Due
      /\ todo' = IF next = Len(Recipients) THEN todo \ {t} ELSE todo
      /\ NotSent \/ Sent
  BY ShareCases
<1>2. t \in todo /\ t \in Token /\ Due \in Nat /\ next \in DOMAIN Recipients /\ distributed \in Nat /\ todo \subseteq Token
  BY <1>1, DueFacts DEF TypeOK
<1>3. /\ \A u \in Token \ todo :
            given[u] <= ShareTotal(snap[u]) /\ (u \notin unsent => given[u] = ShareTotal(snap[u]))
      /\ \A u \in todo \ {t} : given[u] = 0
      /\ given[t] <= distributed /\ (t \notin unsent => given[t] = distributed)
      /\ distributed * TotalPercent <= total * Sum[next - 1]
  BY <1>1 DEF LoopInv
<1>4. /\ distributed + Due <= total
      /\ next # Len(Recipients) => (distributed + Due) * TotalPercent <= total * Sum[next]
      /\ next = Len(Recipients) /\ Known => distributed + Due = total
  BY <1>1, <1>3, LoopRoom
<1> HIDE DEF t
<1>5. /\ \A u \in Token \ {t} : given'[u] = given[u] /\ (u \in unsent' <=> u \in unsent)
      /\ given'[t] <= distributed + Due
      /\ t \notin unsent' => Known /\ given'[t] = distributed + Due
      /\ given'[t] \in Nat
  <2>1. given[t] \in Nat
    BY <1>2 DEF TypeOK
  <2>2. CASE NotSent
    BY <1>2, <1>3, <2>1, <2>2 DEF NotSent, t
  <2>3. CASE Sent
    <3>1. /\ Known /\ unsent' = unsent /\ given'[t] = given[t] + Due
          /\ \A u \in Token \ {t} : given'[u] = given[u]
      BY <1>1, <2>3, SentFacts DEF Sent, t
    <3> QED
      BY <1>2, <1>3, <2>1, <3>1
  <2> QED
    BY <1>1, <2>2, <2>3
<1>6. total \in Nat
  BY <1>2, Amounts
<1>7. CASE next = Len(Recipients)
  <2>1. next' = 1 /\ distributed' = 0 /\ todo' = todo \ {t}
    BY <1>1, <1>7
  <2>2. \A u \in Token \ todo' :
          given'[u] <= ShareTotal(snap'[u]) /\ (u \notin unsent' => given'[u] = ShareTotal(snap'[u]))
    <3>1. given'[t] <= total /\ (t \notin unsent' => given'[t] = total)
      BY <1>2, <1>4, <1>5, <1>6, <1>7
    <3> QED
      BY <1>1, <1>3, <1>5, <2>1, <3>1
  <2>3. \A u \in todo' : given'[u] = 0
    BY <1>2, <1>3, <1>5, <2>1
  <2>4. todo' # {} => Current' \in todo' /\ Current' \in Token
    BY <1>2, <2>1 DEF Current
  <2>5. todo' # {} => distributed' * TotalPercent <= ShareTotal(snap'[Current']) * Sum[next' - 1]
    <3>1. Sum[0] = 0 /\ next' - 1 = 0 /\ TotalPercent \in Nat
      BY <2>1, SumFacts, FundAssumption
    <3>2. todo' # {} => ShareTotal(snap'[Current']) \in Nat
      BY <1>1, <2>4, Amounts
    <3> QED
      BY <2>1, <3>1, <3>2
  <2> QED
    BY <1>1, <2>1, <2>2, <2>3, <2>4, <2>5 DEF LoopInv
<1>8. CASE next # Len(Recipients)
  <2>1. next' = next + 1 /\ distributed' = distributed + Due /\ todo' = todo
    BY <1>1, <1>8
  <2>2. Current' = t
    BY <2>1 DEF Current, t
  <2>3. next' - 1 = next
    BY <1>2, <2>1, Accounts
  <2>4. distributed' * TotalPercent <= ShareTotal(snap'[Current']) * Sum[next' - 1]
    BY <1>1, <1>4, <1>8, <2>1, <2>2, <2>3
  <2>5. given'[Current'] <= distributed' /\ (Current' \notin unsent' => given'[Current'] = distributed')
    BY <1>5, <2>1, <2>2
  <2>6. \A u \in todo' \ {Current'} : given'[u] = 0
    BY <1>2, <1>3, <1>5, <2>1, <2>2
  <2>7. \A u \in Token \ todo' :
          given'[u] <= ShareTotal(snap'[u]) /\ (u \notin unsent' => given'[u] = ShareTotal(snap'[u]))
    BY <1>1, <1>2, <1>3, <1>5, <2>1
  <2> QED
    BY <1>1, <2>4, <2>5, <2>6, <2>7 DEF LoopInv
<1> QED
  BY <1>7, <1>8

(* The other steps before, in and after the loop. *)
LEMMA LoopOther ==
  ASSUME TypeOK, LoopInv,
         \/ /\ pc \notin {"share", "remainder", "sweep", "record"} /\ pc' \notin {"share", "remainder"}
            /\ UNCHANGED <<given, snap>>
         \/ pc' \in {"sweep", "record"}
         \/ pc' \notin {"share", "remainder"} /\ given' = NoAmounts /\ snap' = NoAmounts
         \/ pc' = pc /\ UNCHANGED <<loopVars, given, unsent>>
         \/ ShareDone \/ SharesDisabled
  PROVE  LoopInv'
<1>1. CASE /\ pc \notin {"share", "remainder", "sweep", "record"} /\ pc' \notin {"share", "remainder"}
           /\ UNCHANGED <<given, snap>>
  BY <1>1 DEF LoopInv
<1>2. CASE pc' \in {"sweep", "record"}
  BY <1>2 DEF LoopInv
<1>3. CASE pc' \notin {"share", "remainder"} /\ given' = NoAmounts /\ snap' = NoAmounts
  BY <1>3 DEF LoopInv, NoAmounts
<1>4. CASE pc' = pc /\ UNCHANGED <<loopVars, given, unsent>>
  <2>1. /\ pc' = pc /\ todo' = todo /\ snap' = snap /\ next' = next /\ distributed' = distributed
        /\ given' = given /\ unsent' = unsent
    BY <1>4 DEF loopVars
  <2>2. Current' = Current
    BY <2>1 DEF Current
  <2>3. NoAmounts' = NoAmounts
    BY DEF NoAmounts
  <2> QED
    BY <2>1, <2>2, <2>3 DEF LoopInv
<1>5. CASE ShareDone
  <2>1. pc = "share" /\ todo = {} /\ pc' = "remainder" /\ given' = given /\ snap' = snap /\ unsent' = unsent
    BY <1>5 DEF ShareDone, loopVars, shareVars
  <2> QED
    BY <2>1 DEF LoopInv
<1>6. CASE SharesDisabled
  <2>1. pc = "plan" /\ pc' = "remainder" /\ given' = given /\ snap' = snap
    BY <1>6 DEF SharesDisabled, loopVars, shareVars
  <2>2. \A u \in Token : given'[u] = ShareTotal(snap'[u])
    BY <2>1, NothingShared DEF LoopInv
  <2> QED
    BY <2>1, <2>2 DEF LoopInv
<1> QED
  BY <1>1, <1>2, <1>3, <1>4, <1>5, <1>6

LEMMA LoopStep ==
  ASSUME TypeOK, TypeOK', LoopInv, [Next]_vars
  PROVE  LoopInv'
<1>1. CASE NotDue \/ CycleStart \/ WithdrawDone \/ GasStart \/ Restart \/ Swap \/ TopUp \/ TopUpBuffer
           \/ \E t \in Token : Withdraw(t)
  <2>1. UNCHANGED <<given, snap>>
    BY <1>1 DEF NotDue, CycleStart, WithdrawDone, GasStart, Restart, Swap, TopUp, TopUpBuffer, Withdraw,
                loopVars, shareVars
  <2>2. pc \notin {"share", "remainder", "sweep", "record"} /\ pc' \notin {"share", "remainder"}
    BY <1>1 DEF NotDue, CycleStart, WithdrawDone, GasStart, Restart, Swap, TopUp, TopUpBuffer, Withdraw
  <2> QED
    BY <2>1, <2>2, LoopOther
<1>2. CASE PlanRemainder \/ SweepDone \/ \E t \in Token : SendRemainder(t)
  <2>1. pc' \in {"sweep", "record"}
    BY <1>2 DEF PlanRemainder, SweepDone, SendRemainder
  <2> QED
    BY <2>1, LoopOther
<1>3. CASE RecordCycle \/ RecordGas \/ Crash
  <2>1. pc' \notin {"share", "remainder"} /\ given' = NoAmounts /\ snap' = NoAmounts
    BY <1>3 DEF RecordCycle, RecordGas, Record, Crash, LocalsGone
  <2> QED
    BY <2>1, LoopOther
<1>4. CASE \/ \E j \in Job : IntervalPasses(j)
           \/ \E t \in Token : BwWithdraw(t) \/ BwSend(t) \/ SwitchMethod(t)
           \/ \E t \in Token, n \in Payment : Pay(t, n)
           \/ ServerPays \/ UNCHANGED vars
  <2>1. pc' = pc /\ UNCHANGED <<loopVars, given, unsent>>
    BY <1>4 DEF IntervalPasses, BwWithdraw, BwSend, SwitchMethod, Pay, ServerPays, vars, shareVars
  <2> QED
    BY <2>1, LoopOther
<1>5. CASE ShareDone \/ SharesDisabled
  BY <1>5, LoopOther
<1>6. CASE PlanShares
  BY <1>6, LoopPlan
<1>7. CASE Share
  BY <1>7, LoopShare
<1> QED
  BY <1>1, <1>2, <1>3, <1>4, <1>5, <1>6, <1>7 DEF Next, Run, World

LEMMA PaidInit == Init => PaidInv
<1>1. ASSUME Init, NEW u \in Token
      PROVE  Allowed(paid[u], Counted(u)) /\ pc # "share"
  <2>1. /\ paid[u] = 0 /\ revenue[u] = 0 /\ twice[u] = 0 /\ covered[u] = 0
        /\ bal["hot"][u] = 0 /\ bal["contract"][u] = 0 /\ pc = "idle"
    BY <1>1, Names DEF Init, NoAmounts
  <2>2. TotalPercent \in Nat /\ Whole \in Nat
    BY FundAssumption
  <2> QED
    BY <2>1, <2>2 DEF Allowed, Counted
<1> QED
  BY <1>1 DEF PaidInv

(* Steps that share nothing. *)
LEMMA PaidQuiet ==
  ASSUME TypeOK, TypeOK', PaidInv, Calm, UNCHANGED <<paid, twice>>,
         pc' # "share" \/ (pc = "share" /\ UNCHANGED <<given, again, snap>>)
  PROVE  PaidInv'
<1> SUFFICES ASSUME NEW u \in Token
             PROVE  /\ Allowed(paid'[u], Counted(u)')
                    /\ pc' = "share" =>
                         /\ given'[u] = 0 => Allowed(paid'[u], CountedThen(u)' - snap'[u])
                         /\ given'[u] > 0 => Allowed(paid'[u] - given'[u], Counted(u)' - snap'[u])
  BY DEF PaidInv, Allowed
<1>1. Counted(u) <= Counted(u)' /\ (UNCHANGED <<again, snap>> => CountedThen(u) <= CountedThen(u)')
  BY CalmCounted
<1>2. {Counted(u), Counted(u)', CountedThen(u), CountedThen(u)', paid[u], given[u], snap[u]} \subseteq Int
  <2>1. {Counted(u), CountedThen(u), paid[u], given[u], snap[u]} \subseteq Int
    BY CountedInt, Amounts
  <2>2. {covered'[u], bal'["hot"][u], bal'["contract"][u], revenue'[u], twice'[u], again'[u], snap'[u]} \subseteq Nat
    BY Names DEF TypeOK
  <2>3. Counted(u)' \in Int /\ CountedThen(u)' \in Int
    BY <2>2 DEF Counted, CountedThen, Over
  <2> QED
    BY <2>1, <2>3
<1>3. paid' = paid
  OBVIOUS
<1>4. Allowed(paid'[u], Counted(u)')
  <2>1. Allowed(paid[u], Counted(u))
    BY DEF PaidInv
  <2> QED
    BY <1>1, <1>2, <1>3, <2>1, AllowedMono
<1>5. ASSUME pc' = "share"
      PROVE  /\ given'[u] = 0 => Allowed(paid'[u], CountedThen(u)' - snap'[u])
             /\ given'[u] > 0 => Allowed(paid'[u] - given'[u], Counted(u)' - snap'[u])
  <2>1. pc = "share" /\ given' = given /\ again' = again /\ snap' = snap
    BY <1>5
  <2>2. given[u] = 0 => Allowed(paid[u], CountedThen(u) - snap[u])
    BY <2>1 DEF PaidInv
  <2>3. given[u] > 0 => Allowed(paid[u] - given[u], Counted(u) - snap[u])
    BY <2>1 DEF PaidInv
  <2>4. CountedThen(u) - snap[u] <= CountedThen(u)' - snap[u] /\ Counted(u) - snap[u] <= Counted(u)' - snap[u]
    BY <1>1, <1>2, <2>1
  <2>5. {CountedThen(u) - snap[u], CountedThen(u)' - snap[u], Counted(u) - snap[u], Counted(u)' - snap[u],
         paid[u] - given[u]} \subseteq Int
    BY <1>2
  <2>6. given[u] = 0 => Allowed(paid[u], CountedThen(u)' - snap[u])
    BY <1>2, <2>2, <2>4, <2>5, AllowedMono
  <2>7. given[u] > 0 => Allowed(paid[u] - given[u], Counted(u)' - snap[u])
    BY <2>3, <2>4, <2>5, AllowedMono
  <2> QED
    BY <1>3, <2>1, <2>6, <2>7
<1> QED
  BY <1>4, <1>5

(* When the balances are read, what is counted then is what is counted now. *)
LEMMA PaidPlan ==
  ASSUME TypeOK, PaidInv, LoopInv, PlanShares
  PROVE  PaidInv'
<1>1. /\ UNCHANGED <<bal, revenue, paid, twice, covered>> /\ given' = NoAmounts /\ again' = covered
  BY DEF PlanShares, LoopInv, moneyVars, envVars
<1>2. ASSUME NEW u \in Token
      PROVE  /\ Allowed(paid'[u], Counted(u)')
             /\ given'[u] = 0 /\ Allowed(paid'[u], CountedThen(u)' - snap'[u])
  <2>1. Allowed(paid[u], Counted(u))
    BY DEF PaidInv
  <2>2. Counted(u)' = Counted(u)
    BY <1>1 DEF Counted
  <2>3. {covered[u], bal["hot"][u], bal["contract"][u], revenue[u], twice[u]} \subseteq Nat
    BY Amounts
  <2>4. snap'[u] = bal["hot"][u] \/ snap'[u] = 0
    BY DEF PlanShares
  <2>5. CountedThen(u)' - snap'[u] = Counted(u)
    BY <1>1, <2>3, <2>4 DEF Counted, CountedThen, Over
  <2> QED
    BY <1>1, <2>1, <2>2, <2>5 DEF NoAmounts
<1> QED
  BY <1>2 DEF PaidInv, Allowed

LEMMA PaidShare ==
  ASSUME TypeOK, TypeOK', Kept, PaidInv, LoopInv, Share
  PROVE  PaidInv'
<1>1. /\ pc = "share" /\ pc' = "share" /\ todo # {} /\ snap' = snap /\ again' = again
      /\ revenue' = revenue
      /\ NotSent \/ Sent
  BY ShareCases DEF envVars
<1> SUFFICES ASSUME NEW u \in Token
             PROVE  /\ Allowed(paid'[u], Counted(u)')
                    /\ given'[u] = 0 => Allowed(paid'[u], CountedThen(u)' - snap'[u])
                    /\ given'[u] > 0 => Allowed(paid'[u] - given'[u], Counted(u)' - snap'[u])
  BY DEF PaidInv, Allowed
<1>2. /\ Allowed(paid[u], Counted(u))
      /\ given[u] = 0 => Allowed(paid[u], CountedThen(u) - snap[u])
      /\ given[u] > 0 => Allowed(paid[u] - given[u], Counted(u) - snap[u])
  BY <1>1 DEF PaidInv
<1>3. CASE NotSent \/ (Sent /\ u # Current)
  <2>1. /\ bal'["hot"][u] = bal["hot"][u] /\ bal'["contract"][u] = bal["contract"][u]
        /\ covered'[u] = covered[u] /\ twice'[u] = twice[u] /\ paid'[u] = paid[u] /\ given'[u] = given[u]
    <3>1. CASE NotSent
      BY <3>1 DEF NotSent, moneyVars
    <3>2. CASE Sent /\ u # Current
      BY <1>1, <3>2, SentFacts
    <3> QED
      BY <1>3, <3>1, <3>2
  <2>2. Counted(u)' = Counted(u) /\ CountedThen(u)' = CountedThen(u)
    BY <1>1, <2>1 DEF Counted, CountedThen, Over
  <2> QED
    BY <1>1, <1>2, <2>1, <2>2
<1>4. CASE Sent /\ u = Current
  <2>1. Due \in Nat /\ Due > 0 /\ Due <= ShareTotal(snap[u])
    BY <1>1, <1>4, DueFacts DEF Sent
  <2>2. /\ Due <= bal["hot"][u] /\ bal'["hot"][u] = bal["hot"][u] - Due
        /\ paid'[u] = paid[u] + Due /\ given'[u] = given[u] + Due
        /\ bal'["contract"][u] = bal["contract"][u]
        /\ given[u] = 0 =>
             /\ twice'[u] = twice[u] + again[u]
             /\ covered'[u] = IF snap[u] <= bal["hot"][u] THEN snap[u] - Due ELSE bal["hot"][u] - Due
        /\ given[u] # 0 =>
             /\ twice'[u] = twice[u]
             /\ covered'[u] = IF covered[u] > Due THEN covered[u] - Due ELSE 0
    BY <1>1, <1>4, SentFacts
  <2>3. {covered[u], bal["hot"][u], bal["contract"][u], revenue[u], twice[u], again[u], snap[u], paid[u],
         given[u], ShareTotal(snap[u])} \subseteq Nat
    BY Amounts
  <2>4. {Counted(u), CountedThen(u)} \subseteq Int
    BY CountedInt
  <2>5. CASE given[u] = 0
    <3>1. Counted(u)' = CountedThen(u)
      BY <1>1, <2>1, <2>2, <2>3, <2>5 DEF Counted, CountedThen, Over
    <3>2. Allowed(paid[u] + Due, CountedThen(u))
      BY <1>2, <2>1, <2>3, <2>4, <2>5, AllowedShare
    <3>3. given'[u] > 0 /\ given'[u] # 0 /\ paid'[u] - given'[u] = paid[u]
      BY <2>1, <2>2, <2>3, <2>5
    <3> QED
      BY <1>1, <1>2, <2>2, <2>5, <3>1, <3>2, <3>3
  <2>6. CASE given[u] # 0
    <3>1. given[u] + Due <= ShareTotal(snap[u]) /\ given[u] + Due \in Nat
      <4>1. /\ given[u] <= distributed /\ distributed \in Nat
            /\ distributed * TotalPercent <= ShareTotal(snap[Current]) * Sum[next - 1]
        BY <1>1, <1>4 DEF LoopInv, TypeOK
      <4>2. distributed + Due <= ShareTotal(snap[u])
        BY <1>1, <1>4, <4>1, LoopRoom
      <4> QED
        BY <2>1, <2>3, <4>1, <4>2
    <3>2. Counted(u)' \in Int /\ Counted(u) <= Counted(u)'
      BY <1>1, <2>1, <2>2, <2>3, <2>6 DEF Counted
    <3>3. Allowed(paid[u] - given[u], Counted(u)' - snap[u])
      <4>1. /\ {paid[u] - given[u], Counted(u) - snap[u], Counted(u)' - snap[u]} \subseteq Int
            /\ Counted(u) - snap[u] <= Counted(u)' - snap[u]
            /\ given[u] > 0
        BY <2>3, <2>4, <2>6, <3>2
      <4> QED
        BY <1>2, <4>1, AllowedMono
    <3>4. Allowed((paid[u] - given[u]) + (given[u] + Due), Counted(u)')
      <4>1. paid[u] - given[u] \in Int
        BY <2>3
      <4> QED
        BY <2>3, <3>1, <3>2, <3>3, <4>1, AllowedShare
    <3>5. /\ (paid[u] - given[u]) + (given[u] + Due) = paid'[u]
          /\ paid'[u] - given'[u] = paid[u] - given[u] /\ given'[u] # 0
      BY <2>1, <2>2, <2>3
    <3> QED
      BY <1>1, <3>3, <3>4, <3>5
  <2> QED
    BY <2>5, <2>6
<1> QED
  BY <1>1, <1>3, <1>4

LEMMA PaidStep ==
  ASSUME TypeOK, Kept, PaidInv, LoopInv, [Next]_vars
  PROVE  PaidInv'
<1>1. TypeOK'
  BY BaseStep
<1>2. CASE Share
  BY <1>1, <1>2, PaidShare
<1>3. CASE PlanShares
  BY <1>3, PaidPlan
<1>4. CASE ~ Share /\ ~ PlanShares
  <2>1. Calm
    BY <1>4, CalmStep, StillStep
  <2>2. UNCHANGED <<paid, twice>> /\ (pc' # "share" \/ (pc = "share" /\ UNCHANGED <<given, again, snap>>))
    <3>1. CASE NotDue \/ CycleStart \/ WithdrawDone \/ TopUp \/ TopUpBuffer \/ SharesDisabled \/ ShareDone
               \/ PlanRemainder \/ SweepDone \/ GasStart \/ Swap \/ Crash \/ Restart
      BY <3>1 DEF NotDue, CycleStart, WithdrawDone, TopUp, TopUpBuffer, SharesDisabled, ShareDone,
                  PlanRemainder, SweepDone, GasStart, Swap, Crash, Restart, shareVars
    <3>2. CASE RecordCycle \/ RecordGas
      BY <3>2 DEF RecordCycle, RecordGas, Record
    <3>3. CASE \E t \in Token : Withdraw(t) \/ SendRemainder(t)
      BY <3>3 DEF Withdraw, SendRemainder, shareVars
    <3>4. CASE \/ \E j \in Job : IntervalPasses(j)
               \/ \E t \in Token : BwWithdraw(t) \/ BwSend(t) \/ SwitchMethod(t)
               \/ \E t \in Token, n \in Payment : Pay(t, n)
               \/ ServerPays \/ UNCHANGED vars
      BY <3>4 DEF IntervalPasses, BwWithdraw, BwSend, SwitchMethod, Pay, ServerPays, vars, loopVars, shareVars
    <3> QED
      BY <1>4, <3>1, <3>2, <3>3, <3>4 DEF Next, Run, World
  <2> QED
    BY <1>1, <2>1, <2>2, PaidQuiet
<1> QED
  BY <1>2, <1>3, <1>4

\* For any recipients, percentages, payments and failures: recipients get no more than the
\* agreed share of the revenue and of what was shared again, and in a cycle without a
\* refused transfer exactly the share of each balance read (distribution.ts:126-185).
THEOREM ShareCorrect == Spec => []ShareOfRevenue
<1> DEFINE Inv == TypeOK /\ Kept /\ PaidInv /\ LoopInv
<1>1. Init => Inv
  BY BaseInit, PaidInit, LoopInit
<1>2. Inv /\ [Next]_vars => Inv'
  BY BaseStep, PaidStep, LoopStep
<1>3. Inv => ShareOfRevenue
  <2>1. ASSUME Inv, NEW u \in Token
        PROVE  paid[u] * Whole <= TotalPercent * (revenue[u] - bal["contract"][u] + twice[u])
    <3>1. /\ {covered[u], bal["hot"][u], bal["contract"][u], revenue[u], twice[u], paid[u]} \subseteq Nat
          /\ covered[u] <= bal["hot"][u]
      BY <2>1, Amounts DEF Kept
    <3>2. Counted(u) \in Int /\ Counted(u) <= revenue[u] - bal["contract"][u] + twice[u]
      BY <3>1 DEF Counted
    <3>3. Allowed(paid[u], Counted(u))
      BY <2>1 DEF PaidInv
    <3>4. paid[u] \in Int /\ revenue[u] - bal["contract"][u] + twice[u] \in Int
      BY <3>1
    <3>5. Allowed(paid[u], revenue[u] - bal["contract"][u] + twice[u])
      BY <3>2, <3>3, <3>4, AllowedMono
    <3> QED
      BY <3>5 DEF Allowed
  <2>2. ASSUME Inv, NEW u \in Token, pc = "remainder", u \notin unsent
        PROVE  given[u] = ShareTotal(snap[u])
    BY <2>2 DEF LoopInv
  <2> QED
    BY <2>1, <2>2 DEF ShareOfRevenue
<1> QED
  BY <1>1, <1>2, <1>3, PTL DEF Spec

===============================================================================
