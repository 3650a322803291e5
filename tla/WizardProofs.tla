----------------------------- MODULE WizardProofs -----------------------------
(***************************************************************************)
(* Proofs about Wizard, for every value of its constants.                  *)
(***************************************************************************)
EXTENDS Wizard, SequenceTheorems, TLAPS

(* The steps that come after a file, or a state of the chain, was reached. *)
Settled == Planning \cup Sharing \cup {"done"}   \* after the mint
Written == Minting \cup Settled                  \* after the files

(* The files, and the contracts the form was to be given. *)
Placed ==
  /\ vms = "torn" => faults > 0
  /\ book = {} \/ {"admin", "server"} \subseteq book
  /\ pc \in {"yaml", "env", "vms"} \cup Written => web3 = config
  /\ pc \in {"env", "vms"} \cup Written => yaml = config.sub
  /\ pc \in {"vms"} \cup Written => env = config
  /\ pc \in Written => vms # "missing"
  /\ pc \in {"shares", "enable", "done"} => book # {}
  /\ pc \in {"enable", "done"} => shares = share
  /\ pc = "contracts" /\ mode = "deploy" =>
       unverified \/ NoAddress \in {config.nft, config.sub}

(* What of the chain is there, unless the addresses were taken unseen. *)
Reached ==
  unverified \/
    /\ pc \in Configuring \cup Written =>
         Exists(config.nft, nfts) /\ Exists(config.sub, subs)
    /\ pc \in Settled => nfts[config.nft] # <<>>
    /\ pc \in Settled \ {"stable"} /\ usdc => subs[config.sub].stable
    /\ pc \in Sharing \cup {"done"} => subs[config.sub].plans > 0

(* What a run may still make once without a failure is not made yet. *)
Unmade == {"contracts"} \cup Configuring \cup Minting
Most(steps) == runs + faults - (IF pc \in steps THEN 1 ELSE 0)
Made ==
  /\ Len(subs) <= Len(nfts)
  /\ Len(nfts) - 1 <= Most({"contracts"})
  /\ Len(nfts[1]) - before.tokens <= Most(Unmade)
  /\ \A i \in 2 .. Len(nfts) : Len(nfts[i]) <= Most(Unmade)
  /\ subs[1].plans - before.plans <= Most(Unmade \cup Planning)
  /\ \A i \in 2 .. Len(subs) : subs[i].plans <= Most(Unmade \cup Planning)

(* Token 0 of a contract that was deployed now is made with the new details. *)
FirstGood(tokens) == tokens[1].owner = "other" \/ tokens[1].enc = "new"
Owned ==
  unverified \/ unclear \/
    /\ pc \in {"mint", "mintcli"} => enc = "new"
    /\ pc \in Configuring /\ mode = "deploy" => nfts[config.nft] = <<>>
    /\ pc \in {"details", "mint"} /\ mode = "deploy" =>
         nfts[config.nft] = <<>> \/ FirstGood(nfts[config.nft])
    /\ pc \in {"mintcli"} \cup Settled =>
         nfts[config.nft] # <<>> /\ FirstGood(nfts[config.nft])

Inv == TypeOK /\ Placed /\ Reached /\ Made /\ Owned

(***************************************************************************)
(* What a transaction leaves on the chain.                                 *)
(***************************************************************************)
LEMMA MintedTokens ==
  ASSUME TypeOK, NEW e \in {"empty", "new"}, Exists(web3.nft, nfts)
  PROVE  /\ Minted(e) \in Seq(Seq(Credential)) /\ Len(Minted(e)) = Len(nfts)
         /\ \A i \in 1 .. Len(nfts) :
              Minted(e)[i] = IF i = web3.nft
                             THEN Append(nfts[i], [owner |-> "admin", enc |-> e]) ELSE nfts[i]
<1> DEFINE c == [owner |-> "admin", enc |-> e]
           a == web3.nft
<1>1. c \in Credential BY DEF Credential
<1>2. nfts \in Seq(Seq(Credential)) BY DEF TypeOK
<1>3. a \in 1 .. Len(nfts) /\ nfts[a] \in Seq(Credential) BY <1>2 DEF Exists
<1>4. Append(nfts[a], c) \in Seq(Credential) BY <1>1, <1>3
<1>5. Minted(e) = [nfts EXCEPT ![a] = Append(nfts[a], c)] BY DEF Minted
<1> HIDE DEF c, a
<1>6. QED BY <1>2, <1>3, <1>4, <1>5 DEF a, c

(* A mint adds a token at the end, if it does anything. *)
LEMMA TokensFact ==
  ASSUME TypeOK, NEW e \in {"empty", "new"}, NEW N \in {nfts, Minted(e)}
  PROVE  /\ N \in Seq(Seq(Credential)) /\ Len(N) = Len(nfts)
         /\ \A i \in 1 .. Len(nfts) :
              /\ Len(N[i]) <= Len(nfts[i]) + 1
              /\ nfts[i] # <<>> => N[i] # <<>> /\ N[i][1] = nfts[i][1]
<1>1. nfts \in Seq(Seq(Credential)) BY DEF TypeOK
<1>2. CASE N = nfts BY <1>1, <1>2
<1>3. CASE ~Exists(web3.nft, nfts) BY <1>2, <1>3 DEF Minted
<1>4. CASE Exists(web3.nft, nfts) /\ N = Minted(e)
  <2>1. /\ N \in Seq(Seq(Credential)) /\ Len(N) = Len(nfts)
        /\ \A i \in 1 .. Len(nfts) :
             N[i] = IF i = web3.nft
                    THEN Append(nfts[i], [owner |-> "admin", enc |-> e]) ELSE nfts[i]
    BY <1>4, MintedTokens
  <2>2. ASSUME NEW i \in 1 .. Len(nfts)
        PROVE  /\ Len(N[i]) <= Len(nfts[i]) + 1
               /\ nfts[i] # <<>> => N[i] # <<>> /\ N[i][1] = nfts[i][1]
    <3>1. nfts[i] \in Seq(Credential) BY <1>1
    <3>2. [owner |-> "admin", enc |-> e] \in Credential BY DEF Credential
    <3>3. CASE i = web3.nft
      <4>1. N[i] = Append(nfts[i], [owner |-> "admin", enc |-> e]) BY <2>1, <3>3
      <4>2. QED BY <3>1, <3>2, <4>1
    <3>4. CASE i # web3.nft
      <4>1. N[i] = nfts[i] BY <2>1, <3>4
      <4>2. QED BY <3>1, <4>1
    <3>5. QED BY <3>3, <3>4
  <2>3. QED BY <2>1, <2>2
<1>5. QED BY <1>2, <1>3, <1>4

(* The token a mint makes is the first one if there was none. *)
LEMMA MintedFirst ==
  ASSUME TypeOK, NEW e \in {"empty", "new"}, Exists(web3.nft, nfts)
  PROVE  /\ Minted(e)[web3.nft] # <<>>
         /\ nfts[web3.nft] = <<>> => Minted(e)[web3.nft][1].enc = e
<1>1. web3.nft \in 1 .. Len(nfts) /\ nfts[web3.nft] \in Seq(Credential)
  BY DEF TypeOK, Exists
<1>2. [owner |-> "admin", enc |-> e] \in Credential BY DEF Credential
<1>3. Minted(e)[web3.nft] = Append(nfts[web3.nft], [owner |-> "admin", enc |-> e])
  BY <1>1, MintedTokens
<1>4. QED BY <1>1, <1>2, <1>3

LEMMA PlansType ==
  ASSUME TypeOK, NEW i \in 1 .. Len(subs)
  PROVE  subs[i] \in Contract /\ subs[i].plans \in Nat
<1>1. subs[i] \in Contract BY DEF TypeOK
<1>2. QED BY <1>1 DEF Contract

(* With the stablecoin set, ... *)
Stabled == IF usdc /\ Exists(Sub, subs) THEN [subs EXCEPT ![Sub].stable = TRUE] ELSE subs

LEMMA StabledFact ==
  ASSUME TypeOK, NEW S \in {subs, Stabled}
  PROVE  /\ S \in Seq(Contract) /\ Len(S) = Len(subs)
         /\ \A i \in 1 .. Len(subs) : S[i].plans = subs[i].plans
         /\ \A i \in 1 .. Len(subs) : subs[i].stable => S[i].stable
         /\ usdc /\ Exists(Sub, subs) => Stabled[Sub].stable
<1>1. subs \in Seq(Contract) BY DEF TypeOK
<1>2. CASE ~(usdc /\ Exists(Sub, subs)) BY <1>1, <1>2 DEF Stabled
<1>3. CASE usdc /\ Exists(Sub, subs)
  <2> DEFINE a == Sub
             c == [subs[a] EXCEPT !.stable = TRUE]
  <2>1. a \in 1 .. Len(subs) /\ subs[a] \in Contract BY <1>1, <1>3 DEF Exists
  <2>2. c \in Contract /\ c.plans = subs[a].plans /\ c.stable BY <2>1 DEF Contract
  <2>3. Stabled = [subs EXCEPT ![a] = c] BY <1>3 DEF Stabled
  <2> HIDE DEF a, c
  <2>4. /\ Stabled \in Seq(Contract) /\ Len(Stabled) = Len(subs) /\ Stabled[a] = c
        /\ \A i \in 1 .. Len(subs) : i # a => Stabled[i] = subs[i]
    BY <1>1, <2>1, <2>2, <2>3
  <2>5. \A i \in 1 .. Len(subs) : Stabled[i].plans = subs[i].plans BY <2>2, <2>4
  <2>6. Stabled[a].stable BY <2>2, <2>4
  <2>7. \A i \in 1 .. Len(subs) : subs[i].stable => Stabled[i].stable BY <2>4, <2>6
  <2>8. QED BY <1>1, <2>4, <2>5, <2>6, <2>7 DEF a
<1>4. QED BY <1>2, <1>3

(* ... and with one plan more. *)
LEMMA PlanFact ==
  ASSUME TypeOK, NEW S \in {subs, WithPlan}
  PROVE  /\ S \in Seq(Contract) /\ Len(S) = Len(subs)
         /\ \A i \in 1 .. Len(subs) :
              /\ subs[i].plans <= S[i].plans /\ S[i].plans <= subs[i].plans + 1
              /\ subs[i].stable => S[i].stable
         /\ Exists(Sub, subs) => WithPlan[Sub].plans > 0
<1>1. subs \in Seq(Contract) BY DEF TypeOK
<1>2. CASE ~Exists(Sub, subs)
  <2>1. S = subs BY <1>2 DEF WithPlan
  <2>2. \A i \in 1 .. Len(subs) : subs[i].plans \in Nat BY PlansType
  <2>3. QED BY <1>1, <1>2, <2>1, <2>2
<1>3. CASE Exists(Sub, subs)
  <2> DEFINE a == Sub
             c == [subs[a] EXCEPT !.plans = @ + 1]
  <2>1. a \in 1 .. Len(subs) /\ subs[a] \in Contract BY <1>1, <1>3 DEF Exists
  <2>2. c \in Contract /\ c.plans = subs[a].plans + 1 /\ c.stable = subs[a].stable
        /\ subs[a].plans \in Nat
    BY <2>1 DEF Contract
  <2>3. WithPlan = [subs EXCEPT ![a] = c] BY <1>3 DEF WithPlan
  <2> HIDE DEF a, c
  <2>4. /\ WithPlan \in Seq(Contract) /\ Len(WithPlan) = Len(subs) /\ WithPlan[a] = c
        /\ \A i \in 1 .. Len(subs) : i # a => WithPlan[i] = subs[i]
    BY <1>1, <2>1, <2>2, <2>3
  <2>5. \A i \in 1 .. Len(subs) : subs[i].plans \in Nat BY PlansType
  <2>6. ASSUME NEW i \in 1 .. Len(subs)
        PROVE  /\ subs[i].plans <= WithPlan[i].plans
               /\ WithPlan[i].plans <= subs[i].plans + 1
               /\ subs[i].stable => WithPlan[i].stable
    BY <2>2, <2>4, <2>5
  <2>7. WithPlan[a].plans > 0 BY <2>2, <2>4
  <2>8. QED BY <1>1, <2>4, <2>5, <2>6, <2>7 DEF a
<1>4. QED BY <1>2, <1>3

(***************************************************************************)
(* Types.                                                                  *)
(***************************************************************************)
LEMMA InitInv == Init => Inv
<1> SUFFICES ASSUME Init PROVE Inv OBVIOUS
<1>1. PICK T \in Token, c \in Sold :
         /\ nfts = <<T>> /\ subs = <<c>>
         /\ before = [tokens |-> Len(T), plans |-> c.plans]
  BY DEF Init
<1>2. T \in Seq(Credential)
  <2> DEFINE Old == [owner : {"admin", "other"}, enc : {"old"}]
  <2>1. Old \subseteq Credential BY DEF Credential
  <2>2. T \in Seq(Old) BY WizardAssumption
  <2> HIDE DEF Old
  <2>3. QED BY <2>1, <2>2, SeqMonotonic
<1>3. c \in Contract /\ c.plans \in Nat
  <2>1. c \in Contract BY WizardAssumption DEF Contract
  <2>2. QED BY <2>1 DEF Contract
<1>4. NoPair \in Pair /\ NoAddress \in Address BY DEF NoPair, Pair, Address, NoAddress
<1>5. nfts \in Seq(Seq(Credential)) /\ subs \in Seq(Contract)
  BY <1>1, <1>2, <1>3
<1>6. Len(nfts) = 1 /\ Len(subs) = 1 /\ nfts[1] = T /\ subs[1] = c BY <1>1
<1>7. before \in [tokens : Nat, plans : Nat] /\ before.tokens = Len(T) /\ before.plans = c.plans
  BY <1>1, <1>2, <1>3
<1>8. TypeOK
  <2>1. /\ faults \in 0 .. MaxFaults /\ runs \in 0 .. MaxRuns
    BY WizardAssumption DEF Init
  <2>2. {usdc, enabled, unverified, unclear} \subseteq BOOLEAN BY DEF Init
  <2>3. pc = "form" /\ pc \notin Finalizing
    BY DEF Init, Finalizing, Configuring, Minting, Planning, Sharing
  <2>4. Len(nfts) >= 1 /\ Len(subs) >= 1 BY <1>6
  <2>5. book = {} /\ shares = {} /\ share = {} /\ config \in Pair /\ web3 \in Pair
        /\ env \in Pair /\ yaml \in Address /\ vms = "missing" /\ enc = "empty"
        /\ mode = "deploy"
    BY <1>4 DEF Init
  <2>6. QED BY <1>5, <1>7, <2>1, <2>2, <2>3, <2>4, <2>5 DEF TypeOK
<1>9. Placed
  BY DEF Init, Placed, Written, Settled, Minting, Planning, Sharing, NoPair
<1>10. Reached
  BY DEF Init, Reached, Configuring, Written, Settled, Minting, Planning, Sharing
<1>11. Made
  <2>1. Len(T) \in Nat BY <1>2
  <2>2. pc = "form" /\ runs = 0 /\ faults = 0 BY DEF Init
  <2>3. QED BY <1>3, <1>6, <1>7, <2>1, <2>2
        DEF Made, Most, Unmade, Configuring, Minting, Planning
<1>12. Owned
  BY DEF Init, Owned, Configuring, Settled, Planning, Sharing
<1>13. QED BY <1>8, <1>9, <1>10, <1>11, <1>12 DEF Inv

(* What a step makes of the chain. *)
ChainStep ==
  \/ UNCHANGED chain
  \/ nfts' \in {nfts, Minted(enc)} /\ UNCHANGED subs
  \/ subs' \in {subs, Stabled} /\ UNCHANGED nfts
  \/ subs' \in {subs, WithPlan} /\ UNCHANGED nfts

NewChain == nfts \in Seq(Seq(Credential)) /\ subs \in Seq(Contract)
            /\ Len(nfts) >= 1 /\ Len(subs) >= 1

PlainOK ==
  /\ mode \in {"deploy", "existing"} /\ config \in Pair /\ share \in Share \cup {{}}
  /\ pc \in {"form", "done"} \cup Finalizing
  /\ enc \in {"empty", "new"}
  /\ web3 \in Pair /\ env \in Pair /\ yaml \in Address
  /\ vms \in {"missing", "torn", "valid"}
  /\ book \in SUBSET ({"admin", "server", "hot"} \cup Roles) /\ shares \in Share \cup {{}}
  /\ faults \in 0 .. MaxFaults /\ runs \in 0 .. MaxRuns
  /\ before \in [tokens : Nat, plans : Nat]
  /\ usdc \in BOOLEAN /\ enabled \in BOOLEAN /\ unverified \in BOOLEAN /\ unclear \in BOOLEAN
  /\ pc \in Finalizing \ {"contracts"} => NoAddress \notin {config.nft, config.sub}

LEMMA TypeParts == TypeOK <=> NewChain /\ PlainOK
BY DEF TypeOK, NewChain, PlainOK

LEMMA TypeParts1 == TypeOK' <=> NewChain' /\ PlainOK'
BY DEF TypeOK, NewChain, PlainOK

LEMMA ChainStepType ==
  ASSUME TypeOK, ChainStep
  PROVE  NewChain'
<1>1. NewChain /\ enc \in {"empty", "new"} BY DEF TypeOK, NewChain
<1>2. CASE UNCHANGED chain BY <1>1, <1>2 DEF NewChain, chain
<1>3. CASE nfts' \in {nfts, Minted(enc)} /\ UNCHANGED subs
  <2>1. nfts' \in Seq(Seq(Credential)) /\ Len(nfts') = Len(nfts) BY <1>1, <1>3, TokensFact
  <2>2. QED BY <1>1, <1>3, <2>1 DEF NewChain
<1>4. CASE subs' \in {subs, Stabled} /\ UNCHANGED nfts
  <2>1. subs' \in Seq(Contract) /\ Len(subs') = Len(subs) BY <1>4, StabledFact
  <2>2. QED BY <1>1, <1>4, <2>1 DEF NewChain
<1>5. CASE subs' \in {subs, WithPlan} /\ UNCHANGED nfts
  <2>1. subs' \in Seq(Contract) /\ Len(subs') = Len(subs) BY <1>5, PlanFact
  <2>2. QED BY <1>1, <1>5, <2>1 DEF NewChain
<1>6. QED BY <1>2, <1>3, <1>4, <1>5 DEF ChainStep

(* A step of finalization leaves the form alone, and goes on or is repeated. *)
LEMMA PlainStep ==
  ASSUME PlainOK, UNCHANGED <<mode, config, usdc, share, unverified, runs, before>>,
         pc \in Finalizing \ {"contracts"} \/ NoAddress \notin {config.nft, config.sub},
         pc' \in {"done"} \cup (Finalizing \ {"contracts"}),
         enc' \in {"empty", "new"}, web3' \in Pair, env' \in Pair, yaml' \in Address,
         vms' \in {"missing", "torn", "valid"},
         book' \in SUBSET ({"admin", "server", "hot"} \cup Roles),
         shares' \in Share \cup {{}}, faults' \in 0 .. MaxFaults,
         enabled' \in BOOLEAN, unclear' \in BOOLEAN
  PROVE  PlainOK'
BY DEF PlainOK

LEMMA FaultType ==
  ASSUME PlainOK, Fault \/ NoFault
  PROVE  faults' \in 0 .. MaxFaults /\ faults' >= faults /\ (Fault => faults' = faults + 1)
BY WizardAssumption DEF PlainOK, Fault, NoFault

(* Token 0 with the new details. *)
LEMMA UpdatedFact ==
  ASSUME TypeOK, web3 = config, HasFirst, NEW N, N = Updated
  PROVE  /\ N \in Seq(Seq(Credential)) /\ Len(N) = Len(nfts)
         /\ \A i \in 1 .. Len(nfts) : Len(N[i]) = Len(nfts[i])
         /\ N[config.nft] # <<>> /\ N[config.nft][1].enc = enc
<1> DEFINE a == config.nft
           T == nfts[a]
           c == [T[1] EXCEPT !.enc = enc]
           U == [T EXCEPT ![1] = c]
<1>1. /\ nfts \in Seq(Seq(Credential)) /\ enc \in {"empty", "new"}
      /\ a \in 1 .. Len(nfts) /\ T \in Seq(Credential) /\ T # <<>>
  BY DEF TypeOK, HasFirst, Exists
<1>2. 1 \in 1 .. Len(T) /\ T[1] \in Credential BY <1>1
<1>3. c \in Credential /\ c.enc = enc BY <1>1, <1>2 DEF Credential
<1>4. N = [nfts EXCEPT ![a] = U] BY <1>1, <1>2 DEF Credential, Updated
<1> HIDE DEF c
<1>5. U \in Seq(Credential) /\ Len(U) = Len(T) /\ U[1] = c BY <1>1, <1>2, <1>3, ExceptSeq
<1>6. U # <<>> BY <1>2, <1>5
<1> HIDE DEF U, T, a
<1>7. /\ N \in Seq(Seq(Credential)) /\ Len(N) = Len(nfts)
      /\ \A j \in 1 .. Len(nfts) : N[j] = IF j = a THEN U ELSE nfts[j]
  <2>1. [nfts EXCEPT ![a] = U] \in Seq(Seq(Credential)) BY <1>1, <1>5, ExceptSeq
  <2>2. Len([nfts EXCEPT ![a] = U]) = Len(nfts) BY <1>1, <1>5, ExceptSeq
  <2>3. \A j \in 1 .. Len(nfts) : [nfts EXCEPT ![a] = U][j] = IF j = a THEN U ELSE nfts[j]
    BY <1>1, <1>5
  <2>4. QED BY <1>4, <2>1, <2>2, <2>3
<1>8. QED BY <1>1, <1>3, <1>5, <1>6, <1>7 DEF a, T

LEMMA DeployedFact ==
  ASSUME TypeOK, NEW N, N = Append(nfts, <<>>),
         NEW S, S = Append(subs, [stable |-> FALSE, plans |-> 0])
  PROVE  /\ N \in Seq(Seq(Credential)) /\ Len(N) = Len(nfts) + 1
         /\ \A i \in 1 .. Len(nfts) : N[i] = nfts[i]
         /\ N[Len(nfts) + 1] = <<>>
         /\ S \in Seq(Contract) /\ Len(S) = Len(subs) + 1
         /\ \A i \in 1 .. Len(subs) : S[i] = subs[i]
         /\ S[Len(subs) + 1].plans = 0
<1> DEFINE c == [stable |-> FALSE, plans |-> 0]
<1>1. nfts \in Seq(Seq(Credential)) /\ subs \in Seq(Contract) BY DEF TypeOK
<1>2. c \in Contract /\ c.plans = 0 BY DEF Contract
<1>3. <<>> \in Seq(Credential) OBVIOUS
<1> HIDE DEF c
<1>4. /\ Append(nfts, <<>>) \in Seq(Seq(Credential))
      /\ Len(Append(nfts, <<>>)) = Len(nfts) + 1
      /\ \A i \in 1 .. Len(nfts) : Append(nfts, <<>>)[i] = nfts[i]
      /\ Append(nfts, <<>>)[Len(nfts) + 1] = <<>>
  BY <1>1, <1>3
<1>5. /\ Append(subs, c) \in Seq(Contract)
      /\ Len(Append(subs, c)) = Len(subs) + 1
      /\ \A i \in 1 .. Len(subs) : Append(subs, c)[i] = subs[i]
      /\ Append(subs, c)[Len(subs) + 1] = c
  BY <1>1, <1>2
<1>6. QED BY <1>2, <1>4, <1>5 DEF c

LEMMA TypeStep ==
  ASSUME Inv, [Next]_vars
  PROVE  TypeOK'
<1>0. /\ TypeOK /\ PlainOK /\ NewChain /\ enc \in {"empty", "new"}
      /\ pc \in Written => web3 = config
  BY TypeParts DEF Inv, TypeOK, Placed
<1>1. ASSUME NEW m \in {"deploy", "existing"}, NEW a \in Answers, NEW typed \in Typed,
             Submit(m, typed, a)
      PROVE  TypeOK'
  <2>1. typed \in Pair
    BY <1>0 DEF Typed, PlainOK, NoPair, Pair, Address, NoAddress, Wrong
  <2>2. runs' \in 0 .. MaxRuns BY <1>0, <1>1, WizardAssumption DEF Submit, PlainOK
  <2>3. unverified' \in BOOLEAN /\ unclear' \in BOOLEAN BY <1>1 DEF Submit
  <2>a. usdc' \in BOOLEAN /\ share' \in Share
    BY <1>1, WizardAssumption DEF Submit, Share
  <2>4. PlainOK' BY <1>0, <1>1, <2>1, <2>2, <2>3, <2>a DEF Submit, PlainOK, files, Finalizing
  <2>5. ChainStep BY <1>1 DEF Submit, ChainStep, chain
  <2>6. QED BY <1>0, <2>4, <2>5, ChainStepType, TypeParts1
<1>2. CASE BackToForm
  <2>1. PlainOK'
    BY <1>0, <1>2 DEF BackToForm, PlainOK, form, files, history, Finalizing, Configuring, Minting,
       Planning, Sharing
  <2>2. ChainStep BY <1>2 DEF BackToForm, ChainStep, chain
  <2>3. QED BY <1>0, <2>1, <2>2, ChainStepType, TypeParts1
<1>3. CASE AddHotWallet
  <2>1. PlainOK'
    BY <1>0, <1>3 DEF AddHotWallet, PlainOK, form, history
  <2>2. ChainStep BY <1>3 DEF AddHotWallet, ChainStep, chain
  <2>3. QED BY <1>0, <2>1, <2>2, ChainStepType, TypeParts1
<1>4. CASE UNCHANGED vars
  <2>1. PlainOK' BY <1>0, <1>4 DEF vars, PlainOK, form, files, history
  <2>2. ChainStep BY <1>4 DEF vars, ChainStep, chain
  <2>3. QED BY <1>0, <2>1, <2>2, ChainStepType, TypeParts1
<1>5. CASE Deploy
  <2>1. PlainOK'
    <3>1. faults' \in 0 .. MaxFaults BY <1>0, <1>5, FaultType DEF Deploy, Again
    <3>2. CASE UNCHANGED <<config, unverified>> /\ pc' = "contracts"
      BY <1>0, <1>5, <3>1, <3>2 DEF Deploy, PlainOK, files, history, Finalizing
    <3>3. CASE /\ config' = [nft |-> Len(nfts) + 1, sub |-> Len(subs) + 1]
               /\ unverified' = FALSE /\ pc' = "web3"
      <4>1. Len(nfts) \in Nat /\ Len(subs) \in Nat BY <1>0 DEF NewChain
      <4>2. config' \in Pair /\ NoAddress \notin {config'.nft, config'.sub}
        BY <3>3, <4>1 DEF Pair, Address, NoAddress
      <4>3. QED
        BY <1>0, <1>5, <3>1, <3>3, <4>2 DEF Deploy, PlainOK, files, history, Finalizing, Configuring
    <3>4. QED BY <1>0, <1>5, <3>2, <3>3, DeployedFact DEF Deploy, Again
  <2>2. NewChain'
    <3>1. nfts' \in {nfts, Append(nfts, <<>>)}
          /\ subs' \in {subs, Append(subs, [stable |-> FALSE, plans |-> 0])}
      BY <1>5 DEF Deploy, chain
    <3>2. nfts' \in Seq(Seq(Credential)) /\ Len(nfts') \in {Len(nfts), Len(nfts) + 1}
      BY <1>0, <3>1, DeployedFact DEF NewChain
    <3>3. subs' \in Seq(Contract) /\ Len(subs') \in {Len(subs), Len(subs) + 1}
      BY <1>0, <3>1, DeployedFact DEF NewChain
    <3>4. QED BY <1>0, <3>2, <3>3 DEF NewChain
  <2>3. QED BY <2>1, <2>2, TypeParts1
<1>6. CASE UpdateFirst \/ UpdateOther
  <2>1. PlainOK'
    BY <1>0, <1>6, FaultType, PlainStep
    DEF UpdateFirst, UpdateOther, Again, form, files, history, Finalizing, Minting, Planning, PlainOK
  <2>2. NewChain'
    <3>1. /\ web3 = config /\ HasFirst
          /\ nfts' \in {nfts, Updated} /\ UNCHANGED subs
      BY <1>0, <1>6 DEF UpdateFirst, UpdateOther, OwnsFirst, Written, Minting
    <3>2. nfts' \in Seq(Seq(Credential)) /\ Len(nfts') = Len(nfts)
      BY <1>0, <3>1, UpdatedFact DEF NewChain
    <3>3. QED BY <1>0, <3>1, <3>2 DEF NewChain
  <2>3. QED BY <2>1, <2>2, TypeParts1
<1>7. CASE Verify
  <2>1. ChainStep BY <1>7 DEF Verify, ChainStep, chain
  <2>2. PlainOK'
    <3>1. faults' \in 0 .. MaxFaults BY <1>0, <1>7, FaultType DEF Verify, Again
    <3>2. NoAddress \notin {config.nft, config.sub}
      <4>1. DOMAIN nfts = 1 .. Len(nfts) /\ DOMAIN subs = 1 .. Len(subs)
        BY <1>0 DEF NewChain
      <4>2. config.nft \in 1 .. Len(nfts) /\ config.sub \in 1 .. Len(subs)
        BY <1>7, <4>1 DEF Verify, Exists
      <4>3. QED BY <4>2 DEF NoAddress
    <3>3. QED
      BY <1>0, <1>7, <3>1, <3>2
      DEF Verify, form, files, history, Again, Finalizing, Configuring, PlainOK
  <2>3. QED BY <1>0, <2>1, <2>2, ChainStepType, TypeParts1
<1>8. CASE Recorded
  <2>1. ChainStep BY <1>8 DEF Recorded, ChainStep, chain
  <2>2. PlainOK'
    BY <1>0, <1>8, FaultType, PlainStep
    DEF Recorded, chain, form, files, history, Again, Finalizing, Configuring, Minting, Planning, Sharing, PlainOK
  <2>3. QED BY <1>0, <2>1, <2>2, ChainStepType, TypeParts1
<1>9. CASE WriteWeb3
  <2>1. ChainStep BY <1>9 DEF WriteWeb3, ChainStep, chain
  <2>2. PlainOK'
    <3>1. web3' \in Pair BY <1>0, <1>9 DEF WriteWeb3, NoPair, Pair, Address, NoAddress, PlainOK
    <3>2. QED
      BY <1>0, <1>9, <3>1, FaultType, PlainStep
      DEF WriteWeb3, chain, form, files, history, Again, Finalizing, Configuring, Minting, Planning, Sharing, PlainOK
  <2>3. QED BY <1>0, <2>1, <2>2, ChainStepType, TypeParts1
<1>10. CASE WriteYaml
  <2>1. ChainStep BY <1>10 DEF WriteYaml, ChainStep, chain
  <2>2. PlainOK'
    <3>1. yaml' \in Address BY <1>0, <1>10 DEF WriteYaml, NoPair, Pair, Address, NoAddress, PlainOK
    <3>2. QED
      BY <1>0, <1>10, <3>1, FaultType, PlainStep
      DEF WriteYaml, chain, form, files, history, Again, Finalizing, Configuring, Minting, Planning, Sharing, PlainOK
  <2>3. QED BY <1>0, <2>1, <2>2, ChainStepType, TypeParts1
<1>11. CASE WriteEnv
  <2>1. ChainStep BY <1>11 DEF WriteEnv, ChainStep, chain
  <2>2. PlainOK'
    <3>1. env' \in Pair BY <1>0, <1>11 DEF WriteEnv, NoPair, Pair, Address, NoAddress, PlainOK
    <3>2. QED
      BY <1>0, <1>11, <3>1, FaultType, PlainStep
      DEF WriteEnv, chain, form, files, history, Again, Finalizing, Configuring, Minting, Planning, Sharing, PlainOK
  <2>3. QED BY <1>0, <2>1, <2>2, ChainStepType, TypeParts1
<1>12. CASE WriteVms
  <2>1. ChainStep BY <1>12 DEF WriteVms, ChainStep, chain
  <2>2. PlainOK'
    BY <1>0, <1>12, FaultType, PlainStep
    DEF WriteVms, chain, form, files, history, Again, Finalizing, Configuring, Minting, Planning, Sharing, PlainOK
  <2>3. QED BY <1>0, <2>1, <2>2, ChainStepType, TypeParts1
<1>13. CASE Encrypt
  <2>1. ChainStep BY <1>13 DEF Encrypt, ChainStep, chain
  <2>2. PlainOK'
    BY <1>0, <1>13, FaultType, PlainStep
    DEF Encrypt, chain, form, files, history, Again, Finalizing, Configuring, Minting, Planning, Sharing, PlainOK
  <2>3. QED BY <1>0, <2>1, <2>2, ChainStepType, TypeParts1
<1>14. CASE Mint
  <2>1. ChainStep BY <1>14 DEF Mint, ChainStep, chain
  <2>2. PlainOK'
    BY <1>0, <1>14, FaultType, PlainStep
    DEF Mint, chain, form, files, history, Again, Finalizing, Configuring, Minting, Planning, Sharing, PlainOK
  <2>3. QED BY <1>0, <2>1, <2>2, ChainStepType, TypeParts1
<1>15. CASE MintUnsure
  <2>1. ChainStep BY <1>15 DEF MintUnsure, ChainStep, chain
  <2>2. PlainOK'
    BY <1>0, <1>15, FaultType, PlainStep
    DEF MintUnsure, chain, form, files, history, Again, Finalizing, Configuring, Minting, Planning, Sharing, PlainOK
  <2>3. QED BY <1>0, <2>1, <2>2, ChainStepType, TypeParts1
<1>16. CASE MintCli
  <2>1. ChainStep BY <1>16 DEF MintCli, ChainStep, chain
  <2>2. PlainOK'
    BY <1>0, <1>16, FaultType, PlainStep
    DEF MintCli, chain, form, files, history, Again, Finalizing, Configuring, Minting, Planning, Sharing, PlainOK
  <2>3. QED BY <1>0, <2>1, <2>2, ChainStepType, TypeParts1
<1>17. CASE SetStable
  <2>1. ChainStep BY <1>17 DEF SetStable, ChainStep, chain, Stabled
  <2>2. PlainOK'
    BY <1>0, <1>17, FaultType, PlainStep
    DEF SetStable, chain, form, files, history, Again, Finalizing, Configuring, Minting, Planning, Sharing, PlainOK
  <2>3. QED BY <1>0, <2>1, <2>2, ChainStepType, TypeParts1
<1>18. CASE CreatePlan
  <2>1. ChainStep BY <1>18 DEF CreatePlan, ChainStep, chain
  <2>2. PlainOK'
    BY <1>0, <1>18, FaultType, PlainStep
    DEF CreatePlan, chain, form, files, history, Again, Finalizing, Configuring, Minting, Planning, Sharing, PlainOK
  <2>3. QED BY <1>0, <2>1, <2>2, ChainStepType, TypeParts1
<1>19. CASE CastPlan
  <2>1. ChainStep BY <1>19 DEF CastPlan, ChainStep, chain
  <2>2. PlainOK'
    BY <1>0, <1>19, FaultType, PlainStep
    DEF CastPlan, chain, form, files, history, Again, Finalizing, Configuring, Minting, Planning, Sharing, PlainOK
  <2>3. QED BY <1>0, <2>1, <2>2, ChainStepType, TypeParts1
<1>20. CASE InitBook
  <2>1. ChainStep BY <1>20 DEF InitBook, ChainStep, chain
  <2>2. PlainOK'
    <3>1. book' \in SUBSET ({"admin", "server", "hot"} \cup Roles)
      <4>1. share \in SUBSET Roles
        <5>1. share \in Share \cup {{}} BY <1>0 DEF PlainOK
        <5>2. \A a \in Answers : a.share \subseteq Roles BY WizardAssumption DEF Roles
        <5>3. QED BY <5>1, <5>2 DEF Share
      <4>2. QED BY <1>0, <1>20, <4>1 DEF InitBook, InitRoles, PlainOK, Roles
    <3>2. QED
      BY <1>0, <1>20, <3>1, FaultType, PlainStep
      DEF InitBook, chain, form, files, history, Again, Finalizing, Configuring, Minting, Planning, Sharing, PlainOK
  <2>3. QED BY <1>0, <2>1, <2>2, ChainStepType, TypeParts1
<1>21. CASE WriteShares
  <2>1. ChainStep BY <1>21 DEF WriteShares, ChainStep, chain
  <2>2. PlainOK'
    BY <1>0, <1>21, FaultType, PlainStep
    DEF WriteShares, chain, form, files, history, Again, Finalizing, Configuring, Minting, Planning, Sharing, PlainOK
  <2>3. QED BY <1>0, <2>1, <2>2, ChainStepType, TypeParts1
<1>22. CASE EnableMonitor
  <2>1. ChainStep BY <1>22 DEF EnableMonitor, ChainStep, chain
  <2>2. PlainOK'
    BY <1>0, <1>22, FaultType, PlainStep
    DEF EnableMonitor, chain, form, files, history, Again, Finalizing, Configuring, Minting, Planning, Sharing, PlainOK
  <2>3. QED BY <1>0, <2>1, <2>2, ChainStepType, TypeParts1
<1>23. QED
  BY <1>1, <1>2, <1>3, <1>4, <1>5, <1>6, <1>7, <1>8, <1>9, <1>10, <1>11, <1>12, <1>13,
     <1>14, <1>15, <1>16, <1>17, <1>18, <1>19, <1>20, <1>21, <1>22 DEF Next, Finalize

(***************************************************************************)
(* The files.                                                              *)
(***************************************************************************)
LEMMA PlacedStep ==
  ASSUME Inv, [Next]_vars
  PROVE  Placed'
<1> USE DEF form, files, history, Written, Settled, Configuring, Minting, Planning, Sharing,
            Finalizing
<1>0. Placed /\ PlainOK /\ faults \in Nat
  BY TypeParts, WizardAssumption DEF Inv, PlainOK
<1>1. ASSUME NEW m \in {"deploy", "existing"}, NEW a \in Answers, NEW typed \in Typed,
             Submit(m, typed, a)
      PROVE  Placed'
  <2>1. mode' = "deploy" => unverified' \/ NoAddress \in {config'.nft, config'.sub}
    <3>1. CASE m = "deploy" /\ typed # NoPair
      <4>1. unverified' = TRUE BY <1>1, <3>1 DEF Submit
      <4>2. QED BY <4>1
    <3>2. CASE m # "deploy" BY <1>1, <3>2 DEF Submit
    <3>3. CASE typed = NoPair BY <1>1, <3>3 DEF Submit, NoPair
    <3>4. QED BY <3>1, <3>2, <3>3
  <2>2. QED BY <1>0, <1>1, <2>1 DEF Submit, Placed
<1>2. CASE BackToForm
  BY <1>0, <1>2 DEF BackToForm, Placed, Again, Fault, NoFault
<1>3. CASE AddHotWallet
  BY <1>0, <1>3 DEF AddHotWallet, Placed, Again, Fault, NoFault
<1>4. CASE Verify
  BY <1>0, <1>4 DEF Verify, Placed, Again, Fault, NoFault
<1>5. CASE Recorded
  BY <1>0, <1>5 DEF Recorded, Placed, Again, Fault, NoFault
<1>6. CASE Deploy
  BY <1>0, <1>6 DEF Deploy, Placed, Again, Fault, NoFault
<1>7. CASE WriteWeb3
  BY <1>0, <1>7 DEF WriteWeb3, Placed, Again, Fault, NoFault
<1>8. CASE WriteYaml
  BY <1>0, <1>8 DEF WriteYaml, Placed, Again, Fault, NoFault
<1>9. CASE WriteEnv
  BY <1>0, <1>9 DEF WriteEnv, Placed, Again, Fault, NoFault
<1>10. CASE WriteVms
  BY <1>0, <1>10 DEF WriteVms, Placed, Again, Fault, NoFault
<1>11. CASE Encrypt
  BY <1>0, <1>11 DEF Encrypt, Placed, Again, Fault, NoFault
<1>12. CASE UpdateFirst \/ UpdateOther
  BY <1>0, <1>12 DEF UpdateFirst, UpdateOther, Placed, Again, Fault, NoFault
<1>13. CASE Mint
  BY <1>0, <1>13 DEF Mint, Placed, Again, Fault, NoFault
<1>14. CASE MintUnsure
  BY <1>0, <1>14 DEF MintUnsure, Placed, Again, Fault, NoFault
<1>15. CASE MintCli
  BY <1>0, <1>15 DEF MintCli, Placed, Again, Fault, NoFault
<1>16. CASE SetStable
  BY <1>0, <1>16 DEF SetStable, Placed, Again, Fault, NoFault
<1>17. CASE CreatePlan
  BY <1>0, <1>17 DEF CreatePlan, Placed, Again, Fault, NoFault
<1>18. CASE CastPlan
  BY <1>0, <1>18 DEF CastPlan, Placed, Again, Fault, NoFault
<1>19. CASE InitBook
  <2>1. /\ pc = "book" /\ pc' \in {"shares", "book"} /\ faults' \in {faults, faults + 1}
        /\ UNCHANGED <<chain, form, web3, env, yaml, vms, shares>>
    BY <1>19 DEF InitBook, Again, Fault, NoFault
  <2>2. {"admin", "server"} \subseteq InitRoles BY DEF InitRoles
  <2>3. /\ book' = {} \/ {"admin", "server"} \subseteq book'
        /\ pc' = "shares" => book' # {}
    BY <1>0, <1>19, <2>2 DEF InitBook, Again, Placed
  <2>4. QED BY <1>0, <2>1, <2>3 DEF Placed
<1>20. CASE WriteShares
  BY <1>0, <1>20 DEF WriteShares, Placed, Again, Fault, NoFault
<1>21. CASE EnableMonitor
  <2>1. /\ pc = "enable" /\ pc' \in {"done", "book"} /\ faults' \in {faults, faults + 1}
        /\ UNCHANGED <<chain, form, web3, env, yaml, vms, book, shares>>
    BY <1>21 DEF EnableMonitor, Again, Fault, NoFault
  <2>2. QED BY <1>0, <2>1 DEF Placed
<1>22. CASE UNCHANGED vars BY <1>0, <1>22 DEF vars, Placed
<1>23. QED
  BY <1>1, <1>2, <1>3, <1>4, <1>5, <1>6, <1>7, <1>8, <1>9, <1>10, <1>11, <1>12, <1>13,
     <1>14, <1>15, <1>16, <1>17, <1>18, <1>19, <1>20, <1>21, <1>22 DEF Next, Finalize

(***************************************************************************)
(* The contracts.                                                          *)
(***************************************************************************)
LEMMA ChainKeeps ==
  ASSUME TypeOK, ChainStep
  PROVE  /\ DOMAIN nfts' = DOMAIN nfts /\ DOMAIN subs' = DOMAIN subs
         /\ \A i \in DOMAIN nfts :
              nfts[i] # <<>> => nfts'[i] # <<>> /\ nfts'[i][1] = nfts[i][1]
         /\ \A i \in DOMAIN subs :
              /\ subs[i].stable => subs'[i].stable
              /\ subs[i].plans > 0 => subs'[i].plans > 0
<1>1. NewChain /\ NewChain' /\ enc \in {"empty", "new"}
  BY ChainStepType DEF TypeOK, NewChain
<1>2. /\ DOMAIN nfts = 1 .. Len(nfts) /\ DOMAIN subs = 1 .. Len(subs)
      /\ DOMAIN nfts' = 1 .. Len(nfts') /\ DOMAIN subs' = 1 .. Len(subs')
  BY <1>1 DEF NewChain
<1>3. CASE UNCHANGED chain BY <1>3 DEF chain
<1>4. CASE nfts' \in {nfts, Minted(enc)} /\ UNCHANGED subs
  BY <1>1, <1>2, <1>4, TokensFact
<1>5. CASE subs' \in {subs, Stabled} /\ UNCHANGED nfts
  BY <1>2, <1>5, StabledFact
<1>6. CASE subs' \in {subs, WithPlan} /\ UNCHANGED nfts
  <2>1. /\ Len(subs') = Len(subs)
        /\ \A i \in 1 .. Len(subs) :
             /\ subs[i].plans <= subs'[i].plans
             /\ subs[i].stable => subs'[i].stable
    BY <1>6, PlanFact
  <2>2. \A i \in 1 .. Len(subs) : subs[i].plans \in Nat BY PlansType
  <2>3. \A i \in 1 .. Len(subs) : subs'[i].plans \in Nat
    <3>1. ASSUME NEW i \in 1 .. Len(subs') PROVE subs'[i].plans \in Nat
      <4>1. subs'[i] \in Contract BY <1>1, <3>1 DEF NewChain
      <4>2. QED BY <4>1 DEF Contract
    <3>2. QED BY <2>1, <3>1
  <2>4. ASSUME NEW i \in 1 .. Len(subs), subs[i].plans > 0 PROVE subs'[i].plans > 0
    BY <2>1, <2>2, <2>3, <2>4
  <2>5. QED BY <1>2, <1>6, <2>1, <2>4
<1>7. QED BY <1>3, <1>4, <1>5, <1>6 DEF ChainStep

(* A step goes on only with what it has done. *)
LEMMA ReachedKept ==
  ASSUME TypeOK, Reached, ChainStep, UNCHANGED form,
         pc' \in Configuring \cup Written => pc \in Configuring \cup Written,
         pc' \in Settled => pc \in Settled \/ unverified \/ nfts'[config.nft] # <<>>,
         pc' \in Settled \ {"stable"} /\ usdc =>
           pc \in Settled \ {"stable"} \/ unverified \/ subs'[config.sub].stable,
         pc' \in Sharing \cup {"done"} =>
           pc \in Sharing \cup {"done"} \/ unverified \/ subs'[config.sub].plans > 0
  PROVE  Reached'
<1>1. CASE unverified BY <1>1 DEF Reached, form
<1>2. CASE ~unverified
  <2>1. config' = config /\ usdc' = usdc BY DEF form
  <2>2. pc \in Configuring \cup Written =>
          Exists(config.nft, nfts) /\ Exists(config.sub, subs)
    BY <1>2 DEF Reached
  <2>3. Settled \subseteq Configuring \cup Written /\ Sharing \cup {"done"} \subseteq Settled
    BY DEF Written, Settled
  <2>4. pc' \in Configuring \cup Written =>
          Exists(config.nft, nfts') /\ Exists(config.sub, subs')
    BY <2>2, ChainKeeps DEF Exists
  <2>5. pc' \in Settled => nfts'[config.nft] # <<>>
    <3>1. pc \in Settled => nfts[config.nft] # <<>> /\ config.nft \in DOMAIN nfts
      BY <1>2, <2>2, <2>3 DEF Reached, Exists
    <3>2. QED BY <1>2, <3>1, ChainKeeps
  <2>6. pc' \in Settled \ {"stable"} /\ usdc => subs'[config.sub].stable
    <3>1. pc \in Settled \ {"stable"} /\ usdc =>
            subs[config.sub].stable /\ config.sub \in DOMAIN subs
      BY <1>2, <2>2, <2>3 DEF Reached, Exists
    <3>2. QED BY <1>2, <3>1, ChainKeeps
  <2>7. pc' \in Sharing \cup {"done"} => subs'[config.sub].plans > 0
    <3>1. pc \in Sharing \cup {"done"} =>
            subs[config.sub].plans > 0 /\ config.sub \in DOMAIN subs
      BY <1>2, <2>2, <2>3 DEF Reached, Exists
    <3>2. QED BY <1>2, <3>1, ChainKeeps
  <2>8. QED BY <2>1, <2>4, <2>5, <2>6, <2>7 DEF Reached, Exists
<1>3. QED BY <1>1, <1>2

LEMMA ReachedStep ==
  ASSUME Inv, [Next]_vars
  PROVE  Reached'
<1> USE DEF form, files, history, Written, Settled, Configuring, Minting, Planning, Sharing
<1>0. /\ TypeOK /\ Placed /\ Reached /\ NewChain /\ enc \in {"empty", "new"}
      /\ pc \in Minting => web3 = config
      /\ DOMAIN nfts = 1 .. Len(nfts) /\ DOMAIN subs = 1 .. Len(subs)
  BY TypeParts DEF Inv, Placed, NewChain, TypeOK
<1>1. ASSUME NEW m \in {"deploy", "existing"}, NEW a \in Answers, NEW typed \in Typed,
             Submit(m, typed, a)
      PROVE  Reached'
  <2>1. pc' = "contracts" BY <1>1 DEF Submit
  <2>2. QED BY <2>1 DEF Reached
<1>2. CASE BackToForm
  <2>1. pc' = "form" BY <1>2 DEF BackToForm
  <2>2. QED BY <2>1 DEF Reached
<1>3. CASE Verify
  <2>1. /\ pc' \in {"web3", "contracts"} /\ UNCHANGED <<chain, form>>
        /\ Exists(config.nft, nfts) /\ Exists(config.sub, subs)
    BY <1>3 DEF Verify, Again
  <2>2. QED BY <2>1 DEF Reached, chain, Exists
<1>4. CASE Recorded
  <2>1. unverified' BY <1>0, <1>4 DEF Recorded, Placed
  <2>2. QED BY <2>1 DEF Reached
<1>5. CASE Deploy
  <2>1. CASE pc' = "contracts" BY <2>1 DEF Reached
  <2>2. CASE /\ nfts' = Append(nfts, <<>>)
             /\ subs' = Append(subs, [stable |-> FALSE, plans |-> 0])
             /\ config' = [nft |-> Len(nfts'), sub |-> Len(subs')]
             /\ pc' = "web3"
    <3>1. /\ nfts' \in Seq(Seq(Credential)) /\ Len(nfts') = Len(nfts) + 1
          /\ subs' \in Seq(Contract) /\ Len(subs') = Len(subs) + 1
      BY <1>0, <2>2, DeployedFact
    <3>2. Exists(config'.nft, nfts') /\ Exists(config'.sub, subs')
      BY <1>0, <2>2, <3>1 DEF Exists, NewChain
    <3>3. QED BY <2>2, <3>2 DEF Reached, Exists
  <2>3. QED BY <1>5, <2>1, <2>2 DEF Deploy, Again
<1>6. ASSUME UNCHANGED <<chain, form, pc>> PROVE Reached'
  BY <1>0, <1>6 DEF Reached, chain, Exists
<1>7. CASE AddHotWallet BY <1>6, <1>7 DEF AddHotWallet
<1>8. CASE UNCHANGED vars BY <1>6, <1>8 DEF vars
<1>9. CASE WriteWeb3
  <2>1. ChainStep BY <1>9 DEF WriteWeb3, ChainStep, chain
  <2>2. QED BY <1>0, <1>9, <2>1, ReachedKept DEF WriteWeb3, Again
<1>10. CASE WriteYaml
  <2>1. ChainStep BY <1>10 DEF WriteYaml, ChainStep, chain
  <2>2. QED BY <1>0, <1>10, <2>1, ReachedKept DEF WriteYaml, Again
<1>11. CASE WriteEnv
  <2>1. ChainStep BY <1>11 DEF WriteEnv, ChainStep, chain
  <2>2. QED BY <1>0, <1>11, <2>1, ReachedKept DEF WriteEnv, Again
<1>12. CASE WriteVms
  <2>1. ChainStep BY <1>12 DEF WriteVms, ChainStep, chain
  <2>2. QED BY <1>0, <1>12, <2>1, ReachedKept DEF WriteVms, Again
<1>13. CASE Encrypt
  <2>1. ChainStep BY <1>13 DEF Encrypt, ChainStep, chain
  <2>2. QED BY <1>0, <1>13, <2>1, ReachedKept DEF Encrypt, Again
<1>14. CASE UpdateFirst \/ UpdateOther
  <2>1. /\ web3 = config /\ HasFirst /\ UNCHANGED <<form, subs>> /\ pc = "mint"
        /\ pc' \in {"stable", "details"} /\ nfts' \in {nfts, Updated}
    BY <1>0, <1>14 DEF UpdateFirst, UpdateOther, OwnsFirst, Again
  <2>2. config.nft \in DOMAIN nfts /\ nfts[config.nft] # <<>>
    BY <2>1 DEF HasFirst, Exists
  <2>3. DOMAIN nfts' = DOMAIN nfts /\ nfts'[config.nft] # <<>>
    <3>1. CASE UNCHANGED nfts BY <2>2, <3>1
    <3>2. CASE nfts' = Updated
      <4>1. /\ nfts' \in Seq(Seq(Credential)) /\ Len(nfts') = Len(nfts)
            /\ nfts'[config.nft] # <<>>
        BY <1>0, <2>1, <3>2, UpdatedFact
      <4>2. QED BY <1>0, <4>1
    <3>3. QED BY <2>1, <3>1, <3>2
  <2>4. QED BY <1>0, <2>1, <2>3 DEF Reached, Exists
<1>15. CASE Mint
  <2>1. ChainStep BY <1>15 DEF Mint, ChainStep, chain
  <2>2. /\ web3 = config /\ pc \in Minting /\ UNCHANGED form
        /\ pc' \in {"stable", "details", "mintcli"}
        /\ pc' = "stable" => nfts' = Minted(enc)
    BY <1>0, <1>15 DEF Mint, Again
  <2>3. unverified \/ Exists(web3.nft, nfts) BY <1>0, <2>2 DEF Reached
  <2>4. pc' = "stable" => unverified \/ nfts'[config.nft] # <<>>
    BY <1>0, <2>2, <2>3, MintedFirst
  <2>5. QED BY <1>0, <2>1, <2>2, <2>4, ReachedKept
<1>16. CASE MintCli
  <2>1. ChainStep BY <1>16 DEF MintCli, ChainStep, chain
  <2>2. /\ web3 = config /\ pc \in Minting /\ UNCHANGED form
        /\ pc' \in {"stable", "details", "mintcli"}
        /\ pc' = "stable" => nfts' = Minted(enc)
    BY <1>0, <1>16 DEF MintCli, Again
  <2>3. unverified \/ Exists(web3.nft, nfts) BY <1>0, <2>2 DEF Reached
  <2>4. pc' = "stable" => unverified \/ nfts'[config.nft] # <<>>
    BY <1>0, <2>2, <2>3, MintedFirst
  <2>5. QED BY <1>0, <2>1, <2>2, <2>4, ReachedKept
<1>17. CASE MintUnsure
  <2>1. ChainStep BY <1>17 DEF MintUnsure, ChainStep, chain
  <2>2. /\ web3 = config /\ pc \in Minting /\ UNCHANGED form
        /\ pc' \in {"stable", "details", "mintcli"}
        /\ pc' = "stable" => nfts' = Minted(enc)
    BY <1>0, <1>17 DEF MintUnsure, Again
  <2>3. unverified \/ Exists(web3.nft, nfts) BY <1>0, <2>2 DEF Reached
  <2>4. pc' = "stable" => unverified \/ nfts'[config.nft] # <<>>
    BY <1>0, <2>2, <2>3, MintedFirst
  <2>5. QED BY <1>0, <2>1, <2>2, <2>4, ReachedKept
<1>18. CASE SetStable
  <2>1. ChainStep BY <1>18 DEF SetStable, ChainStep, chain, Stabled
  <2>2. /\ pc = "stable" /\ UNCHANGED form /\ pc' \in {"stable", "plan"}
        /\ pc' = "plan" => subs' = Stabled
    BY <1>18 DEF SetStable, Again, Stabled
  <2>3. unverified \/ Exists(Sub, subs) BY <1>0, <2>2 DEF Reached, Sub
  <2>4. pc' = "plan" /\ usdc => unverified \/ subs'[config.sub].stable
    BY <1>0, <2>2, <2>3, StabledFact DEF Sub
  <2>5. QED BY <1>0, <2>1, <2>2, <2>4, ReachedKept
<1>19. CASE CreatePlan
  <2>1. ChainStep BY <1>19 DEF CreatePlan, ChainStep, chain
  <2>2. /\ pc \in {"plan", "plancast"} /\ UNCHANGED form
        /\ pc' \in {"stable", "plancast", "book"}
        /\ pc' = "book" => subs' = WithPlan
    BY <1>19 DEF CreatePlan, Again
  <2>3. unverified \/ Exists(Sub, subs) BY <1>0, <2>2 DEF Reached, Sub
  <2>4. pc' = "book" => unverified \/ subs'[config.sub].plans > 0
    BY <1>0, <2>2, <2>3, PlanFact DEF Sub
  <2>5. QED BY <1>0, <2>1, <2>2, <2>4, ReachedKept
<1>20. CASE CastPlan
  <2>1. ChainStep BY <1>20 DEF CastPlan, ChainStep, chain
  <2>2. /\ pc \in {"plan", "plancast"} /\ UNCHANGED form
        /\ pc' \in {"stable", "plancast", "book"}
        /\ pc' = "book" => subs' = WithPlan
    BY <1>20 DEF CastPlan, Again
  <2>3. unverified \/ Exists(Sub, subs) BY <1>0, <2>2 DEF Reached, Sub
  <2>4. pc' = "book" => unverified \/ subs'[config.sub].plans > 0
    BY <1>0, <2>2, <2>3, PlanFact DEF Sub
  <2>5. QED BY <1>0, <2>1, <2>2, <2>4, ReachedKept
<1>21. CASE InitBook
  <2>1. ChainStep BY <1>21 DEF InitBook, ChainStep, chain
  <2>2. QED BY <1>0, <1>21, <2>1, ReachedKept DEF InitBook, Again
<1>22. CASE WriteShares
  <2>1. ChainStep BY <1>22 DEF WriteShares, ChainStep, chain
  <2>2. QED BY <1>0, <1>22, <2>1, ReachedKept DEF WriteShares, Again
<1>23. CASE EnableMonitor
  <2>1. ChainStep BY <1>23 DEF EnableMonitor, ChainStep, chain
  <2>2. QED BY <1>0, <1>23, <2>1, ReachedKept DEF EnableMonitor, Again
<1>24. QED
  BY <1>1, <1>2, <1>3, <1>4, <1>5, <1>7, <1>8, <1>9, <1>10, <1>11, <1>12, <1>13, <1>14,
     <1>15, <1>16, <1>17, <1>18, <1>19, <1>20, <1>21, <1>22, <1>23 DEF Next, Finalize

(***************************************************************************)
(* How often.                                                              *)
(***************************************************************************)
Deployments == Most({"contracts"})
Mints == Most(Unmade)
Plans == Most(Unmade \cup Planning)

LEMMA MostType ==
  ASSUME PlainOK
  PROVE  /\ runs \in Nat /\ faults \in Nat
         /\ Deployments \in Int /\ Mints \in Int /\ Plans \in Int
<1>1. runs \in Nat /\ faults \in Nat BY WizardAssumption DEF PlainOK
<1>2. QED BY <1>1 DEF Deployments, Mints, Plans, Most

LEMMA MostType1 ==
  ASSUME PlainOK'
  PROVE  /\ runs' \in Nat /\ faults' \in Nat
         /\ Deployments' \in Int /\ Mints' \in Int /\ Plans' \in Int
<1>1. runs' \in Nat /\ faults' \in Nat BY WizardAssumption DEF PlainOK
<1>2. QED BY <1>1 DEF Deployments, Mints, Plans, Most

LEMMA NoMore ==
  ASSUME NEW M \in Int, NEW N \in Int, N >= M
  PROVE  N - M >= 0 /\ \A a \in Nat : a - a <= N - M
OBVIOUS

LEMMA OneMore ==
  ASSUME NEW M \in Int, NEW N \in Int, N > M, NEW a \in Nat, NEW b \in Nat, b <= a + 1
  PROVE  b - a <= N - M
OBVIOUS

LEMMA WithinMost ==
  ASSUME NEW M \in Int, NEW N \in Int, NEW a \in Nat, NEW b \in Nat, NEW c \in Nat,
         b - a <= N - M, a - c <= M
  PROVE  b - c <= N
OBVIOUS

LEMMA WithinZero ==
  ASSUME NEW M \in Int, NEW N \in Int, NEW a \in Nat, NEW b \in Nat,
         b - a <= N - M, a <= M
  PROVE  b <= N
OBVIOUS

LEMMA MadeMore ==
  ASSUME TypeOK, TypeOK', Made, UNCHANGED before,
         Deployments' >= Deployments, Mints' >= Mints, Plans' >= Plans,
         \/ UNCHANGED chain
         \/ nfts' \in {nfts, Minted(enc)} /\ UNCHANGED subs /\ (nfts' = nfts \/ Mints' > Mints)
         \/ /\ Len(nfts') = Len(nfts) /\ UNCHANGED subs
            /\ \A i \in 1 .. Len(nfts) : Len(nfts'[i]) = Len(nfts[i])
         \/ subs' \in {subs, Stabled} /\ UNCHANGED nfts
         \/ subs' \in {subs, WithPlan} /\ UNCHANGED nfts /\ (subs' = subs \/ Plans' > Plans)
  PROVE  Made'
<1>1. /\ nfts \in Seq(Seq(Credential)) /\ subs \in Seq(Contract)
      /\ nfts' \in Seq(Seq(Credential)) /\ subs' \in Seq(Contract)
      /\ Len(nfts) >= 1 /\ Len(subs) >= 1 /\ enc \in {"empty", "new"}
      /\ before \in [tokens : Nat, plans : Nat]
  BY DEF TypeOK
<1>2. /\ Deployments \in Int /\ Mints \in Int /\ Plans \in Int
      /\ Deployments' \in Int /\ Mints' \in Int /\ Plans' \in Int
  BY MostType, MostType1, TypeParts, TypeParts1
<1>3. /\ Len(nfts) \in Nat /\ Len(subs) \in Nat
      /\ before.tokens \in Nat /\ before.plans \in Nat
      /\ 1 \in 1 .. Len(nfts) /\ 1 \in 1 .. Len(subs)
  BY <1>1
<1>4. /\ \A i \in 1 .. Len(nfts) : Len(nfts[i]) \in Nat
      /\ \A i \in 1 .. Len(nfts') : Len(nfts'[i]) \in Nat
      /\ \A i \in 1 .. Len(subs) : subs[i].plans \in Nat
      /\ \A i \in 1 .. Len(subs') : subs'[i].plans \in Nat
  <2>1. \A i \in 1 .. Len(nfts) : nfts[i] \in Seq(Credential) BY <1>1
  <2>2. \A i \in 1 .. Len(nfts') : nfts'[i] \in Seq(Credential) BY <1>1
  <2>3. ASSUME NEW i \in 1 .. Len(subs') PROVE subs'[i].plans \in Nat
    <3>1. subs'[i] \in Contract BY <1>1, <2>3
    <3>2. QED BY <3>1 DEF Contract
  <2>4. QED BY <2>1, <2>2, <2>3, PlansType
<1>5. /\ Len(nfts') = Len(nfts) /\ Len(subs') = Len(subs)
      /\ \A i \in 1 .. Len(nfts) : Len(nfts'[i]) - Len(nfts[i]) <= Mints' - Mints
      /\ \A i \in 1 .. Len(subs) : subs'[i].plans - subs[i].plans <= Plans' - Plans
  <2>1. CASE UNCHANGED <<nfts, subs>> BY <1>2, <1>4, <2>1
  <2>2. CASE nfts' = Minted(enc) /\ UNCHANGED subs /\ Mints' > Mints
    <3>1. Len(nfts') = Len(nfts) /\ \A i \in 1 .. Len(nfts) : Len(nfts'[i]) <= Len(nfts[i]) + 1
      BY <1>1, <2>2, TokensFact
    <3>2. ASSUME NEW i \in 1 .. Len(nfts)
          PROVE  Len(nfts'[i]) - Len(nfts[i]) <= Mints' - Mints
      <4>1. Len(nfts'[i]) \in Nat /\ Len(nfts[i]) \in Nat BY <1>4, <3>1
      <4>2. Len(nfts'[i]) <= Len(nfts[i]) + 1 BY <3>1
      <4>3. QED BY <1>2, <2>2, <4>1, <4>2, OneMore
    <3>3. \A i \in 1 .. Len(subs) : subs'[i].plans - subs[i].plans <= Plans' - Plans
      BY <1>2, <1>4, <2>2, NoMore
    <3>4. QED BY <2>2, <3>1, <3>2, <3>3
  <2>3. CASE subs' = Stabled /\ UNCHANGED nfts
    <3>1. Len(subs') = Len(subs) /\ \A i \in 1 .. Len(subs) : subs'[i].plans = subs[i].plans
      BY <2>3, StabledFact
    <3>2. \A i \in 1 .. Len(subs) : subs'[i].plans - subs[i].plans <= Plans' - Plans
      BY <1>2, <1>4, <3>1, NoMore
    <3>3. \A i \in 1 .. Len(nfts) : Len(nfts'[i]) - Len(nfts[i]) <= Mints' - Mints
      BY <1>2, <1>4, <2>3, NoMore
    <3>4. QED BY <2>3, <3>1, <3>2, <3>3
  <2>4. CASE subs' = WithPlan /\ UNCHANGED nfts /\ Plans' > Plans
    <3>1. /\ Len(subs') = Len(subs)
          /\ \A i \in 1 .. Len(subs) : subs'[i].plans <= subs[i].plans + 1
      BY <2>4, PlanFact
    <3>2. ASSUME NEW i \in 1 .. Len(subs)
          PROVE  subs'[i].plans - subs[i].plans <= Plans' - Plans
      <4>1. subs'[i].plans \in Nat /\ subs[i].plans \in Nat BY <1>4, <3>1
      <4>2. subs'[i].plans <= subs[i].plans + 1 BY <3>1
      <4>3. QED BY <1>2, <2>4, <4>1, <4>2, OneMore
    <3>3. \A i \in 1 .. Len(nfts) : Len(nfts'[i]) - Len(nfts[i]) <= Mints' - Mints
      BY <1>2, <1>4, <2>4, NoMore
    <3>4. QED BY <2>4, <3>1, <3>2, <3>3
  <2>5. CASE /\ Len(nfts') = Len(nfts) /\ UNCHANGED subs
             /\ \A i \in 1 .. Len(nfts) : Len(nfts'[i]) = Len(nfts[i])
    <3>1. \A i \in 1 .. Len(nfts) : Len(nfts'[i]) - Len(nfts[i]) <= Mints' - Mints
      BY <1>2, <1>4, <2>5, NoMore
    <3>2. \A i \in 1 .. Len(subs) : subs'[i].plans - subs[i].plans <= Plans' - Plans
      BY <1>2, <1>4, <2>5, NoMore
    <3>3. QED BY <2>5, <3>1, <3>2
  <2>6. QED BY <2>1, <2>2, <2>3, <2>4, <2>5 DEF chain
<1>6. /\ Len(subs) <= Len(nfts) /\ Len(nfts) - 1 <= Deployments
      /\ Len(nfts[1]) - before.tokens <= Mints
      /\ \A i \in 2 .. Len(nfts) : Len(nfts[i]) <= Mints
      /\ subs[1].plans - before.plans <= Plans
      /\ \A i \in 2 .. Len(subs) : subs[i].plans <= Plans
  BY DEF Made, Deployments, Mints, Plans
<1>7. Len(subs') <= Len(nfts') /\ Len(nfts') - 1 <= Deployments'
  BY <1>2, <1>3, <1>5, <1>6
<1>8. Len(nfts'[1]) - before'.tokens <= Mints' /\ subs'[1].plans - before'.plans <= Plans'
  <2>1. /\ Len(nfts[1]) \in Nat /\ Len(nfts'[1]) \in Nat
        /\ subs[1].plans \in Nat /\ subs'[1].plans \in Nat
    BY <1>3, <1>4, <1>5
  <2>2. /\ Len(nfts'[1]) - Len(nfts[1]) <= Mints' - Mints
        /\ subs'[1].plans - subs[1].plans <= Plans' - Plans
    BY <1>3, <1>5
  <2>3. before' = before OBVIOUS
  <2>4. QED BY <1>2, <1>3, <1>6, <2>1, <2>2, <2>3, WithinMost
<1>9. ASSUME NEW i \in 2 .. Len(nfts') PROVE Len(nfts'[i]) <= Mints'
  <2>1. i \in 1 .. Len(nfts) /\ i \in 2 .. Len(nfts) BY <1>3, <1>5
  <2>2. Len(nfts'[i]) \in Nat /\ Len(nfts[i]) \in Nat BY <1>4, <1>5, <2>1
  <2>3. Len(nfts'[i]) - Len(nfts[i]) <= Mints' - Mints /\ Len(nfts[i]) <= Mints BY <1>5, <1>6, <2>1
  <2>4. QED BY <1>2, <2>2, <2>3, WithinZero
<1>10. ASSUME NEW i \in 2 .. Len(subs') PROVE subs'[i].plans <= Plans'
  <2>1. i \in 1 .. Len(subs) /\ i \in 2 .. Len(subs) BY <1>3, <1>5
  <2>2. subs'[i].plans \in Nat /\ subs[i].plans \in Nat BY <1>4, <1>5, <2>1
  <2>3. subs'[i].plans - subs[i].plans <= Plans' - Plans /\ subs[i].plans <= Plans BY <1>5, <1>6, <2>1
  <2>4. QED BY <1>2, <2>2, <2>3, WithinZero
<1>11. QED BY <1>7, <1>8, <1>9, <1>10 DEF Made, Deployments, Mints, Plans

(* Within a run, a step goes on or costs a fault; so there is room for what *)
(* a step makes.                                                            *)
LEMMA MostGrows ==
  ASSUME PlainOK, PlainOK', UNCHANGED runs, faults' >= faults, NEW U, pc' \in U => pc \in U
  PROVE  /\ Most(U)' >= Most(U)
         /\ faults' > faults \/ (pc \in U /\ pc' \notin U) => Most(U)' > Most(U)
<1>1. runs \in Nat /\ faults \in Nat /\ faults' \in Nat /\ runs' = runs
  BY MostType, MostType1
<1>2. /\ pc \in U => Most(U) = runs + faults - 1
      /\ pc \notin U => Most(U) = runs + faults
      /\ pc' \in U => Most(U)' = runs + faults' - 1
      /\ pc' \notin U => Most(U)' = runs + faults'
  BY <1>1 DEF Most
<1>3. QED BY <1>1, <1>2

Onward ==
  /\ pc' = "contracts" => pc = "contracts"
  /\ pc' \in Unmade => pc \in Unmade
  /\ pc' \in Unmade \cup Planning => pc \in Unmade \cup Planning

LEMMA RoomGrows ==
  ASSUME PlainOK, PlainOK', UNCHANGED runs, Fault \/ NoFault, Onward
  PROVE  /\ Deployments' >= Deployments /\ Mints' >= Mints /\ Plans' >= Plans
         /\ Fault \/ (pc \in Unmade /\ pc' \notin Unmade) => Mints' > Mints
         /\ Fault \/ (pc \in Unmade \cup Planning /\ pc' \notin Unmade \cup Planning) =>
              Plans' > Plans
<1>1. faults \in Nat /\ faults' >= faults /\ (Fault => faults' > faults)
  BY MostType DEF Fault, NoFault
<1>2. Most({"contracts"})' >= Most({"contracts"}) BY <1>1, MostGrows DEF Onward
<1>3. /\ Most(Unmade)' >= Most(Unmade)
      /\ Fault \/ (pc \in Unmade /\ pc' \notin Unmade) => Most(Unmade)' > Most(Unmade)
  BY <1>1, MostGrows DEF Onward
<1>4. /\ Most(Unmade \cup Planning)' >= Most(Unmade \cup Planning)
      /\ Fault \/ (pc \in Unmade \cup Planning /\ pc' \notin Unmade \cup Planning) =>
           Most(Unmade \cup Planning)' > Most(Unmade \cup Planning)
  BY <1>1, MostGrows DEF Onward
<1>5. QED BY <1>2, <1>3, <1>4 DEF Deployments, Mints, Plans

LEMMA LaterMost ==
  ASSUME NEW r \in Nat, NEW f \in Nat, NEW g \in Nat, g >= f
  PROVE  r + g - 1 >= r + f - 1 /\ r + g >= r + f - 1
OBVIOUS

LEMMA DeployMade ==
  ASSUME TypeOK, TypeOK', Made, Deploy
  PROVE  Made'
<1>1. /\ nfts \in Seq(Seq(Credential)) /\ subs \in Seq(Contract)
      /\ Len(nfts) >= 1 /\ Len(subs) >= 1
      /\ Len(nfts) \in Nat /\ Len(subs) \in Nat
  BY DEF TypeOK
<1>2. runs \in Nat /\ faults \in Nat BY MostType, TypeParts
<1>3. /\ pc = "contracts" /\ pc' \in {"contracts", "web3"} /\ UNCHANGED <<runs, before>>
      /\ faults' = faults \/ faults' = faults + 1
  BY DEF Deploy, Again, Fault, NoFault, history
<1>4. Deployments = runs + faults - 1 /\ Mints = runs + faults - 1 /\ Plans = runs + faults - 1
  BY <1>3 DEF Deployments, Mints, Plans, Most, Unmade
<1>5. Deployments' >= Deployments /\ Mints' >= Mints /\ Plans' >= Plans
  <2>1. /\ pc' \in Unmade /\ runs' = runs
        /\ faults' \in Nat /\ faults' >= faults
    BY <1>2, <1>3 DEF Unmade, Configuring
  <2>2. Mints' = runs + faults' - 1 /\ Plans' = runs + faults' - 1
    BY <2>1 DEF Mints, Plans, Most
  <2>3. Deployments' = runs + faults' - 1 \/ Deployments' = runs + faults'
    BY <2>1 DEF Deployments, Most
  <2>4. runs + faults' - 1 >= runs + faults - 1 /\ runs + faults' >= runs + faults - 1
    BY <1>2, <2>1, LaterMost
  <2>5. QED BY <1>4, <2>2, <2>3, <2>4
<1>6. CASE UNCHANGED chain BY <1>3, <1>5, <1>6, MadeMore
<1>7. CASE /\ nfts' = Append(nfts, <<>>)
           /\ subs' \in {subs, Append(subs, [stable |-> FALSE, plans |-> 0])}
           /\ faults' = faults + 1 \/ pc' = "web3"
  <2>1. /\ Len(nfts') = Len(nfts) + 1 /\ nfts'[Len(nfts) + 1] = <<>>
        /\ \A i \in 1 .. Len(nfts) : nfts'[i] = nfts[i]
    BY <1>7, DeployedFact
  <2>2. \/ subs' = subs
        \/ /\ Len(subs') = Len(subs) + 1 /\ subs'[Len(subs) + 1].plans = 0
           /\ \A i \in 1 .. Len(subs) : subs'[i] = subs[i]
    BY <1>7, DeployedFact
  <2>3. /\ Len(subs) <= Len(nfts) /\ Len(nfts) - 1 <= Deployments
        /\ Len(nfts[1]) - before.tokens <= Mints
        /\ \A i \in 2 .. Len(nfts) : Len(nfts[i]) <= Mints
        /\ subs[1].plans - before.plans <= Plans
        /\ \A i \in 2 .. Len(subs) : subs[i].plans <= Plans
    BY DEF Made, Deployments, Mints, Plans
  <2>4. Deployments' >= runs + faults
    <3>1. CASE faults' = faults + 1
      <4>1. Deployments' = runs + faults' - 1 \/ Deployments' = runs + faults'
        BY <1>2, <1>3, <3>1 DEF Deployments, Most
      <4>2. QED BY <1>2, <3>1, <4>1
    <3>2. CASE pc' = "web3"
      <4>1. Deployments' = runs + faults' BY <1>2, <1>3, <3>2 DEF Deployments, Most
      <4>2. QED BY <1>2, <1>3, <4>1
    <3>3. QED BY <1>7, <3>1, <3>2
  <2>5. /\ Deployments' \in Int /\ Mints' \in Int /\ Plans' \in Int
    BY MostType1, TypeParts1
  <2>6. Mints' >= 0 /\ Plans' >= 0 BY <1>1, <1>2, <1>4, <1>5, <2>3, <2>5
  <2>7. Len(nfts') - 1 <= Deployments' /\ Len(subs') <= Len(nfts')
    BY <1>1, <1>2, <1>4, <2>1, <2>2, <2>3, <2>4, <2>5
  <2>8. /\ Len(nfts[1]) \in Nat /\ subs[1].plans \in Nat
        /\ before.tokens \in Nat /\ before.plans \in Nat
    <3>1. nfts[1] \in Seq(Credential) /\ before \in [tokens : Nat, plans : Nat]
      BY <1>1 DEF TypeOK
    <3>2. QED BY <1>1, <3>1, PlansType
  <2>9. /\ nfts'[1] = nfts[1] /\ subs'[1] = subs[1] /\ before' = before
    BY <1>1, <1>3, <2>1, <2>2
  <2>10. Len(nfts'[1]) - before'.tokens <= Mints' /\ subs'[1].plans - before'.plans <= Plans'
    BY <1>2, <1>4, <1>5, <2>3, <2>5, <2>8, <2>9
  <2>11. ASSUME NEW i \in 2 .. Len(nfts') PROVE Len(nfts'[i]) <= Mints'
    <3>1. CASE i = Len(nfts) + 1 BY <2>1, <2>6, <3>1
    <3>2. CASE i \in 2 .. Len(nfts)
      <4>1. nfts'[i] = nfts[i] /\ nfts[i] \in Seq(Credential) BY <1>1, <2>1, <3>2
      <4>2. Len(nfts[i]) \in Nat /\ Len(nfts[i]) <= Mints BY <2>3, <3>2, <4>1
      <4>3. QED BY <1>2, <1>4, <1>5, <2>5, <4>1, <4>2
    <3>3. QED BY <1>1, <2>1, <3>1, <3>2
  <2>12. ASSUME NEW i \in 2 .. Len(subs') PROVE subs'[i].plans <= Plans'
    <3>1. CASE i = Len(subs) + 1
      <4>1. Len(subs') # Len(subs) BY <1>1, <3>1
      <4>2. QED BY <2>2, <2>6, <3>1, <4>1
    <3>2. CASE i \in 2 .. Len(subs)
      <4>1. subs'[i] = subs[i] /\ subs[i].plans \in Nat BY <1>1, <2>2, <3>2, PlansType
      <4>2. subs[i].plans <= Plans BY <2>3, <3>2
      <4>3. QED BY <1>2, <1>4, <1>5, <2>5, <4>1, <4>2
    <3>3. QED BY <1>1, <2>2, <3>1, <3>2
  <2>13. QED BY <2>7, <2>10, <2>11, <2>12 DEF Made, Deployments, Mints, Plans
<1>8. QED BY <1>6, <1>7 DEF Deploy, Again, Fault

LEMMA SubmitMost ==
  ASSUME NEW r \in Nat, NEW f \in Nat
  PROVE  r + 1 + f - 1 >= r + f
OBVIOUS

LEMMA SubmitMade ==
  ASSUME TypeOK, TypeOK', Made, NEW m, NEW a, NEW typed, Submit(m, typed, a)
  PROVE  Made'
<1>1. /\ runs' = runs + 1 /\ faults' = faults /\ pc \in {"form", "done"}
      /\ pc' = "contracts" /\ UNCHANGED before /\ UNCHANGED chain
  BY DEF Submit
<1>2. runs \in Nat /\ faults \in Nat BY MostType, TypeParts
<1>3. Deployments = runs + faults /\ Mints = runs + faults /\ Plans = runs + faults
  BY <1>1, <1>2 DEF Deployments, Mints, Plans, Most, Unmade, Configuring, Minting, Planning
<1>4. /\ Deployments' = runs + 1 + faults - 1 /\ Mints' = runs + 1 + faults - 1
      /\ Plans' = runs + 1 + faults - 1
  BY <1>1, <1>2 DEF Deployments, Mints, Plans, Most, Unmade
<1>5. Deployments' >= Deployments /\ Mints' >= Mints /\ Plans' >= Plans
  BY <1>2, <1>3, <1>4, SubmitMost
<1>6. QED BY <1>1, <1>5, MadeMore

LEMMA MadeStep ==
  ASSUME Inv, TypeOK', [Next]_vars
  PROVE  Made'
<1>0. /\ TypeOK /\ Made /\ PlainOK /\ PlainOK' /\ (pc \in Minting => web3 = config)
  BY TypeParts, TypeParts1 DEF Inv, Placed, Written
<1>1. ASSUME NEW m \in {"deploy", "existing"}, NEW a \in Answers, NEW typed \in Typed,
             Submit(m, typed, a)
      PROVE  Made'
  BY <1>0, <1>1, SubmitMade
<1>2. ASSUME UNCHANGED chain, UNCHANGED history, Fault \/ NoFault, Onward
      PROVE  Made'
  <2>1. UNCHANGED runs /\ UNCHANGED before BY <1>2 DEF history
  <2>2. Deployments' >= Deployments /\ Mints' >= Mints /\ Plans' >= Plans
    BY <1>0, <1>2, <2>1, RoomGrows
  <2>3. QED BY <1>0, <1>2, <2>1, <2>2, MadeMore
<1>3. CASE UNCHANGED vars
  <2>1. UNCHANGED chain /\ UNCHANGED history /\ (Fault \/ NoFault) BY <1>3 DEF vars, NoFault
  <2>2. Onward
    BY <1>3 DEF vars, Again, Onward, Unmade, Configuring, Minting, Planning, Sharing
  <2>3. QED BY <1>2, <2>1, <2>2
<1>4. CASE BackToForm
  <2>1. UNCHANGED chain /\ UNCHANGED history /\ (Fault \/ NoFault) BY <1>4 DEF BackToForm, NoFault
  <2>2. Onward
    BY <1>4 DEF BackToForm, Again, Onward, Unmade, Configuring, Minting, Planning, Sharing, Finalizing
  <2>3. QED BY <1>2, <2>1, <2>2
<1>5. CASE AddHotWallet
  <2>1. UNCHANGED chain /\ UNCHANGED history /\ (Fault \/ NoFault) BY <1>5 DEF AddHotWallet, Again, NoFault
  <2>2. Onward
    BY <1>5 DEF AddHotWallet, Again, Onward, Unmade, Configuring, Minting, Planning, Sharing
  <2>3. QED BY <1>2, <2>1, <2>2
<1>6. CASE Verify
  <2>1. UNCHANGED chain /\ UNCHANGED history /\ (Fault \/ NoFault) BY <1>6 DEF Verify, Again, NoFault
  <2>2. Onward
    BY <1>6 DEF Verify, Again, Onward, Unmade, Configuring, Minting, Planning, Sharing
  <2>3. QED BY <1>2, <2>1, <2>2
<1>7. CASE Recorded
  <2>1. UNCHANGED chain /\ UNCHANGED history /\ (Fault \/ NoFault) BY <1>7 DEF Recorded, Again, NoFault
  <2>2. Onward
    BY <1>7 DEF Recorded, Again, Onward, Unmade, Configuring, Minting, Planning, Sharing
  <2>3. QED BY <1>2, <2>1, <2>2
<1>8. CASE WriteWeb3
  <2>1. UNCHANGED chain /\ UNCHANGED history /\ (Fault \/ NoFault) BY <1>8 DEF WriteWeb3, Again, NoFault
  <2>2. Onward
    BY <1>8 DEF WriteWeb3, Again, Onward, Unmade, Configuring, Minting, Planning, Sharing
  <2>3. QED BY <1>2, <2>1, <2>2
<1>9. CASE WriteYaml
  <2>1. UNCHANGED chain /\ UNCHANGED history /\ (Fault \/ NoFault) BY <1>9 DEF WriteYaml, Again, NoFault
  <2>2. Onward
    BY <1>9 DEF WriteYaml, Again, Onward, Unmade, Configuring, Minting, Planning, Sharing
  <2>3. QED BY <1>2, <2>1, <2>2
<1>10. CASE WriteEnv
  <2>1. UNCHANGED chain /\ UNCHANGED history /\ (Fault \/ NoFault) BY <1>10 DEF WriteEnv, Again, NoFault
  <2>2. Onward
    BY <1>10 DEF WriteEnv, Again, Onward, Unmade, Configuring, Minting, Planning, Sharing
  <2>3. QED BY <1>2, <2>1, <2>2
<1>11. CASE WriteVms
  <2>1. UNCHANGED chain /\ UNCHANGED history /\ (Fault \/ NoFault) BY <1>11 DEF WriteVms, Again, NoFault
  <2>2. Onward
    BY <1>11 DEF WriteVms, Again, Onward, Unmade, Configuring, Minting, Planning, Sharing
  <2>3. QED BY <1>2, <2>1, <2>2
<1>12. CASE Encrypt
  <2>1. UNCHANGED chain /\ UNCHANGED history /\ (Fault \/ NoFault) BY <1>12 DEF Encrypt, Again, NoFault
  <2>2. Onward
    BY <1>12 DEF Encrypt, Again, Onward, Unmade, Configuring, Minting, Planning, Sharing
  <2>3. QED BY <1>2, <2>1, <2>2
<1>13. CASE InitBook
  <2>1. UNCHANGED chain /\ UNCHANGED history /\ (Fault \/ NoFault) BY <1>13 DEF InitBook, Again, NoFault
  <2>2. Onward
    BY <1>13 DEF InitBook, Again, Onward, Unmade, Configuring, Minting, Planning, Sharing
  <2>3. QED BY <1>2, <2>1, <2>2
<1>14. CASE WriteShares
  <2>1. UNCHANGED chain /\ UNCHANGED history /\ (Fault \/ NoFault) BY <1>14 DEF WriteShares, Again, NoFault
  <2>2. Onward
    BY <1>14 DEF WriteShares, Again, Onward, Unmade, Configuring, Minting, Planning, Sharing
  <2>3. QED BY <1>2, <2>1, <2>2
<1>15. CASE EnableMonitor
  <2>1. UNCHANGED chain /\ UNCHANGED history /\ (Fault \/ NoFault) BY <1>15 DEF EnableMonitor, Again, NoFault
  <2>2. Onward
    BY <1>15 DEF EnableMonitor, Again, Onward, Unmade, Configuring, Minting, Planning, Sharing
  <2>3. QED BY <1>2, <2>1, <2>2
<1>16. CASE Deploy BY <1>0, <1>16, DeployMade
<1>17. CASE UpdateFirst \/ UpdateOther
  <2>1. /\ web3 = config /\ HasFirst /\ UNCHANGED subs /\ UNCHANGED history
        /\ nfts' \in {nfts, Updated}
        /\ (Fault \/ NoFault) /\ pc = "mint" /\ pc' \in {"stable", "details"}
    BY <1>0, <1>17 DEF UpdateFirst, UpdateOther, OwnsFirst, Again, Minting
  <2>2. Len(nfts') = Len(nfts) /\ \A i \in 1 .. Len(nfts) : Len(nfts'[i]) = Len(nfts[i])
    <3>1. CASE UNCHANGED nfts BY <3>1
    <3>2. CASE nfts' = Updated
      BY <1>0, <2>1, <3>2, UpdatedFact
    <3>3. QED BY <2>1, <3>1, <3>2
  <2>3. Onward BY <2>1 DEF Onward, Unmade, Minting, Planning
  <2>4. UNCHANGED runs /\ UNCHANGED before BY <2>1 DEF history
  <2>5. Deployments' >= Deployments /\ Mints' >= Mints /\ Plans' >= Plans
    BY <1>0, <2>1, <2>3, <2>4, RoomGrows
  <2>6. QED BY <1>0, <2>1, <2>2, <2>4, <2>5, MadeMore
<1>18. CASE Mint
  <2>1. /\ UNCHANGED subs /\ UNCHANGED history /\ (Fault \/ NoFault)
        /\ nfts' \in {nfts, Minted(enc)}
        /\ pc \in {"mint", "mintcli"} /\ pc' \in {"details", "mintcli", "stable"}
        /\ Fault \/ pc' = "stable"
    BY <1>18 DEF Mint, Again
  <2>2. Onward BY <2>1 DEF Onward, Unmade, Minting, Planning
  <2>3. Fault \/ (pc \in Unmade /\ pc' \notin Unmade)
    BY <2>1 DEF Unmade, Configuring, Minting
  <2>4. UNCHANGED runs /\ UNCHANGED before BY <2>1 DEF history
  <2>5. Deployments' >= Deployments /\ Mints' >= Mints /\ Plans' >= Plans /\ Mints' > Mints
    BY <1>0, <2>1, <2>2, <2>3, <2>4, RoomGrows
  <2>6. QED BY <1>0, <2>1, <2>4, <2>5, MadeMore
<1>19. CASE MintCli
  <2>1. /\ UNCHANGED subs /\ UNCHANGED history /\ (Fault \/ NoFault)
        /\ nfts' \in {nfts, Minted(enc)}
        /\ pc \in {"mint", "mintcli"} /\ pc' \in {"details", "mintcli", "stable"}
        /\ Fault \/ pc' = "stable"
    BY <1>19 DEF MintCli, Again
  <2>2. Onward BY <2>1 DEF Onward, Unmade, Minting, Planning
  <2>3. Fault \/ (pc \in Unmade /\ pc' \notin Unmade)
    BY <2>1 DEF Unmade, Configuring, Minting
  <2>4. UNCHANGED runs /\ UNCHANGED before BY <2>1 DEF history
  <2>5. Deployments' >= Deployments /\ Mints' >= Mints /\ Plans' >= Plans /\ Mints' > Mints
    BY <1>0, <2>1, <2>2, <2>3, <2>4, RoomGrows
  <2>6. QED BY <1>0, <2>1, <2>4, <2>5, MadeMore
<1>20. CASE MintUnsure
  <2>1. /\ UNCHANGED subs /\ UNCHANGED history /\ (Fault \/ NoFault)
        /\ nfts' \in {nfts, Minted(enc)}
        /\ pc \in {"mint", "mintcli"} /\ pc' \in {"details", "mintcli", "stable"}
        /\ Fault \/ pc' = "stable"
    BY <1>20 DEF MintUnsure, Again
  <2>2. Onward BY <2>1 DEF Onward, Unmade, Minting, Planning
  <2>3. Fault \/ (pc \in Unmade /\ pc' \notin Unmade)
    BY <2>1 DEF Unmade, Configuring, Minting
  <2>4. UNCHANGED runs /\ UNCHANGED before BY <2>1 DEF history
  <2>5. Deployments' >= Deployments /\ Mints' >= Mints /\ Plans' >= Plans /\ Mints' > Mints
    BY <1>0, <2>1, <2>2, <2>3, <2>4, RoomGrows
  <2>6. QED BY <1>0, <2>1, <2>4, <2>5, MadeMore
<1>21. CASE SetStable
  <2>1. /\ UNCHANGED nfts /\ UNCHANGED history /\ (Fault \/ NoFault)
        /\ subs' \in {subs, Stabled}
        /\ pc = "stable" /\ pc' \in {"stable", "plan"}
    BY <1>21 DEF SetStable, Again, Stabled
  <2>2. Onward BY <2>1 DEF Onward, Unmade, Configuring, Minting, Planning
  <2>3. UNCHANGED runs /\ UNCHANGED before BY <2>1 DEF history
  <2>4. Deployments' >= Deployments /\ Mints' >= Mints /\ Plans' >= Plans
    BY <1>0, <2>1, <2>2, <2>3, RoomGrows
  <2>5. QED BY <1>0, <2>1, <2>3, <2>4, MadeMore
<1>22. CASE CreatePlan
  <2>1. /\ UNCHANGED nfts /\ UNCHANGED history /\ (Fault \/ NoFault)
        /\ subs' \in {subs, WithPlan}
        /\ pc \in {"plan", "plancast"} /\ pc' \in {"stable", "plancast", "book"}
        /\ Fault \/ pc' = "book"
    BY <1>22 DEF CreatePlan, Again
  <2>2. Onward BY <2>1 DEF Onward, Unmade, Configuring, Minting, Planning
  <2>3. Fault \/ (pc \in Unmade \cup Planning /\ pc' \notin Unmade \cup Planning)
    BY <2>1 DEF Unmade, Configuring, Minting, Planning
  <2>4. UNCHANGED runs /\ UNCHANGED before BY <2>1 DEF history
  <2>5. Deployments' >= Deployments /\ Mints' >= Mints /\ Plans' >= Plans /\ Plans' > Plans
    BY <1>0, <2>1, <2>2, <2>3, <2>4, RoomGrows
  <2>6. QED BY <1>0, <2>1, <2>4, <2>5, MadeMore
<1>23. CASE CastPlan
  <2>1. /\ UNCHANGED nfts /\ UNCHANGED history /\ (Fault \/ NoFault)
        /\ subs' \in {subs, WithPlan}
        /\ pc \in {"plan", "plancast"} /\ pc' \in {"stable", "plancast", "book"}
        /\ Fault \/ pc' = "book"
    BY <1>23 DEF CastPlan, Again
  <2>2. Onward BY <2>1 DEF Onward, Unmade, Configuring, Minting, Planning
  <2>3. Fault \/ (pc \in Unmade \cup Planning /\ pc' \notin Unmade \cup Planning)
    BY <2>1 DEF Unmade, Configuring, Minting, Planning
  <2>4. UNCHANGED runs /\ UNCHANGED before BY <2>1 DEF history
  <2>5. Deployments' >= Deployments /\ Mints' >= Mints /\ Plans' >= Plans /\ Plans' > Plans
    BY <1>0, <2>1, <2>2, <2>3, <2>4, RoomGrows
  <2>6. QED BY <1>0, <2>1, <2>4, <2>5, MadeMore
<1>24. QED
  BY <1>1, <1>3, <1>4, <1>5, <1>6, <1>7, <1>8, <1>9, <1>10, <1>11, <1>12, <1>13,
     <1>14, <1>15, <1>16, <1>17, <1>18, <1>19, <1>20, <1>21, <1>22, <1>23
  DEF Next, Finalize

(***************************************************************************)
(* The administrator's token.                                              *)
(***************************************************************************)
(* A mint leaves a first token as it is, or makes a new one. *)
LEMMA MintedGood ==
  ASSUME TypeOK, web3 = config, enc = "new", Exists(config.nft, nfts),
         NEW N \in {nfts, Minted(enc)}
  PROVE  /\ nfts[config.nft] # <<>> /\ FirstGood(nfts[config.nft]) =>
              N[config.nft] # <<>> /\ FirstGood(N[config.nft])
         /\ nfts[config.nft] = <<>> =>
              /\ N = nfts \/ FirstGood(N[config.nft])
              /\ N = Minted(enc) => N[config.nft] # <<>> /\ FirstGood(N[config.nft])
<1>1. enc \in {"empty", "new"} /\ config.nft \in 1 .. Len(nfts)
  BY DEF TypeOK, Exists
<1>2. nfts[config.nft] # <<>> =>
        N[config.nft] # <<>> /\ N[config.nft][1] = nfts[config.nft][1]
  BY <1>1, TokensFact
<1>3. nfts[config.nft] = <<>> =>
        Minted(enc)[config.nft] # <<>> /\ Minted(enc)[config.nft][1].enc = "new"
  BY <1>1, MintedFirst
<1>4. QED BY <1>2, <1>3 DEF FirstGood

LEMMA OwnedStep ==
  ASSUME Inv, [Next]_vars
  PROVE  Owned'
<1>0. /\ TypeOK /\ Placed /\ Reached /\ Owned /\ enc \in {"empty", "new"}
      /\ (pc \in Minting => web3 = config)
  BY DEF Inv, Placed, Written, TypeOK
<1>1. ASSUME pc' \in {"form", "contracts"} PROVE Owned'
  BY <1>1 DEF Owned, Settled, Configuring, Planning, Sharing
<1>2. ASSUME UNCHANGED nfts, UNCHANGED form, UNCHANGED unclear,
             \/ UNCHANGED <<pc, enc>>
             \/ pc \in Configuring /\ pc' \in Configuring \cup {"details"}
             \/ pc \in Settled /\ pc' \in Settled
      PROVE  Owned'
  <2>1. UNCHANGED <<mode, config, unverified>> BY <1>2 DEF form
  <2>2. CASE UNCHANGED <<pc, enc>> BY <1>0, <1>2, <2>1, <2>2 DEF Owned, FirstGood
  <2>3. CASE pc \in Configuring /\ pc' \in Configuring \cup {"details"}
    BY <1>0, <1>2, <2>1, <2>3 DEF Owned, Configuring, Settled, Planning, Sharing
  <2>4. CASE pc \in Settled /\ pc' \in Settled
    BY <1>0, <1>2, <2>1, <2>4 DEF Owned, FirstGood, Configuring, Settled, Planning, Sharing
  <2>5. QED BY <1>2, <2>2, <2>3, <2>4
<1>3. ASSUME NEW m \in {"deploy", "existing"}, NEW a \in Answers, NEW typed \in Typed,
             Submit(m, typed, a)
      PROVE  Owned'
  BY <1>1, <1>3 DEF Submit
<1>4. CASE BackToForm BY <1>1, <1>4 DEF BackToForm
<1>5. CASE AddHotWallet BY <1>2, <1>5 DEF AddHotWallet, chain
<1>6. CASE UNCHANGED vars BY <1>2, <1>6 DEF vars, chain
<1>7. CASE Verify
  <2>1. /\ mode' = "existing" /\ pc' \in {"web3", "contracts"}
    BY <1>7 DEF Verify, Again, form
  <2>2. QED BY <2>1 DEF Owned, Settled, Configuring, Planning, Sharing
<1>8. CASE Recorded
  <2>1. unverified' BY <1>0, <1>8 DEF Recorded, Placed, form
  <2>2. QED BY <2>1 DEF Owned
<1>9. CASE Deploy
  <2>1. CASE pc' = "contracts" BY <1>1, <2>1
  <2>2. CASE /\ nfts' = Append(nfts, <<>>) /\ config'.nft = Len(nfts')
             /\ pc' = "web3"
    <3>1. Len(nfts') = Len(nfts) + 1 /\ nfts'[Len(nfts) + 1] = <<>>
      BY <1>0, <2>2, DeployedFact
    <3>2. nfts'[config'.nft] = <<>> BY <2>2, <3>1
    <3>3. QED BY <2>2, <3>2 DEF Owned, Settled, Configuring, Planning, Sharing
  <2>3. QED BY <1>9, <2>1, <2>2 DEF Deploy, Again
<1>10. CASE WriteWeb3
  BY <1>2, <1>10 DEF WriteWeb3, Again, chain, Configuring
<1>11. CASE WriteYaml
  BY <1>2, <1>11 DEF WriteYaml, Again, chain, Configuring
<1>12. CASE WriteEnv
  BY <1>2, <1>12 DEF WriteEnv, Again, chain, Configuring
<1>13. CASE WriteVms
  BY <1>2, <1>13 DEF WriteVms, Again, chain, Configuring
<1>14. CASE Encrypt
  <2>1. /\ pc = "details" /\ pc' = "mint" /\ UNCHANGED <<nfts, mode, config, unverified>>
        /\ (enc' = "new" /\ UNCHANGED unclear) \/ unclear' = TRUE
    BY <1>14 DEF Encrypt, chain, form
  <2>2. QED BY <1>0, <2>1 DEF Owned, FirstGood, Settled, Configuring, Planning, Sharing
<1>15. CASE UpdateFirst
  <2>1. /\ pc' \in {"stable", "details"} /\ UNCHANGED <<config, mode, unverified>> /\ enc = "new"
        /\ web3 = config /\ HasFirst /\ mode = "existing"
        /\ \/ nfts' = Updated
           \/ unclear' = TRUE
           \/ pc' = "details"
    BY <1>0, <1>15 DEF UpdateFirst, OwnsFirst, Again, Minting, form
  <2>2. CASE unclear' = TRUE BY <2>2 DEF Owned
  <2>3. CASE pc' = "details" BY <2>1, <2>3 DEF Owned, Settled, Configuring, Planning, Sharing
  <2>4. CASE nfts' = Updated
    <3>1. nfts'[config.nft] # <<>> /\ nfts'[config.nft][1].enc = "new"
      BY <1>0, <2>1, <2>4, UpdatedFact
    <3>2. QED
      BY <2>1, <3>1 DEF Owned, FirstGood, Settled, Configuring, Planning, Sharing
  <2>5. QED BY <2>1, <2>2, <2>3, <2>4
<1>26. CASE UpdateOther
  <2>1. /\ pc' = "stable" /\ UNCHANGED <<config, unverified>> /\ enc = "new"
        /\ web3 = config /\ HasFirst /\ nfts[config.nft][1].owner # "admin"
        /\ nfts' \in {nfts, Updated}
    BY <1>0, <1>26 DEF UpdateOther, OwnsFirst, Again, Minting, form
  <2>2. /\ nfts[config.nft] # <<>> /\ nfts[config.nft][1].owner = "other"
    <3>1. nfts[config.nft] \in Seq(Credential) /\ nfts[config.nft] # <<>>
      BY <1>0, <2>1 DEF TypeOK, HasFirst, Exists
    <3>2. nfts[config.nft][1] \in Credential BY <3>1
    <3>3. QED BY <2>1, <3>1, <3>2 DEF Credential
  <2>3. nfts'[config.nft] # <<>> /\ FirstGood(nfts'[config.nft])
    <3>1. CASE nfts' = nfts BY <2>2, <3>1 DEF FirstGood
    <3>2. CASE nfts' = Updated BY <1>0, <2>1, <3>2, UpdatedFact DEF FirstGood
    <3>3. QED BY <2>1, <3>1, <3>2
  <2>4. QED BY <2>1, <2>3 DEF Owned, FirstGood, Settled, Configuring, Planning, Sharing
<1>16. CASE MintUnsure
  <2>1. unclear' = TRUE BY <1>16 DEF MintUnsure
  <2>2. QED BY <2>1 DEF Owned
<1>17. CASE Mint
  <2>1. /\ pc = "mint" /\ web3 = config /\ UNCHANGED <<config, mode, unverified, unclear, enc>>
        /\ nfts' \in {nfts, Minted(enc)} /\ pc' \in {"details", "mintcli", "stable"}
        /\ pc' \in {"mintcli", "stable"} => nfts' = Minted(enc)
        /\ mode = "deploy" \/ ~OwnsFirst \/ enc = "empty"
    BY <1>0, <1>17 DEF Mint, Again, Minting, form
  <2>2. CASE unverified \/ unclear BY <2>1, <2>2 DEF Owned
  <2>3. CASE ~unverified /\ ~unclear
    <3>1. enc = "new" /\ Exists(config.nft, nfts)
      BY <1>0, <2>1, <2>3 DEF Owned, Reached, Written, Minting
    <3>2. nfts[config.nft] = <<>> \/ FirstGood(nfts[config.nft])
      <4>1. CASE mode = "deploy" BY <1>0, <2>1, <2>3, <4>1 DEF Owned
      <4>2. CASE ~OwnsFirst
        <5>1. nfts[config.nft] = <<>> \/ nfts[config.nft][1].owner # "admin"
          BY <2>1, <3>1, <4>2 DEF OwnsFirst, HasFirst
        <5>2. ASSUME nfts[config.nft] # <<>> PROVE nfts[config.nft][1] \in Credential
          <6>1. nfts[config.nft] \in Seq(Credential) BY <1>0, <3>1 DEF TypeOK, Exists
          <6>2. QED BY <5>2, <6>1
        <5>3. QED BY <5>1, <5>2 DEF FirstGood, Credential
      <4>3. QED BY <2>1, <3>1, <4>1, <4>2
    <3>3. /\ nfts'[config.nft] = <<>> \/ FirstGood(nfts'[config.nft])
          /\ nfts' = Minted(enc) => nfts'[config.nft] # <<>> /\ FirstGood(nfts'[config.nft])
      BY <1>0, <2>1, <3>1, <3>2, MintedGood
    <3>4. QED BY <2>1, <3>1, <3>3 DEF Owned, FirstGood, Settled, Configuring, Planning, Sharing
  <2>4. QED BY <2>2, <2>3
<1>18. CASE MintCli
  <2>1. /\ pc = "mintcli" /\ web3 = config
        /\ UNCHANGED <<config, mode, unverified, unclear, enc>>
        /\ nfts' \in {nfts, Minted(enc)} /\ pc' \in {"details", "stable"}
    BY <1>0, <1>18 DEF MintCli, Again, Minting, form
  <2>2. CASE unverified \/ unclear BY <2>1, <2>2 DEF Owned
  <2>3. CASE ~unverified /\ ~unclear
    <3>1. /\ enc = "new" /\ Exists(config.nft, nfts)
          /\ nfts[config.nft] # <<>> /\ FirstGood(nfts[config.nft])
      BY <1>0, <2>1, <2>3 DEF Owned, Reached, Written, Minting
    <3>2. nfts'[config.nft] # <<>> /\ FirstGood(nfts'[config.nft])
      BY <1>0, <2>1, <3>1, MintedGood
    <3>3. QED BY <2>1, <3>1, <3>2 DEF Owned, FirstGood, Settled, Configuring, Planning, Sharing
  <2>4. QED BY <2>2, <2>3
<1>19. CASE SetStable
  BY <1>2, <1>19 DEF SetStable, Again, chain, Settled, Planning, Sharing
<1>20. CASE CreatePlan
  BY <1>2, <1>20 DEF CreatePlan, Again, chain, Settled, Planning, Sharing
<1>21. CASE CastPlan
  BY <1>2, <1>21 DEF CastPlan, Again, chain, Settled, Planning, Sharing
<1>22. CASE InitBook
  BY <1>2, <1>22 DEF InitBook, Again, chain, Settled, Planning, Sharing
<1>23. CASE WriteShares
  BY <1>2, <1>23 DEF WriteShares, Again, chain, Settled, Planning, Sharing
<1>24. CASE EnableMonitor
  BY <1>2, <1>24 DEF EnableMonitor, Again, chain, Settled, Planning, Sharing
<1>25. QED
  BY <1>3, <1>4, <1>5, <1>6, <1>7, <1>8, <1>9, <1>10, <1>11, <1>12, <1>13, <1>14,
     <1>15, <1>16, <1>17, <1>18, <1>19, <1>20, <1>21, <1>22, <1>23, <1>24, <1>26
  DEF Next, Finalize

LEMMA AtMost ==
  ASSUME NEW M \in Int, NEW N \in {M, M - 1}, NEW a \in Nat, NEW c \in Nat, a - c <= N
  PROVE  a - c <= M
OBVIOUS

(* Every step keeps the invariant. *)
LEMMA InvStep == Inv /\ [Next]_vars => Inv'
<1> SUFFICES ASSUME Inv, [Next]_vars PROVE Inv' OBVIOUS
<1>1. TypeOK' BY TypeStep
<1>2. QED BY <1>1, PlacedStep, ReachedStep, MadeStep, OwnedStep DEF Inv

(* What is written is what the form was given or what was deployed, what was      *)
(* reached on the chain stays, what a run may make once is made once and what a   *)
(* failure made is paid for, and the first token is the administrator's with the  *)
(* new details as soon as there is one.                                           *)
THEOREM Invariant == Spec => []Inv
<1>1. QED BY InitInv, InvStep, PTL DEF Spec

(* The variables have their types; past the contracts, both addresses are known. *)
THEOREM TypeCorrect == Spec => []TypeOK
<1>1. Inv => TypeOK BY DEF Inv
<1>2. QED BY <1>1, Invariant, PTL

(* When finalization ends, every program reads the same two contracts, and they are *)
(* ready: the plan is there, the stablecoin of a chain that has one is set, the roles *)
(* and shares are written (wizard.py:1306 sets none for a chain id that is not in the *)
(* table).                                                                            *)
THEOREM ConfiguredCorrect == Spec => []MonitorConfigured
<1>1. Inv => MonitorConfigured
  <2> SUFFICES ASSUME Inv, pc = "done" PROVE MonitorConfigured
    BY DEF MonitorConfigured
  <2>1. /\ web3 = config /\ env = config /\ yaml = config.sub
        /\ vms # "missing" /\ (vms = "torn" => faults > 0)
        /\ {"admin", "server"} \subseteq book /\ shares = share
    BY DEF Inv, Placed, Written, Settled
  <2>2. vms = "valid" \/ (vms = "torn" /\ faults > 0) BY <2>1 DEF Inv, TypeOK
  <2>3. \/ unverified
        \/ /\ Exists(config.nft, nfts) /\ nfts[config.nft] # <<>>
           /\ Exists(config.sub, subs) /\ subs[config.sub].plans > 0
           /\ usdc => subs[config.sub].stable
    BY DEF Inv, Reached, Written, Settled
  <2>4. QED BY <2>1, <2>2, <2>3 DEF MonitorConfigured
<1>2. QED BY <1>1, Invariant, PTL

(* Contracts, tokens and plans are made once per run and failure, on every chain and *)
(* for any number of runs and failures.                                              *)
THEOREM NothingTwiceCorrect == Spec => []NothingTwice
<1>1. Inv => NothingTwice
  <2> SUFFICES ASSUME Inv PROVE NothingTwice OBVIOUS
  <2>1. /\ nfts \in Seq(Seq(Credential)) /\ subs \in Seq(Contract)
        /\ Len(nfts) >= 1 /\ Len(subs) >= 1 /\ Len(nfts) \in Nat /\ Len(subs) \in Nat
        /\ before.tokens \in Nat /\ before.plans \in Nat
    BY DEF Inv, TypeOK
  <2>2. runs \in Nat /\ faults \in Nat BY MostType, TypeParts DEF Inv
  <2> DEFINE most == runs + faults
  <2>3. /\ Deployments \in {most, most - 1} /\ Mints \in {most, most - 1}
        /\ Plans \in {most, most - 1}
    BY <2>2 DEF Deployments, Mints, Plans, Most
  <2>4. /\ Len(subs) <= Len(nfts) /\ Len(nfts) - 1 <= Deployments
        /\ Len(nfts[1]) - before.tokens <= Mints
        /\ \A i \in 2 .. Len(nfts) : Len(nfts[i]) <= Mints
        /\ subs[1].plans - before.plans <= Plans
        /\ \A i \in 2 .. Len(subs) : subs[i].plans <= Plans
    BY DEF Inv, Made, Deployments, Mints, Plans
  <2>5. most \in Nat BY <2>2
  <2>6. /\ \A i \in 1 .. Len(nfts) : Len(nfts[i]) \in Nat
        /\ \A i \in 1 .. Len(subs) : subs[i].plans \in Nat
    <3>1. \A i \in 1 .. Len(nfts) : nfts[i] \in Seq(Credential) BY <2>1
    <3>2. QED BY <3>1, PlansType DEF Inv
  <2> HIDE DEF most
  <2>7. Len(nfts) - 1 <= most BY <2>1, <2>3, <2>4, <2>5
  <2>8. Len(nfts[1]) - before.tokens <= most /\ subs[1].plans - before.plans <= most
    <3>1. /\ 1 \in 1 .. Len(nfts) /\ 1 \in 1 .. Len(subs) BY <2>1
    <3>2. Len(nfts[1]) \in Nat /\ subs[1].plans \in Nat BY <2>6, <3>1
    <3>3. Len(nfts[1]) - before.tokens <= most BY <2>1, <2>3, <2>4, <2>5, <3>2, AtMost
    <3>4. subs[1].plans - before.plans <= most BY <2>1, <2>3, <2>4, <2>5, <3>2, AtMost
    <3>5. QED BY <3>3, <3>4
  <2>9. ASSUME NEW i \in 2 .. Len(nfts) PROVE Len(nfts[i]) <= most
    <3>1. Len(nfts[i]) \in Nat /\ Len(nfts[i]) <= Mints BY <2>1, <2>4, <2>6
    <3>2. QED BY <2>3, <2>5, <3>1
  <2>10. ASSUME NEW i \in 2 .. Len(subs) PROVE subs[i].plans <= most
    <3>1. subs[i].plans \in Nat /\ subs[i].plans <= Plans BY <2>1, <2>4, <2>6
    <3>2. QED BY <2>3, <2>5, <3>1
  <2>11. QED BY <2>4, <2>7, <2>8, <2>9, <2>10 DEF NothingTwice, most
<1>2. QED BY <1>1, Invariant, PTL

(* Token 0 of the contract in use has the new details, or belongs to somebody else, *)
(* unless its addresses were taken unseen or this run failed to encrypt, to ask whose *)
(* it is, or to update it.                                                          *)
THEOREM AdminCorrect == Spec => []AdminCredential
<1>1. Inv => AdminCredential
  BY DEF Inv, Owned, AdminCredential, FirstGood, Settled
<1>2. QED BY <1>1, Invariant, PTL

(***************************************************************************)
(* What is left of Resumes without fairness.                               *)
(***************************************************************************)

(* The steps to the end, and whether it can be reached. *)
StepsLeft ==
  CASE pc = "contracts" -> 14
    [] pc = "web3" -> 13
    [] pc = "yaml" -> 12
    [] pc = "env" -> 11
    [] pc = "vms" -> 10
    [] pc = "details" -> 9
    [] pc = "mint" -> 8
    [] pc = "mintcli" -> 7
    [] pc = "stable" -> 6
    [] pc = "plan" -> 5
    [] pc = "plancast" -> 4
    [] pc = "book" -> 3
    [] pc = "shares" -> 2
    [] pc = "enable" -> 1
    [] OTHER -> 0

Possible ==
  /\ pc \in Finalizing
  /\ pc = "contracts" /\ mode = "existing" =>
       Exists(config.nft, nfts) /\ Exists(config.sub, subs)

OnTheWay ==
  /\ Possible'
  /\ Finalize => faults' = faults + 1 \/ StepsLeft' < StepsLeft
  /\ ~ Finalize => UNCHANGED <<pc, faults>>

LEMMA FinalizeAdvances ==
  ASSUME Possible, Finalize, pc' # "done"
  PROVE  Possible' /\ (faults' = faults + 1 \/ StepsLeft' < StepsLeft)
<1> USE DEF Possible, Finalizing, Configuring, Minting, Planning, Sharing, Again, Fault, NoFault
<1>1. CASE Verify BY <1>1 DEF Verify, StepsLeft, Exists, chain, form
<1>2. CASE Recorded \/ Deploy
  <2>1. mode = "deploy" /\ mode' = mode /\ pc = "contracts"
    BY <1>2 DEF Recorded, Deploy, form
  <2>2. pc' = "web3" \/ (pc' = "contracts" /\ faults' = faults + 1)
    BY <1>2 DEF Recorded, Deploy
  <2>3. QED BY <2>1, <2>2 DEF StepsLeft
<1>3. CASE WriteWeb3 \/ WriteYaml \/ WriteEnv \/ WriteVms
  BY <1>3 DEF WriteWeb3, WriteYaml, WriteEnv, WriteVms, StepsLeft
<1>4. CASE Encrypt \/ UpdateFirst \/ UpdateOther \/ Mint \/ MintUnsure \/ MintCli
  BY <1>4 DEF Encrypt, UpdateFirst, UpdateOther, Mint, MintUnsure, MintCli, StepsLeft
<1>5. CASE SetStable \/ CreatePlan \/ CastPlan
  BY <1>5 DEF SetStable, CreatePlan, CastPlan, StepsLeft
<1>6. CASE InitBook \/ WriteShares \/ EnableMonitor
  <2>1. \/ pc = "book" /\ pc' = "shares"
        \/ pc = "shares" /\ pc' = "enable"
        \/ pc' \in {"book", "shares"} /\ faults' = faults + 1
    <3>1. CASE InitBook BY <3>1 DEF InitBook
    <3>2. CASE WriteShares BY <3>2 DEF WriteShares
    <3>3. CASE EnableMonitor BY <3>3 DEF EnableMonitor
    <3>4. QED BY <1>6, <3>1, <3>2, <3>3
  <2>2. QED BY <2>1 DEF StepsLeft
<1>7. QED BY <1>1, <1>2, <1>3, <1>4, <1>5, <1>6 DEF Finalize

\* A finalization that can get to the end stays one that can, and each of its steps brings it
\* nearer, but for a failure, of which there are MaxFaults; nothing else moves it (wizard.py:
\* a step that returned False or was interrupted is called again, or one before it is).
THEOREM FinalizationAdvances ==
  Spec => [][Possible => pc' \in {"done", "form"} \/ OnTheWay]_vars
<1>1. ASSUME Next, Possible, pc' \notin {"done", "form"} PROVE OnTheWay
  <2>1. CASE Finalize BY <1>1, <2>1, FinalizeAdvances DEF OnTheWay
  <2>2. CASE ~ Finalize /\ AddHotWallet
    <3>1. UNCHANGED <<pc, mode, config, nfts, subs, faults>>
      BY <2>2 DEF AddHotWallet, chain, form
    <3>2. QED BY <1>1, <2>2, <3>1 DEF OnTheWay, Possible, Exists
  <2>3. QED
    BY <1>1, <2>1, <2>2
    DEF Next, BackToForm, Submit, Possible, Finalizing, Configuring, Minting, Planning, Sharing
<1>2. [Next]_vars => [Possible => pc' \in {"done", "form"} \/ OnTheWay]_vars
  BY <1>1
<1>3. QED BY <1>2, PTL DEF Spec

===============================================================================
