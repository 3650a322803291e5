------------------------------- MODULE Wizard ----------------------------------
(***************************************************************************)
(* blockhost/engine_evm/wizard.py: the finalization of an installation.    *)
(* The installer (not in the repository) calls the steps in their order,   *)
(* keeps the configuration between them, repeats a step that failed or was *)
(* interrupted, and can start again from the form.                         *)
(*                                                                         *)
(* Contracts have numbers, the first of each kind was there before.  An    *)
(* outcome that costs a Fault is a failure, an interruption or an answer   *)
(* that was lost, with or without its effect.  wallet only verifies the    *)
(* key that the form has written and is left out.                          *)
(***************************************************************************)
EXTENDS Integers, Sequences, FiniteSets

CONSTANTS
  Answers,    \* what else the form may say: the roles that get a share, and whether
              \* USDC_BY_CHAIN knows the chain id (any can be typed, as "custom")
  Token,      \* tokens that the first NFT contract may have had
  Sold,       \* what the first subscription contract may have been
  MaxFaults,  \* bound: failures and interruptions
  MaxRuns     \* bound: how often the form is submitted

ASSUME WizardAssumption ==
  /\ Token \in SUBSET Seq([owner : {"admin", "other"}, enc : {"old"}])
  /\ Sold \subseteq [stable : BOOLEAN, plans : Nat]
  /\ Answers \subseteq [share : SUBSET {"dev", "broker"}, usdc : BOOLEAN]
  /\ MaxFaults \in Nat /\ MaxRuns \in Nat

NoAddress == 0
Wrong == -1 \* an address without a contract

Roles == {"dev", "broker"}
Share == {a.share : a \in Answers}
Credential == [owner : {"admin", "other"}, enc : {"old", "empty", "new"}]
Contract == [stable : BOOLEAN, plans : Nat]
Address == {Wrong} \cup Nat
Pair == [nft : Address, sub : Address]
NoPair == [nft |-> NoAddress, sub |-> NoAddress]

\* chain_config, plan and revenue_share have parts that can be interrupted one by one.
Configuring == {"web3", "yaml", "env", "vms"}
Planning == {"stable", "plan", "plancast"}
Sharing == {"book", "shares", "enable"}
Minting == {"details", "mint", "mintcli"}
Finalizing == {"contracts"} \cup Configuring \cup Minting \cup Planning \cup Sharing

VARIABLES
  nfts, subs,   \* contracts on the chain
  mode, config, \* contract_mode; nft_contract and subscription_contract
  usdc,         \* chain_id has an address of USDC
  share,        \* revenue_share_dev and _broker, with sharing enabled
  pc,           \* form, a (part of a) step, or done
  enc,          \* user_encrypted
  web3, env,    \* the contracts in web3-defaults.yaml and .env
  yaml,         \* contract_address in blockhost.yaml
  vms,          \* vms.json
  book, shares, \* roles in addressbook.json; recipients in revenue-share.json
  enabled,      \* blockhost-monitor
  faults, runs, \* how often it happened (bounded)
  before,       \* history: tokens and plans of the first contracts at first
  unverified,   \* history: addresses typed in deploy mode
  unclear       \* history: a failure of this run while the administrator's token was made

chain == <<nfts, subs>>
form == <<mode, config, usdc, share, unverified>>
files == <<web3, env, yaml, vms, book, shares, enabled>>
history == <<runs, before>>
vars == <<chain, form, files, history, pc, enc, faults, unclear>>

TypeOK ==
  /\ nfts \in Seq(Seq(Credential)) /\ subs \in Seq(Contract)
  /\ Len(nfts) >= 1 /\ Len(subs) >= 1
  /\ mode \in {"deploy", "existing"} /\ config \in Pair /\ share \in Share \cup {{}}
  /\ pc \in {"form", "done"} \cup Finalizing
  /\ enc \in {"empty", "new"}
  /\ web3 \in Pair /\ env \in Pair /\ yaml \in Address
  /\ vms \in {"missing", "torn", "valid"}
  /\ book \in SUBSET ({"admin", "server", "hot"} \cup Roles) /\ shares \in Share \cup {{}}
  /\ faults \in 0 .. MaxFaults /\ runs \in 0 .. MaxRuns
  /\ before \in [tokens : Nat, plans : Nat]
  /\ {usdc, enabled, unverified, unclear} \subseteq BOOLEAN
  /\ pc \in Finalizing \ {"contracts"} => NoAddress \notin {config.nft, config.sub}

Init ==
  /\ \E T \in Token, c \in Sold :
       /\ nfts = <<T>> /\ subs = <<c>>
       /\ before = [tokens |-> Len(T), plans |-> c.plans]
  /\ mode = "deploy" /\ config = NoPair /\ usdc = TRUE /\ share = {} /\ unverified = FALSE
  /\ pc = "form" /\ enc = "empty"
  /\ web3 = NoPair /\ env = NoPair /\ yaml = NoAddress
  /\ vms = "missing" /\ book = {} /\ shares = {} /\ enabled = FALSE
  /\ faults = 0 /\ runs = 0 /\ unclear = FALSE

Fault == faults < MaxFaults /\ faults' = faults + 1
NoFault == UNCHANGED faults

\* A step that returns False, or is interrupted, is called again.
Again(step) == Fault /\ pc' = step

-----------------------------------------------------------------------------
(* The form *)

\* The session gets what is in the form: the fields of the addresses are sent in
\* both modes, filled with what was typed or is known from an earlier run.
Typed == {NoPair, config} \cup [nft : {1}, sub : {NoAddress, 1, Wrong}]

Submit(m, typed, answers) ==
  /\ pc \in {"form", "done"} /\ runs < MaxRuns
  /\ mode' = m /\ share' = answers.share /\ usdc' = answers.usdc
  /\ config' = typed
  /\ unverified' = (m = "deploy" /\ typed # NoPair)
  /\ pc' = "contracts" /\ runs' = runs + 1 /\ unclear' = FALSE
  /\ UNCHANGED <<chain, files, before, enc, faults>>

\* The installation is given up and begun anew.
BackToForm ==
  /\ pc \in Finalizing
  /\ pc' = "form"
  /\ UNCHANGED <<chain, form, files, history, enc, faults, unclear>>

-----------------------------------------------------------------------------
(* finalize_contracts *)

Exists(a, contracts) == a \in DOMAIN contracts

Verify ==
  /\ pc = "contracts" /\ mode = "existing"
  /\ Exists(config.nft, nfts) /\ Exists(config.sub, subs)
  /\ \/ pc' = "web3" /\ NoFault
     \/ Again("contracts")
  /\ UNCHANGED <<chain, form, files, history, enc, unclear>>

\* Mutant: one address is enough to be taken for deployed.
RecordedEither ==
  /\ pc = "contracts" /\ mode = "deploy"
  /\ config # NoPair
  /\ pc' = "web3" /\ NoFault
  /\ UNCHANGED <<chain, form, files, history, enc, unclear>>

\* Deployed by an earlier run, or so it seems.
Recorded ==
  /\ pc = "contracts" /\ mode = "deploy"
  /\ NoAddress \notin {config.nft, config.sub}
  /\ pc' = "web3" /\ NoFault
  /\ UNCHANGED <<chain, form, files, history, enc, unclear>>

\* blockhost-deploy-contracts: the NFT contract first.  The addresses are recorded
\* only if both were printed.
Deploy ==
  /\ pc = "contracts" /\ mode = "deploy"
  /\ NoAddress \in {config.nft, config.sub}
  /\ LET oneMore == Append(nfts, <<>>)
         bothMore == Append(subs, [stable |-> FALSE, plans |-> 0])
     IN \/ /\ nfts' = oneMore /\ subs' = bothMore
           /\ config' = [nft |-> Len(oneMore), sub |-> Len(bothMore)]
           /\ unverified' = FALSE
           /\ pc' = "web3" /\ NoFault
        \/ /\ \/ UNCHANGED chain
              \/ nfts' = oneMore /\ subs' \in {subs, bothMore}
           /\ Again("contracts") /\ UNCHANGED <<config, unverified>>
  /\ UNCHANGED <<mode, usdc, share, files, history, enc, unclear>>

-----------------------------------------------------------------------------
(* finalize_chain_config: each file is written where it is, so that an interruption *)
(* leaves an empty one; the whole step is repeated.                                  *)

\* Mutant: what is in web3-defaults.yaml already goes first.
WriteWeb3Kept ==
  /\ pc = "web3"
  /\ web3' = IF web3 = NoPair THEN config ELSE web3
  /\ pc' = "yaml" /\ NoFault
  /\ UNCHANGED <<chain, form, env, yaml, vms, book, shares, enabled, history, enc, unclear>>

WriteWeb3 ==
  /\ pc = "web3"
  /\ \/ web3' = config /\ pc' = "yaml" /\ NoFault
     \/ web3' \in {web3, NoPair} /\ Again("web3")
  /\ UNCHANGED <<chain, form, env, yaml, vms, book, shares, enabled, history, enc, unclear>>

WriteYaml ==
  /\ pc = "yaml"
  /\ \/ yaml' = config.sub /\ pc' = "env" /\ NoFault
     \/ yaml' \in {yaml, NoAddress} /\ Again("web3")
  /\ UNCHANGED <<chain, form, web3, env, vms, book, shares, enabled, history, enc, unclear>>

WriteEnv ==
  /\ pc = "env"
  /\ \/ env' = config /\ pc' = "vms" /\ NoFault
     \/ env' \in {env, NoPair} /\ Again("web3")
  /\ UNCHANGED <<chain, form, web3, yaml, vms, book, shares, enabled, history, enc, unclear>>

\* vms.json is made only if there is none: what an interruption left of it stays.
WriteVms ==
  /\ pc = "vms"
  /\ \/ vms' = (IF vms = "missing" THEN "valid" ELSE vms) /\ pc' = "details" /\ NoFault
     \/ vms' \in (IF vms = "missing" THEN {"missing", "torn"} ELSE {vms}) /\ Again("web3")
  /\ UNCHANGED <<chain, form, web3, env, yaml, book, shares, enabled, history, enc, unclear>>

-----------------------------------------------------------------------------
(* finalize_mint_nft *)

\* A transaction to an address without a contract succeeds and does nothing.
Minted(e) ==
  IF Exists(web3.nft, nfts)
  THEN [nfts EXCEPT ![web3.nft] = Append(@, [owner |-> "admin", enc |-> e])]
  ELSE nfts

HasFirst == Exists(web3.nft, nfts) /\ nfts[web3.nft] # <<>>
OwnsFirst == HasFirst /\ nfts[web3.nft][1].owner = "admin"

\* There is no server address, or bhcrypt fails: the token gets no details.
Encrypt ==
  /\ pc = "details" /\ pc' = "mint"
  /\ \/ enc' = "new" /\ NoFault /\ UNCHANGED unclear
     \/ enc' = "empty" /\ Fault /\ unclear' = TRUE
  /\ UNCHANGED <<chain, form, files, history>>

Updated == [nfts EXCEPT ![config.nft][1].enc = enc]

\* updateUserEncrypted of token 0; whether it succeeded is not looked at.
UpdateFirst ==
  /\ pc = "mint"
  /\ mode = "existing" /\ OwnsFirst /\ enc = "new"
  /\ \/ nfts' = Updated /\ pc' = "stable" /\ NoFault /\ UNCHANGED unclear
     \/ nfts' = nfts /\ Again("stable") /\ unclear' = TRUE
     \/ nfts' \in {nfts, Updated} /\ Again("details") /\ UNCHANGED unclear
  /\ UNCHANGED <<subs, form, files, history, enc>>

\* There is no is, and cast, asked instead, says that token 0 has an owner: any will do.
UpdateOther ==
  /\ pc = "mint"
  /\ mode = "existing" /\ HasFirst /\ ~OwnsFirst /\ enc = "new"
  /\ nfts' \in {nfts, Updated} /\ Again("stable")
  /\ UNCHANGED <<subs, form, files, history, enc, unclear>>

\* Mutant: whose token 0 is is not asked.
MintAlways ==
  /\ pc = "mint"
  /\ nfts' = Minted(enc) /\ pc' = "stable" /\ NoFault
  /\ UNCHANGED <<subs, form, files, history, enc, unclear>>

\* mint_nft: in deploy mode, if token 0 is not the administrator's, or if there is
\* nothing to update it with.
Mint ==
  /\ pc = "mint"
  /\ mode = "deploy" \/ ~OwnsFirst \/ enc = "empty"
  /\ \/ nfts' = Minted(enc) /\ pc' = "stable" /\ NoFault
     \/ nfts' \in {nfts, Minted(enc)} /\ Again("details")
     \/ nfts' = Minted(enc) /\ Again("mintcli") \* no hash in the output
  /\ UNCHANGED <<subs, form, files, history, enc, unclear>>

\* is fails, which is taken for a token that is not his.
MintUnsure ==
  /\ pc = "mint"
  /\ mode = "existing" /\ OwnsFirst
  /\ nfts' = Minted(enc) /\ Again("stable") /\ unclear' = TRUE
  /\ UNCHANGED <<subs, form, files, history, enc>>

\* The fallback of mint_nft.
MintCli ==
  /\ pc = "mintcli"
  /\ \/ nfts' = Minted(enc) /\ pc' = "stable" /\ NoFault
     \/ nfts' \in {nfts, Minted(enc)} /\ Again("details")
  /\ UNCHANGED <<subs, form, files, history, enc, unclear>>

-----------------------------------------------------------------------------
(* finalize_plan: bw first, then cast, which retries a nonce that was too low. *)

Sub == config.sub

\* Without an address of USDC the step sets nothing, and goes on.
SetStable ==
  LET set == IF usdc /\ Exists(Sub, subs) THEN [subs EXCEPT ![Sub].stable = TRUE] ELSE subs
  IN /\ pc = "stable"
     /\ \/ subs' = set /\ pc' = "plan" /\ NoFault
        \/ subs' \in {subs, set} /\ Again("stable")
     /\ UNCHANGED <<nfts, form, files, history, enc, unclear>>

WithPlan == IF Exists(Sub, subs) THEN [subs EXCEPT ![Sub].plans = @ + 1] ELSE subs

\* Mutant: cast is run as well.
CreatePlanTwice ==
  /\ pc = "plan"
  /\ subs' = WithPlan
  /\ pc' = "plancast" /\ NoFault
  /\ UNCHANGED <<nfts, form, files, history, enc, unclear>>

CreatePlan ==
  /\ pc = "plan"
  /\ \/ subs' = WithPlan /\ pc' = "book" /\ NoFault
     \/ subs' \in {subs, WithPlan} /\ Again("plancast") \* bw fails
     \/ subs' \in {subs, WithPlan} /\ Again("stable")   \* bw does not end
  /\ UNCHANGED <<nfts, form, files, history, enc, unclear>>

CastPlan ==
  /\ pc = "plancast"
  /\ \/ subs' = WithPlan /\ pc' = "book" /\ NoFault
     \/ subs' \in {subs, WithPlan} /\ Again("stable")
  /\ UNCHANGED <<nfts, form, files, history, enc, unclear>>

-----------------------------------------------------------------------------
(* finalize_revenue_share *)

\* ab --init takes its optional addresses by position: the first is dev's.
InitRoles ==
  {"admin", "server"} \cup (IF share = {} THEN {} ELSE {"dev"})
                      \cup (IF share = Roles THEN {"broker"} ELSE {})

\* Mutant: a book that ab --init refuses ends the step.
InitBookOnly ==
  /\ pc = "book"
  /\ book = {} /\ book' = InitRoles /\ pc' = "shares" /\ NoFault
  /\ UNCHANGED <<chain, form, web3, env, yaml, vms, shares, enabled, history, enc, unclear>>

\* ab --init refuses a book with entries, and so does the fallback, which writes the
\* file itself.
InitBook ==
  /\ pc = "book"
  /\ IF book # {}
     THEN /\ UNCHANGED book
          /\ \/ pc' = "shares" /\ NoFault
             \/ Again("book")
     ELSE \/ book' = InitRoles /\ pc' = "shares" /\ NoFault
          \/ book' \in {InitRoles, {"admin", "server"} \cup share} /\ Again("shares")
          \/ book' \in {{}, InitRoles} /\ Again("book")
  /\ UNCHANGED <<chain, form, web3, env, yaml, vms, shares, enabled, history, enc, unclear>>

WriteShares ==
  /\ pc = "shares"
  /\ \/ shares' = share /\ pc' = "enable" /\ NoFault
     \/ shares' \in {shares, {}} /\ Again("book")
  /\ UNCHANGED <<chain, form, web3, env, yaml, vms, book, enabled, history, enc, unclear>>

\* systemctl enable; its exit status is not looked at.
EnableMonitor ==
  /\ pc = "enable"
  /\ \/ enabled' = TRUE /\ pc' = "done" /\ NoFault
     \/ UNCHANGED enabled /\ Again("done")
     \/ enabled' \in {enabled, TRUE} /\ Again("book")
  /\ UNCHANGED <<chain, form, web3, env, yaml, vms, book, shares, history, enc, unclear>>

\* The fund manager of an installation that runs adds its hot wallet.
AddHotWallet ==
  /\ enabled /\ book # {} /\ "hot" \notin book
  /\ book' = book \cup {"hot"}
  /\ UNCHANGED <<chain, form, web3, env, yaml, vms, shares, enabled, history, enc, pc, faults, unclear>>

-----------------------------------------------------------------------------
Finalize ==
  \/ Verify \/ Recorded \/ Deploy
  \/ WriteWeb3 \/ WriteYaml \/ WriteEnv \/ WriteVms
  \/ Encrypt \/ UpdateFirst \/ UpdateOther \/ Mint \/ MintUnsure \/ MintCli
  \/ SetStable \/ CreatePlan \/ CastPlan
  \/ InitBook \/ WriteShares \/ EnableMonitor

Next ==
  \/ \E m \in {"deploy", "existing"}, answers \in Answers :
       \E typed \in Typed : Submit(m, typed, answers)
  \/ BackToForm \/ Finalize \/ AddHotWallet

\* The installer repeats a step until it succeeds.
Spec == Init /\ [][Next]_vars /\ WF_vars(Finalize)

-----------------------------------------------------------------------------
(* Properties *)

\* When finalization ends, every program reads the same two contracts, they exist, a
\* plan is for sale, in the stablecoin of a chain that has one in the table, and monitor
\* and fund manager have what they start from; only addresses typed in deploy mode are
\* taken unseen, and a vms.json that was cut short stays so.
MonitorConfigured ==
  pc = "done" =>
    /\ web3 = config /\ env = config /\ yaml = config.sub
    /\ \/ unverified
       \/ /\ Exists(config.nft, nfts) /\ nfts[config.nft] # <<>>
          /\ Exists(config.sub, subs) /\ subs[config.sub].plans > 0
          /\ usdc => subs[config.sub].stable
    /\ vms = "valid" \/ (vms = "torn" /\ faults > 0)
    /\ {"admin", "server"} \subseteq book /\ shares = share

\* Deployments, tokens and plans are made once per run, and once more for each failure:
\* no fallback and no repetition does a second time what succeeded.
NothingTwice ==
  LET most == runs + faults
  IN /\ Len(subs) <= Len(nfts) /\ Len(nfts) - 1 <= most
     /\ Len(nfts[1]) - before.tokens <= most /\ subs[1].plans - before.plans <= most
     /\ \A i \in 2 .. Len(nfts) : Len(nfts[i]) <= most
     /\ \A i \in 2 .. Len(subs) : subs[i].plans <= most

\* The administrator's credential_nft_id is 0: after the mint, token 0 is his, with the
\* new connection details, unless it was somebody else's, it is that of a contract typed
\* in deploy mode, or in this run the encryption, the question whose it is or the update
\* failed; no other failure, repetition or earlier run can cost him his login.
AdminCredential ==
  pc \in Planning \cup Sharing \cup {"done"} =>
    \/ unverified \/ unclear \/ ~Exists(config.nft, nfts)
    \/ LET first == nfts[config.nft][1] IN first.owner = "other" \/ first.enc = "new"

\* Whatever was interrupted, the steps get to the end, if the contracts are there.
Resumes ==
  pc = "contracts" /\ (mode = "deploy" \/ (Exists(config.nft, nfts) /\ Exists(config.sub, subs)))
    ~> pc \in {"done", "form"}

\* A role that is to get a share can be resolved.
RecipientsKnown == pc = "done" => shares \subseteq book

===============================================================================
