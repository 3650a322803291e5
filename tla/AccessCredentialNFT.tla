------------------------- MODULE AccessCredentialNFT --------------------------
(***************************************************************************)
(* AccessCredentialNFT.sol: one token per virtual machine; whoever owns    *)
(* the token may log in to the machine.  Token ids are consecutive from 0. *)
(***************************************************************************)
EXTENDS Wallets

CONSTANTS
  MaxTokens,    \* bound: tokens that may ever be minted
  MaxTransfers  \* bound: transfers between wallets

ASSUME NftAssumption ==
  /\ MaxTokens \in Nat
  /\ MaxTransfers \in Nat

TokenId == 0 .. (MaxTokens - 1)

VARIABLES
  nextTokenId, \* tokens minted so far; also what totalSupply() returns
  nftOwner,    \* ownerOf
  transfers,   \* number of transfers (bounded)
  mintedFor,   \* history: the VM whose handler minted the token, 0 if none did
  everHeld     \* history: every wallet that ever owned the token

nftVars == <<nextTokenId, nftOwner, transfers, mintedFor, everHeld>>

NftTypeOK ==
  /\ nextTokenId \in 0 .. MaxTokens
  /\ nftOwner \in [TokenId -> Owner \cup {NoOwner}]
  /\ transfers \in 0 .. MaxTransfers
  /\ mintedFor \in [TokenId -> 0 .. MaxSubs]
  /\ everHeld \in [TokenId -> SUBSET Owner]

NftInit ==
  /\ nextTokenId = 0
  /\ nftOwner = [t \in TokenId |-> NoOwner]
  /\ transfers = 0
  /\ mintedFor = [t \in TokenId |-> 0]
  /\ everHeld = [t \in TokenId |-> {}]

\* mint(to, userEncrypted), on behalf of machine vm (0: no machine).
Mint(to, vm) ==
  /\ nextTokenId < MaxTokens
  /\ nextTokenId' = nextTokenId + 1
  /\ nftOwner' = [nftOwner EXCEPT ![nextTokenId] = to]
  /\ mintedFor' = [mintedFor EXCEPT ![nextTokenId] = vm]
  /\ everHeld' = [everHeld EXCEPT ![nextTokenId] = {to}]
  /\ UNCHANGED transfers

\* ERC-721 transferFrom by the owner.
Transfer(t, to) ==
  /\ t < nextTokenId
  /\ nftOwner[t] # to
  /\ transfers < MaxTransfers
  /\ transfers' = transfers + 1
  /\ nftOwner' = [nftOwner EXCEPT ![t] = to]
  /\ everHeld' = [everHeld EXCEPT ![t] = @ \cup {to}]
  /\ UNCHANGED <<nextTokenId, mintedFor>>
===============================================================================
