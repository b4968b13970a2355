---------------------------- MODULE BoosterPack ----------------------------
(***************************************************************************)
(* src/BoosterPack.sol: an ERC-1155 token whose ids carry reward booster   *)
(* attributes.  Balances are keyed by the full token id, attributes by its *)
(* low 32 bits, so that ids that agree in their low bits share attributes. *)
(* A transaction that reverts changes nothing: its action is disabled.     *)
(***************************************************************************)
EXTENDS Integers

CONSTANTS
    Accounts,          \* addresses that can appear in the model
    Zero,              \* address(0)
    Whitelistable,     \* bound: addresses the owner whitelists
    Holders,           \* bound: addresses that packs are minted or sent to
    PackIds,           \* token ids (uint256)
    IdSpace,           \* 2^32, the number of attribute slots
    AttributeChoices,  \* attributes that setAttributes and mint are given
    MaxPacks           \* bound: packs of one id held by one account

ASSUME PackAssumption ==
    /\ Zero \in Accounts
    /\ Whitelistable \subseteq Accounts
    /\ Holders \subseteq Accounts
    /\ PackIds \subseteq Nat
    /\ IdSpace \in Nat \ {0}
    /\ AttributeChoices \subseteq
         [duration : Nat, expirationDate : Nat, multiplier : Nat]
    /\ MaxPacks \in Nat

VARIABLES
    packBalance,       \* ERC1155._balances
    attributes,        \* _boosterPacks
    whitelistedAddrBP  \* _whitelistedAddrBP, as the set of addresses mapped to true

packVars == <<packBalance, attributes, whitelistedAddrBP>>

-----------------------------------------------------------------------------
(* uint32(id_) *)
Slot(id) == id % IdSpace

Slots == 0..(IdSpace - 1)

Attributes == [duration : Nat, expirationDate : Nat, multiplier : Nat]

(* What an id that was never minted or set reads as. *)
NoAttributes == [duration |-> 0, expirationDate |-> 0, multiplier |-> 0]

PackTypeOK ==
    /\ packBalance \in [Accounts -> [PackIds -> Nat]]
    /\ attributes \in [Slots -> Attributes]
    /\ whitelistedAddrBP \subseteq Accounts

PackInit ==
    /\ packBalance = [a \in Accounts |-> [id \in PackIds |-> 0]]
    /\ attributes = [s \in Slots |-> NoAttributes]
    /\ whitelistedAddrBP = {}

-----------------------------------------------------------------------------
(* onlyOwner: called by the owner of the contract. *)

AddWhitelistedAddrBP(addr) ==
    /\ whitelistedAddrBP' = whitelistedAddrBP \cup {addr}
    /\ UNCHANGED <<packBalance, attributes>>

RemoveWhitelistedAddrBP(addr) ==
    /\ whitelistedAddrBP' = whitelistedAddrBP \ {addr}
    /\ UNCHANGED <<packBalance, attributes>>

SetAttributes(id, attr) ==
    /\ attributes' = [attributes EXCEPT ![Slot(id)] = attr]
    /\ UNCHANGED <<packBalance, whitelistedAddrBP>>

-----------------------------------------------------------------------------
(* Called by anyone; the whitelist decides. *)

(* The attributes are left to setAttributes. *)
MintMutant(caller, to, id, amount, attr) ==
    /\ caller \in whitelistedAddrBP
    /\ to # Zero
    /\ packBalance[to][id] + amount <= MaxPacks
    /\ packBalance' = [packBalance EXCEPT ![to][id] = @ + amount]
    /\ UNCHANGED <<attributes, whitelistedAddrBP>>

Mint(caller, to, id, amount, attr) ==
    /\ caller \in whitelistedAddrBP
    /\ to # Zero
    /\ packBalance[to][id] + amount <= MaxPacks
    /\ packBalance' = [packBalance EXCEPT ![to][id] = @ + amount]
    /\ attributes' = [attributes EXCEPT ![Slot(id)] = attr]
    /\ UNCHANGED whitelistedAddrBP

Burn(caller, id, amount) ==
    /\ caller \in whitelistedAddrBP
    /\ amount <= packBalance[caller][id]
    /\ packBalance' = [packBalance EXCEPT ![caller][id] = @ - amount]
    /\ UNCHANGED <<attributes, whitelistedAddrBP>>

(* ERC-1155: the holder moves packs to another account. *)
SafeTransferFrom(from, to, id, amount) ==
    /\ to # Zero
    /\ amount <= packBalance[from][id]
    /\ LET taken == [packBalance EXCEPT ![from][id] = @ - amount]
       IN  packBalance' = [taken EXCEPT ![to][id] = @ + amount]
    /\ packBalance'[to][id] <= MaxPacks
    /\ UNCHANGED <<attributes, whitelistedAddrBP>>

(* The pool burns without being on the whitelist. *)
TransferAndBurnMutant(holder, pool, id) ==
    /\ packBalance[holder][id] >= 1
    /\ packBalance' = [packBalance EXCEPT ![holder][id] = @ - 1]
    /\ UNCHANGED <<attributes, whitelistedAddrBP>>

(* IBoosterPack as Pool.burnBP uses it: one pack moves from the holder to  *)
(* the pool, and the pool burns it in the same transaction.                *)
TransferAndBurn(holder, pool, id) ==
    /\ pool \in whitelistedAddrBP
    /\ packBalance[holder][id] >= 1
    /\ packBalance' = [packBalance EXCEPT ![holder][id] = @ - 1]
    /\ UNCHANGED <<attributes, whitelistedAddrBP>>

-----------------------------------------------------------------------------
(* The bounded choices of the environment. *)
PackNext ==
    \/ \E addr \in Whitelistable : \/ AddWhitelistedAddrBP(addr)
                                   \/ RemoveWhitelistedAddrBP(addr)
    \/ \E id \in PackIds, attr \in AttributeChoices : SetAttributes(id, attr)
    \/ \E caller \in Accounts, to \in Holders, id \in PackIds,
          amount \in 1..MaxPacks, attr \in AttributeChoices :
          Mint(caller, to, id, amount, attr)
    \/ \E caller \in Accounts, id \in PackIds, amount \in 1..MaxPacks :
          Burn(caller, id, amount)
    \/ \E from, to \in Holders, id \in PackIds, amount \in 1..MaxPacks :
          SafeTransferFrom(from, to, id, amount)

PackSpec == PackInit /\ [][PackNext]_packVars
=============================================================================
