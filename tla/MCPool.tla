------------------------------- MODULE MCPool -------------------------------
(***************************************************************************)
(* Instances of Pool for TLC: the values that the .cfg files give to the   *)
(* constants.                                                              *)
(***************************************************************************)
EXTENDS PoolProperties, TLC

CONSTANTS u1, u2, deployer

MCUsers == {u1, u2}
MCAccounts == {u1, u2, deployer, Zero, PoolAddr}

(* The users are interchangeable in every instance and property. *)
UserSymmetry == Permutations({u1, u2})

Purse(n) == [a \in Accounts |-> IF a \in Users THEN n ELSE 0]
Purse10 == Purse(10)
Purse7  == Purse(7)

Row(b, f) == [blockNumber |-> b, fee |-> f]
Tier(b, m) == [blockNumber |-> b, multiplier |-> m]
Pack(d, e, m) == [duration |-> d, expirationDate |-> e, multiplier |-> m]

(* Schedules and fee tables that end inside the checked blocks. *)
OneTier  == <<Tier(4, 1)>>
ShortTier == <<Tier(2, 3)>>
TwoTiers == <<Tier(2, 3), Tier(4, 1)>>
TwoFees  == <<Row(2, 50), Row(3, 20)>>
OneFee   == <<Row(2, 50)>>
NoFees   == <<Row(4, 0)>>

(* Rows the owner adds and writes over others. *)
OwnerTiers == {Tier(1, 2), Tier(3, 1)}
PackHolders == {u1, u2, deployer}
OwnerFees  == {Row(3, 120)}

NoPacks   == [a \in Accounts |-> [id \in PackIds |-> 0]]
PacksEach == [a \in Accounts |-> [id \in PackIds |-> IF a \in Users THEN 2 ELSE 0]]
NoAttr    == [s \in Slots |-> NoAttributes]
OnePack(pack) == [s \in Slots |-> IF s = 1 THEN pack ELSE NoAttributes]
ShortPack == OnePack(Pack(1, 4, 2))

MintedAttributes == {Pack(1, 4, 2), Pack(0, 1, 3)}

PoolWhitelisted == {PoolAddr}

(* Bound of the boosters run: all users together burn more than one pack,  *)
(* or deposit and withdraw in parts; with one pack, one user does.         *)
PacksOrParts ==
    \/ Len(usersWithBoosterPacks) = 0
    \/ Len(usersWithBoosterPacks) = 1 /\ \E u \in Users : usersData[u].deposits = <<>>
    \/ \A u \in Users : DepositedBy(u) \in {0, 10}

(* Bound of the owner run: what the owner edits, and what the users do     *)
(* meanwhile, belongs to one of three concerns.                            *)
Empty(u) == usersData[u].deposits = <<>>

PacksUntouched == whitelistedAddrBP = {} /\ attributes = InitAttributes

RatesUntouched ==
    /\ baseRate = InitBaseRate /\ depositFee = InitDepositFee
    /\ rewardsMultipliers = InitMultipliers

(* The withdraw fees: both users, two deposits each, and no rewards.       *)
FeesConcern ==
    /\ PacksUntouched /\ RatesUntouched
    /\ Len(withdrawFees) <= 2 /\ block <= 2

(* The schedule, the rate and the deposit fee: one user and one deposit.   *)
ScheduleConcern ==
    /\ PacksUntouched /\ withdrawFees = InitFees
    /\ depositFee = InitDepositFee \/ rewardsMultipliers = InitMultipliers
    /\ \E u \in Users : Empty(u)
    /\ \A u \in Users : Len(usersData[u].deposits) <= 1

(* The whitelist and the attributes of packs, that one user burns.         *)
PacksConcern ==
    /\ RatesUntouched /\ withdrawFees = InitFees /\ ~paused /\ block <= 2
    /\ \A u \in Users : Empty(u)
    /\ \E u \in Users : packBalance[u] = InitPackBalance[u] /\ usersData[u].activeBoosterPack = 0

OneConcern == FeesConcern \/ ScheduleConcern \/ PacksConcern
=============================================================================
