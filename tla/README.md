# Rewards Booster: a TLA+ model, its checks and its proofs

The repository is a Foundry project with four contracts and one token under
`src/src/`: a `Pool` takes deposits of one ERC-20 asset and pays rewards by the
block, a `BoosterPack` (ERC-1155) multiplies the rewards of the user who burns
one for a pool, a `PoolManager` creates pools through a `PoolFactory`. Everything
under `src/lib/` is vendored (OpenZeppelin, forge-std). Paths below are relative
to `src/src/` unless they say otherwise.

## 1. The system

| component | state | operations that change it | interacts with |
|---|---|---|---|
| `Pool.sol` | index of rewards per token and the block it was moved to; total; per user: deposits, stake, accumulated and claimable rewards, active pack; list of users with packs; index per booster; rate, fees, schedule; paused flag | `deposit`, `withdraw`, `claimRewards`, `burnBP`, `pause`, `unpause`, eight setters | the asset (`transferFrom`, `transfer`, `mint`), `BoosterPack` (`safeTransferFrom`, `burn`, getters) |
| `BoosterPack.sol` | ERC-1155 balances by id, attributes by the low 32 bits of the id, whitelist | `addWhitelistedAddrBP`, `removeWhitelistedAddrBP`, `setAttributes`, `mint`, `burn`, transfers | called by pools, owner, holders |
| `TheToken.sol` | ERC-20 balances, owner | `mint` (owner), `transferOwnership` | called by pools |
| `PoolManager.sol` | whitelisted tokens, list of pools | `addWhitelistedToken`, `removeWhitelistedToken`, `createPool`, `claimRewards` | factory, packs, pools |
| `PoolFactory.sol` | none | `createPool` | deploys pools and owns them |
| ERC-4626 shares inherited by `Pool` | share balances, supply | public `deposit`, `mint`, `withdraw`, `redeem` of OpenZeppelin, `transfer` of the shares | the same asset balance |

A transaction of the EVM runs alone and to its end, and one that reverts leaves no
trace. What is hard here is therefore not a data race but the *order* of
transactions and blocks:

- **State settled by others.** `deposit`, `withdraw` and `pause` walk the list of
  booster users and settle each of them; `claimRewards` and `burnBP` settle one.
  The list keeps holes (`delete`) and several entries for one user.
- **Indexes against blocks.** Rewards are differences of an index that moves only
  with a settlement, over a schedule of tiers the owner edits at any time.
- **A queue of deposits.** A withdrawal empties deposits from the front, takes the
  last one in part, and each has a fee of its own.
- **Checked arithmetic.** Every subtraction that could go below zero makes the
  transaction revert: safety holds because transactions are refused, and the
  questions become which ones, and whether a legal sequence of calls locks the
  pool.
- **Pausing** between any two transactions.
- **Ownership across contracts.** `createPool` writes to three contracts, and who
  deployed a contract decides which of its functions can ever be called.
- **Two ways into one balance.** Stakes and ERC-4626 shares use the same tokens, and
  neither knows of the other.

What makes each component correct, in short: stakes equal the deposits that back
them; the pool holds what it owes up to the fee; deposits leave first in, first
out; every minted token is on record; no block is paid twice; an active booster is
settled by everybody; a paused pool lets everybody
leave and does nothing else; packs change hands and are burned only under the
whitelist; no transaction in shares lowers the price of a share; the records of the
manager, the packs and the factory agree on the pools. The full list of what can go wrong, line by line, is under `hazards`
in `PROJECT.json`.

## 2. Modules

```
UnitSums ── PoolMath ──┐
            BoosterPack┴─ Pool ── PoolProperties ── MCPool ── MCShares
                           │        └ INSTANCE StakeLedger       │
                           ├── PoolShares ───────────────────────┘
                           └── 2 x INSTANCE in Deployment ── MCDeployment
                                               (EXTENDS PoolMath)
PoolMath ─┬ AccrualLoop ──┬─ Loops ── MCLoops
          └ WithdrawLoop ─┘

with proofs (TLAPS):
PoolMathProofs ─┬─ PoolProofs ─┬─ PoolOrderProofs ── PoolStakeProofs ── PoolRewardsProofs
                │              └─ PoolSharesProofs
                ├─ LoopProofs
                └─ DeploymentProofs
```

- **`UnitSums`**: sums without recursion, as the cardinality of a set of units, so
  that both TLC and TLAPS can use them.
- **`PoolMath`**: the arithmetic of `Pool.sol` as operators: percentages
  (`FeeAmount`), the fee table (`CalcWithdrawFeePerBlock`), the walk over the tiers
  (`Accrual`, with `AccrualFits` for what would revert), transfers of tokens (`Covers`,
  `Transfer`), and a whole withdrawal as a record (`Withdrawal`) given the number `k` of
  deposits that it empties (`DrainsThrough` fixes `k`), with `FeesFit` for what would revert:
  a product of a deposit with its fee that leaves `uint128`, or a fee above the deposit. The
  fee that is charged is the stored one *after* its conversion to 64 bits (`WithdrawFeeRate`).
  The code forms two more products in that loop, and neither needs a guard: the one with the
  rest taken in part (`:414`) is at most the one of the whole deposit (`:404`), because that
  deposit is worth more than the rest; the one at `:428` is the one at `:404`. Widths are
  constants: `MaxUint64` and `MaxUint128`.
- **`AccrualLoop`**, **`WithdrawLoop`**: the same two loops as the code runs them, one
  iteration a step, with the running variables of the code. They show that the
  closed forms of `PoolMath` are the loops, not a guess about them.
- **`BoosterPack`**: the pack contract. `Slot(id)` is `uint32(id)`, with `IdSpace`
  for 2^32. `TransferAndBurn` is what `burnBP` calls: transfer to the pool, then burn
  by the pool, both or none.
- **`Pool`**: one action per function, with the settlements it runs first.
- **`PoolProperties`**: invariants, step properties, and the promises of the
  documentation. **`StakeLedger`**: the abstract specification of a custodian of
  stakes which `Pool` implements.
- **`PoolShares`**: `Pool` with the ERC-4626 entry points next to its own. They settle
  nothing, touch no stake and do not ask whether the pool is paused.
- **`Deployment`**: manager, factory, BoosterPack, two pools (two instances of `Pool`) with
  an asset each, and the owner of every contract. A function that needs the owner is
  an action only if the owner is an account with a key (`OwnerStepA`, `OwnerStepB`,
  `OwnerStepPacks`); a claim only if the pool may mint its asset.
- **`Loops`**: the two loop modules side by side, one of which runs in a behaviour. `MCLoops` only
  gives the inputs.
- **`PoolMathProofs`** (numbers, tables, sums, the arithmetic of the pool), **`PoolProofs`**
  (types), **`PoolOrderProofs`** (settlements, list of boosters, packs, queue of deposits),
  **`PoolStakeProofs`** (stakes, fees, the refinement), **`PoolRewardsProofs`** (what is
  minted and what may be), **`PoolSharesProofs`**, **`LoopProofs`**, **`DeploymentProofs`**:
  the theorems of section 4.
- `…Mutant` operators stand next to the definition they spoil: each is a plausible bug
  (a dropped guard, a missing reset, an off-by-one) that breaks one property, and is
  never used by the specification. `PROJECT.json` pairs them with the properties.

### How the model corresponds to the code

| action | code | what to know |
|---|---|---|
| `Deposit` | `Pool.sol:335` | settles all boosters, then the index; fee to the recipient; the first deposit ever fixes the user's starting index |
| `Withdraw` | `:375` | settles unless paused; loop in closed form; the fee of the deposit taken in part comes on top of the stake debited |
| `ClaimRewards` | `:448` | any caller on behalf of a user; settles the user unless paused; mints |
| `BurnBP` | `:479` | settles the user (expiry included), then transfers, burns and activates |
| `Pause`, `Unpause` | `:508`, `:522` | `pause()` settles, `unpause()` only flips the flag |
| setters | `:219`–`:329` | rejected while paused; `delete` zeroes a row and keeps its place |
| `PackStep` | `BoosterPack.sol` | transactions sent to the pack contract itself |
| `NextBlock` | – | the chain moves on |
| `ShareDeposit`, `ShareMint`, `ShareWithdraw`, `ShareRedeem` | OpenZeppelin's `ERC4626.sol:132`–`:173`, inherited at `Pool.sol:35` | conversions with their rounding; `TotalAssets` is the balance of the pool, stakes included |
| `CreatePool` | `PoolManager.sol:79`, `PoolFactory.sol:28` | one transaction: deployment by the factory, whitelist of the packs, list of the manager |
| `BatchClaim` | `PoolManager.sol:116` | `claimRewards` in every pool of a list, with the manager as sender; all or nothing |
| `AddWhitelistedToken`, `RemoveWhitelistedToken` | `PoolManager.sol:41`, `:60` | removing a token leaves its pool alone |
| `MintA`, `TransferOwnership`, `DeployPool` | `TheToken.sol:17`, `Ownable` | who may mint, hand over, or deploy a pool without the manager |

*Reverts.* A transaction that reverts is a disabled action. The guards are the code's
checks, and the arithmetic that Solidity checks: each subtraction has a guard that it
does not go below zero, each product and each stored counter one that it fits. The
conversion `uint64(x)` is not checked and truncates (`ToUint64`), in the rewards of a claim
and of a booster and in the withdraw fee; the conversions to `uint128` are of values that have this width.

*Settlements.* Settling an account reads and writes only what belongs to it (and the
index of the sender, which the code reads), so the loop over the list is described by
how often it visits each account: `CalcBPRewards` counts the entries, and `IndexAfter`,
`CreditAfter`, `AccumAfter` give the state after `n` visits. Visiting an account twice
in one transaction is not idempotent in the code and is not in the model.

*Data.* Accounts and ids are small sets; `Zero` is `address(0)`, the content of a hole
in the list. Arrays start at 1, so `nextDepositIdToRemove` is one more than in the code.
Block numbers start at 1; the README of the repository speaks of an expiration timestamp,
the code compares it with `block.number`, and so does the model. Allowances are in place,
and the token accepts a mint from the pool, as in the mock tokens of the tests. `Owner`
is `Ownable.owner()` and stands among the callers of `claimRewards` for any account
that has no stake, `PoolManager` included.

## 3. What is checked

All runs start from the constructor's state; a run's `.cfg` gives values to every
constant. Users are interchangeable (`UserSymmetry`) wherever there are two and no
property singles one out. Each passing run is exhaustive within
its bounds: up to 200,000 distinct states, seconds to three minutes.

| run | question | bounds that matter |
|---|---|---|
| `owner` | `TypeOK`; a stake is the sum of its deposits; the total covers the stakes; first in, first out; what leaves the pool exceeds the stake by at most the highest fee; the pool implements `StakeLedger`; no block is paid twice, before the last settlement or above its tier; a pack that exists can be looked up; nothing is minted or burned without the whitelist, and an activation burns one pack | the owner edits everything, one concern at a time (below) |
| `boosters` | every mint is on record; settlements in order; active boosters are on the list; one pack per activation; stakes are backed; claims stay within what the schedule emits; a paused pool lets everybody leave whatever the boosters' state, and its users do nothing else | two users with two packs each, two burns, three blocks, packs that expire after one, claims by others, pauses, no withdraw fee, amounts 4 and 10; both users deposit and withdraw in parts where no pack was burned, one of them where one was, and with more stakes are 0 or 10 (`PacksOrParts`) |
| `loops` | the loop over tiers computes `Accrual` and reverts exactly when `AccrualFits` is false; the withdraw loop does `Withdrawal`, for exactly one `k`, and reverts exactly when `FeesFit` is false | every schedule of up to two tiers, sorted or not, zero rows included, and one of three; up to three deposits with different fees, one above 100 %, one that 64 bits truncate, and products that leave the width |
| `shares` | the supply is the sum of the shares; no transaction in shares lowers the price; what `maxWithdraw` and `maxRedeem` promise is paid | two users with 7 units, stakes of 4, share amounts 1, 3 and 4 (which do not divide each other, so that rounding happens), up to eight shares; a fee of 50 % drains the pool below its stakes and the price to 0 |
| `deployment` | the records of three contracts agree; an owned asset grows by rewards only; a batch of claims pays what is due | one user, two pools, one of which may also be deployed without the manager, one asset that only its owner mints and one open to all, the manager and the asset handed over, to the pool and to nobody |

The states of `owner` belong to one of three concerns (`OneConcern`, a constraint of the
run). *Fees*: two users with two deposits each, amounts 4 and 10, a deposit fee of 10 %, a
fee row that ends inside the checked blocks, and an owner who adds, overwrites and deletes
rows, one of 120 % (the withdrawal reverts). *Schedule*: one user with one deposit, two tiers
ending at blocks 2 and 4, and an owner who adds a third tier out of order, overwrites and
deletes, changes the rate, and, with the schedule of the constructor, the deposit fee.
*Packs*: ids 0, 1 and 3, of which 1 and 3 share a slot; mint, burn, transfer, attributes and
whitelist edited throughout, while one user burns packs for the pool. Pausing is part of
the first two. The concerns share the initial state, and a step that leaves all of them is
still checked. What the constraint leaves out is that an owner edits fees, schedule and
packs in one behaviour; the theorems of section 4 have no such bound.

Why the bounds are enough to be interesting: two users are what a settlement of
another's booster needs; two deposits, what a partial withdrawal across a boundary
needs; three blocks cover activation, expiry and a later settlement; two burns give
a hole in the list followed by a second entry of the same user, or two users in one list;
four blocks reach past the end of both tiers; two pools of different rates tell a claim that left
one out, or paid one with the index of the other.

Guards that are not in the code, all of them bounds: `MaxBlock`, `MaxDeposits`,
`MaxBurns`, `MaxRows`, `MaxPacks`, `MaxBalance` (the balance up to which a user claims or
is minted to), `MaxShares`; and in `Deployment` the `Handovers` that
are tried, `DirectPools` (pools that may be deployed without the manager) and one pool for
each token. The constraints `OneConcern` and `PacksOrParts` bound the runs `owner` and
`boosters`.

Properties with a precondition on the instance say so in their comment:
`PoolBacksStakes` and `PausedExitOpen` hold where no withdraw fee is charged,
`OnePackPerActivation` where no pack is minted or burned outside the pool,
`MintedPackExists` where nobody gives a pack the expiration date 0, and
`ClaimsWithinEmission` where the owner never raises the emission and each user deposits
once: a second deposit is paid for the blocks before it (see below).

*Fairness.* No specification states any: nobody is obliged to send a transaction, a loop
over an array of fixed length ends by its shape, and no property is a liveness property. What
a pool must always allow is stated with `ENABLED` instead (`PausedExitOpen`, `MaxExitIsPaid`,
and the violated `ClaimOpen`, `FreezeOpen` and `OwnerGoverns`). The loops really stop, so
deadlock checking is off in `loops`.

*Refinement.* `ImplementsLedger` maps the recorded stake of each account to `stake`, the
pool's balance to `custody` and `paused` to `frozen`. A step enters with one stake, leaves
with one stake and at most the same again as a fee, freezes, or stutters: nobody's
transaction moves the stake of somebody else.

### Where the code and its documentation disagree

Each of these is a run that ends in a counterexample, within a second.

| run | the documentation | the code |
|---|---|---|
| `claim_open` | "Users can claim their pending rewards at any time" | deposit, claim, withdraw: the rewards of the remaining stake are below those already paid, and `claimRewards` reverts |
| `unpause` | freezing "will stop the accrual of new rewards" | `unpause()` does not move `_lastBlockUpdated`: the next settlement pays all paused blocks |
| `fee_period` | "The fee depends on how long the tokens were locked for" | it is looked up by the block of the deposit, which never changes |
| `freeze_open` | the owner can freeze a pool | `pause()` settles all boosters; after a user with an unclaimed booster credit has withdrawn the whole stake, that settlement underflows and `pause()` reverts. It stays so: a claim would reset the credit, but it settles the same booster first and underflows at the same line, as do the user's deposits and withdrawals |
| `emission` | in each block the base rate times the multiplier of the period is emitted, and "Not Defined" is 1x | a block past the last tier emits nothing. Inside the schedule, the first block of a tier that the walk reaches from an earlier tier is skipped as well (`:747`) |
| `repriced` | in each block the base rate times the multiplier is emitted | the setters do not settle: a new rate prices every block since the last settlement |
| `managed` | the owner can freeze a pool, change rate and fees, and say who mints and burns packs | a pool that the manager made belongs to the factory, and the BoosterPack to the manager; neither has a function that passes the call of an owner on, and no account can make any of these calls |

`managed` violates a state property, `OwnerGoverns`, at the first pool. That it stays so is
proved: the theorems `ManagedPoolsAreFixed` and `NoPackExists` say what the code does
instead, for ever.

### Behaviour worth knowing

Met while modelling, reproduced by the model as the code has it, and without a run of
its own:

- `Pool.sol:460`: the whole current stake is paid from the index of the *first*
  deposit, so that stake added later earns for blocks before it was there.
- `Pool.sol:747`: after the end of a tier the walk goes on at `blockNumber + 1`, and
  the block after each tier is not paid.
- `Pool.sol:403`: the fee of a row, times 10, is cut to 64 bits: a very high fee is charged as
  a low one, or as none, instead of making the withdrawal revert.
- `Pool.sol:366`: a deposit of 0 fixes the starting index of a user, and the next deposit is
  paid for the blocks in between.
- `Pool.sol:410`: the fee of a partial withdrawal is paid by the pool, out of the tokens
  of the others (`OverdraftBoundedByFee` is the bound that does hold).
- `Pool.sol:409`: partial withdrawals do not lower `_totalAmount`
  (`TotalCoversStakes` is an inequality), so that rewards per token are diluted.
- `Pool.sol:823`: the credit of a booster is measured from the starting index of
  `msg.sender`, not of its user.
- `Pool.sol:472`: a claim resets the booster credit that the next settlement subtracts,
  and the same blocks are credited again; the index of a booster is cumulative, so that a
  second pack is credited for the blocks of the first as well (`SettlementsInOrder` orders
  activations and settlements, and says nothing about credits).
- `Pool.sol:856`: an entry of an account whose pack has expired is visited as a
  pack that ended at block 0; in a later block that underflows.
- `Pool.sol:499`: the pack with id 0 is activated as no pack.
- `BoosterPack.sol:93`: `mint` overwrites the attributes of a slot, of running boosters
  too.
- `PoolManager.sol:65`: removing a token from the whitelist stops no pool, while README:10
  of the repository has the owner "freeze tokens from being whitelisted, which will disable
  new deposits and will stop the accrual of new rewards".
- `Pool.sol:468`: claims revert until the pool owns its asset, and a token has one owner:
  only one pool can ever pay rewards in `TheToken`.
- `Pool.sol:35`: `totalAssets` counts the tokens that back the stakes, so that transactions in
  stakes move the price of a share, and a holder of shares can redeem tokens of stakers
  (`PoolBacksStakes` is not claimed next to shares). A withdrawal of stakes can leave shares
  worth nothing, of which `mint` then gives out more for free; a paused pool
  takes share deposits as before.

## 4. What is proved

TLAPS proves, for any number of users, blocks, rows, packs and any widths, from the
assumptions on the constants (`PoolAssumption`, `FiniteAccounts`, `FinitePackIds`,
`PackAssumption`, `WidthAssumption`, `ShareAssumption`, `AccrualLoopAssumption`,
`WithdrawLoopAssumption`, `DeploymentAssumption`, `AmountsAssumption`; TLC evaluates each of them in the runs of
its module):

| theorem | module | statement |
|---|---|---|
| `TypeCorrect` | `PoolProofs` | `Spec => []TypeOK` |
| `OrderCorrect` | `PoolOrderProofs` | `Spec => []SettlementsInOrder` |
| `BoostersAreRegistered` | `PoolOrderProofs` | `Spec => []BoosterRegistered` |
| `WhitelistGoverns` | `PoolOrderProofs` | `Spec => WhitelistGovernsPacks` |
| `PacksAreBurnedOnce` | `PoolOrderProofs` | `OnlyPoolBurns => (Spec => []OnePackPerActivation)` |
| `PacksExist` | `PoolOrderProofs` | `DatesGiven => (Spec => []MintedPackExists)` |
| `WithdrawalsAreFirstInFirstOut` | `PoolOrderProofs` | `Spec => FirstInFirstOut` |
| `PausedPoolIsFrozenForUsers` | `PoolOrderProofs` | `Spec => PausedUsersOnlyLeave` |
| `TotalCorrect` | `PoolStakeProofs` | `Spec => []TotalCoversStakes` |
| `StakesAreBacked` | `PoolStakeProofs` | `Spec => []DepositsBackStakes` |
| `LedgerImplemented` | `PoolStakeProofs` | `Spec => ImplementsLedger` |
| `OverdraftIsBounded` | `PoolStakeProofs` | `Spec => OverdraftBoundedByFee` |
| `StakesAreHeld` | `PoolStakeProofs` | `NoWithdrawFees => (Spec => []PoolBacksStakes)` |
| `PausedExitIsCovered` | `PoolStakeProofs` | `NoWithdrawFees => (Spec => [](paused => \A u \in Users : ExitOpen(u)))` |
| `MintsAreAccounted` | `PoolRewardsProofs` | `Spec => []EveryMintAccounted` |
| `BlocksArePaidOnce` | `PoolRewardsProofs` | `Spec => EachBlockPaidAtMostOnce` |
| `ClaimsAreEmitted` | `PoolRewardsProofs` | `EmissionNeverRaised /\ OneDepositEach => (Spec => []ClaimsWithinEmission)` |
| `SharesTyped` | `PoolSharesProofs` | `SharesSpec => []SharesTypeOK` |
| `SharesCorrect` | `PoolSharesProofs` | `SharesSpec => []SharesAddUp` |
| `PriceNeverFalls` | `PoolSharesProofs` | `SharesSpec => SharePriceNeverFalls` |
| `FullExitIsAlwaysCovered` | `PoolSharesProofs` | `SharesSpec => [](\A u \in Users : ExitFits(u, …) /\ ExitFits(u, …))`, of `maxWithdraw` and of a redemption of all shares |
| `AccrualIsClosedForm` | `LoopProofs` | `LoopsSpec => []LoopComputesAccrual` |
| `WithdrawalIsClosedForm` | `LoopProofs` | `LoopsSpec => []LoopComputesWithdrawal` |
| `RecordsAlwaysAgree` | `DeploymentProofs` | `DeploymentSpec => []RecordsAgree` |
| `ManagedPoolsAreFixed` | `DeploymentProofs` | `DeploymentSpec => ManagedPoolsNeverChange` |
| `NoPackExists` | `DeploymentProofs` | `DeploymentSpec => []NoPackIsEverMinted` |
| `OwnedAssetGrows` | `DeploymentProofs` | `TokenA \notin OpenTokens => (DeploymentSpec => OwnedAssetGrowsByRewards)` |
| `BatchPays` | `DeploymentProofs` | `DeploymentSpec => BatchPaysWhatIsDue` |

Six theorems have a hypothesis on the instance. Each says when the property is meant, and
the run that checks the property satisfies it: `NoWithdrawFees` (of two), `OnlyPoolBurns` (nobody but
the pool is on the whitelist of the packs, and nobody gives the pool one), `DatesGiven` (no
pack has the expiration date 0, which is how the code knows one that does not exist),
`EmissionNeverRaised` with `OneDepositEach` (no tier is added or rewritten, the rate stays at
or below the first one, no tier pays more than an earlier one; no user deposits twice), and
`TokenA \notin OpenTokens` (an asset that anybody may mint grows by more than rewards).

- **`TypeOK`** is inductive as it stands, and says more than types: balances, stakes and
  totals are natural numbers and stored counters fit their width. It is so because each
  subtraction and each addition of the code is checked, and the guards of the actions are
  those checks. The work is in `PoolMathProofs`: what a withdrawal leaves of a deposit
  taken in part is not negative (`RemainderIsCovered`) and the record of a withdrawal is
  typed (`WithdrawalIsTyped`), for every number of deposits and any fees.
- **`SettlementsInOrder`** is inductive relative to `TypeOK`. The step that carries it is
  that `burnBP` settles *before* it activates, so that the activation block equals
  `lastBlockUpdated`, and that a settlement keeps or ends an activation and never
  moves it (`SettlementKeepsOrExpires`).
- **`BoosterRegistered`** is inductive relative to `TypeOK`: the hole that
  `_checkBPExpired` makes replaces the *first* entry of the user, and only if the user's pack
  has expired; in that very case the visit has ended the activation (`VisitExpiresPack`).
- **`WhitelistGovernsPacks`**: each function of the pack contract moves the supply by what it
  mints or burns, and not at all for a transfer, also of an account to itself; an activation
  is the one step that burns a pack and appends to the list.
- **`OnePackPerActivation`** is the balance of packs and list entries: a burn takes one from
  the supply and appends one entry, `delete` and expiry keep the length of the list. It is
  inductive with `PoolHoldsNoPack` (the pool could otherwise burn packs it owns).
- **`MintedPackExists`** is strengthened from ids that can be looked up to every id that
  somebody holds (`HeldPacksExist`): `mint` writes the slot of the id that it creates, and
  writing a slot that another id shares leaves that one a date.
- **`FirstInFirstOut`** needs a strengthening: every deposit before
  `nextDepositIdToRemove` is empty and the position is at most one past the end
  (`EarlierDepositsEmpty`). Without it a withdrawal could touch a deposit behind one that
  holds something.
- **`PausedUsersOnlyLeave`** follows from the guards of the paused case: no visits, hence
  no change of an index or a credit (`NoVisitsSettleNothing`), and a debit that is a
  natural number.
- **Sums without induction.** `SumOver(f, S)` is the cardinality of the set of units of `f`
  on `S`, so facts about sums are facts about finite sets and bijections: a sum moves with
  the one term that moves (`SumMovesWithOne`), equal terms give equal sums (`SumOfSame`), the
  sum of two functions is the sum of their sums (`SumOfSums`), a set splits (`SumOfParts`).
- **`TotalCoversStakes`**: a deposit adds the same to both sides, a withdrawal takes the
  emptied deposits from the total and as much or more from the stakes.
- **`DepositsBackStakes`** needs the positions of the FIFO argument: what a withdrawal sets
  to 0 and what it takes out of one more deposit sum up to the stake debited
  (`WithdrawalTakesAmounts`).
- **`EveryMintAccounted`** is inductive with `TypeOK`: a settlement moves `claimable` and
  `accum` of a booster by the same amount (`SettlementIsAccounted`), a transfer keeps the sum
  of balances, self-transfers included (`TransferKeepsSum`), and a claim mints what it
  records (`ClaimIsAccounted`).
- **`EachBlockPaidAtMostOnce`**: the heart is `PaidWithinEmission`, about the walk over any
  schedule. A tier pays only blocks after all earlier ends and up to its own
  (`TierPaysItsBlocks`), and there the schedule emits at least its rate
  (`EmissionWithinTier`); the blocks of different tiers do not overlap, so what they pay adds
  up to at most what is emitted (`EmissionSplits`), and each division rounds down. The
  argument goes over the tiers with `NatByStep`, the least-number principle for one set of
  numbers. In the pool, the index moves only by `UpdateRewardsPerToken` (`NextMovesIndex`).
- **`ClaimsWithinEmission`** is far from inductive: a claim can come blocks after the
  settlement that pays for it, or after a withdrawal. The invariant behind it is
  `CreditsWithinEmission`. The credit of a user is the larger of what was claimed and of what
  the stake still held has earned since the user's starting index; all credits together stay
  below what the constructor's schedule emits up to `lastBlockUpdated`. A settlement adds to the
  credits at most its step times the stakes (`CreditsGrowWithStakes`), the stakes are at most
  the total (`TotalCoversStakes`), and the step times the total is at most what is emitted in
  the settled blocks (`SettlementPaysEmission`). Everything else lowers credits or keeps
  them: a withdrawal takes stake and with it what the stake earned, a claim rounds down,
  `uint64(x)` is never above `x` (`ToUint64IsBelow`). `ScheduleOnlyCut` says that the schedule
  in force is the constructor's with tiers removed, so that it emits no more (`CutEmitsLess`).
  A second deposit breaks the invariant (its stake earns from the first deposit's index), and
  so would a raised emission, which `ClaimsWithinEmission` does not count.
- **`LoopComputesAccrual`** has the loop invariant `AccrualWalk`: before the iteration of a
  tier, `last` is the greatest of the starts so far and `index` the sum of what the earlier
  tiers contribute, each of which fits. The same walk shows that the loop reverts exactly
  where `AccrualFits` is false.
- **`LoopComputesWithdrawal`** has two: `WholeTaken`, deposits before `i` are emptied, and
  `PartTaken`, the last one was worth more than what was left. At the end either gives the
  `k` that `DrainsThrough` fixes, and no other number satisfies it. The loop reverts at the first
  deposit that does not fit (`FeeFits`), which is the first one that `FeesFit` counts and that
  fails; its other products and sums cannot overflow then.
- **`OverdraftBoundedByFee`**: an emptied deposit pays its own fee (`DrainedPayTheirFees`);
  the deposit taken in part is worth more than what is taken, so its fee is below 100 %
  (`RestFeeIsBelowRest`), and it is the only fee the pool bears (`WithdrawalCosts`).
- **`ImplementsLedger`**: the initial state maps to an empty ledger, `Deposit` to `Enter`,
  `Withdraw` to `Leave` (a fee of at most the stake given up, from `WithdrawalCosts`), and
  both to a stutter when no stake moves; everything else to `Freeze`.
- **`SharePriceNeverFalls`** is about two roundings each way: the products on both sides of
  the inequality are compared through quotient and remainder.
- **`PausedExitIsCovered`** is `PausedExitOpen` without `ENABLED`. `ExitOpen(u)` lists every
  guard of `Withdraw(u, Stake(u))` that a state can fail, and says besides what the exit pays:
  the whole stake, without a fee. That these are all the guards, so that the step can be taken,
  is `OpenExitIsAStep`. The loop stops somewhere (`LoopStops`, by the least-number
  principle). What it drains and takes is what the deposits from `first` on hold, and that is
  the stake, because the earlier ones are empty (`FullWithdrawalPaysAll`). So the exit
  needs five invariants at once (`ExitInv`): `DepositsBackStakes` (the stake is what the
  deposits hold), `EarlierDepositsEmpty` (nothing is left behind), `TotalCoversStakes` (the
  subtraction from `_totalAmount`), `PoolBacksStakes` (the transfer) and no fees. The
  settlements cannot revert, because a paused pool visits no booster (`PausedSettlementFits`).
- **`FullExitIsAlwaysCovered`** is `MaxExitIsPaid` without `ENABLED`: `ExitFits` is every guard
  of the two calls and `FittingExitIsAStep` says so. What the assets are worth in shares,
  rounded up, is the *least* number of shares that is worth them (`RoundedUpIsLeast`), hence at
  most the shares they were computed from; and nobody holds more shares than there are.
- **`RecordsAgree`** is strengthened by who owns what (`OwnersKnown`): the factory and the
  packs belong to the manager, which has no key, so that only `createPool` writes a record,
  and a listed pool is created once and belongs to the factory, which has no key either. A
  pool deployed without the manager may be given to the factory; it is not listed for that.
  `ManagedPoolsNeverChange` (a listed pool keeps its rate, fees, schedule and flag) follows.
- `NoPackIsEverMinted` (all pack balances stay at 0 and no booster is active) needs what it implies for the pools (`PacksInv`): nobody holds a
  pack, so that no burn is possible, and both pools stay without boosters (`PoolIdle`). The
  record of every user has no pack, no activation and no credit, and the list is empty;
  the other half of `PoolIdle`, which the next two theorems need, says that purses, stakes and
  indexes are amounts and fee tables are typed. tlapm cannot cite a theorem about `Pool`
  through INSTANCE, so what a transfer, a withdrawal or a claim does to purses and records
  is stated over values (`TwoTransfers`, `DepositMoves`, `WithdrawalKeepsIdle`,
  `ClaimKeepsIdle`, `SupplyMovesWithPurse`), once, and applied to the actions of each pool
  (`DepositIsIdleA`, … `OwnerIsIdleB`); that an instance computes what `PoolMath` says is
  `ArithmeticOfA` and `ArithmeticOfB`.
- **`OwnedAssetGrowsByRewards`**: the owner of the asset cannot call, so nobody hands it over
  and nobody mints (`OwnedAssetKeepsOwner`); deposits and withdrawals, each two transfers, keep
  the sum of the purses; a claim raises it by what it adds to `accumRewards`, because without
  boosters there is no credit to pay on top (`ClaimIsIdleA`); and it needs a pool that may
  mint (`OwnedAssetGrowsByClaims`).
- **`BatchPaysWhatIsDue`** follows from the same lemmas: a claim pays the same whoever sends it,
  since without boosters there is nothing that is measured from the index of the sender, and
  it leaves the other pool alone (`BatchMoves`).

*Model-checked only.* `PausedExitOpen` and `MaxExitIsPaid` (`ENABLED`) are outside what the
prover can do as they are stated; the guards behind `ENABLED` are proved true in every state
(`PausedExitIsCovered`, `FullExitIsAlwaysCovered`). All other properties of the passing runs
have their theorem. The seven properties that the code violates are refuted by TLC and have
no theorem; of `OwnerGoverns`, what holds instead is proved.

## 5. What is not modelled

- *Vendored code.* Everything under `src/lib/`, which is most of the repository's files: the
  OpenZeppelin contracts, of which the model has what the five contracts use (ERC-20 and
  ERC-1155 transfers, ERC-4626 conversions, `Ownable`; the map in `PROJECT.json` names their
  lines), and forge-std. The
  JavaScript files of the repository are all OpenZeppelin's own build, release and code
  generation scripts (`src/lib/openzeppelin-contracts/scripts/`, `hardhat/`, test helpers).
  The program never runs them; the program is the Solidity under `src/src/`, and every
  function there that changes state is modelled, with the exceptions below.
- Allowances and approvals; asset transfers that do not involve a pool; several pools for one token; duplicates in the list of a batch claim
  (without boosters a second claim of the same block changes nothing, and in a deployment
  with a manager there are no boosters); `onERC1155Received`, getters and events; batch
  transfers of packs, which repeat single ones.
- No run has a `MaxUint64` small enough for the truncation at `Pool.sol:459`, although
  `ToUint64` models it and the theorems hold with it.
- Tests and scripts: read for what the authors expect, not modelled.

## 6. Plan

1. *Done:* `PoolMath`, `BoosterPack`, `Pool`, the two loops, `StakeLedger`; type
   correctness, order and pausing.
2. *Done:* the composition (`Deployment`), the ERC-4626 shares (`PoolShares`).
3. *Done:* the proofs of sums, of the refinement, of the shares and of the deployment.
4. *Done:* the proofs about packs, the two loops, what is paid under the schedule, what
   the pools of a deployment mint and pay, and that stakers and holders can always leave.
5. *Left:* a run for the truncation at `Pool.sol:459`.
