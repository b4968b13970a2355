----------------------------- MODULE LoopProofs -----------------------------
(***************************************************************************)
(* The two loops of Pool compute the closed forms that module Pool uses,   *)
(* for every schedule, every list of deposits and every fee table: one     *)
(* loop invariant each, kept by each kind of iteration.                    *)
(***************************************************************************)
EXTENDS Loops, PoolMathProofs

-----------------------------------------------------------------------------
(* The loop over the schedule. *)

(* What tier j adds to the index. *)
TierTerm(j) == TierEmission(tiers, rate, from, to, j) \div total

TierTerms == [j \in DOMAIN tiers |-> TierTerm(j)]

AccrualTyped ==
    /\ tiers \in Schedule
    /\ rate \in Nat /\ total \in Nat /\ from \in Nat /\ to \in Nat
    /\ tier \in 1..(Len(tiers) + 1)
    /\ index \in Nat /\ last \in Nat

(* Before the iteration of a tier the loop has walked past all the tiers   *)
(* before it, stands where the walk starts this tier, and has added up     *)
(* what those tiers contribute, which fits.                                *)
AccrualWalk ==
    /\ TierVisited(tiers, to, tier)
    /\ last \in StartsBefore(tiers, from, tier)
    /\ \A b \in StartsBefore(tiers, from, tier) : b <= last
    /\ \A j \in 1..(tier - 1) :
          /\ TierTerm(j) \in Nat
          /\ TierFits(tiers, rate, from, to, j)
    /\ index = SumOver(TierTerms, 1..(tier - 1))

AccrualInv ==
    /\ AccrualTyped
    /\ accrualStatus = "running" => IF total = 0 THEN index = 0 ELSE AccrualWalk
    /\ LoopComputesAccrual

(* A tier of the schedule: its number and its row. *)
LEMMA TierIsTyped ==
    ASSUME AccrualTyped
    PROVE  /\ DOMAIN tiers = 1..Len(tiers) /\ Len(tiers) \in Nat
           /\ \A j \in 1..Len(tiers) : tiers[j].blockNumber \in Nat /\ tiers[j].multiplier \in Nat
<1>1. /\ DOMAIN tiers = 1..Len(tiers) /\ Len(tiers) \in Nat
      /\ \A j \in 1..Len(tiers) : tiers[j] \in [blockNumber : Nat, multiplier : Nat]
  BY RowsOfSequence DEF AccrualTyped, Schedule
<1> QED BY <1>1

(* The walk stands where the closed form starts the tier. *)
LEMMA WalkStandsAtStart ==
    ASSUME AccrualTyped, AccrualWalk
    PROVE  TierStart(tiers, from, tier) = last
<1>1. StartsBefore(tiers, from, tier) \subseteq Nat
  <2>1. \A j \in 1..(tier - 1) : tiers[j].blockNumber + 1 \in Nat
    <3> SUFFICES ASSUME NEW j \in 1..(tier - 1) PROVE tiers[j].blockNumber + 1 \in Nat
      OBVIOUS
    <3>1. j \in 1..Len(tiers)
      BY TierIsTyped DEF AccrualTyped
    <3> QED BY <3>1, TierIsTyped
  <2>2. from \in Nat
    BY DEF AccrualTyped
  <2> QED BY <2>1, <2>2 DEF StartsBefore
<1> QED BY <1>1, TierStartIsLast DEF AccrualWalk

(* What a tier emits from the block where the walk stands to a later one.  *)
LEMMA ProductIsTyped ==
    ASSUME AccrualTyped, total # 0, tier \in 1..Len(tiers),
           NEW until \in Nat, last <= until
    PROVE  LET product == rate * tiers[tier].multiplier * (until - last) * MULTIPLIER
           IN  product \in Nat /\ product \div total \in Nat
<1>1. /\ rate \in Nat /\ tiers[tier].multiplier \in Nat
      /\ until - last \in Nat /\ total \in Nat \ {0}
  BY TierIsTyped DEF AccrualTyped
<1>2. \A a \in Nat, b \in Nat : a * b \in Nat
  OBVIOUS
<1>3. \A a \in Nat, b \in Nat \ {0} : a \div b \in Nat
  OBVIOUS
<1>4. rate * tiers[tier].multiplier * (until - last) * MULTIPLIER \in Nat
  <2>1. rate * tiers[tier].multiplier \in Nat
    BY <1>1, <1>2
  <2>2. (rate * tiers[tier].multiplier) * (until - last) \in Nat
    BY <1>1, <1>2, <2>1
  <2>3. MULTIPLIER \in Nat
    BY DEF MULTIPLIER
  <2> QED BY <1>2, <2>2, <2>3
<1> QED BY <1>1, <1>3, <1>4

(* The sum over one more tier. *)
LEMMA TermIsAdded ==
    ASSUME AccrualTyped, AccrualWalk, tier \in 1..Len(tiers), TierTerm(tier) \in Nat
    PROVE  SumOver(TierTerms, 1..tier) = index + TierTerm(tier)
<1>1. DOMAIN tiers = 1..Len(tiers) /\ Len(tiers) \in Nat
  BY TierIsTyped
<1>2. 1..tier = (1..(tier - 1)) \cup {tier} /\ tier \notin 1..(tier - 1)
  OBVIOUS
<1>3. IsFiniteSet(1..(tier - 1))
  BY FS_Interval
<1>4. /\ \A j \in 1..(tier - 1) : TierTerms[j] \in Int
      /\ TierTerms[tier] = TierTerm(tier)
  <2>1. \A j \in 1..tier : j \in DOMAIN tiers
    BY <1>1
  <2>2. \A j \in 1..tier : TierTerms[j] = TierTerm(j)
    BY <2>1 DEF TierTerms
  <2>3. \A j \in 1..(tier - 1) : TierTerm(j) \in Nat
    BY DEF AccrualWalk
  <2>4. \A j \in 1..(tier - 1) : j \in 1..tier
    OBVIOUS
  <2>5. tier \in 1..tier
    OBVIOUS
  <2>6. \A n \in Nat : n \in Int
    OBVIOUS
  <2> QED BY ONLY <2>2, <2>3, <2>4, <2>5, <2>6
<1>5. SumOver(TierTerms, (1..(tier - 1)) \cup {tier})
        = SumOver(TierTerms, 1..(tier - 1)) + TierTerms[tier]
  BY <1>2, <1>3, <1>4, SumOfOneMore
<1> QED BY <1>2, <1>4, <1>5 DEF AccrualWalk

(* What a tier contributes where the walk ends in it. *)
LEMMA TermOfReachedTier ==
    ASSUME AccrualTyped, AccrualWalk, tier \in 1..Len(tiers),
           NEW until \in Nat, until = Min({to, tiers[tier].blockNumber}),
           last <= tiers[tier].blockNumber
    PROVE  TierEmission(tiers, rate, from, to, tier)
             = rate * tiers[tier].multiplier * (until - last) * MULTIPLIER
<1>1. TierStart(tiers, from, tier) = last
  BY WalkStandsAtStart
<1>2. TierBlocks(tiers, from, to, tier) = until - last
  BY <1>1, Zenon DEF AccrualWalk, TierBlocks
<1> QED BY <1>2, Zenon DEF TierEmission

(* A tier that is passed over, or not reached, contributes nothing. *)
LEMMA TermOfOtherTier ==
    ASSUME AccrualTyped, total # 0, NEW j \in 1..Len(tiers),
           TierBlocks(tiers, from, to, j) = 0
    PROVE  TierEmission(tiers, rate, from, to, j) = 0 /\ TierTerm(j) = 0
<1>1. rate \in Nat /\ tiers[j].multiplier \in Nat /\ total \in Nat \ {0}
  BY TierIsTyped DEF AccrualTyped
<1>2. TierEmission(tiers, rate, from, to, j) = 0
  BY ONLY <1>1, TierBlocks(tiers, from, to, j) = 0 DEF TierEmission, MULTIPLIER
<1>3. 0 \div total = 0
  BY <1>1
<1> QED BY <1>2, <1>3 DEF TierTerm

(* The walk behind one more tier. *)
LEMMA WalkMovesOn ==
    ASSUME AccrualTyped, AccrualWalk, total # 0, tier \in 1..Len(tiers),
           tiers[tier].blockNumber < to,
           UNCHANGED inputs, tier' = tier + 1,
           last' = IF last <= tiers[tier].blockNumber
                   THEN tiers[tier].blockNumber + 1 ELSE last,
           TierTerm(tier) \in Nat,
           TierFits(tiers, rate, from, to, tier),
           index' = index + TierTerm(tier)
    PROVE  AccrualTyped' /\ AccrualWalk'
<1>1. tiers' = tiers /\ rate' = rate /\ total' = total /\ from' = from /\ to' = to
  BY DEF inputs
<1>2. /\ DOMAIN tiers = 1..Len(tiers) /\ Len(tiers) \in Nat
      /\ tiers[tier].blockNumber \in Nat
  BY TierIsTyped
<1>3. tier' \in 1..(Len(tiers) + 1) /\ tier \in Nat
  BY <1>2
<1>4. last' \in Nat /\ last \in Nat /\ last <= last'
  BY <1>2 DEF AccrualTyped
<1>5. index' \in Nat
  BY DEF AccrualTyped
<1>6. AccrualTyped'
  BY <1>1, <1>3, <1>4, <1>5 DEF AccrualTyped
<1>7. (tier + 1) - 1 = tier
  BY <1>3
<1>8. \A j \in 1..tier : j \in 1..(tier - 1) \/ j = tier
  BY <1>3
<1>9. TierVisited(tiers, to, tier + 1)
  BY <1>7, <1>8 DEF AccrualWalk, TierVisited
<1>10. StartsBefore(tiers, from, tier + 1)
         = StartsBefore(tiers, from, tier) \cup {tiers[tier].blockNumber + 1}
  <2>1. 1..tier = (1..(tier - 1)) \cup {tier}
    OBVIOUS
  <2> QED BY <1>7, <2>1 DEF StartsBefore
<1>11. last' \in StartsBefore(tiers, from, tier + 1)
  BY <1>10 DEF AccrualWalk
<1>12. \A b \in StartsBefore(tiers, from, tier + 1) : b <= last'
  <2>1. tiers[tier].blockNumber + 1 <= last'
    BY <1>2, <1>4
  <2>2. ASSUME NEW b \in StartsBefore(tiers, from, tier) PROVE b <= last'
    <3>1. b <= last
      BY DEF AccrualWalk
    <3>2. b \in Nat
      <4>1. \A j \in 1..(tier - 1) : j \in 1..Len(tiers)
        BY <1>2
      <4> QED BY <4>1, TierIsTyped DEF StartsBefore, AccrualTyped
    <3> QED BY <1>4, <3>1, <3>2
  <2> QED BY <1>10, <2>1, <2>2
<1>13. \A j \in 1..tier : /\ TierTerm(j) \in Nat
                          /\ TierFits(tiers, rate, from, to, j)
  BY <1>8 DEF AccrualWalk
<1>14. index' = SumOver(TierTerms, 1..tier)
  BY TermIsAdded
<1>15. /\ (1..(tier - 1))' = 1..tier
       /\ \A j : TierTerm(j)' = TierTerm(j)
       /\ TierTerms' = TierTerms
  BY <1>1, <1>7 DEF TierTerm, TierTerms
<1>16. AccrualWalk'
  BY <1>1, <1>9, <1>11, <1>12, <1>13, <1>14, <1>15 DEF AccrualWalk
<1> QED BY <1>6, <1>16

(* A loop that has walked past all the tiers it visits has the closed form *)
(* in its sum.                                                             *)
LEMMA WalkIsComplete ==
    ASSUME AccrualTyped, total # 0, NEW n \in 0..Len(tiers),
           \A j \in 1..n : /\ TierTerm(j) \in Nat
                           /\ TierFits(tiers, rate, from, to, j)
                           /\ to <= tiers[j].blockNumber => TierStart(tiers, from, j) <= to,
           \A j \in (n+1)..Len(tiers) : ~TierVisited(tiers, to, j)
    PROVE  /\ Accrual(tiers, rate, total, from, to) = SumOver(TierTerms, 1..n)
           /\ AccrualFits(tiers, rate, total, from, to)
<1>1. DOMAIN tiers = 1..Len(tiers) /\ Len(tiers) \in Nat
  BY TierIsTyped
<1>2. \A j \in (n+1)..Len(tiers) :
         TierTerm(j) = 0 /\ TierEmission(tiers, rate, from, to, j) = 0
  <2> SUFFICES ASSUME NEW j \in (n+1)..Len(tiers)
               PROVE  TierTerm(j) = 0 /\ TierEmission(tiers, rate, from, to, j) = 0
    OBVIOUS
  <2>1. j \in 1..Len(tiers)
    BY <1>1
  <2>2. TierBlocks(tiers, from, to, j) = 0
    BY DEF TierBlocks
  <2> QED BY <2>1, <2>2, TermOfOtherTier
<1>3. /\ 1..Len(tiers) = (1..n) \cup ((n+1)..Len(tiers))
      /\ (1..n) \cap ((n+1)..Len(tiers)) = {}
      /\ IsFiniteSet(1..n) /\ IsFiniteSet((n+1)..Len(tiers))
  BY <1>1, IntervalSplits
<1>4. /\ \A j \in 1..n : TierTerms[j] \in Int
      /\ \A j \in (n+1)..Len(tiers) : TierTerms[j] = 0
  <2>1. \A j \in 1..Len(tiers) : TierTerms[j] = TierTerm(j)
    BY <1>1 DEF TierTerms
  <2>2. \A j \in 1..n : TierTerm(j) \in Int
    OBVIOUS
  <2>3. /\ \A j \in 1..n : j \in 1..Len(tiers)
        /\ \A j \in (n+1)..Len(tiers) : j \in 1..Len(tiers)
    BY <1>1
  <2> QED BY ONLY <1>2, <2>1, <2>2, <2>3
<1>5. SumOver(TierTerms, (1..n) \cup ((n+1)..Len(tiers))) = SumOver(TierTerms, 1..n)
  <2>1. \A j \in (1..n) \cup ((n+1)..Len(tiers)) : TierTerms[j] \in Int
    BY <1>4
  <2>2. /\ SumOver(TierTerms, 1..n) \in Nat
        /\ SumOver(TierTerms, (1..n) \cup ((n+1)..Len(tiers)))
             = SumOver(TierTerms, 1..n) + SumOver(TierTerms, (n+1)..Len(tiers))
    BY <1>3, <2>1, SumOfParts
  <2>3. SumOver(TierTerms, (n+1)..Len(tiers)) = 0
    BY <1>4, SumOfZeros
  <2> QED BY <2>2, <2>3
<1>6. Accrual(tiers, rate, total, from, to) = SumOver(TierTerms, 1..n)
  BY <1>1, <1>3, <1>5, Zenon DEF Accrual, TierTerms, TierTerm
<1>7. AccrualFits(tiers, rate, total, from, to)
  <2> SUFFICES ASSUME NEW j \in 1..Len(tiers)
               PROVE  /\ TierVisited(tiers, to, j) /\ to <= tiers[j].blockNumber
                           => TierStart(tiers, from, j) <= to
                      /\ TierFits(tiers, rate, from, to, j)
    BY <1>1 DEF AccrualFits
  <2>1. CASE j \in 1..n
    BY <2>1
  <2>2. CASE j \in (n+1)..Len(tiers)
    BY <1>2, <2>2, WidthAssumption DEF TierFits
  <2> QED BY <1>3, <2>1, <2>2
<1> QED BY <1>6, <1>7

(* The last iteration: it credits the rest, or reverts where the closed    *)
(* form does not fit.                                                      *)
LEMMA ReachKeepsInv ==
    ASSUME AccrualInv, ReachTarget
    PROVE  AccrualInv'
<1>1. /\ AccrualTyped /\ AccrualWalk /\ total # 0 /\ tier \in 1..Len(tiers)
      /\ to <= tiers[tier].blockNumber
      /\ UNCHANGED <<inputs, tier, last>>
  <2>1. /\ AccrualTyped /\ AccrualWalk /\ total # 0 /\ tier <= Len(tiers)
        /\ to <= tiers[tier].blockNumber
        /\ UNCHANGED <<inputs, tier, last>>
    BY DEF AccrualInv, ReachTarget, AccrualRunning
  <2>2. tier \in 1..(Len(tiers) + 1) /\ Len(tiers) \in Nat
    BY <2>1, TierIsTyped DEF AccrualTyped
  <2> QED BY <2>1, <2>2
<1>2. tiers' = tiers /\ rate' = rate /\ total' = total /\ from' = from /\ to' = to
  BY <1>1 DEF inputs
<1>3. /\ Len(tiers) \in Nat /\ tiers[tier].blockNumber \in Nat
      /\ to \in Nat /\ last \in Nat
  BY <1>1, TierIsTyped DEF AccrualTyped
<1>4. TierVisited(tiers, to, tier) /\ TierStart(tiers, from, tier) = last
  BY <1>1, WalkStandsAtStart DEF AccrualWalk
<1> DEFINE rated   == rate * tiers[tier].multiplier
           product == rated * (to - last) * MULTIPLIER
<1>5. IF last <= to /\ rated <= MaxUint128 /\ product <= MaxUint128
      THEN index' = index + product \div total /\ accrualStatus' = "done"
      ELSE accrualStatus' = "reverted" /\ UNCHANGED index
  BY DEF ReachTarget, Credit
<1>6. last <= to => /\ TierEmission(tiers, rate, from, to, tier) = product
                    /\ product \in Nat /\ product \div total \in Nat
  <2> SUFFICES ASSUME last <= to
               PROVE  /\ TierEmission(tiers, rate, from, to, tier) = product
                      /\ product \in Nat /\ product \div total \in Nat
    OBVIOUS
  <2>1. to = Min({to, tiers[tier].blockNumber})
    BY <1>1, <1>3, MinOfTwo
  <2>2. last <= tiers[tier].blockNumber
    BY <1>1, <1>3
  <2>3. TierEmission(tiers, rate, from, to, tier) = product
    BY <1>1, <1>3, <2>1, <2>2, TermOfReachedTier
  <2>4. product \in Nat /\ product \div total \in Nat
    BY <1>1, <1>3, ProductIsTyped
  <2> QED BY <2>3, <2>4
<1> HIDE DEF product
<1>7. CASE last <= to /\ rated <= MaxUint128 /\ product <= MaxUint128
  <2>1. TierTerm(tier) = product \div total /\ TierTerm(tier) \in Nat
    BY <1>6, <1>7 DEF TierTerm
  <2>2. index' = SumOver(TierTerms, 1..tier)
    BY <1>1, <1>5, <1>7, <2>1, TermIsAdded
  <2>3. \A j \in 1..tier : /\ TierTerm(j) \in Nat
                           /\ TierFits(tiers, rate, from, to, j)
                           /\ to <= tiers[j].blockNumber => TierStart(tiers, from, j) <= to
    <3>1. ASSUME NEW j \in 1..(tier - 1)
          PROVE  /\ TierTerm(j) \in Nat
                 /\ TierFits(tiers, rate, from, to, j)
                 /\ to <= tiers[j].blockNumber => TierStart(tiers, from, j) <= to
      <4>1. tiers[j].blockNumber < to
        BY <1>4 DEF TierVisited
      <4>2. tiers[j].blockNumber \in Nat
        BY <1>1, <1>3, TierIsTyped
      <4>3. ~(to <= tiers[j].blockNumber)
        BY <1>3, <4>1, <4>2
      <4> QED BY <1>1, <4>3 DEF AccrualWalk
    <3>2. \A j \in 1..tier : j \in 1..(tier - 1) \/ j = tier
      BY <1>1, <1>3
    <3>3. TierFits(tiers, rate, from, to, tier)
      BY <1>6, <1>7 DEF TierFits
    <3> QED BY <1>4, <1>7, <2>1, <3>1, <3>2, <3>3
  <2>4. \A j \in (tier + 1)..Len(tiers) : ~TierVisited(tiers, to, j)
    <3> SUFFICES ASSUME NEW j \in (tier + 1)..Len(tiers) PROVE ~TierVisited(tiers, to, j)
      OBVIOUS
    <3>1. tier \in 1..(j - 1)
      BY <1>1, <1>3
    <3> QED BY <1>1, <1>3, <3>1 DEF TierVisited
  <2>5. /\ Accrual(tiers, rate, total, from, to) = SumOver(TierTerms, 1..tier)
        /\ AccrualFits(tiers, rate, total, from, to)
    <3>1. tier \in 0..Len(tiers)
      BY <1>1, <1>3
    <3> QED BY <1>1, <2>3, <2>4, <3>1, WalkIsComplete
  <2>6. LoopComputesAccrual'
    BY <1>2, <1>5, <1>7, <2>2, <2>5 DEF LoopComputesAccrual
  <2>7. AccrualTyped'
    BY <1>1, <1>2, <1>5, <1>6, <1>7 DEF AccrualTyped
  <2> QED BY <1>5, <1>7, <2>6, <2>7 DEF AccrualInv
<1>8. CASE ~(last <= to /\ rated <= MaxUint128 /\ product <= MaxUint128)
  <2>1. ~AccrualFits(tiers, rate, total, from, to)
    <3>1. tier \in DOMAIN tiers
      BY <1>1, TierIsTyped
    <3>2. CASE ~(last <= to)
      BY <1>1, <1>4, <3>1, <3>2 DEF AccrualFits
    <3>3. CASE last <= to /\ ~(rated <= MaxUint128 /\ product <= MaxUint128)
      <4>1. last <= tiers[tier].blockNumber
        BY <1>1, <1>3, <3>3
      <4>2. ~TierFits(tiers, rate, from, to, tier)
        BY <1>4, <1>6, <3>3, <4>1 DEF TierFits
      <4> QED BY <1>1, <3>1, <4>2 DEF AccrualFits
    <3> QED BY <1>8, <3>2, <3>3
  <2>2. LoopComputesAccrual'
    BY <1>2, <1>5, <1>8, <2>1 DEF LoopComputesAccrual
  <2>3. AccrualTyped'
    BY <1>1, <1>2, <1>5, <1>8 DEF AccrualTyped
  <2> QED BY <1>5, <1>8, <2>2, <2>3 DEF AccrualInv
<1> QED BY <1>7, <1>8

(* An iteration that crosses a tier credits it, or reverts where the       *)
(* closed form does not fit.                                               *)
LEMMA CrossKeepsInv ==
    ASSUME AccrualInv, CrossTier
    PROVE  AccrualInv'
<1>1. /\ AccrualTyped /\ AccrualWalk /\ total # 0 /\ tier \in 1..Len(tiers)
      /\ tiers[tier].blockNumber < to /\ last <= tiers[tier].blockNumber
      /\ UNCHANGED inputs /\ accrualStatus = "running"
      /\ tier' = tier + 1 /\ last' = tiers[tier].blockNumber + 1
  <2>1. /\ AccrualTyped /\ AccrualWalk /\ total # 0 /\ tier <= Len(tiers)
        /\ tiers[tier].blockNumber < to /\ last <= tiers[tier].blockNumber
        /\ UNCHANGED inputs /\ accrualStatus = "running"
        /\ tier' = tier + 1 /\ last' = tiers[tier].blockNumber + 1
    BY DEF AccrualInv, CrossTier, AccrualRunning
  <2>2. tier \in 1..(Len(tiers) + 1) /\ Len(tiers) \in Nat
    BY <2>1, TierIsTyped DEF AccrualTyped
  <2> QED BY <2>1, <2>2
<1>2. tiers' = tiers /\ rate' = rate /\ total' = total /\ from' = from /\ to' = to
  BY <1>1 DEF inputs
<1>3. /\ tiers[tier].blockNumber \in Nat /\ to \in Nat /\ last \in Nat /\ tier \in Nat
      /\ Len(tiers) \in Nat
  BY <1>1, TierIsTyped DEF AccrualTyped
<1> DEFINE until   == tiers[tier].blockNumber
           rated   == rate * tiers[tier].multiplier
           product == rated * (until - last) * MULTIPLIER
<1>4. IF last <= until /\ rated <= MaxUint128 /\ product <= MaxUint128
      THEN index' = index + product \div total /\ accrualStatus' = "running"
      ELSE accrualStatus' = "reverted" /\ UNCHANGED index
  BY DEF CrossTier, Credit
<1>5. until = Min({to, tiers[tier].blockNumber})
  BY <1>1, <1>3, MinOfTwo
<1>6. TierEmission(tiers, rate, from, to, tier) = product
  BY <1>1, <1>3, <1>5, TermOfReachedTier
<1>7. product \in Nat /\ product \div total \in Nat
  BY <1>1, <1>3, ProductIsTyped
<1> HIDE DEF product
<1>8. CASE rated <= MaxUint128 /\ product <= MaxUint128
  <2>1. TierTerm(tier) = product \div total /\ TierTerm(tier) \in Nat
    BY <1>6, <1>7 DEF TierTerm
  <2>2. /\ index' = index + TierTerm(tier) /\ accrualStatus' = "running"
    BY <1>1, <1>4, <1>8, <2>1
  <2>3. AccrualTyped' /\ AccrualWalk'
    <3>1. TierFits(tiers, rate, from, to, tier)
      BY <1>6, <1>8 DEF TierFits
    <3> QED BY <1>1, <2>1, <2>2, <3>1, WalkMovesOn
  <2>4. total' # 0 /\ accrualStatus' # "done" /\ accrualStatus' # "reverted"
    BY <1>1, <1>2, <2>2
  <2> QED BY <2>3, <2>4 DEF AccrualInv, LoopComputesAccrual
<1>9. CASE ~(rated <= MaxUint128 /\ product <= MaxUint128)
  <2>1. tier \in DOMAIN tiers
    BY <1>1, TierIsTyped
  <2>2. ~AccrualFits(tiers, rate, total, from, to)
    <3>1. TierVisited(tiers, to, tier) /\ TierStart(tiers, from, tier) = last
      BY <1>1, WalkStandsAtStart DEF AccrualWalk
    <3>2. ~TierFits(tiers, rate, from, to, tier)
      BY <1>1, <1>6, <1>9, <3>1 DEF TierFits
    <3> QED BY <1>1, <2>1, <3>2 DEF AccrualFits
  <2>3. accrualStatus' = "reverted" /\ index' = index
    BY <1>4, <1>9
  <2>4. LoopComputesAccrual'
    BY <1>2, <2>2, <2>3 DEF LoopComputesAccrual
  <2>5. tier' \in 1..(Len(tiers) + 1) /\ last' \in Nat
    BY <1>1, <1>3
  <2>6. AccrualTyped'
    BY <1>1, <1>2, <2>3, <2>5 DEF AccrualTyped
  <2> QED BY <2>3, <2>4, <2>6 DEF AccrualInv
<1> QED BY <1>8, <1>9

(* A tier that ended before the walk reached it is skipped. *)
LEMMA SkipKeepsInv ==
    ASSUME AccrualInv, SkipTier
    PROVE  AccrualInv'
<1>1. /\ AccrualTyped /\ AccrualWalk /\ total # 0 /\ tier \in 1..Len(tiers)
      /\ tiers[tier].blockNumber < to /\ tiers[tier].blockNumber < last
      /\ UNCHANGED <<inputs, index, last, accrualStatus>> /\ tier' = tier + 1
      /\ accrualStatus = "running"
  <2>1. /\ AccrualTyped /\ AccrualWalk /\ total # 0 /\ tier <= Len(tiers)
        /\ tiers[tier].blockNumber < to /\ tiers[tier].blockNumber < last
        /\ UNCHANGED <<inputs, index, last, accrualStatus>> /\ tier' = tier + 1
        /\ accrualStatus = "running"
    BY DEF AccrualInv, SkipTier, AccrualRunning
  <2>2. tier \in 1..(Len(tiers) + 1) /\ Len(tiers) \in Nat
    BY <2>1, TierIsTyped DEF AccrualTyped
  <2> QED BY <2>1, <2>2
<1>2. /\ tiers[tier].blockNumber \in Nat /\ last \in Nat /\ index \in Nat
  BY <1>1, TierIsTyped DEF AccrualTyped
<1>3. ~(last <= tiers[tier].blockNumber)
  BY <1>1, <1>2
<1>4. TierBlocks(tiers, from, to, tier) = 0
  BY <1>1, <1>3, WalkStandsAtStart DEF TierBlocks
<1>5. TierEmission(tiers, rate, from, to, tier) = 0 /\ TierTerm(tier) = 0
  BY <1>1, <1>4, TermOfOtherTier
<1>6. /\ TierTerm(tier) \in Nat
      /\ TierFits(tiers, rate, from, to, tier)
      /\ index' = index + TierTerm(tier)
  <2>1. TierFits(tiers, rate, from, to, tier)
    BY <1>1, <1>3, <1>5, WalkStandsAtStart, WidthAssumption DEF TierFits
  <2> QED BY <1>1, <1>2, <1>5, <2>1
<1>7. AccrualTyped' /\ AccrualWalk'
  BY <1>1, <1>3, <1>6, WalkMovesOn
<1>8. total' = total /\ accrualStatus' = "running"
  BY <1>1 DEF inputs
<1> QED BY <1>1, <1>7, <1>8 DEF AccrualInv, LoopComputesAccrual

(* An empty pool accrues nothing; behind the last tier the sum is complete. *)
LEMMA LeaveAccrualKeepsInv ==
    ASSUME AccrualInv, LeaveAccrual
    PROVE  AccrualInv'
<1>1. /\ AccrualTyped /\ accrualStatus = "running" /\ accrualStatus' = "done"
      /\ UNCHANGED <<inputs, tier, index, last>>
  BY DEF AccrualInv, LeaveAccrual
<1>2. tiers' = tiers /\ rate' = rate /\ total' = total /\ from' = from /\ to' = to
  BY <1>1 DEF inputs
<1>3. AccrualTyped'
  BY <1>1, <1>2 DEF AccrualTyped
<1>4. index = Accrual(tiers, rate, total, from, to) /\ AccrualFits(tiers, rate, total, from, to)
  <2>1. CASE total = 0
    BY <1>1, <2>1 DEF AccrualInv, Accrual, AccrualFits
  <2>2. CASE total # 0
    <3>1. AccrualWalk /\ tier > Len(tiers)
      BY <1>1, <2>2 DEF AccrualInv, LeaveAccrual
    <3>2. Len(tiers) \in Nat /\ tier - 1 = Len(tiers)
      BY <1>1, <3>1, TierIsTyped DEF AccrualTyped
    <3>3. \A j \in 1..Len(tiers) :
             /\ TierTerm(j) \in Nat
             /\ TierFits(tiers, rate, from, to, j)
             /\ to <= tiers[j].blockNumber => TierStart(tiers, from, j) <= to
      <4> SUFFICES ASSUME NEW j \in 1..Len(tiers) PROVE ~(to <= tiers[j].blockNumber)
        BY <3>1, <3>2 DEF AccrualWalk
      <4>1. tiers[j].blockNumber < to
        BY <3>1, <3>2 DEF AccrualWalk, TierVisited
      <4>2. tiers[j].blockNumber \in Nat /\ to \in Nat
        BY <1>1, TierIsTyped DEF AccrualTyped
      <4> QED BY <4>1, <4>2
    <3>4. Len(tiers) \in 0..Len(tiers) /\ (Len(tiers) + 1)..Len(tiers) = {}
      BY <3>2
    <3>5. /\ Accrual(tiers, rate, total, from, to) = SumOver(TierTerms, 1..Len(tiers))
          /\ AccrualFits(tiers, rate, total, from, to)
      BY <1>1, <2>2, <3>3, <3>4, WalkIsComplete
    <3> QED BY <3>1, <3>2, <3>5 DEF AccrualWalk
  <2> QED BY <2>1, <2>2
<1>5. LoopComputesAccrual'
  BY <1>1, <1>2, <1>4 DEF LoopComputesAccrual
<1> QED BY <1>1, <1>3, <1>5 DEF AccrualInv

(* The loop starts where the closed form starts its first tier. *)
LEMMA InitStartsAccrual ==
    ASSUME LoopsInit
    PROVE  AccrualInv
<1>1. 1 - 1 = 0 /\ 1..0 = {}
  OBVIOUS
<1>2. CASE AccrualInit
  <2>1. tiers \in Schedule /\ rate \in Nat /\ total \in Nat /\ from \in Nat /\ to \in Nat
    BY <1>2, AccrualLoopAssumption DEF AccrualInit, Schedule
  <2>2. 1 \in 1..(Len(tiers) + 1)
    <3>1. Len(tiers) \in Nat
      BY <2>1, RowsOfSequence DEF Schedule
    <3> QED BY <3>1
  <2>3. AccrualTyped
    BY <1>2, <2>1, <2>2 DEF AccrualInit, AccrualTyped
  <2>4. TierVisited(tiers, to, 1)
    BY <1>1 DEF TierVisited
  <2>5. StartsBefore(tiers, from, 1) = {from}
    BY <1>1 DEF StartsBefore
  <2>6. from <= from
    BY <2>1
  <2>7. AccrualWalk
    BY <1>1, <1>2, <2>4, <2>5, <2>6, SumOfNothing DEF AccrualInit, AccrualWalk
  <2> QED BY <1>2, <2>3, <2>7 DEF AccrualInit, AccrualInv, LoopComputesAccrual
<1>3. CASE NotAccruing
  <2>1. tiers \in Schedule /\ Len(tiers) = 0
    BY <1>3 DEF NotAccruing, Schedule
  <2>2. AccrualTyped
    BY <1>3, <2>1 DEF NotAccruing, AccrualTyped
  <2>3. LoopComputesAccrual
    BY <1>3 DEF NotAccruing, LoopComputesAccrual, Accrual, AccrualFits
  <2> QED BY <1>3, <2>2, <2>3 DEF NotAccruing, AccrualInv
<1> QED BY <1>2, <1>3 DEF LoopsInit

(* Every iteration of either loop keeps the invariant. *)
LEMMA LoopsKeepAccrual ==
    ASSUME AccrualInv, [LoopsNext]_<<accrualVars, withdrawalVars>>
    PROVE  AccrualInv'
<1>1. CASE Accrue
  BY <1>1, ReachKeepsInv, CrossKeepsInv, SkipKeepsInv, LeaveAccrualKeepsInv
     DEF Accrue, AccrualNext
<1>2. CASE UNCHANGED accrualVars
  BY <1>2 DEF accrualVars, inputs, AccrualInv, AccrualTyped, AccrualWalk, TierTerm,
              TierTerms, LoopComputesAccrual
<1> QED BY <1>1, <1>2 DEF LoopsNext, Withdraw

(* The loop of _updateRewardsPerToken computes the closed form that Pool   *)
(* uses for the growth of the index, and reverts exactly when the closed   *)
(* form does not fit, on every schedule: unsorted, with gaps and deleted   *)
(* rows, for every base rate, total and pair of blocks.                    *)
THEOREM AccrualIsClosedForm == LoopsSpec => []LoopComputesAccrual
<1>1. LoopsInit => AccrualInv
  BY InitStartsAccrual
<1>2. AccrualInv /\ [LoopsNext]_<<accrualVars, withdrawalVars>> => AccrualInv'
  BY LoopsKeepAccrual
<1>3. AccrualInv => LoopComputesAccrual
  BY DEF AccrualInv
<1> QED BY <1>1, <1>2, <1>3, PTL DEF LoopsSpec

-----------------------------------------------------------------------------
(* The loop over the deposits of one user. *)

Nets == NetAmounts(before, fees)

EntryFees == [j \in DOMAIN before |-> DepositFeeAmount(before[j], fees)]

EntryAmounts == [j \in DOMAIN before |-> before[j].amount]

Paid(k) == SumOver(Nets, first..k)

GivenTyped ==
    /\ before \in Deposits /\ fees \in Fees
    /\ first \in Nat \ {0} /\ first - 1 <= Len(before)
    /\ amount \in Nat

(* The loop has gone past the deposits first..k: each was worth no more    *)
(* than what was left to pay, and no operation on it reverted.             *)
Passed(k) ==
    /\ k \in (first - 1)..Len(before)
    /\ \A j \in first..k : Drains(Nets, first, amount, j) /\ FeeFits(before[j], fees)

(* What the loop has computed when it has emptied first..k and taken rest  *)
(* out of the next deposit.                                                *)
Taken(k, rest) ==
    /\ withdrawAmount = Paid(k) + rest
    /\ totalFee = WithdrawalFee(before, fees, first, k, rest)
    /\ totalDebit = SumOver(EntryAmounts, first..k)
    /\ stakeDebit = totalDebit + rest
    /\ nextToRemove = NextToRemove(before, first, k)
    /\ deposits = DepositsLeft(before, first, k, rest)

(* Only whole deposits were taken so far. *)
WholeTaken ==
    /\ Passed(i - 1) /\ Paid(i - 1) <= amount
    /\ Taken(i - 1, 0)

(* The last deposit was worth more than what was left to pay. *)
PartTaken ==
    /\ Passed(i - 2) /\ i - 2 < Len(before)
    /\ Paid(i - 2) < amount /\ amount - Paid(i - 2) < Nets[i - 1]
    /\ FeeFits(before[i - 1], fees)
    /\ Taken(i - 2, amount - Paid(i - 2))

WithdrawInv ==
    /\ GivenTyped
    /\ i \in Nat
    /\ withdrawStatus = "running" => WholeTaken \/ PartTaken
    /\ LoopComputesWithdrawal

(* The deposits and what each is worth. *)
LEMMA EntriesAreTyped ==
    ASSUME GivenTyped
    PROVE  /\ DOMAIN before = 1..Len(before) /\ Len(before) \in Nat
           /\ \A j \in 1..Len(before) :
                /\ before[j] \in [blockNumber : Nat, amount : Nat]
                /\ EntryAmounts[j] = before[j].amount /\ EntryAmounts[j] \in Nat
                /\ EntryFees[j] = DepositFeeAmount(before[j], fees) /\ EntryFees[j] \in Nat
                /\ Nets[j] = NetAmount(before[j], fees) /\ Nets[j] \in Int
                /\ Nets[j] = EntryAmounts[j] - EntryFees[j]
<1>1. /\ DOMAIN before = 1..Len(before) /\ Len(before) \in Nat
      /\ \A j \in 1..Len(before) : before[j] \in [blockNumber : Nat, amount : Nat]
  BY RowsOfSequence DEF GivenTyped, Deposits
<1>2. ASSUME NEW j \in 1..Len(before)
      PROVE  /\ before[j] \in [blockNumber : Nat, amount : Nat]
             /\ EntryAmounts[j] = before[j].amount /\ EntryAmounts[j] \in Nat
             /\ EntryFees[j] = DepositFeeAmount(before[j], fees) /\ EntryFees[j] \in Nat
             /\ Nets[j] = NetAmount(before[j], fees) /\ Nets[j] \in Int
             /\ Nets[j] = EntryAmounts[j] - EntryFees[j]
  <2>1. before[j] \in [blockNumber : Nat, amount : Nat] /\ j \in DOMAIN before
    BY <1>1
  <2>2. DepositFeeAmount(before[j], fees) \in Nat /\ NetAmount(before[j], fees) \in Int
    BY <2>1, NetIsBelowAmount DEF GivenTyped
  <2>3. EntryAmounts[j] = before[j].amount /\ EntryAmounts[j] \in Nat
    BY <2>1 DEF EntryAmounts
  <2>4. EntryFees[j] = DepositFeeAmount(before[j], fees)
    BY <2>1 DEF EntryFees
  <2>5. Nets[j] = NetAmount(before[j], fees)
    BY <2>1 DEF Nets, NetAmounts
  <2>6. NetAmount(before[j], fees) = before[j].amount - DepositFeeAmount(before[j], fees)
    BY DEF NetAmount
  <2> QED BY <2>1, <2>2, <2>3, <2>4, <2>5, <2>6, Zenon
<1> QED BY <1>1, <1>2, Zenon

(* Sums over the deposits passed are amounts. *)
LEMMA PassedSumsAreTyped ==
    ASSUME GivenTyped, NEW k \in Int, k <= Len(before)
    PROVE  /\ Paid(k) \in Nat
           /\ SumOver(EntryFees, first..k) \in Nat
           /\ SumOver(EntryAmounts, first..k) \in Nat
<1>1. IsFiniteSet(first..k)
  BY FS_Interval DEF GivenTyped
<1>2. \A j \in first..k : j \in 1..Len(before)
  BY EntriesAreTyped DEF GivenTyped
<1>3. \A j \in first..k : Nets[j] \in Int /\ EntryFees[j] \in Int /\ EntryAmounts[j] \in Int
  <2>1. \A j \in 1..Len(before) :
           Nets[j] \in Int /\ EntryFees[j] \in Nat /\ EntryAmounts[j] \in Nat
    BY EntriesAreTyped
  <2> QED BY <1>2, <2>1
<1> QED BY <1>1, <1>3, UnitsFinite DEF Paid

(* The sums grow by the deposit that is emptied. *)
LEMMA OneMoreIsPassed ==
    ASSUME GivenTyped, NEW k \in first..Len(before), Nets[k] >= 0
    PROVE  /\ Paid(k) = Paid(k - 1) + Nets[k]
           /\ SumOver(EntryFees, first..k) = SumOver(EntryFees, first..(k-1)) + EntryFees[k]
           /\ SumOver(EntryAmounts, first..k)
                = SumOver(EntryAmounts, first..(k-1)) + EntryAmounts[k]
<1>1. first..k = (first..(k-1)) \cup {k} /\ k \notin first..(k-1) /\ k \in Int
  BY DEF GivenTyped
<1>2. IsFiniteSet(first..(k-1))
  BY FS_Interval DEF GivenTyped
<1>3. k \in 1..Len(before) /\ \A j \in first..(k-1) : j \in 1..Len(before)
  BY EntriesAreTyped DEF GivenTyped
<1>4. \A j \in 1..Len(before) :
         Nets[j] \in Int /\ EntryFees[j] \in Nat /\ EntryAmounts[j] \in Nat
  BY EntriesAreTyped
<1>5. Nets[k] \in Nat /\ EntryFees[k] \in Nat /\ EntryAmounts[k] \in Nat
  BY <1>3, <1>4
<1>6. \A j \in first..(k-1) :
         Nets[j] \in Int /\ EntryFees[j] \in Int /\ EntryAmounts[j] \in Int
  BY <1>3, <1>4
<1>7. SumOver(Nets, (first..(k-1)) \cup {k}) = SumOver(Nets, first..(k-1)) + Nets[k]
  BY <1>1, <1>2, <1>5, <1>6, SumOfOneMore
<1>8. SumOver(EntryFees, (first..(k-1)) \cup {k})
        = SumOver(EntryFees, first..(k-1)) + EntryFees[k]
  BY <1>1, <1>2, <1>5, <1>6, SumOfOneMore
<1>9. SumOver(EntryAmounts, (first..(k-1)) \cup {k})
        = SumOver(EntryAmounts, first..(k-1)) + EntryAmounts[k]
  BY <1>1, <1>2, <1>5, <1>6, SumOfOneMore
<1> QED BY <1>1, <1>7, <1>8, <1>9, Zenon DEF Paid

(* What is left of the deposits, field by field. *)
LEMMA LeftByField ==
    ASSUME GivenTyped, NEW k, NEW rest \in Nat
    PROVE  /\ DepositsLeft(before, first, k, rest) =
                [j \in 1..Len(before) |->
                   [blockNumber |-> before[j].blockNumber,
                    amount |-> IF j \in first..k THEN 0
                               ELSE IF j = k + 1 THEN before[j].amount - rest
                               ELSE before[j].amount]]
           /\ DOMAIN DepositsLeft(before, first, k, rest) = 1..Len(before)
<1>1. ASSUME NEW j \in 1..Len(before), NEW x
      PROVE  [before[j] EXCEPT !.amount = x]
               = [blockNumber |-> before[j].blockNumber, amount |-> x]
  <2>1. before[j] \in [blockNumber : Nat, amount : Nat]
    BY EntriesAreTyped
  <2> QED BY <2>1
<1>2. \A j \in 1..Len(before) :
        [before[j] EXCEPT !.amount = IF j \in first..k THEN 0
                                     ELSE IF j = k + 1 THEN @ - rest ELSE @]
          = [blockNumber |-> before[j].blockNumber,
             amount |-> IF j \in first..k THEN 0
                        ELSE IF j = k + 1 THEN before[j].amount - rest
                        ELSE before[j].amount]
  BY <1>1, Zenon
<1>3. DOMAIN before = 1..Len(before)
  BY EntriesAreTyped
<1> QED BY <1>2, <1>3 DEF DepositsLeft

(* A withdrawal keeps the number of deposits. *)
LEMMA LeftKeepsLength ==
    ASSUME GivenTyped, NEW k, NEW rest \in Nat
    PROVE  Len(DepositsLeft(before, first, k, rest)) = Len(before)
<1> DEFINE left == DepositsLeft(before, first, k, rest)
<1>1. /\ left = [j \in 1..Len(before) |->
                   [blockNumber |-> before[j].blockNumber,
                    amount |-> IF j \in first..k THEN 0
                               ELSE IF j = k + 1 THEN before[j].amount - rest
                               ELSE before[j].amount]]
      /\ Len(before) \in Nat
  BY LeftByField, EntriesAreTyped
<1> HIDE DEF left
<1>2. \A j \in 1..Len(before) : before[j].blockNumber \in Nat /\ before[j].amount \in Nat
  <2> SUFFICES ASSUME NEW j \in 1..Len(before)
               PROVE  before[j].blockNumber \in Nat /\ before[j].amount \in Nat
    OBVIOUS
  <2>1. before[j] \in [blockNumber : Nat, amount : Nat]
    BY EntriesAreTyped
  <2> QED BY <2>1
<1>3. left \in [1..Len(before) -> [blockNumber : Nat, amount : Int]]
  <2>1. \A j \in 1..Len(before) :
          [blockNumber |-> before[j].blockNumber,
           amount |-> IF j \in first..k THEN 0
                      ELSE IF j = k + 1 THEN before[j].amount - rest
                      ELSE before[j].amount] \in [blockNumber : Nat, amount : Int]
    BY <1>2
  <2> QED BY ONLY <1>1, <2>1
<1>4. Len(left) = Len(before)
  BY <1>1, <1>3, SequenceOfLength
<1> QED BY <1>4 DEF left

(* Two different prefixes cannot both be the emptied one: the next deposit *)
(* of the shorter is drained in the longer.                                *)
LEMMA OnlyOnePrefix ==
    ASSUME GivenTyped, NEW k \in Prefixes
    PROVE  Prefixes = {k}
<1>1. ASSUME NEW a \in Prefixes, NEW b \in Prefixes, a < b PROVE FALSE
  <2>1. /\ a \in (first - 1)..Len(before) /\ b \in (first - 1)..Len(before)
        /\ DrainsThrough(before, fees, first, amount, a)
        /\ DrainsThrough(before, fees, first, amount, b)
    BY DEF Prefixes
  <2>2. a + 1 \in first..b /\ a < Len(before)
    BY <1>1, <2>1, EntriesAreTyped DEF GivenTyped
  <2> QED BY <2>1, <2>2 DEF DrainsThrough
<1>2. ASSUME NEW a \in Prefixes PROVE a = k
  <2>1. a \in Int /\ k \in Int
    BY EntriesAreTyped DEF Prefixes, GivenTyped
  <2>2. ~(a < k) /\ ~(k < a)
    BY <1>1
  <2> QED BY <2>1, <2>2
<1> QED BY <1>2

(* Some prefix is the emptied one, and it is as long as any that the loop  *)
(* drains.                                                                 *)
LEMMA SomePrefix ==
    ASSUME GivenTyped, NEW m \in (first - 1)..Len(before),
           \A j \in first..m : Drains(Nets, first, amount, j)
    PROVE  \E k \in Prefixes : m <= k
<1> DEFINE Stops == {k \in m..Len(before) :
                        k = Len(before) \/ ~Drains(Nets, first, amount, k + 1)}
<1>1. Len(before) \in Nat /\ first \in Nat /\ first > 0 /\ m \in Nat /\ m <= Len(before)
  BY EntriesAreTyped DEF GivenTyped
<1>2. Stops \subseteq Nat /\ Len(before) \in Stops
  BY <1>1
<1> DEFINE k == Min(Stops)
<1>3. k \in Stops /\ \A y \in Stops : k <= y
  BY <1>2, MinOfNats
<1> HIDE DEF k
<1>4. k \in m..Len(before) /\ (k = Len(before) \/ ~Drains(Nets, first, amount, k + 1))
  BY <1>3
<1>5. ASSUME NEW j \in first..k PROVE Drains(Nets, first, amount, j)
  <2>1. CASE j <= m
    <3>1. j \in first..m
      BY <1>1, <2>1
    <3> QED BY <3>1
  <2>2. CASE ~(j <= m)
    <3>1. j - 1 \in m..Len(before) /\ j - 1 < k /\ j - 1 # Len(before) /\ (j - 1) + 1 = j
      BY <1>1, <1>4, <2>2
    <3>2. j - 1 \notin Stops
      <4>1. j - 1 \in Stops => k <= j - 1
        BY <1>3
      <4> QED BY <1>1, <1>4, <3>1, <4>1
    <3> QED BY <3>1, <3>2
  <2> QED BY <2>1, <2>2
<1>6. DrainsThrough(before, fees, first, amount, k)
  <2>1. k < Len(before) => ~Drains(Nets, first, amount, k + 1)
    BY <1>1, <1>4
  <2> QED BY <1>5, <2>1 DEF DrainsThrough, Nets
<1>7. k \in (first - 1)..Len(before) /\ m <= k
  BY <1>1, <1>4
<1> QED BY <1>6, <1>7 DEF Prefixes

(* A loop that has passed first..k and stops there leaves the closed form. *)
LEMMA StoppedLoopIsDone ==
    ASSUME GivenTyped, NEW k \in Int, Passed(k),
           k < Len(before) => ~Drains(Nets, first, amount, k + 1),
           Remainder(before, fees, first, amount, k) # 0 => FeeFits(before[k + 1], fees),
           Taken(k, Remainder(before, fees, first, amount, k))
    PROVE  /\ Prefixes = {k}
           /\ LET w == Withdrawal(before, fees, first, amount, k)
              IN  /\ FeesFit(before, fees, first, k, w.rest)
                  /\ withdrawAmount = w.paid /\ totalFee = w.fee
                  /\ stakeDebit = w.drained + w.rest
                  /\ totalDebit = w.drained
                  /\ nextToRemove = w.next
                  /\ deposits = w.left
<1> DEFINE rest == Remainder(before, fees, first, amount, k)
           w    == Withdrawal(before, fees, first, amount, k)
<1>1. k \in Prefixes
  BY DEF Passed, Prefixes, DrainsThrough, Nets
<1>2. Prefixes = {k}
  BY <1>1, OnlyOnePrefix
<1>3. FeesFit(before, fees, first, k, rest)
  <2> HIDE DEF rest
  <2> SUFFICES ASSUME NEW j \in first..(IF rest = 0 THEN k ELSE k + 1)
               PROVE  FeeFits(before[j], fees)
    BY DEF FeesFit
  <2>1. j \in first..k \/ (rest # 0 /\ j = k + 1)
    BY DEF GivenTyped
  <2> QED BY <2>1 DEF Passed, rest
<1>4. /\ w.paid = Paid(k) + rest
      /\ w.fee = WithdrawalFee(before, fees, first, k, rest)
      /\ w.drained = SumOver(EntryAmounts, first..k)
      /\ w.rest = rest
      /\ w.next = NextToRemove(before, first, k)
      /\ w.left = DepositsLeft(before, first, k, rest)
  BY DEF Withdrawal, Paid, Nets, EntryAmounts
<1>5. /\ withdrawAmount = w.paid /\ totalFee = w.fee
      /\ stakeDebit = w.drained + w.rest
      /\ totalDebit = w.drained
      /\ nextToRemove = w.next
      /\ deposits = w.left
  BY <1>4, Zenon DEF Taken
<1>6. FeesFit(before, fees, first, k, w.rest)
  BY <1>3, <1>4
<1> QED BY <1>2, <1>5, <1>6

(* While the loop runs only whole deposits were taken, the next one is     *)
(* untouched, and the loop compares what it is worth with the rest to pay. *)
LEMMA NextEntryIsUntouched ==
    ASSUME WithdrawInv, WithdrawRunning
    PROVE  /\ GivenTyped /\ WholeTaken
           /\ i \in first..Len(before) /\ i \in 1..Len(before) /\ Len(deposits) = Len(before)
           /\ deposits[i].amount = EntryAmounts[i]
           /\ WithdrawFee = WithdrawFeeRate(fees, before[i].blockNumber)
           /\ (deposits[i].amount * WithdrawFee) \div MULTIPLIER = EntryFees[i]
           /\ AmountFeed = Nets[i]
           /\ AmountFits <=> FeeFits(before[i], fees)
           /\ AmountRem = amount - Paid(i - 1)
           /\ Paid(i - 1) \in Nat /\ Paid(i - 1) < amount /\ amount \in Nat
           /\ Drains(Nets, first, amount, i) <=> Nets[i] <= AmountRem
<1>1. /\ GivenTyped /\ i \in Nat /\ (WholeTaken \/ PartTaken)
      /\ i <= Len(deposits) /\ withdrawAmount < amount
  BY DEF WithdrawInv, WithdrawRunning
<1>2. Len(before) \in Nat /\ amount \in Nat /\ first \in Nat \ {0} /\ first - 1 <= Len(before)
  BY <1>1, EntriesAreTyped DEF GivenTyped
<1>3. WholeTaken
  <2> SUFFICES ASSUME PartTaken PROVE FALSE
    BY <1>1
  <2>1. Paid(i - 2) \in Nat
    <3>1. i - 2 \in Int /\ i - 2 <= Len(before)
      BY <1>1, <1>2 DEF PartTaken
    <3> QED BY <1>1, <3>1, PassedSumsAreTyped
  <2>2. withdrawAmount = Paid(i - 2) + (amount - Paid(i - 2))
    BY DEF PartTaken, Taken
  <2> QED BY <1>1, <1>2, <2>1, <2>2
<1>4. i - 1 \in Int /\ i - 1 >= first - 1 /\ i - 1 <= Len(before)
  BY <1>1, <1>2, <1>3 DEF WholeTaken, Passed
<1>5. Paid(i - 1) \in Nat /\ withdrawAmount = Paid(i - 1) + 0
  BY <1>1, <1>3, <1>4, PassedSumsAreTyped DEF WholeTaken, Taken
<1>6. deposits = DepositsLeft(before, first, i - 1, 0)
  BY <1>3 DEF WholeTaken, Taken
<1>7. Len(deposits) = Len(before)
  BY <1>1, <1>6, LeftKeepsLength
<1>8. i \in first..Len(before) /\ i \in 1..Len(before)
  BY <1>1, <1>2, <1>4, <1>7
<1>9. /\ before[i].amount \in Nat /\ EntryAmounts[i] = before[i].amount
      /\ EntryFees[i] = DepositFeeAmount(before[i], fees) /\ EntryFees[i] \in Nat
      /\ Nets[i] = EntryAmounts[i] - EntryFees[i]
  <2>1. /\ EntryAmounts[i] = before[i].amount /\ EntryAmounts[i] \in Nat
        /\ EntryFees[i] = DepositFeeAmount(before[i], fees) /\ EntryFees[i] \in Nat
        /\ Nets[i] = EntryAmounts[i] - EntryFees[i]
    BY <1>1, <1>8, EntriesAreTyped
  <2> QED BY <2>1
<1>10. deposits[i].blockNumber = before[i].blockNumber /\ deposits[i].amount = before[i].amount
  <2>1. deposits[i] = [blockNumber |-> before[i].blockNumber,
                       amount |-> IF i \in first..(i - 1) THEN 0
                                  ELSE IF i = (i - 1) + 1 THEN before[i].amount - 0
                                  ELSE before[i].amount]
    <3>1. DepositsLeft(before, first, i - 1, 0) =
            [j \in 1..Len(before) |->
               [blockNumber |-> before[j].blockNumber,
                amount |-> IF j \in first..(i - 1) THEN 0
                           ELSE IF j = (i - 1) + 1 THEN before[j].amount - 0
                           ELSE before[j].amount]]
      BY ONLY <1>1, 0 \in Nat, LeftByField, Zenon
    <3> QED BY <1>6, <1>8, <3>1
  <2>2. i \notin first..(i - 1) /\ i = (i - 1) + 1 /\ before[i].amount - 0 = before[i].amount
    BY <1>8, <1>9, <1>2
  <2> QED BY <2>1, <2>2
<1>11. /\ WithdrawFee = WithdrawFeeRate(fees, before[i].blockNumber)
       /\ (deposits[i].amount * WithdrawFee) \div MULTIPLIER = EntryFees[i]
  <2>1. WithdrawFee = WithdrawFeeRate(fees, before[i].blockNumber)
    BY <1>10 DEF WithdrawFee, WithdrawFeeRate, Thousandths
  <2> QED BY <1>9, <1>10, <2>1 DEF DepositFeeAmount, FeeAmount
<1>12. AmountFeed = Nets[i] /\ (AmountFits <=> FeeFits(before[i], fees))
  <2>1. AmountFeed = Nets[i]
    BY <1>9, <1>10, <1>11 DEF AmountFeed
  <2>2. NetAmount(before[i], fees) = Nets[i]
    BY <1>1, <1>8, EntriesAreTyped
  <2> QED BY <1>10, <1>11, <2>1, <2>2 DEF AmountFits, FeeFits
<1>13. AmountRem = amount - Paid(i - 1) /\ Paid(i - 1) < amount
  BY <1>1, <1>2, <1>5 DEF AmountRem
<1>14. Drains(Nets, first, amount, i) <=> Nets[i] <= AmountRem
  BY <1>13 DEF Drains, Paid
<1> QED BY <1>1, <1>2, <1>3, <1>5, <1>7, <1>8, <1>9, <1>10, <1>11, <1>12, <1>13, <1>14

(* An emptied deposit is passed. *)
LEMMA DrainKeepsInv ==
    ASSUME WithdrawInv, Drain
    PROVE  WithdrawInv'
<1>0. WithdrawRunning /\ withdrawStatus = "running"
  BY DEF Drain, WithdrawRunning
<1>1. /\ GivenTyped /\ WholeTaken
      /\ i \in first..Len(before) /\ i \in 1..Len(before) /\ Len(deposits) = Len(before)
      /\ deposits[i].amount = EntryAmounts[i]
      /\ (deposits[i].amount * WithdrawFee) \div MULTIPLIER = EntryFees[i]
      /\ AmountFeed = Nets[i]
      /\ AmountFits <=> FeeFits(before[i], fees)
      /\ AmountRem = amount - Paid(i - 1)
      /\ Paid(i - 1) \in Nat /\ Paid(i - 1) < amount /\ amount \in Nat
      /\ Drains(Nets, first, amount, i) <=> Nets[i] <= AmountRem
  BY <1>0, NextEntryIsUntouched
<1>2. /\ AmountFits /\ AmountFeed >= 0 /\ AmountFeed <= AmountRem
      /\ deposits' = [deposits EXCEPT ![i].amount = 0]
      /\ stakeDebit' = stakeDebit + deposits[i].amount
      /\ totalDebit' = totalDebit + deposits[i].amount
      /\ withdrawAmount' = withdrawAmount + AmountFeed
      /\ totalFee' = totalFee + (deposits[i].amount * WithdrawFee) \div MULTIPLIER
      /\ nextToRemove' = IF i = Len(deposits) THEN i ELSE i + 1
      /\ i' = i + 1
      /\ UNCHANGED <<given, withdrawStatus>>
  BY DEF Drain, AmountFits
<1>3. /\ before' = before /\ fees' = fees /\ first' = first /\ amount' = amount
      /\ withdrawStatus' = "running"
  BY <1>0, <1>2 DEF given
<1>4. /\ Len(before) \in Nat /\ first \in Nat \ {0} /\ i \in Nat /\ first <= i /\ i <= Len(before)
      /\ i' - 1 = i /\ i' \in Nat
  BY <1>1, <1>2, EntriesAreTyped DEF GivenTyped
<1>5. /\ withdrawAmount = Paid(i - 1) + 0
      /\ totalFee = WithdrawalFee(before, fees, first, i - 1, 0)
      /\ totalDebit = SumOver(EntryAmounts, first..(i - 1))
      /\ stakeDebit = totalDebit + 0
      /\ deposits = DepositsLeft(before, first, i - 1, 0)
      /\ \A j \in first..(i - 1) : Drains(Nets, first, amount, j) /\ FeeFits(before[j], fees)
  BY <1>1 DEF WholeTaken, Taken, Passed
<1>6. /\ Nets[i] >= 0 /\ Nets[i] \in Int /\ EntryAmounts[i] \in Nat /\ EntryFees[i] \in Nat
  BY <1>1, <1>2, EntriesAreTyped
<1>7. /\ Paid(i) = Paid(i - 1) + Nets[i]
      /\ SumOver(EntryFees, first..i) = SumOver(EntryFees, first..(i-1)) + EntryFees[i]
      /\ SumOver(EntryAmounts, first..i) = SumOver(EntryAmounts, first..(i-1)) + EntryAmounts[i]
  BY <1>1, <1>6, OneMoreIsPassed
<1>8. /\ SumOver(EntryFees, first..(i-1)) \in Nat
      /\ SumOver(EntryAmounts, first..(i-1)) \in Nat
  <2>1. i - 1 \in Int /\ i - 1 <= Len(before)
    BY <1>4
  <2> QED BY <1>1, <2>1, PassedSumsAreTyped
<1>9. Passed(i)
  <2>1. i \in (first - 1)..Len(before)
    BY <1>4
  <2>2. ASSUME NEW j \in first..i PROVE Drains(Nets, first, amount, j) /\ FeeFits(before[j], fees)
    <3>1. j \in first..(i - 1) \/ j = i
      BY <1>4
    <3> QED BY <1>1, <1>2, <1>5, <3>1
  <2> QED BY <2>1, <2>2 DEF Passed
<1>10. Paid(i) <= amount
  BY <1>1, <1>2, <1>6, <1>7
<1>11. withdrawAmount' = Paid(i) + 0
  BY <1>1, <1>2, <1>5, <1>6, <1>7
<1>12. totalFee' = WithdrawalFee(before, fees, first, i, 0)
  <2>1. /\ WithdrawalFee(before, fees, first, i - 1, 0) = SumOver(EntryFees, first..(i-1)) + 0
        /\ WithdrawalFee(before, fees, first, i, 0) = SumOver(EntryFees, first..i) + 0
    BY DEF WithdrawalFee, EntryFees
  <2> QED BY <1>1, <1>2, <1>5, <1>6, <1>7, <1>8, <2>1
<1>13. /\ totalDebit' = SumOver(EntryAmounts, first..i)
       /\ stakeDebit' = totalDebit' + 0
  BY <1>1, <1>2, <1>5, <1>6, <1>7, <1>8
<1>14. nextToRemove' = NextToRemove(before, first, i)
  BY <1>1, <1>2, <1>4 DEF NextToRemove
<1>15. deposits' = DepositsLeft(before, first, i, 0)
  <2> DEFINE left(k) == [j \in 1..Len(before) |->
                           [blockNumber |-> before[j].blockNumber,
                            amount |-> IF j \in first..k THEN 0
                                       ELSE IF j = k + 1 THEN before[j].amount - 0
                                       ELSE before[j].amount]]
  <2>0. GivenTyped
    BY <1>1
  <2>1. DepositsLeft(before, first, i - 1, 0) = left(i - 1)
    BY ONLY <2>0, 0 \in Nat, LeftByField, Zenon
  <2>2. DepositsLeft(before, first, i, 0) = left(i)
    BY ONLY <2>0, 0 \in Nat, LeftByField, Zenon
  <2>3. [left(i - 1) EXCEPT ![i].amount = 0] = left(i)
    <3>1. \A j \in 1..Len(before) : before[j].amount - 0 = before[j].amount
      <4> SUFFICES ASSUME NEW j \in 1..Len(before) PROVE before[j].amount \in Nat
        OBVIOUS
      <4> QED BY <1>1, EntriesAreTyped
    <3>2. ASSUME NEW j \in 1..Len(before), j # i
          PROVE  j \in first..(i - 1) <=> j \in first..i
      BY <1>4, <3>2
    <3>3. i \in first..i
      BY <1>4
    <3>4. left(i)[i] = [left(i - 1)[i] EXCEPT !.amount = 0]
      BY <1>1, <3>3
    <3>5. ASSUME NEW j \in 1..Len(before), j # i
          PROVE  left(i)[j] = left(i - 1)[j]
      BY <3>1, <3>2, <3>5
    <3> HIDE DEF left
    <3>6. /\ DOMAIN left(i) = 1..Len(before) /\ DOMAIN left(i - 1) = 1..Len(before)
          /\ left(i) = [j \in 1..Len(before) |-> left(i)[j]]
      BY DEF left
    <3>7. [left(i - 1) EXCEPT ![i].amount = 0]
            = [j \in 1..Len(before) |->
                  IF j = i THEN [left(i - 1)[i] EXCEPT !.amount = 0] ELSE left(i - 1)[j]]
      BY <3>6
    <3> QED BY <3>4, <3>5, <3>6, <3>7
  <2> HIDE DEF left
  <2> QED BY <1>2, <1>5, <2>1, <2>2, <2>3, Zenon
<1>16. /\ \A k : Paid(k)' = Paid(k) /\ (Passed(k) => Passed(k)')
       /\ EntryAmounts' = EntryAmounts /\ GivenTyped'
  BY <1>1, <1>3 DEF Paid, Nets, Passed, EntryAmounts, GivenTyped
<1>17. WholeTaken'
  BY <1>3, <1>4, <1>9, <1>10, <1>11, <1>12, <1>13, <1>14, <1>15, <1>16 DEF WholeTaken, Taken
<1> QED BY <1>3, <1>4, <1>16, <1>17 DEF WithdrawInv, LoopComputesWithdrawal

(* The last deposit pays the rest in part. *)
LEMMA TakePartKeepsInv ==
    ASSUME WithdrawInv, TakePart
    PROVE  WithdrawInv'
<1>0. WithdrawRunning /\ withdrawStatus = "running"
  BY DEF TakePart, WithdrawRunning
<1> DEFINE rest == amount - Paid(i - 1)
<1>1. /\ GivenTyped /\ WholeTaken
      /\ i \in first..Len(before) /\ i \in 1..Len(before)
      /\ deposits[i].amount = EntryAmounts[i]
      /\ WithdrawFee = WithdrawFeeRate(fees, before[i].blockNumber)
      /\ AmountFeed = Nets[i]
      /\ AmountFits <=> FeeFits(before[i], fees)
      /\ AmountRem = rest
      /\ Paid(i - 1) \in Nat /\ Paid(i - 1) < amount /\ amount \in Nat
  BY <1>0, NextEntryIsUntouched
<1>2. /\ AmountFits /\ AmountFeed > AmountRem
      /\ deposits' = [deposits EXCEPT ![i].amount = @ - AmountRem]
      /\ stakeDebit' = stakeDebit + AmountRem
      /\ withdrawAmount' = withdrawAmount + AmountRem
      /\ totalFee' = totalFee + (AmountRem * WithdrawFee) \div MULTIPLIER
      /\ i' = i + 1
      /\ UNCHANGED <<given, nextToRemove, totalDebit, withdrawStatus>>
  BY DEF TakePart
<1>3. /\ before' = before /\ fees' = fees /\ first' = first /\ amount' = amount
      /\ nextToRemove' = nextToRemove /\ totalDebit' = totalDebit
      /\ withdrawStatus' = "running"
  BY <1>0, <1>2 DEF given
<1>4. /\ Len(before) \in Nat /\ first \in Nat \ {0} /\ i \in Nat /\ first <= i /\ i <= Len(before)
      /\ i' - 2 = i - 1 /\ i' - 1 = i /\ i' \in Nat /\ i - 1 < Len(before) /\ (i - 1) + 1 = i
      /\ rest \in Nat /\ rest # 0
  <2> HIDE DEF rest
  <2>1. Len(before) \in Nat /\ first \in Nat \ {0} /\ i \in Nat /\ first <= i /\ i <= Len(before)
    BY <1>1, EntriesAreTyped DEF GivenTyped
  <2>2. i' = i + 1
    BY <1>2
  <2>3. rest \in Nat /\ rest # 0
    BY <1>1 DEF rest
  <2> QED BY ONLY <2>1, <2>2, <2>3
<1>5. /\ withdrawAmount = Paid(i - 1) + 0
      /\ totalFee = WithdrawalFee(before, fees, first, i - 1, 0)
      /\ totalDebit = SumOver(EntryAmounts, first..(i - 1))
      /\ stakeDebit = totalDebit + 0
      /\ nextToRemove = NextToRemove(before, first, i - 1)
      /\ deposits = DepositsLeft(before, first, i - 1, 0)
      /\ Passed(i - 1)
  BY <1>1 DEF WholeTaken, Taken
<1>6. Nets[i] \in Int /\ EntryAmounts[i] \in Nat
  BY <1>1, EntriesAreTyped
<1>7. /\ SumOver(EntryFees, first..(i-1)) \in Nat
      /\ SumOver(EntryAmounts, first..(i-1)) \in Nat
  <2>1. i - 1 \in Int /\ i - 1 <= Len(before)
    BY <1>4
  <2> QED BY <1>1, <2>1, PassedSumsAreTyped
<1>8. rest < Nets[i]
  BY <1>1, <1>2, <1>4, <1>6
<1>9. withdrawAmount' = Paid(i - 1) + rest
  BY <1>1, <1>2, <1>5
<1>10. totalFee' = WithdrawalFee(before, fees, first, i - 1, rest)
  <2>1. WithdrawalFee(before, fees, first, i - 1, 0) = SumOver(EntryFees, first..(i-1)) + 0
    BY DEF WithdrawalFee, EntryFees
  <2>2. WithdrawalFee(before, fees, first, i - 1, rest)
          = SumOver(EntryFees, first..(i-1)) + FeeAmount(rest, WithdrawFee)
    BY <1>1, <1>4, Zenon DEF WithdrawalFee, EntryFees
  <2>3. totalFee = SumOver(EntryFees, first..(i-1))
    BY <1>5, <1>7, <2>1
  <2>4. totalFee' = totalFee + FeeAmount(rest, WithdrawFee)
    BY <1>1, <1>2, Zenon DEF FeeAmount
  <2> QED BY <2>2, <2>3, <2>4, Zenon
<1>11. stakeDebit' = totalDebit' + rest
  BY <1>1, <1>2, <1>3, <1>5, <1>7
<1>12. deposits' = DepositsLeft(before, first, i - 1, rest)
  <2>0. GivenTyped /\ rest \in Nat
    BY <1>1, <1>4
  <2> HIDE DEF rest
  <2> DEFINE left(r) == [j \in 1..Len(before) |->
                           [blockNumber |-> before[j].blockNumber,
                            amount |-> IF j \in first..(i - 1) THEN 0
                                       ELSE IF j = (i - 1) + 1 THEN before[j].amount - r
                                       ELSE before[j].amount]]
  <2>1. DepositsLeft(before, first, i - 1, 0) = left(0)
    BY ONLY <2>0, 0 \in Nat, LeftByField, Zenon
  <2>2. DepositsLeft(before, first, i - 1, rest) = left(rest)
    BY ONLY <2>0, LeftByField, Zenon
  <2>3. [left(0) EXCEPT ![i].amount = @ - rest] = left(rest)
    <3>1. before[i].amount \in Nat /\ before[i].amount - 0 = before[i].amount
      <4>1. before[i].amount \in Nat
        BY <1>1, <1>6, EntriesAreTyped
      <4> QED BY <4>1
    <3>2. i \notin first..(i - 1)
      BY <1>4
    <3>3. left(rest)[i] = [left(0)[i] EXCEPT !.amount = @ - rest]
      BY <1>1, <1>4, <3>1, <3>2
    <3>4. ASSUME NEW j \in 1..Len(before), j # i
          PROVE  left(rest)[j] = left(0)[j]
      BY <1>4, <3>4
    <3> HIDE DEF left
    <3>5. /\ DOMAIN left(rest) = 1..Len(before) /\ DOMAIN left(0) = 1..Len(before)
          /\ left(rest) = [j \in 1..Len(before) |-> left(rest)[j]]
      BY DEF left
    <3>6. [left(0) EXCEPT ![i].amount = @ - rest]
            = [j \in 1..Len(before) |->
                  IF j = i THEN [left(0)[i] EXCEPT !.amount = @ - rest] ELSE left(0)[j]]
      BY <3>5
    <3> QED BY <3>3, <3>4, <3>5, <3>6
  <2> HIDE DEF left
  <2> QED BY <1>1, <1>2, <1>5, <2>1, <2>2, <2>3, Zenon
<1>13. /\ \A k : Paid(k)' = Paid(k) /\ (Passed(k) => Passed(k)')
       /\ EntryAmounts' = EntryAmounts /\ Nets' = Nets /\ GivenTyped'
  BY <1>1, <1>3 DEF Paid, Nets, Passed, EntryAmounts, GivenTyped
<1>14. PICK k \in Int : k = i - 1
  BY <1>4
<1>15. PICK r \in Nat : r = rest
  BY <1>4
<1>16. Taken(k, r)'
  <2>1. /\ withdrawAmount' = Paid(k) + r
        /\ totalFee' = WithdrawalFee(before, fees, first, k, r)
        /\ stakeDebit' = totalDebit' + r
        /\ deposits' = DepositsLeft(before, first, k, r)
    BY ONLY <1>9, <1>10, <1>11, <1>12, <1>14, <1>15
  <2>2. /\ totalDebit' = SumOver(EntryAmounts, first..k)
        /\ nextToRemove' = NextToRemove(before, first, k)
    BY ONLY <1>3, <1>5, <1>14
  <2> QED BY <1>3, <1>13, <2>1, <2>2 DEF Taken
<1>17. PartTaken'
  <2>1. /\ Passed(k)' /\ k < Len(before) /\ Paid(k) < amount
        /\ r = amount - Paid(k) /\ r < Nets[k + 1] /\ k + 1 = i
        /\ FeeFits(before[k + 1], fees)
    BY <1>1, <1>2, <1>4, <1>5, <1>8, <1>13, <1>14, <1>15
  <2>2. i' - 2 = k /\ i' - 1 = k + 1
    BY <1>4, <1>14
  <2> QED BY <1>3, <1>13, <1>16, <2>1, <2>2 DEF PartTaken
<1> QED BY <1>3, <1>4, <1>13, <1>17 DEF WithdrawInv, LoopComputesWithdrawal

(* Arithmetic that does not fit reverts, and does not fit in the closed    *)
(* form either: the deposit is one that it empties, or the one after them. *)
LEMMA FeeRevertsKeepsInv ==
    ASSUME WithdrawInv, FeeReverts
    PROVE  WithdrawInv'
<1>0. WithdrawRunning
  BY DEF FeeReverts
<1>1. /\ GivenTyped /\ WholeTaken /\ i \in first..Len(before) /\ i \in 1..Len(before)
      /\ AmountFits <=> FeeFits(before[i], fees)
      /\ Paid(i - 1) \in Nat /\ Paid(i - 1) < amount /\ amount \in Nat
  BY <1>0, NextEntryIsUntouched
<1>2. /\ ~FeeFits(before[i], fees) /\ withdrawStatus' = "reverted"
      /\ UNCHANGED <<given, i, deposits, nextToRemove, withdrawAmount, totalFee,
                     stakeDebit, totalDebit>>
  BY <1>1 DEF FeeReverts
<1>3. before' = before /\ fees' = fees /\ first' = first /\ amount' = amount /\ i' = i
  BY <1>2 DEF given
<1>4. /\ Len(before) \in Nat /\ first \in Nat /\ first > 0
      /\ i \in Nat /\ first <= i /\ i <= Len(before)
      /\ i - 1 \in (first - 1)..Len(before) /\ i \in (first - 1)..Len(before)
      /\ (i - 1) + 1 = i /\ i - 1 < Len(before)
  BY <1>1, EntriesAreTyped DEF GivenTyped
<1>5. \A j \in first..(i - 1) : Drains(Nets, first, amount, j)
  BY <1>1 DEF WholeTaken, Passed
<1>6. \E k \in Prefixes : ~FeesFit(before, fees, first, k,
                                    Remainder(before, fees, first, amount, k))
  <2>1. CASE Drains(Nets, first, amount, i)
    <3>1. \A j \in first..i : Drains(Nets, first, amount, j)
      <4> SUFFICES ASSUME NEW j \in first..i PROVE Drains(Nets, first, amount, j)
        OBVIOUS
      <4>1. j \in first..(i - 1) \/ j = i
        BY <1>4
      <4> QED BY <1>5, <2>1, <4>1
    <3>2. PICK k \in Prefixes : i <= k
      BY <1>1, <1>4, <3>1, SomePrefix
    <3>3. k \in Int
      BY <1>4 DEF Prefixes
    <3>4. \A rest : i \in first..(IF rest = 0 THEN k ELSE k + 1)
      BY <1>4, <3>2, <3>3
    <3> QED BY <1>2, <3>4 DEF FeesFit
  <2>2. CASE ~Drains(Nets, first, amount, i)
    <3>1. DrainsThrough(before, fees, first, amount, i - 1)
      BY <1>4, <1>5, <2>2 DEF DrainsThrough, Nets
    <3>2. i - 1 \in Prefixes
      BY <1>4, <3>1 DEF Prefixes
    <3>3. Remainder(before, fees, first, amount, i - 1) = amount - Paid(i - 1)
      BY <1>4 DEF Remainder, Paid, Nets
    <3>4. amount - Paid(i - 1) # 0
      BY <1>1
    <3>5. i \in first..((i - 1) + 1)
      BY <1>4
    <3> QED BY <1>2, <3>2, <3>3, <3>4, <3>5 DEF FeesFit
  <2> QED BY <2>1, <2>2
<1>7. PICK k \in Prefixes : ~FeesFit(before, fees, first, k,
                                      Remainder(before, fees, first, amount, k))
  BY <1>6
<1>8. Prefixes = {k}
  BY <1>1, OnlyOnePrefix
<1>9. Withdrawal(before, fees, first, amount, k).rest
        = Remainder(before, fees, first, amount, k)
  BY DEF Withdrawal
<1>10. Prefixes' = Prefixes
  BY <1>3 DEF Prefixes
<1>11. LoopComputesWithdrawal'
  BY <1>2, <1>3, <1>7, <1>8, <1>9, <1>10 DEF LoopComputesWithdrawal
<1>12. GivenTyped' /\ i' \in Nat
  BY <1>1, <1>3 DEF GivenTyped, WithdrawInv
<1> QED BY <1>2, <1>11, <1>12 DEF WithdrawInv

(* The loop stops at the end of the deposits, or when all is paid. *)
LEMMA LeaveWithdrawKeepsInv ==
    ASSUME WithdrawInv, LeaveWithdraw
    PROVE  WithdrawInv'
<1>1. /\ GivenTyped /\ i \in Nat /\ (WholeTaken \/ PartTaken)
      /\ i > Len(deposits) \/ withdrawAmount >= amount
      /\ withdrawStatus' = "done"
      /\ UNCHANGED <<given, i, deposits, nextToRemove, withdrawAmount, totalFee,
                     stakeDebit, totalDebit>>
  BY DEF WithdrawInv, LeaveWithdraw
<1>2. /\ before' = before /\ fees' = fees /\ first' = first /\ amount' = amount /\ i' = i
      /\ deposits' = deposits /\ nextToRemove' = nextToRemove
      /\ withdrawAmount' = withdrawAmount /\ totalFee' = totalFee
      /\ stakeDebit' = stakeDebit /\ totalDebit' = totalDebit
  BY <1>1 DEF given
<1>3. /\ Len(before) \in Nat /\ amount \in Nat /\ first \in Nat /\ first > 0
  BY <1>1, EntriesAreTyped DEF GivenTyped
<1> DEFINE Stopped(k) == /\ k \in Int /\ Passed(k)
                         /\ k < Len(before) => ~Drains(Nets, first, amount, k + 1)
                         /\ Remainder(before, fees, first, amount, k) # 0
                              => FeeFits(before[k + 1], fees)
                         /\ Taken(k, Remainder(before, fees, first, amount, k))
<1>4. \E k : Stopped(k)
  <2>1. CASE WholeTaken
    <3> DEFINE k == i - 1
    <3>1. k \in Int /\ Passed(k) /\ Paid(k) <= amount /\ Taken(k, 0) /\ k + 1 = i /\ k <= Len(before)
      BY <1>1, <1>3, <2>1 DEF WholeTaken, Passed
    <3>2. Paid(k) \in Nat /\ withdrawAmount = Paid(k) + 0
      BY <1>1, <3>1, PassedSumsAreTyped DEF Taken
    <3>3. Len(deposits) = Len(before)
      BY <1>1, <3>1, LeftKeepsLength DEF Taken
    <3>4. k < Len(before) => Paid(k) = amount
      BY <1>1, <1>3, <3>1, <3>2, <3>3
    <3>5. (k + 1) - 1 = k
      BY <3>1
    <3> HIDE DEF k
    <3>6. k < Len(before) => ~Drains(Nets, first, amount, k + 1)
      BY <1>3, <3>4, <3>5 DEF Drains, Paid
    <3>7. Remainder(before, fees, first, amount, k) = 0
      BY <1>3, <3>4 DEF Remainder, Paid, Nets
    <3> QED BY <3>1, <3>6, <3>7
  <2>2. CASE PartTaken
    <3> DEFINE k == i - 2
    <3>1. /\ k \in Int /\ Passed(k) /\ k < Len(before) /\ Paid(k) < amount
          /\ amount - Paid(k) < Nets[k + 1] /\ FeeFits(before[k + 1], fees)
          /\ Taken(k, amount - Paid(k))
      <4>1. k \in Int /\ k + 1 = i - 1
        BY <1>1
      <4> QED BY <2>2, <4>1 DEF PartTaken
    <3>2. Paid(k) \in Nat
      BY <1>1, <1>3, <3>1, PassedSumsAreTyped
    <3>3. Nets[k + 1] \in Int /\ (k + 1) - 1 = k
      <4>1. k + 1 \in 1..Len(before) /\ (k + 1) - 1 = k
        BY <1>3, <3>1 DEF Passed
      <4> QED BY <1>1, <4>1, EntriesAreTyped
    <3> HIDE DEF k
    <3>4. ~Drains(Nets, first, amount, k + 1)
      BY <1>3, <3>1, <3>2, <3>3 DEF Drains, Paid
    <3>5. Remainder(before, fees, first, amount, k) = amount - Paid(k)
      BY <3>1 DEF Remainder, Paid, Nets
    <3> QED BY <3>1, <3>4, <3>5
  <2> QED BY <1>1, <2>1, <2>2
<1>5. PICK k : Stopped(k)
  BY <1>4
<1>6. /\ Prefixes = {k}
      /\ LET w == Withdrawal(before, fees, first, amount, k)
         IN  /\ FeesFit(before, fees, first, k, w.rest)
             /\ withdrawAmount = w.paid /\ totalFee = w.fee
             /\ stakeDebit = w.drained + w.rest
             /\ totalDebit = w.drained
             /\ nextToRemove = w.next
             /\ deposits = w.left
  BY <1>1, <1>5, StoppedLoopIsDone
<1>7. GivenTyped' /\ Prefixes' = Prefixes
  BY <1>1, <1>2 DEF GivenTyped, Prefixes
<1>8. LoopComputesWithdrawal'
  BY <1>1, <1>2, <1>6, <1>7 DEF LoopComputesWithdrawal
<1> QED BY <1>1, <1>2, <1>7, <1>8 DEF WithdrawInv

(* Before its first iteration the loop has taken nothing. *)
LEMMA NothingIsTaken ==
    ASSUME GivenTyped, deposits = before, nextToRemove = first,
           withdrawAmount = 0, totalFee = 0, stakeDebit = 0, totalDebit = 0
    PROVE  Passed(first - 1) /\ Paid(first - 1) = 0 /\ Taken(first - 1, 0)
<1>1. /\ Len(before) \in Nat /\ DOMAIN before = 1..Len(before)
      /\ first \in Nat /\ first > 0 /\ first - 1 <= Len(before)
  BY EntriesAreTyped DEF GivenTyped
<1>2. first..(first - 1) = {} /\ first - 1 < first
  BY <1>1
<1>3. Passed(first - 1)
  BY <1>1, <1>2 DEF Passed
<1>4. /\ Paid(first - 1) = 0
      /\ SumOver(EntryFees, first..(first - 1)) = 0
      /\ SumOver(EntryAmounts, first..(first - 1)) = 0
  BY <1>2, SumOfNothing DEF Paid
<1>5. WithdrawalFee(before, fees, first, first - 1, 0) = 0
  BY <1>4 DEF WithdrawalFee, EntryFees
<1>6. NextToRemove(before, first, first - 1) = first
  BY <1>2 DEF NextToRemove
<1>7. DepositsLeft(before, first, first - 1, 0) = before
  <2> DEFINE left == [j \in 1..Len(before) |->
                        [blockNumber |-> before[j].blockNumber,
                         amount |-> IF j \in first..(first - 1) THEN 0
                                    ELSE IF j = (first - 1) + 1 THEN before[j].amount - 0
                                    ELSE before[j].amount]]
  <2>1. GivenTyped /\ DepositsLeft(before, first, first - 1, 0) = left
    BY ONLY GivenTyped, 0 \in Nat, LeftByField, Zenon
  <2>2. ASSUME NEW j \in 1..Len(before) PROVE left[j] = before[j]
    <3>1. before[j] \in [blockNumber : Nat, amount : Nat]
      BY EntriesAreTyped
    <3>2. before[j].amount - 0 = before[j].amount
      BY <3>1
    <3>3. left[j] = [blockNumber |-> before[j].blockNumber, amount |-> before[j].amount]
      BY <1>2, <3>2
    <3> QED BY <3>1, <3>3
  <2>3. before = [j \in 1..Len(before) |-> before[j]]
    <3>1. before = [j \in DOMAIN before |-> before[j]]
      <4>1. before \in [1..Len(before) -> [blockNumber : Nat, amount : Nat]]
        BY LenProperties DEF GivenTyped, Deposits
      <4> QED BY <4>1
    <3> QED BY <1>1, <3>1
  <2>4. left = [j \in 1..Len(before) |-> left[j]]
    OBVIOUS
  <2> HIDE DEF left
  <2> QED BY <2>1, <2>2, <2>3, <2>4
<1>8. Taken(first - 1, 0)
  BY <1>4, <1>5, <1>6, <1>7 DEF Taken
<1> QED BY <1>3, <1>4, <1>8

(* The loop starts with the first deposit that may hold something; a loop  *)
(* that does not run is that of a user without deposits.                   *)
LEMMA InitStartsWithdraw ==
    ASSUME LoopsInit
    PROVE  WithdrawInv
<1>1. CASE WithdrawInit
  <2>1. before \in Deposits /\ fees \in Fees /\ amount \in Nat
    BY <1>1, WithdrawLoopAssumption, WidthAssumption DEF WithdrawInit, Deposits, Fees, Uint128
  <2>2. Len(before) \in Nat
    BY <2>1, RowsOfSequence DEF Deposits
  <2>3. Max({1, Len(before)}) \in Nat /\ Max({1, Len(before)}) <= Len(before) + 1
    <3> DEFINE n == Len(before)
    <3>1. n \in Nat
      BY <2>2
    <3> HIDE DEF n
    <3>2. \E x \in {1, n} : \A y \in {1, n} : x >= y
      BY <3>1
    <3>3. Max({1, n}) \in {1, n}
      BY <3>2, Zenon DEF Max
    <3>4. Max({1, n}) \in Nat /\ Max({1, n}) <= n + 1
      BY <3>1, <3>3
    <3> QED BY <3>4 DEF n
  <2>4. first \in Nat \ {0} /\ first - 1 <= Len(before)
    BY <1>1, <2>2, <2>3 DEF WithdrawInit
  <2>5. GivenTyped
    BY <2>1, <2>4 DEF GivenTyped
  <2>6. Passed(first - 1) /\ Paid(first - 1) = 0 /\ Taken(first - 1, 0)
    BY <1>1, <2>5, NothingIsTaken DEF WithdrawInit
  <2>7. i = first
    BY <1>1 DEF WithdrawInit
  <2>8. WholeTaken
    BY <2>1, <2>6, <2>7 DEF WholeTaken
  <2> QED BY <1>1, <2>4, <2>5, <2>7, <2>8 DEF WithdrawInit, WithdrawInv, LoopComputesWithdrawal
<1>2. CASE NotWithdrawing
  <2>1. before = <<>> /\ Len(before) = 0 /\ before \in Deposits /\ fees \in Fees
    BY <1>2 DEF NotWithdrawing, Deposits, Fees
  <2>2. GivenTyped
    BY <1>2, <2>1 DEF NotWithdrawing, GivenTyped
  <2>3. Passed(first - 1) /\ Taken(first - 1, 0)
    BY <1>2, <2>1, <2>2, NothingIsTaken DEF NotWithdrawing
  <2>4. first - 1 = 0 /\ ~(0 < Len(before))
    BY <1>2, <2>1 DEF NotWithdrawing
  <2>5. Remainder(before, fees, first, amount, 0) = 0
    BY <2>4 DEF Remainder
  <2>6. /\ Prefixes = {0}
        /\ LET w == Withdrawal(before, fees, first, amount, 0)
           IN  /\ FeesFit(before, fees, first, 0, w.rest)
               /\ withdrawAmount = w.paid /\ totalFee = w.fee
               /\ stakeDebit = w.drained + w.rest
               /\ totalDebit = w.drained
               /\ nextToRemove = w.next
               /\ deposits = w.left
    BY <2>2, <2>3, <2>4, <2>5, StoppedLoopIsDone
  <2> QED BY <1>2, <2>2, <2>6 DEF NotWithdrawing, WithdrawInv, LoopComputesWithdrawal
<1> QED BY <1>1, <1>2 DEF LoopsInit

(* Every iteration of either loop keeps the invariant. *)
LEMMA LoopsKeepWithdrawal ==
    ASSUME WithdrawInv, [LoopsNext]_<<accrualVars, withdrawalVars>>
    PROVE  WithdrawInv'
<1>1. CASE Withdraw
  BY <1>1, TakePartKeepsInv, DrainKeepsInv, FeeRevertsKeepsInv, LeaveWithdrawKeepsInv
     DEF Withdraw, WithdrawNext
<1>2. CASE UNCHANGED withdrawalVars
  <2>1. /\ before' = before /\ fees' = fees /\ first' = first /\ amount' = amount /\ i' = i
        /\ deposits' = deposits /\ nextToRemove' = nextToRemove
        /\ withdrawAmount' = withdrawAmount /\ totalFee' = totalFee
        /\ stakeDebit' = stakeDebit /\ totalDebit' = totalDebit
        /\ withdrawStatus' = withdrawStatus
    BY <1>2 DEF withdrawalVars, given
  <2>2. GivenTyped' /\ i' \in Nat
    BY <2>1 DEF WithdrawInv, GivenTyped
  <2>3. /\ WholeTaken => WholeTaken'
        /\ PartTaken => PartTaken'
    BY <2>1 DEF WholeTaken, PartTaken, Passed, Taken, Paid, Nets, EntryAmounts
  <2>4. LoopComputesWithdrawal'
    BY <2>1 DEF WithdrawInv, LoopComputesWithdrawal, Prefixes
  <2> QED BY <2>1, <2>2, <2>3, <2>4 DEF WithdrawInv
<1> QED BY <1>1, <1>2 DEF LoopsNext, Accrue

(* The loop of withdraw leaves the deposits, debits, fees and position of  *)
(* the closed form that Pool uses, for exactly one number of emptied       *)
(* deposits, and reverts exactly when the arithmetic of a deposit that it  *)
(* visits does not fit: its product leaves uint128, or the fee, cut to 64  *)
(* bits, exceeds it.  For every list of deposits, fee table and amount.    *)
THEOREM WithdrawalIsClosedForm == LoopsSpec => []LoopComputesWithdrawal
<1>1. LoopsInit => WithdrawInv
  BY InitStartsWithdraw
<1>2. WithdrawInv /\ [LoopsNext]_<<accrualVars, withdrawalVars>> => WithdrawInv'
  BY LoopsKeepWithdrawal
<1>3. WithdrawInv => LoopComputesWithdrawal
  BY DEF WithdrawInv
<1> QED BY <1>1, <1>2, <1>3, PTL DEF LoopsSpec
=============================================================================
