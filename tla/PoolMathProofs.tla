--------------------------- MODULE PoolMathProofs ---------------------------
(***************************************************************************)
(* Facts about the arithmetic of PoolMath that the proofs about Pool cite: *)
(* sums, fees, and what a withdrawal can take.                             *)
(***************************************************************************)
EXTENDS PoolMath, FiniteSetTheorems, SequenceTheorems,
        WellFoundedInduction, TLAPS

-----------------------------------------------------------------------------
(* Numbers. *)

(* The first of a set of row numbers is one of them. *)
LEMMA MinOfNats ==
    ASSUME NEW S, S \subseteq Nat, S # {}
    PROVE  Min(S) \in S /\ \A y \in S : Min(S) <= y
<1> DEFINE R == {ss \in Nat \X Nat : ss[1] < ss[2]}
<1>1. IsWellFoundedOn(R, Nat)
  BY NatLessThanWellFounded DEF OpToRel
<1> HIDE DEF R
<1>2. PICK x \in S : \A y \in S : ~ (<<y, x>> \in R)
  BY <1>1, WFMin
<1>3. ASSUME NEW y \in S PROVE x <= y
  <2>1. y < x => <<y, x>> \in R
    BY DEF R
  <2>2. ~(<<y, x>> \in R)
    BY <1>2
  <2> QED BY <2>1, <2>2
<1> QED BY <1>3 DEF Min

(* The smaller of two blocks. *)
LEMMA MinOfTwo ==
    ASSUME NEW a \in Nat, NEW b \in Nat
    PROVE  /\ a <= b => Min({a, b}) = a
           /\ b <= a => Min({a, b}) = b
BY DEF Min

(* A set of numbers that holds 0, and with each number the next, holds all. *)
LEMMA NatByStep ==
    ASSUME NEW S, 0 \in S, \A n \in Nat : n \in S => n + 1 \in S
    PROVE  \A n \in Nat : n \in S
<1> SUFFICES ASSUME Nat \ S # {} PROVE FALSE
  OBVIOUS
<1>1. Nat \ S \subseteq Nat
  OBVIOUS
<1>2. PICK m \in Nat \ S : \A y \in Nat \ S : m <= y
  BY <1>1, MinOfNats
<1>3. m \in Nat /\ m # 0
  OBVIOUS
<1>4. m - 1 \in Nat /\ (m - 1) + 1 = m /\ ~(m <= m - 1)
  BY <1>3
<1>5. m - 1 \in S
  BY <1>2, <1>4
<1> QED BY <1>4, <1>5

(* The numbers up to m are those up to n and those behind n. *)
LEMMA IntervalSplits ==
    ASSUME NEW m \in Nat, NEW n \in 0..m
    PROVE  /\ 1..m = (1..n) \cup ((n+1)..m)
           /\ (1..n) \cap ((n+1)..m) = {}
           /\ IsFiniteSet(1..n) /\ IsFiniteSet((n+1)..m)
<1>1. IsFiniteSet(1..n)
  BY FS_Interval
<1>2. IsFiniteSet((n+1)..m)
  BY FS_Interval
<1>3. 1..m = (1..n) \cup ((n+1)..m)
  OBVIOUS
<1>4. (1..n) \cap ((n+1)..m) = {}
  OBVIOUS
<1> QED BY <1>1, <1>2, <1>3, <1>4, Zenon

-----------------------------------------------------------------------------
(* Tables. *)

(* The rows of a table: its indices, and the type of each row. *)
LEMMA RowsOfSequence ==
    ASSUME NEW S, NEW seq \in Seq(S)
    PROVE  /\ DOMAIN seq = 1..Len(seq) /\ Len(seq) \in Nat
           /\ \A i \in 1..Len(seq) : seq[i] \in S
BY LenProperties, ElementOfSeq, Zenon

(* A function on 1..n is a sequence of length n. *)
LEMMA SequenceOfLength ==
    ASSUME NEW S, NEW n \in Nat, NEW f \in [1..n -> S]
    PROVE  f \in Seq(S) /\ Len(f) = n
<1>1. Seq(S) = UNION {[1..m -> S] : m \in Nat}
  BY SeqDef, Zenon
<1>2. f \in Seq(S)
  BY <1>1, Zenon
<1>3. DOMAIN f = 1..n /\ DOMAIN f = 1..Len(f) /\ Len(f) \in Nat
  BY <1>2, RowsOfSequence
<1> QED BY <1>2, <1>3

(* A table with one row replaced is a table. *)
LEMMA RowIsReplaced ==
    ASSUME NEW S, NEW seq \in Seq(S), NEW id \in DOMAIN seq, NEW row \in S
    PROVE  [seq EXCEPT ![id] = row] \in Seq(S)
BY RowsOfSequence, SequenceOfLength

-----------------------------------------------------------------------------
(* Sums. *)

(* The units of a finite set of amounts are finite, and their number is a  *)
(* natural number: a sum of amounts is an amount.                          *)
LEMMA UnitsFinite ==
    ASSUME NEW S, IsFiniteSet(S), NEW f, \A k \in S : f[k] \in Int
    PROVE  IsFiniteSet(Units(f, S)) /\ SumOver(f, S) \in Nat
<1> DEFINE column == [k \in S |-> {k} \X (1..f[k])]
           Columns == {{k} \X (1..f[k]) : k \in S}
<1>1. ASSUME NEW k \in S PROVE IsFiniteSet({k} \X (1..f[k]))
  <2>1. IsFiniteSet({k})
    BY FS_Singleton, Zenon
  <2>2. IsFiniteSet(1..f[k])
    BY FS_Interval
  <2> QED BY <2>1, <2>2, FS_Product
<1>2. column \in Surjection(S, Columns)
  BY DEF Surjection
<1>3. IsFiniteSet(Columns)
  BY <1>2, FS_Surjection
<1>4. \A T \in Columns : IsFiniteSet(T)
  BY <1>1
<1>5. IsFiniteSet(UNION Columns)
  BY <1>3, <1>4, FS_UNION
<1> QED BY <1>5, FS_CardinalityType DEF Units, SumOver

(* Nothing adds up to zero. *)
LEMMA SumOfNothing == \A f : SumOver(f, {}) = 0
<1> SUFFICES ASSUME NEW f PROVE SumOver(f, {}) = 0
  OBVIOUS
<1>1. Units(f, {}) = {}
  BY DEF Units
<1> QED BY <1>1, FS_EmptySet DEF SumOver

(* A sum grows by the amount that is added to it. *)
LEMMA SumOfOneMore ==
    ASSUME NEW S, IsFiniteSet(S), NEW k, k \notin S, NEW f,
           \A x \in S : f[x] \in Int, f[k] \in Nat
    PROVE  SumOver(f, S \cup {k}) = SumOver(f, S) + f[k]
<1> DEFINE column == {k} \X (1..f[k])
<1>1. IsFiniteSet({k}) /\ Cardinality({k}) = 1
  BY FS_Singleton, Zenon
<1>2. IsFiniteSet(1..f[k]) /\ Cardinality(1..f[k]) = f[k]
  BY FS_Interval
<1>3. IsFiniteSet(column) /\ Cardinality(column) = f[k]
  <2>1. /\ IsFiniteSet(column)
        /\ Cardinality(column) = Cardinality({k}) * Cardinality(1..f[k])
    BY <1>1, <1>2, FS_Product, Zenon
  <2> QED BY <1>1, <1>2, <2>1
<1>4. Units(f, S \cup {k}) = Units(f, S) \cup column
  BY DEF Units
<1>5. Units(f, S) \cap column = {}
  BY DEF Units
<1>6. IsFiniteSet(Units(f, S)) /\ Cardinality(Units(f, S)) \in Nat
  BY UnitsFinite DEF SumOver
<1>7. Cardinality({}) = 0
  BY FS_EmptySet
<1> HIDE DEF column
<1>8. Cardinality(Units(f, S) \cup column) = Cardinality(Units(f, S)) + f[k]
  <2>1. Cardinality(Units(f, S) \cup column)
          = Cardinality(Units(f, S)) + Cardinality(column)
              - Cardinality(Units(f, S) \cap column)
    BY <1>3, <1>6, FS_Union, Zenon
  <2>2. Cardinality(Units(f, S) \cap column) = 0
    BY <1>5, <1>7, Zenon
  <2> QED BY <1>3, <1>6, <2>1, <2>2
<1> QED BY <1>4, <1>8 DEF SumOver

(* A sum is one of its amounts and the sum of the others. *)
LEMMA SumWithout ==
    ASSUME NEW S, IsFiniteSet(S), NEW k \in S, NEW f \in [S -> Nat]
    PROVE  /\ SumOver(f, S \ {k}) \in Nat
           /\ SumOver(f, S) = SumOver(f, S \ {k}) + f[k]
<1>1. IsFiniteSet(S \ {k}) /\ k \notin S \ {k} /\ S = (S \ {k}) \cup {k}
  BY FS_RemoveElement
<1>2. \A x \in S \ {k} : f[x] \in Int
  OBVIOUS
<1>3. SumOver(f, (S \ {k}) \cup {k}) = SumOver(f, S \ {k}) + f[k]
  BY <1>1, <1>2, SumOfOneMore
<1> QED BY <1>1, <1>2, <1>3, UnitsFinite

(* A sum depends on the amounts of its set only. *)
LEMMA SumOfSame ==
    ASSUME NEW S, NEW f, NEW g, \A x \in S : f[x] = g[x]
    PROVE  SumOver(f, S) = SumOver(g, S)
<1>1. \A k \in S : {k} \X (1..f[k]) = {k} \X (1..g[k])
  OBVIOUS
<1>2. {{k} \X (1..f[k]) : k \in S} = {{k} \X (1..g[k]) : k \in S}
  BY <1>1
<1>3. Units(f, S) = Units(g, S)
  BY <1>2 DEF Units
<1> QED BY <1>3 DEF SumOver

(* What one amount of a sum loses or gains, the sum loses or gains. *)
LEMMA SumMovesWithOne ==
    ASSUME NEW S, IsFiniteSet(S), NEW k \in S,
           NEW f \in [S -> Nat], NEW g \in [S -> Nat],
           \A x \in S \ {k} : f[x] = g[x]
    PROVE  SumOver(g, S) - g[k] = SumOver(f, S) - f[k]
<1>1. SumOver(f, S \ {k}) = SumOver(g, S \ {k})
  BY SumOfSame
<1> QED BY <1>1, SumWithout

(* A covered transfer leaves balances. *)
LEMMA TransferLeavesAmounts ==
    ASSUME NEW S, NEW bal \in [S -> Nat], NEW from \in S, NEW to \in S,
           NEW amount \in Nat, Covers(bal, from, amount)
    PROVE  Transfer(bal, from, to, amount) \in [S -> Nat]
<1>1. bal[from] \in Nat /\ bal[from] - amount \in Nat
  BY DEF Covers
<1>2. [bal EXCEPT ![from] = @ - amount] \in [S -> Nat]
  BY <1>1
<1> QED BY <1>2 DEF Transfer

(* A covered transfer creates and destroys nothing, also when an account   *)
(* pays itself.                                                            *)
LEMMA TransferLeavesSum ==
    ASSUME NEW S, IsFiniteSet(S), NEW bal \in [S -> Nat], NEW from \in S, NEW to \in S,
           NEW amount \in Nat, Covers(bal, from, amount)
    PROVE  SumOver(Transfer(bal, from, to, amount), S) = SumOver(bal, S)
<1> DEFINE taken == [bal EXCEPT ![from] = @ - amount]
           after == Transfer(bal, from, to, amount)
<1>1. bal[from] \in Nat /\ bal[from] - amount \in Nat
  BY DEF Covers
<1>2. /\ taken \in [S -> Nat] /\ taken[from] = bal[from] - amount
      /\ \A a \in S \ {from} : bal[a] = taken[a]
  BY <1>1
<1>3. after \in [S -> Nat]
  BY TransferLeavesAmounts
<1>4. /\ after[to] = taken[to] + amount
      /\ \A a \in S \ {to} : taken[a] = after[a]
  BY <1>2 DEF Transfer
<1> HIDE DEF taken, after
<1>5. SumOver(taken, S) - taken[from] = SumOver(bal, S) - bal[from]
  BY <1>2, SumMovesWithOne
<1>6. SumOver(after, S) - after[to] = SumOver(taken, S) - taken[to]
  BY <1>2, <1>3, <1>4, SumMovesWithOne
<1>7. /\ SumOver(after, S) \in Nat /\ SumOver(bal, S) \in Nat
      /\ SumOver(taken, S) \in Nat /\ taken[to] \in Nat
  <2>1. taken[to] \in Nat
    BY <1>2
  <2>2. /\ \A a \in S : bal[a] \in Int
        /\ \A a \in S : taken[a] \in Int
        /\ \A a \in S : after[a] \in Int
    BY <1>2, <1>3
  <2> QED BY <2>1, <2>2, UnitsFinite
<1>8. SumOver(after, S) = SumOver(bal, S)
  BY <1>1, <1>2, <1>4, <1>5, <1>6, <1>7
<1> QED BY <1>8 DEF after

(* An amount is at most the sum it is part of. *)
LEMMA SumBoundsEach ==
    ASSUME NEW S, IsFiniteSet(S), NEW k \in S, NEW f \in [S -> Nat]
    PROVE  f[k] <= SumOver(f, S)
<1>1. f[k] \in Nat /\ SumOver(f, S \ {k}) \in Nat
  BY SumWithout
<1>2. SumOver(f, S) = SumOver(f, S \ {k}) + f[k]
  BY SumWithout
<1> QED BY <1>1, <1>2

(* Nothing anywhere adds up to nothing. *)
LEMMA SumOfZeros ==
    ASSUME NEW S, NEW f, \A x \in S : f[x] = 0
    PROVE  SumOver(f, S) = 0
<1>1. Units(f, S) = {}
  BY DEF Units
<1> QED BY <1>1, FS_EmptySet DEF SumOver

(* The sum over two sets that share nothing. *)
LEMMA SumOfParts ==
    ASSUME NEW S, IsFiniteSet(S), NEW T, IsFiniteSet(T), S \cap T = {}, NEW f,
           \A x \in S \cup T : f[x] \in Int
    PROVE  /\ SumOver(f, S) \in Nat /\ SumOver(f, T) \in Nat
           /\ SumOver(f, S \cup T) = SumOver(f, S) + SumOver(f, T)
<1>1. Units(f, S \cup T) = Units(f, S) \cup Units(f, T)
  BY DEF Units
<1>2. Units(f, S) \cap Units(f, T) = {}
  BY DEF Units
<1>3. /\ IsFiniteSet(Units(f, S)) /\ Cardinality(Units(f, S)) \in Nat
      /\ IsFiniteSet(Units(f, T)) /\ Cardinality(Units(f, T)) \in Nat
  BY UnitsFinite DEF SumOver
<1>4. Cardinality(Units(f, S) \cup Units(f, T))
        = Cardinality(Units(f, S)) + Cardinality(Units(f, T))
            - Cardinality(Units(f, S) \cap Units(f, T))
  BY <1>3, FS_Union, Zenon
<1>5. Cardinality(Units(f, S) \cap Units(f, T)) = 0
  BY <1>2, FS_EmptySet, Zenon
<1>6. Cardinality(Units(f, S) \cup Units(f, T))
        = Cardinality(Units(f, S)) + Cardinality(Units(f, T))
  BY <1>3, <1>4, <1>5
<1> QED BY <1>1, <1>3, <1>6, Zenon DEF SumOver

(* Sums are additive: the units of f + g are those of f, and behind them   *)
(* one for each unit of g.                                                 *)
LEMMA SumOfSums ==
    ASSUME NEW S, IsFiniteSet(S), NEW f \in [S -> Nat], NEW g \in [S -> Nat]
    PROVE  SumOver([k \in S |-> f[k] + g[k]], S) = SumOver(f, S) + SumOver(g, S)
<1> DEFINE h      == [k \in S |-> f[k] + g[k]]
           Behind == Units(h, S) \ Units(f, S)
           Moved  == [unit \in Units(g, S) |-> <<unit[1], f[unit[1]] + unit[2]>>]
<1>1. /\ IsFiniteSet(Units(f, S)) /\ Cardinality(Units(f, S)) \in Nat
      /\ IsFiniteSet(Units(g, S)) /\ Cardinality(Units(g, S)) \in Nat
      /\ IsFiniteSet(Units(h, S)) /\ Cardinality(Units(h, S)) \in Nat
  BY UnitsFinite DEF SumOver
<1>2. ASSUME NEW d \in [S -> Nat], NEW unit
      PROVE  unit \in Units(d, S)
               <=> \E k \in S, n \in Nat \ {0} : n <= d[k] /\ unit = <<k, n>>
  BY DEF Units
<1>3. h \in [S -> Nat] /\ \A k \in S : h[k] = f[k] + g[k]
  OBVIOUS
<1> HIDE DEF h
<1>4. Units(f, S) \subseteq Units(h, S)
  BY <1>2, <1>3
<1>5. \A unit : unit \in Behind
        <=> \E k \in S, n \in Nat \ {0} : f[k] < n /\ n <= f[k] + g[k] /\ unit = <<k, n>>
  BY <1>2, <1>3
<1>6. Moved \in [Units(g, S) -> Behind]
  <2> SUFFICES ASSUME NEW unit \in Units(g, S)
               PROVE  <<unit[1], f[unit[1]] + unit[2]>> \in Behind
    OBVIOUS
  <2>1. PICK k \in S, n \in Nat \ {0} : n <= g[k] /\ unit = <<k, n>>
    BY <1>2
  <2>2. f[k] + n \in Nat \ {0} /\ f[k] < f[k] + n /\ f[k] + n <= f[k] + g[k]
    BY <2>1
  <2> HIDE DEF Behind
  <2> QED BY <1>5, <2>1, <2>2
<1>7. Moved \in Injection(Units(g, S), Behind)
  <2>1. ASSUME NEW x \in Units(g, S), NEW y \in Units(g, S), Moved[x] = Moved[y]
        PROVE  x = y
    <3>1. PICK k \in S, n \in Nat \ {0} : n <= g[k] /\ x = <<k, n>>
      BY <1>2
    <3>2. PICK l \in S, m \in Nat \ {0} : m <= g[l] /\ y = <<l, m>>
      BY <1>2
    <3>3. k = l /\ f[k] + n = f[l] + m
      BY <2>1, <3>1, <3>2
    <3> QED BY <3>1, <3>2, <3>3
  <2> QED BY <1>6, <2>1 DEF Injection, IsInjective
<1>8. Moved \in Surjection(Units(g, S), Behind)
  <2>1. ASSUME NEW y \in Behind PROVE \E x \in Units(g, S) : Moved[x] = y
    <3>1. PICK k \in S, n \in Nat \ {0} :
             f[k] < n /\ n <= f[k] + g[k] /\ y = <<k, n>>
      BY <1>5
    <3>2. n - f[k] \in Nat \ {0} /\ n - f[k] <= g[k] /\ f[k] + (n - f[k]) = n
      BY <3>1
    <3>3. <<k, n - f[k]>> \in Units(g, S)
      BY <1>2, <3>2
    <3>4. Moved[<<k, n - f[k]>>] = y
      BY <3>1, <3>2, <3>3
    <3> QED BY <3>3, <3>4
  <2> QED BY <1>6, <2>1 DEF Surjection
<1> HIDE DEF Moved, Behind
<1>9. IsFiniteSet(Behind) /\ Cardinality(Behind) = Cardinality(Units(g, S))
  <2>1. ExistsBijection(Units(g, S), Behind)
    BY <1>7, <1>8 DEF ExistsBijection, Bijection
  <2> QED BY <1>1, <2>1, FS_Bijection
<1>10. Units(h, S) = Units(f, S) \cup Behind /\ Units(f, S) \cap Behind = {}
  BY <1>4 DEF Behind
<1>11. Cardinality(Units(f, S) \cup Behind)
         = Cardinality(Units(f, S)) + Cardinality(Behind)
             - Cardinality(Units(f, S) \cap Behind)
  BY <1>1, <1>9, FS_Union, Zenon
<1>12. Cardinality(Units(f, S) \cap Behind) = 0
  BY <1>10, FS_EmptySet, Zenon
<1> QED BY <1>1, <1>9, <1>10, <1>11, <1>12 DEF SumOver, h

(* Two pairs of amounts that agree everywhere agree in their sums. *)
LEMMA SumsAgree ==
    ASSUME NEW S, IsFiniteSet(S), NEW f \in [S -> Nat], NEW g \in [S -> Nat],
           NEW p \in [S -> Nat], NEW q \in [S -> Nat],
           \A k \in S : f[k] + g[k] = p[k] + q[k]
    PROVE  SumOver(f, S) + SumOver(g, S) = SumOver(p, S) + SumOver(q, S)
<1>1. [k \in S |-> f[k] + g[k]] = [k \in S |-> p[k] + q[k]]
  OBVIOUS
<1>2. SumOver([k \in S |-> f[k] + g[k]], S) = SumOver(f, S) + SumOver(g, S)
  BY SumOfSums
<1>3. SumOver([k \in S |-> p[k] + q[k]], S) = SumOver(p, S) + SumOver(q, S)
  BY SumOfSums
<1> QED BY <1>1, <1>2, <1>3, Zenon

(* A sum is multiplied with each of its amounts. *)
LEMMA SumScaled ==
    ASSUME NEW S, IsFiniteSet(S), NEW f \in [S -> Nat], NEW c \in Nat
    PROVE  /\ SumOver(f, S) \in Nat
           /\ SumOver([k \in S |-> c * f[k]], S) = c * SumOver(f, S)
<1> DEFINE scaled(n) == [k \in S |-> n * f[k]]
           Scales == {n \in Nat : SumOver(scaled(n), S) = n * SumOver(f, S)}
<1>1. SumOver(f, S) \in Nat
  BY UnitsFinite
<1>2. \A n \in Nat : scaled(n) \in [S -> Nat]
  OBVIOUS
<1>3. 0 \in Scales
  <2>1. SumOver(scaled(0), S) = 0
    BY SumOfZeros
  <2> QED BY <1>1, <2>1
<1>4. ASSUME NEW n \in Nat, n \in Scales PROVE n + 1 \in Scales
  <2>1. \A x \in Nat : (n + 1) * x = n * x + x
    OBVIOUS
  <2>2. \A k \in S : (n + 1) * f[k] = scaled(n)[k] + f[k]
    BY <2>1
  <2>3. scaled(n + 1) = [k \in S |-> scaled(n)[k] + f[k]]
    BY <2>2
  <2>4. SumOver(scaled(n + 1), S) = SumOver(scaled(n), S) + SumOver(f, S)
    BY <1>2, <2>3, SumOfSums
  <2>5. SumOver(scaled(n), S) = n * SumOver(f, S)
    BY <1>4
  <2>6. SumOver(scaled(n + 1), S) = (n + 1) * SumOver(f, S)
    BY <1>1, <2>1, <2>4, <2>5
  <2> QED BY <2>6
<1> HIDE DEF Scales
<1>5. c \in Scales
  BY <1>3, <1>4, NatByStep
<1> QED BY <1>1, <1>5 DEF Scales

(* Larger amounts have the larger sum. *)
LEMMA SumIsMonotone ==
    ASSUME NEW S, IsFiniteSet(S), NEW f \in [S -> Nat], NEW g \in [S -> Nat],
           \A k \in S : f[k] <= g[k]
    PROVE  SumOver(f, S) <= SumOver(g, S)
<1> DEFINE gap == [k \in S |-> g[k] - f[k]]
<1>1. gap \in [S -> Nat]
  OBVIOUS
<1>2. g = [k \in S |-> f[k] + gap[k]]
  OBVIOUS
<1> HIDE DEF gap
<1>3. SumOver(g, S) = SumOver(f, S) + SumOver(gap, S)
  BY <1>1, <1>2, SumOfSums
<1>4. SumOver(f, S) \in Nat /\ SumOver(gap, S) \in Nat
  BY <1>1, UnitsFinite
<1> QED BY <1>3, <1>4

(* A larger set has the larger sum. *)
LEMMA SumOfWider ==
    ASSUME NEW S, IsFiniteSet(S), NEW T, T \subseteq S, NEW f,
           \A x \in S : f[x] \in Int
    PROVE  SumOver(f, T) <= SumOver(f, S)
<1>1. IsFiniteSet(T) /\ IsFiniteSet(S \ T) /\ T \cap (S \ T) = {} /\ T \cup (S \ T) = S
  BY FS_Subset
<1>2. /\ SumOver(f, T) \in Nat /\ SumOver(f, S \ T) \in Nat
      /\ SumOver(f, T \cup (S \ T)) = SumOver(f, T) + SumOver(f, S \ T)
  BY <1>1, SumOfParts
<1>3. SumOver(f, S) = SumOver(f, T) + SumOver(f, S \ T)
  BY <1>1, <1>2, Zenon
<1> QED BY <1>2, <1>3

(* An amount that is the same n times. *)
LEMMA SumOfEqual ==
    ASSUME NEW a \in Nat, NEW n \in Nat, NEW c \in Nat, NEW f,
           \A k \in (a+1)..(a+n) : f[k] = c
    PROVE  SumOver(f, (a+1)..(a+n)) = c * n
<1> DEFINE Good == {m \in Nat : m <= n => SumOver(f, (a+1)..(a+m)) = c * m}
<1>1. 0 \in Good
  <2>1. (a+1)..(a+0) = {}
    OBVIOUS
  <2>2. SumOver(f, (a+1)..(a+0)) = 0
    BY <2>1, SumOfNothing
  <2> QED BY <2>2
<1>2. ASSUME NEW m \in Nat, m \in Good PROVE m + 1 \in Good
  <2> SUFFICES ASSUME m + 1 <= n PROVE SumOver(f, (a+1)..(a+(m+1))) = c * (m + 1)
    OBVIOUS
  <2>1. /\ (a+1)..(a+(m+1)) = ((a+1)..(a+m)) \cup {a+m+1}
        /\ a+m+1 \notin (a+1)..(a+m)
        /\ a+m+1 \in (a+1)..(a+n)
        /\ \A k \in (a+1)..(a+m) : k \in (a+1)..(a+n)
    OBVIOUS
  <2>2. IsFiniteSet((a+1)..(a+m))
    BY FS_Interval
  <2>3. \A k \in (a+1)..(a+m) : f[k] \in Int
    BY <2>1
  <2>4. f[a+m+1] = c
    BY <2>1
  <2>5. SumOver(f, ((a+1)..(a+m)) \cup {a+m+1}) = SumOver(f, (a+1)..(a+m)) + f[a+m+1]
    BY <2>1, <2>2, <2>3, <2>4, SumOfOneMore
  <2>6. SumOver(f, (a+1)..(a+m)) = c * m
    BY <1>2
  <2>7. c * (m + 1) = c * m + c
    OBVIOUS
  <2> QED BY <2>1, <2>4, <2>5, <2>6, <2>7
<1> HIDE DEF Good
<1>3. n \in Good
  BY <1>1, <1>2, NatByStep
<1> QED BY <1>3 DEF Good

-----------------------------------------------------------------------------
(* The walk over the schedule. *)

Schedule == Seq([blockNumber : Nat, multiplier : Nat])

(* The blocks at which the walk can stand before tier n. *)
StartsBefore(tiers, from, n) ==
    {from} \cup {tiers[j].blockNumber + 1 : j \in 1..(n-1)}

(* The walk starts a tier at the last of these blocks. *)
LEMMA TierStartIsLast ==
    ASSUME NEW tiers, NEW from, NEW n, NEW b \in StartsBefore(tiers, from, n),
           StartsBefore(tiers, from, n) \subseteq Nat,
           \A c \in StartsBefore(tiers, from, n) : c <= b
    PROVE  TierStart(tiers, from, n) = b
<1>1. TierStart(tiers, from, n)
        = CHOOSE x \in StartsBefore(tiers, from, n) :
              \A y \in StartsBefore(tiers, from, n) : x >= y
  BY DEF TierStart, Max, StartsBefore
<1>2. \A y \in StartsBefore(tiers, from, n) : b >= y
  OBVIOUS
<1>3. ASSUME NEW x \in StartsBefore(tiers, from, n),
             \A y \in StartsBefore(tiers, from, n) : x >= y
      PROVE  x = b
  <2>1. x >= b /\ b >= x /\ x \in Nat /\ b \in Nat
    BY <1>2, <1>3
  <2> QED BY <2>1
<1> QED BY <1>1, <1>2, <1>3

(* The last of the blocks at which the walk can stand exists. *)
LEMMA StartIsReached ==
    ASSUME NEW tiers \in Schedule, NEW from \in Nat, NEW n \in 0..Len(tiers)
    PROVE  /\ TierStart(tiers, from, n + 1) \in StartsBefore(tiers, from, n + 1)
           /\ TierStart(tiers, from, n + 1) \in Nat
           /\ \A c \in StartsBefore(tiers, from, n + 1) :
                 c \in Nat /\ c <= TierStart(tiers, from, n + 1)
<1> DEFINE Starts(m)  == StartsBefore(tiers, from, m + 1)
           HasLast(m) == \E b \in Starts(m) : \A c \in Starts(m) : c <= b
           Reached    == {m \in Nat : m <= Len(tiers) => HasLast(m)}
<1>1. /\ DOMAIN tiers = 1..Len(tiers) /\ Len(tiers) \in Nat
      /\ \A i \in 1..Len(tiers) : tiers[i] \in [blockNumber : Nat, multiplier : Nat]
  BY RowsOfSequence DEF Schedule
<1>2. \A m \in Nat : Starts(m) = {from} \cup {tiers[j].blockNumber + 1 : j \in 1..m}
  <2>1. \A m \in Nat : (m + 1) - 1 = m
    OBVIOUS
  <2> QED BY <2>1 DEF StartsBefore
<1>3. ASSUME NEW m \in Nat, m <= Len(tiers) PROVE Starts(m) \subseteq Nat
  <2>1. \A j \in 1..m : j \in 1..Len(tiers)
    BY <1>1, <1>3
  <2>2. \A j \in 1..m : tiers[j].blockNumber + 1 \in Nat
    BY <1>1, <2>1
  <2> QED BY <1>2, <2>2
<1> HIDE DEF Starts
<1>4. 0 \in Reached
  <2>1. Starts(0) = {from}
    BY <1>2
  <2> QED BY <2>1
<1>5. ASSUME NEW m \in Nat, m \in Reached PROVE m + 1 \in Reached
  <2>0. m + 1 \in Nat
    OBVIOUS
  <2> SUFFICES ASSUME m + 1 <= Len(tiers) PROVE HasLast(m + 1)
    BY <2>0, Zenon
  <2>1. m <= Len(tiers) /\ m + 1 \in 1..Len(tiers) /\ m + 1 \in Nat
    BY <1>1
  <2>2. PICK b \in Starts(m) : \A c \in Starts(m) : c <= b
    BY <1>5, <2>1
  <2> DEFINE next == tiers[m+1].blockNumber + 1
  <2>3. Starts(m + 1) = Starts(m) \cup {next}
    <3>1. 1..(m+1) = (1..m) \cup {m+1}
      OBVIOUS
    <3> QED BY <1>2, <2>1, <3>1
  <2>4. next \in Nat /\ b \in Nat /\ Starts(m) \subseteq Nat
    BY <1>1, <1>3, <2>1
  <2> HIDE DEF next
  <2>5. CASE b <= next
    <3>1. \A c \in Starts(m + 1) : c <= next
      BY <2>2, <2>3, <2>4, <2>5
    <3> QED BY <2>3, <3>1
  <2>6. CASE next <= b
    <3>1. \A c \in Starts(m + 1) : c <= b
      BY <2>2, <2>3, <2>4, <2>6
    <3> QED BY <2>2, <2>3, <3>1
  <2> QED BY <2>4, <2>5, <2>6
<1> HIDE DEF Reached
<1>6. n \in Reached
  BY <1>4, <1>5, NatByStep
<1>7. n \in Nat /\ n <= Len(tiers)
  BY <1>1
<1>8. PICK b \in Starts(n) : \A c \in Starts(n) : c <= b
  BY <1>6, <1>7 DEF Reached
<1>9. Starts(n) \subseteq Nat
  BY <1>3, <1>7
<1>10. TierStart(tiers, from, n + 1) = b
  BY <1>8, <1>9, TierStartIsLast DEF Starts
<1> QED BY <1>8, <1>9, <1>10 DEF Starts

(* What a schedule emits in block b: the rate times the multiplier of the  *)
(* first tier that reaches b.                                              *)
EmissionAt(tiers, rate, b) ==
    LET reaching == {i \in DOMAIN tiers : b <= tiers[i].blockNumber}
    IN  IF reaching = {} THEN 0 ELSE rate * tiers[Min(reaching)].multiplier

EmissionIn(tiers, rate, blocks) ==
    SumOver([b \in blocks |-> EmissionAt(tiers, rate, b)], blocks)

(* An emission is an amount. *)
LEMMA EmissionIsAmount ==
    ASSUME NEW tiers \in Schedule, NEW rate \in Nat, NEW b \in Int
    PROVE  EmissionAt(tiers, rate, b) \in Nat
<1> DEFINE reaching == {i \in DOMAIN tiers : b <= tiers[i].blockNumber}
<1>1. CASE reaching = {}
  BY <1>1 DEF EmissionAt
<1>2. CASE reaching # {}
  <2>1. DOMAIN tiers = 1..Len(tiers)
        /\ \A i \in 1..Len(tiers) : tiers[i] \in [blockNumber : Nat, multiplier : Nat]
    BY RowsOfSequence DEF Schedule
  <2>2. reaching \subseteq Nat
    BY <2>1
  <2>3. Min(reaching) \in DOMAIN tiers
    BY <1>2, <2>2, MinOfNats
  <2>4. tiers[Min(reaching)].multiplier \in Nat
    BY <2>1, <2>3
  <2>5. EmissionAt(tiers, rate, b) = rate * tiers[Min(reaching)].multiplier
    BY <1>2 DEF EmissionAt
  <2> HIDE DEF reaching
  <2>6. \A m \in Nat : rate * m \in Nat
    OBVIOUS
  <2> QED BY <2>4, <2>5, <2>6
<1> QED BY <1>1, <1>2

(* A block that tier n is the first to reach is paid at its multiplier. *)
LEMMA EmissionOfTier ==
    ASSUME NEW tiers \in Schedule, NEW rate \in Nat, NEW n \in 1..Len(tiers), NEW b \in Int,
           \A j \in 1..(n-1) : tiers[j].blockNumber < b, b <= tiers[n].blockNumber
    PROVE  EmissionAt(tiers, rate, b) = rate * tiers[n].multiplier
<1> DEFINE reaching == {i \in DOMAIN tiers : b <= tiers[i].blockNumber}
<1>1. DOMAIN tiers = 1..Len(tiers) /\ Len(tiers) \in Nat
      /\ \A i \in 1..Len(tiers) : tiers[i] \in [blockNumber : Nat, multiplier : Nat]
  BY RowsOfSequence DEF Schedule
<1>2. n \in reaching /\ reaching \subseteq Nat
  BY <1>1
<1>3. ASSUME NEW i \in reaching PROVE n <= i
  <2>1. i \in 1..Len(tiers) /\ tiers[i].blockNumber \in Nat /\ b <= tiers[i].blockNumber
    BY <1>1
  <2>2. i \in 1..(n-1) => tiers[i].blockNumber < b
    OBVIOUS
  <2>3. i \notin 1..(n-1)
    BY <2>1, <2>2
  <2> QED BY <1>1, <2>1, <2>3
<1> HIDE DEF reaching
<1>4. Min(reaching) \in reaching /\ Min(reaching) <= n
  BY <1>2, MinOfNats
<1>5. Min(reaching) = n
  <2>1. PICK m \in Nat : m = Min(reaching)
    BY <1>2, <1>4
  <2>2. n \in Nat /\ m <= n /\ n <= m
    BY <1>2, <1>3, <1>4, <2>1
  <2> QED BY <2>1, <2>2
<1> QED BY <1>2, <1>5 DEF EmissionAt, reaching

(* Blocks that tier n is the first to reach. *)
LEMMA EmissionWithinTier ==
    ASSUME NEW tiers \in Schedule, NEW rate \in Nat, NEW n \in 1..Len(tiers),
           NEW a \in Nat, NEW b \in Nat, a <= b, b <= tiers[n].blockNumber,
           \A j \in 1..(n-1) : tiers[j].blockNumber <= a
    PROVE  EmissionIn(tiers, rate, (a+1)..b) = (rate * tiers[n].multiplier) * (b - a)
<1> DEFINE f == [k \in (a+1)..b |-> EmissionAt(tiers, rate, k)]
           c == rate * tiers[n].multiplier
<1>1. /\ DOMAIN tiers = 1..Len(tiers) /\ Len(tiers) \in Nat
      /\ \A i \in 1..Len(tiers) : tiers[i] \in [blockNumber : Nat, multiplier : Nat]
  BY RowsOfSequence DEF Schedule
<1>2. c \in Nat
  <2>1. tiers[n].multiplier \in Nat
    BY <1>1
  <2> QED BY <2>1
<1>3. ASSUME NEW k \in (a+1)..b PROVE f[k] = c
  <2>1. k \in Int /\ a < k /\ k <= b
    OBVIOUS
  <2>2. tiers[n].blockNumber \in Nat
    BY <1>1
  <2>3. k <= tiers[n].blockNumber
    BY <2>1, <2>2
  <2>4. \A j \in 1..(n-1) : tiers[j].blockNumber < k
    <3> SUFFICES ASSUME NEW j \in 1..(n-1) PROVE tiers[j].blockNumber < k
      OBVIOUS
    <3>1. j \in 1..Len(tiers)
      BY <1>1
    <3>2. tiers[j].blockNumber \in Nat /\ tiers[j].blockNumber <= a
      BY <1>1, <3>1
    <3> QED BY <2>1, <3>2
  <2> QED BY <2>1, <2>3, <2>4, EmissionOfTier
<1>4. b - a \in Nat /\ a + (b - a) = b
  OBVIOUS
<1> HIDE DEF f, c
<1>5. SumOver(f, (a+1)..(a+(b-a))) = c * (b - a)
  <2>1. PICK m \in Nat : m = b - a
    BY <1>4
  <2>2. \A k \in (a+1)..(a+m) : f[k] = c
    BY <1>3, <1>4, <2>1
  <2>3. SumOver(f, (a+1)..(a+m)) = c * m
    BY <1>2, <2>2, SumOfEqual
  <2> QED BY <2>1, <2>3
<1> QED BY <1>4, <1>5 DEF EmissionIn, f, c

(* What is emitted in the blocks up to b, split at a. *)
LEMMA EmissionSplits ==
    ASSUME NEW tiers \in Schedule, NEW rate \in Nat,
           NEW from \in Nat, NEW a \in Nat, NEW b \in Nat, a <= b
    PROVE  /\ EmissionIn(tiers, rate, (from+1)..a) \in Nat
           /\ EmissionIn(tiers, rate, (from+1)..b) \in Nat
           /\ EmissionIn(tiers, rate, (from+1)..a) <= EmissionIn(tiers, rate, (from+1)..b)
           /\ from <= a => EmissionIn(tiers, rate, (from+1)..b)
                  = EmissionIn(tiers, rate, (from+1)..a) + EmissionIn(tiers, rate, (a+1)..b)
<1> DEFINE F(S) == [k \in S |-> EmissionAt(tiers, rate, k)]
           f    == F((from+1)..b)
<1>1. \A k \in Int : EmissionAt(tiers, rate, k) \in Nat
  BY EmissionIsAmount
<1>2. \A k \in (from+1)..b : f[k] \in Int
  BY <1>1
<1>3. IsFiniteSet((from+1)..b) /\ IsFiniteSet((from+1)..a) /\ IsFiniteSet((a+1)..b)
  BY FS_Interval
<1>4. (from+1)..a \subseteq (from+1)..b
  OBVIOUS
<1>5. EmissionIn(tiers, rate, (from+1)..a) = SumOver(f, (from+1)..a)
  <2>1. \A k \in (from+1)..a : F((from+1)..a)[k] = f[k]
    BY <1>4
  <2> QED BY <2>1, SumOfSame DEF EmissionIn
<1>6. EmissionIn(tiers, rate, (from+1)..b) = SumOver(f, (from+1)..b)
  BY DEF EmissionIn
<1>7. from <= a => SumOver(f, (from+1)..b)
                     = SumOver(f, (from+1)..a) + EmissionIn(tiers, rate, (a+1)..b)
  <2> SUFFICES ASSUME from <= a
               PROVE  SumOver(f, (from+1)..b)
                        = SumOver(f, (from+1)..a) + EmissionIn(tiers, rate, (a+1)..b)
    OBVIOUS
  <2>1. /\ (from+1)..b = ((from+1)..a) \cup ((a+1)..b)
        /\ ((from+1)..a) \cap ((a+1)..b) = {}
        /\ \A k \in (a+1)..b : k \in (from+1)..b
    OBVIOUS
  <2>2. \A k \in (a+1)..b : F((a+1)..b)[k] = f[k]
    BY <2>1
  <2>3. EmissionIn(tiers, rate, (a+1)..b) = SumOver(f, (a+1)..b)
    BY <2>2, SumOfSame DEF EmissionIn
  <2>4. \A k \in ((from+1)..a) \cup ((a+1)..b) : f[k] \in Int
    BY <1>2, <2>1
  <2> HIDE DEF f
  <2>5. SumOver(f, ((from+1)..a) \cup ((a+1)..b))
          = SumOver(f, (from+1)..a) + SumOver(f, (a+1)..b)
    BY <1>3, <2>1, <2>4, SumOfParts
  <2> QED BY <2>1, <2>3, <2>5, Zenon
<1>8. SumOver(f, (from+1)..a) <= SumOver(f, (from+1)..b)
  BY <1>2, <1>3, <1>4, SumOfWider
<1>9. SumOver(f, (from+1)..a) \in Nat /\ SumOver(f, (from+1)..b) \in Nat
  BY <1>2, <1>3, <1>4, UnitsFinite
<1> HIDE DEF f
<1> QED BY <1>5, <1>6, <1>7, <1>8, <1>9

(* Rounding down never adds. *)
LEMMA QuotientTimes ==
    ASSUME NEW a \in Nat, NEW b \in Nat \ {0}
    PROVE  a \div b \in Nat /\ (a \div b) * b <= a
<1>1. a = b * (a \div b) + (a % b) /\ a % b \in Nat /\ a \div b \in Nat
  OBVIOUS
<1> QED BY <1>1

(* What tier n adds to the index. *)
TermOf(tiers, rate, total, from, to, n) ==
    TierEmission(tiers, rate, from, to, n) \div total

(* What one tier of the walk pays: nothing, or at most what is emitted in  *)
(* the blocks from where the walk stands to the end of the tier.           *)
LEMMA TierPaysItsBlocks ==
    ASSUME NEW tiers \in Schedule, NEW rate \in Nat, NEW total \in Nat \ {0},
           NEW from \in Nat, NEW to \in Nat, NEW n \in 1..Len(tiers),
           AccrualFits(tiers, rate, total, from, to)
    PROVE  LET start == TierStart(tiers, from, n)
               term  == TermOf(tiers, rate, total, from, to, n)
           IN  \/ term = 0
               \/ \E end \in Nat :
                     /\ start <= end /\ end <= to /\ end <= tiers[n].blockNumber
                     /\ term \in Nat
                     /\ term * total
                          <= MULTIPLIER * EmissionIn(tiers, rate, (start+1)..end)
<1> DEFINE start == TierStart(tiers, from, n)
           term  == TermOf(tiers, rate, total, from, to, n)
           c     == rate * tiers[n].multiplier
<1>1. /\ DOMAIN tiers = 1..Len(tiers) /\ Len(tiers) \in Nat
      /\ \A i \in 1..Len(tiers) : tiers[i] \in [blockNumber : Nat, multiplier : Nat]
  BY RowsOfSequence DEF Schedule
<1>2. tiers[n].blockNumber \in Nat /\ tiers[n].multiplier \in Nat
  BY <1>1
<1>3. c \in Nat
  BY <1>2
<1>4. /\ start \in Nat
      /\ \A b \in StartsBefore(tiers, from, n) : b \in Nat /\ b <= start
  <2>1. n - 1 \in 0..Len(tiers) /\ (n - 1) + 1 = n
    BY <1>1
  <2> QED BY <2>1, StartIsReached
<1>5. CASE TierBlocks(tiers, from, to, n) = 0
  <2>1. TierEmission(tiers, rate, from, to, n) = 0
    BY <1>3, <1>5 DEF TierEmission, MULTIPLIER
  <2>2. 0 \div total = 0
    OBVIOUS
  <2> QED BY <2>1, <2>2 DEF TermOf
<1>6. CASE TierBlocks(tiers, from, to, n) # 0
  <2> DEFINE end == Min({to, tiers[n].blockNumber})
  <2>1. TierVisited(tiers, to, n) /\ start <= tiers[n].blockNumber
    BY <1>6 DEF TierBlocks
  <2>2. TierBlocks(tiers, from, to, n) = end - start
    BY <2>1 DEF TierBlocks
  <2>3. end \in Nat /\ start <= end /\ end <= to /\ end <= tiers[n].blockNumber
    <3>1. CASE to <= tiers[n].blockNumber
      <4>1. end = to
        BY <1>2, <3>1, MinOfTwo
      <4>2. start <= to
        BY <1>1, <2>1, <3>1 DEF AccrualFits
      <4> QED BY <3>1, <4>1, <4>2
    <3>2. CASE tiers[n].blockNumber <= to
      <4>1. end = tiers[n].blockNumber
        BY <1>2, <3>2, MinOfTwo
      <4> QED BY <1>2, <2>1, <3>2, <4>1
    <3> QED BY <1>2, <3>1, <3>2
  <2> HIDE DEF end
  <2>4. \A j \in 1..(n-1) : tiers[j].blockNumber <= start
    <3> SUFFICES ASSUME NEW j \in 1..(n-1) PROVE tiers[j].blockNumber <= start
      OBVIOUS
    <3>1. j \in 1..Len(tiers)
      BY <1>1
    <3>2. tiers[j].blockNumber \in Nat
      BY <1>1, <3>1
    <3>3. tiers[j].blockNumber + 1 <= start
      BY <1>4 DEF StartsBefore
    <3> QED BY <1>4, <3>2, <3>3
  <2> HIDE DEF start
  <2>5. EmissionIn(tiers, rate, (start+1)..end) = c * (end - start)
    <3>1. PICK s \in Nat, e \in Nat : s = start /\ e = end
      BY <1>4, <2>3
    <3>2. s <= e /\ e <= tiers[n].blockNumber /\ \A j \in 1..(n-1) : tiers[j].blockNumber <= s
      BY <2>3, <2>4, <3>1
    <3>3. EmissionIn(tiers, rate, (s+1)..e) = (rate * tiers[n].multiplier) * (e - s)
      <4>1. \A a \in Nat, b \in Nat :
              /\ a <= b /\ b <= tiers[n].blockNumber
              /\ \A j \in 1..(n-1) : tiers[j].blockNumber <= a
              => EmissionIn(tiers, rate, (a+1)..b) = (rate * tiers[n].multiplier) * (b - a)
        BY EmissionWithinTier, SMTT(30)
      <4> QED BY <3>2, <4>1, Zenon
    <3> QED BY <3>1, <3>3, Zenon
  <2> HIDE DEF c
  <2>6. TierEmission(tiers, rate, from, to, n) = MULTIPLIER * (c * (end - start))
    <3>1. TierEmission(tiers, rate, from, to, n) = c * (end - start) * 1000
      BY <2>2 DEF TierEmission, MULTIPLIER, c
    <3>2. c * (end - start) \in Int
      BY <1>3, <1>4, <2>3
    <3> QED BY <3>1, <3>2 DEF MULTIPLIER
  <2>7. MULTIPLIER * (c * (end - start)) \in Nat
    <3>1. end - start \in Nat
      BY <1>4, <2>3
    <3> QED BY <1>3, <3>1 DEF MULTIPLIER
  <2>8. term \in Nat /\ term * total <= MULTIPLIER * (c * (end - start))
    BY <2>6, <2>7, QuotientTimes DEF TermOf
  <2>9. term * total <= MULTIPLIER * EmissionIn(tiers, rate, (start+1)..end)
    BY <2>5, <2>8
  <2> HIDE DEF term
  <2> QED BY <2>3, <2>8, <2>9 DEF start, term
<1> QED BY <1>5, <1>6

(* However the tiers are ordered, the growth of the index times the total  *)
(* is at most what the schedule emits in the blocks walked over.           *)
LEMMA PaidWithinEmission ==
    ASSUME NEW tiers \in Schedule, NEW rate \in Nat, NEW total \in Nat \ {0},
           NEW from \in Nat, NEW to \in Nat,
           AccrualFits(tiers, rate, total, from, to)
    PROVE  /\ Accrual(tiers, rate, total, from, to) \in Nat
           /\ Accrual(tiers, rate, total, from, to) * total
                <= MULTIPLIER * EmissionIn(tiers, rate, (from+1)..to)
<1> DEFINE Term(n)  == TermOf(tiers, rate, total, from, to, n)
           terms    == [n \in DOMAIN tiers |-> Term(n)]
           Start(n) == TierStart(tiers, from, n)
           E(m)     == EmissionIn(tiers, rate, (from+1)..m)
           Paid(n)  == \E m \in Nat :
                          /\ m <= to /\ m <= Start(n + 1)
                          /\ SumOver(terms, 1..n) * total <= MULTIPLIER * E(m)
           Within   == {n \in Nat : n <= Len(tiers) => Paid(n)}
<1>1. /\ DOMAIN tiers = 1..Len(tiers) /\ Len(tiers) \in Nat
      /\ \A i \in 1..Len(tiers) : tiers[i] \in [blockNumber : Nat, multiplier : Nat]
  BY RowsOfSequence DEF Schedule
<1>2. \A n \in 0..Len(tiers) :
         /\ Start(n + 1) \in Nat
         /\ \A c \in StartsBefore(tiers, from, n + 1) : c \in Nat /\ c <= Start(n + 1)
  BY StartIsReached
<1>3. \A n \in 1..Len(tiers) :
         \/ Term(n) = 0
         \/ \E end \in Nat :
               /\ Start(n) <= end /\ end <= to /\ end <= tiers[n].blockNumber
               /\ Term(n) \in Nat
               /\ Term(n) * total <= MULTIPLIER * EmissionIn(tiers, rate, (Start(n)+1)..end)
  BY TierPaysItsBlocks
<1>4. \A n \in 1..Len(tiers) : terms[n] = Term(n) /\ Term(n) \in Nat
  BY <1>1, <1>3
<1>5. /\ \A m \in Nat : E(m) \in Nat
      /\ \A l \in Nat, m \in Nat : l <= m => E(l) <= E(m)
      /\ \A l \in Nat, m \in Nat :
            from <= l /\ l <= m => E(m) = E(l) + EmissionIn(tiers, rate, (l+1)..m)
  BY EmissionSplits
<1> HIDE DEF Term, Start, E
<1>6. ASSUME NEW n \in Nat, n <= Len(tiers) PROVE SumOver(terms, 1..n) \in Nat
  <2>1. IsFiniteSet(1..n)
    BY FS_Interval
  <2>2. \A j \in 1..n : terms[j] \in Int
    BY <1>1, <1>4, <1>6
  <2> QED BY <2>1, <2>2, UnitsFinite
<1> HIDE DEF terms
<1>7. 0 \in Within
  <2>1. SumOver(terms, 1..0) = 0
    <3>1. 1..0 = {}
      OBVIOUS
    <3> QED BY <3>1, SumOfNothing
  <2>2. 0 \in 0..Len(tiers) /\ 0 \in Nat
    BY <1>1
  <2>3. 0 <= Start(0 + 1) /\ E(0) \in Nat
    BY <1>2, <1>5, <2>2
  <2>4. SumOver(terms, 1..0) * total <= MULTIPLIER * E(0)
    BY <2>1, <2>3 DEF MULTIPLIER
  <2>5. Paid(0)
    BY <2>3, <2>4
  <2> QED BY <2>5
<1>8. ASSUME NEW n \in Nat, n \in Within PROVE n + 1 \in Within
  <2>0. n + 1 \in Nat
    OBVIOUS
  <2> SUFFICES ASSUME n + 1 <= Len(tiers) PROVE Paid(n + 1)
    BY <2>0, Zenon
  <2>1. n \in 0..Len(tiers) /\ n + 1 \in 0..Len(tiers) /\ n + 1 \in 1..Len(tiers)
    BY <1>1
  <2>2. PICK m \in Nat : /\ m <= to /\ m <= Start(n + 1)
                        /\ SumOver(terms, 1..n) * total <= MULTIPLIER * E(m)
    BY <1>8, <2>1
  <2>3. SumOver(terms, 1..(n+1)) = SumOver(terms, 1..n) + Term(n + 1)
    <3>1. 1..(n+1) = (1..n) \cup {n+1} /\ n + 1 \notin 1..n
      OBVIOUS
    <3>2. IsFiniteSet(1..n)
      BY FS_Interval
    <3>3. \A j \in 1..n : terms[j] \in Int
      <4>1. \A j \in 1..n : j \in 1..Len(tiers)
        BY <1>1, <2>1
      <4>2. \A i \in 1..Len(tiers) : terms[i] \in Nat
        BY <1>4
      <4> QED BY <4>1, <4>2
    <3>4. terms[n+1] = Term(n + 1) /\ terms[n+1] \in Nat
      BY <1>4, <2>1
    <3>5. SumOver(terms, (1..n) \cup {n+1}) = SumOver(terms, 1..n) + terms[n+1]
      BY <3>1, <3>2, <3>3, <3>4, SumOfOneMore, Zenon
    <3> QED BY <3>1, <3>4, <3>5
  <2>4. Start(n + 1) \in Nat /\ Start((n + 1) + 1) \in Nat /\ from <= Start(n + 1)
    BY <1>2, <2>1 DEF StartsBefore
  <2>5. Start(n + 1) <= Start((n + 1) + 1) /\ tiers[n+1].blockNumber < Start((n + 1) + 1)
    <3>1. StartsBefore(tiers, from, n + 1) \subseteq StartsBefore(tiers, from, (n + 1) + 1)
      BY DEF StartsBefore
    <3>2. Start(n + 1) \in StartsBefore(tiers, from, n + 1)
      BY <2>1, StartIsReached DEF Start
    <3>3. tiers[n+1].blockNumber + 1 \in StartsBefore(tiers, from, (n + 1) + 1)
      BY DEF StartsBefore
    <3>4. tiers[n+1].blockNumber \in Nat
      BY <1>1, <2>1
    <3>5. \A c \in StartsBefore(tiers, from, (n + 1) + 1) :
             c \in Nat /\ c <= Start((n + 1) + 1)
      BY <1>2, <2>1
    <3> QED BY <2>4, <3>1, <3>2, <3>3, <3>4, <3>5
  <2>6. CASE Term(n + 1) = 0
    <3>1. SumOver(terms, 1..n) \in Nat
      BY <1>6, <2>1
    <3>2. SumOver(terms, 1..(n+1)) = SumOver(terms, 1..n)
      BY <2>3, <2>6, <3>1
    <3> QED BY <2>2, <2>4, <2>5, <3>2
  <2>7. CASE \E end \in Nat :
               /\ Start(n + 1) <= end /\ end <= to /\ end <= tiers[n+1].blockNumber
               /\ Term(n + 1) \in Nat
               /\ Term(n + 1) * total
                    <= MULTIPLIER * EmissionIn(tiers, rate, (Start(n+1)+1)..end)
    <3>1. PICK end \in Nat :
               /\ Start(n + 1) <= end /\ end <= to /\ end <= tiers[n+1].blockNumber
               /\ Term(n + 1) \in Nat
               /\ Term(n + 1) * total
                    <= MULTIPLIER * EmissionIn(tiers, rate, (Start(n+1)+1)..end)
      BY <2>7
    <3> DEFINE s == Start(n + 1)
               x == SumOver(terms, 1..n)
               y == Term(n + 1)
               e == EmissionIn(tiers, rate, (s+1)..end)
    <3>2. s \in Nat /\ from <= s /\ s <= end /\ m <= s
      BY <2>2, <2>4, <3>1
    <3>3. E(end) = E(s) + e /\ E(m) <= E(s)
      BY <1>5, <3>2
    <3>4. E(m) \in Nat /\ E(s) \in Nat /\ E(end) \in Nat
      BY <1>5, <3>2
    <3>5. x \in Nat /\ y \in Nat
      BY <1>6, <2>1, <3>1
    <3>6. x * total <= MULTIPLIER * E(m) /\ y * total <= MULTIPLIER * e
      BY <2>2, <3>1
    <3> HIDE DEF x, y, e, s
    <3>7. e \in Int
      BY <3>3, <3>4, EmissionSplits, <3>2 DEF e
    <3>8. (x + y) * total <= MULTIPLIER * E(end)
      <4>1. (x + y) * total = x * total + y * total
        BY <3>5
      <4>2. PICK p \in Nat, q \in Nat : p = x * total /\ q = y * total
        BY <3>5
      <4>3. \A i \in Nat, j \in Nat, k \in Int :
              p <= MULTIPLIER * i /\ i <= j /\ q <= MULTIPLIER * k
                => p + q <= MULTIPLIER * (j + k)
        BY <4>2 DEF MULTIPLIER
      <4>4. p + q <= MULTIPLIER * (E(s) + e)
        BY <3>3, <3>4, <3>6, <3>7, <4>2, <4>3, Zenon
      <4> QED BY <3>3, <4>1, <4>2, <4>4, Zenon
    <3>9. end <= Start((n + 1) + 1)
      <4>1. tiers[n+1].blockNumber \in Nat
        BY <1>1, <2>1
      <4> QED BY <2>4, <2>5, <3>1, <4>1
    <3>10. SumOver(terms, 1..(n+1)) * total <= MULTIPLIER * E(end)
      BY <2>3, <3>8 DEF x, y
    <3> QED BY <3>1, <3>9, <3>10
  <2> QED BY <1>3, <2>1, <2>6, <2>7
<1> HIDE DEF Within
<1>9. Len(tiers) \in Within
  BY <1>1, <1>7, <1>8, NatByStep
<1> HIDE DEF Paid
<1>10. Paid(Len(tiers))
  BY <1>1, <1>9 DEF Within
<1>11. PICK m \in Nat : /\ m <= to
                       /\ SumOver(terms, 1..Len(tiers)) * total <= MULTIPLIER * E(m)
  BY <1>10 DEF Paid
<1>12. E(m) <= E(to) /\ E(m) \in Nat /\ E(to) \in Nat
  BY <1>5, <1>11
<1>13. SumOver(terms, 1..Len(tiers)) \in Nat
  BY <1>1, <1>6
<1>14. SumOver(terms, 1..Len(tiers)) * total <= MULTIPLIER * E(to)
  <2>1. SumOver(terms, 1..Len(tiers)) * total \in Nat
    BY <1>13
  <2> QED BY <1>11, <1>12, <2>1 DEF MULTIPLIER
<1>15. Accrual(tiers, rate, total, from, to) = SumOver(terms, 1..Len(tiers))
  BY <1>1, Zenon DEF Accrual, terms, Term, TermOf
<1> QED BY <1>13, <1>14, <1>15 DEF E

-----------------------------------------------------------------------------
(* Fees. *)

Fees     == Seq([blockNumber : Nat, fee : Nat])
Deposits == Seq([blockNumber : Nat, amount : Nat])

(* A fee is an amount, whatever the rate and the percentage. *)
LEMMA ThousandthsAreTyped ==
    ASSUME NEW percent \in Nat
    PROVE  Thousandths(percent) \in Nat
BY DEF Thousandths, MULTIPLIER

LEMMA FeeIsAmount ==
    ASSUME NEW amount \in Nat, NEW rate \in Nat
    PROVE  /\ FeeAmount(amount, rate) \in Nat
           /\ FeeAmount(amount, Thousandths(rate)) \in Nat
<1>1. ASSUME NEW p \in Nat PROVE amount * p \in Nat
  OBVIOUS
<1>2. ASSUME NEW n \in Nat PROVE n \div 1000 \in Nat
  OBVIOUS
<1>3. Thousandths(rate) \in Nat
  BY ThousandthsAreTyped
<1> QED BY <1>1, <1>2, <1>3 DEF FeeAmount, MULTIPLIER

(* The conversion to 64 bits of an amount is an amount, and no larger. *)
LEMMA ToUint64IsBelow == \A n \in Nat : ToUint64(n) \in Nat /\ ToUint64(n) <= n
<1>1. \A n \in Nat, m \in Nat \ {0} : n % m \in Nat /\ n % m <= n
  OBVIOUS
<1>2. MaxUint64 + 1 \in Nat \ {0}
  BY WidthAssumption
<1> QED BY <1>1, <1>2 DEF ToUint64

(* The fee looked up for a block is one of the table, or 0. *)
LEMMA WithdrawFeeIsPercentage ==
    ASSUME NEW fees \in Fees, NEW blockNumber \in Nat
    PROVE  CalcWithdrawFeePerBlock(fees, blockNumber) \in Nat
<1> DEFINE rows == {i \in DOMAIN fees : blockNumber < fees[i].blockNumber}
<1>1. CASE rows = {}
  BY <1>1 DEF CalcWithdrawFeePerBlock
<1>2. CASE rows # {}
  <2>1. rows \subseteq Nat
    BY RowsOfSequence DEF Fees
  <2>2. Min(rows) \in DOMAIN fees
    BY <1>2, <2>1, MinOfNats
  <2>3. fees[Min(rows)] \in [blockNumber : Nat, fee : Nat]
    BY <2>2, RowsOfSequence DEF Fees
  <2> QED BY <1>2, <2>3 DEF CalcWithdrawFeePerBlock
<1> QED BY <1>1, <1>2

(* What withdraw charges is a rate, and at most the one it was cut from. *)
LEMMA WithdrawFeeRateIsTyped ==
    ASSUME NEW fees \in Fees, NEW blockNumber \in Nat
    PROVE  /\ WithdrawFeeRate(fees, blockNumber) \in Nat
           /\ WithdrawFeeRate(fees, blockNumber)
                <= Thousandths(CalcWithdrawFeePerBlock(fees, blockNumber))
<1>1. Thousandths(CalcWithdrawFeePerBlock(fees, blockNumber)) \in Nat
  BY WithdrawFeeIsPercentage, ThousandthsAreTyped
<1> QED BY <1>1, ToUint64IsBelow DEF WithdrawFeeRate

(* What a deposit is worth after its fee is at most its amount. *)
LEMMA NetIsBelowAmount ==
    ASSUME NEW fees \in Fees, NEW deposit \in [blockNumber : Nat, amount : Nat]
    PROVE  /\ DepositFeeAmount(deposit, fees) \in Nat
           /\ NetAmount(deposit, fees) \in Int
           /\ NetAmount(deposit, fees) <= deposit.amount
<1>1. WithdrawFeeRate(fees, deposit.blockNumber) \in Nat
  BY WithdrawFeeRateIsTyped
<1>2. DepositFeeAmount(deposit, fees) \in Nat
  BY <1>1, FeeIsAmount DEF DepositFeeAmount
<1> QED BY <1>2 DEF NetAmount

-----------------------------------------------------------------------------
(* Withdrawals. *)

(* No emptied deposit is worth less than nothing. *)
NetsFit(deposits, fees, first, k) ==
    \A i \in first..k : NetAmount(deposits[i], fees) >= 0

(* What a withdrawal that does not revert knows of the deposits it empties. *)
LEMMA FittingNets ==
    ASSUME NEW deposits, NEW fees, NEW first, NEW k \in Int, NEW rest,
           FeesFit(deposits, fees, first, k, rest)
    PROVE  NetsFit(deposits, fees, first, k)
<1>1. \A i \in first..k : i \in first..(IF rest = 0 THEN k ELSE k + 1)
  OBVIOUS
<1> QED BY <1>1 DEF FeesFit, FeeFits, NetsFit

(* What is left to pay after the emptied deposits is never negative, and   *)
(* the deposit that pays it in part holds that much.                       *)
LEMMA RemainderIsCovered ==
    ASSUME NEW deposits \in Deposits, NEW fees \in Fees,
           NEW first \in Nat \ {0}, NEW amount \in Nat,
           NEW k \in (first - 1)..Len(deposits),
           DrainsThrough(deposits, fees, first, amount, k),
           NetsFit(deposits, fees, first, k)
    PROVE  LET rest == Remainder(deposits, fees, first, amount, k)
           IN  /\ rest \in Nat
               /\ k = Len(deposits) => rest = 0
               /\ k < Len(deposits) => rest <= deposits[k+1].amount
<1> DEFINE nets == NetAmounts(deposits, fees)
           paid(j) == SumOver(nets, first..j)
<1>0. /\ DOMAIN deposits = 1..Len(deposits) /\ Len(deposits) \in Nat
      /\ \A i \in 1..Len(deposits) : deposits[i] \in [blockNumber : Nat, amount : Nat]
  BY RowsOfSequence DEF Deposits
<1>1. \A i \in 1..Len(deposits) : /\ nets[i] \in Int
                                  /\ nets[i] <= deposits[i].amount
                                  /\ nets[i] = NetAmount(deposits[i], fees)
  BY <1>0, NetIsBelowAmount DEF NetAmounts
<1>2. ASSUME NEW j \in Int, j <= Len(deposits) PROVE paid(j) \in Nat
  <2>1. IsFiniteSet(first..j)
    BY FS_Interval
  <2>2. \A i \in first..j : nets[i] \in Int
    BY <1>1, <1>2
  <2> QED BY <2>1, <2>2, UnitsFinite
<1>3. CASE k = Len(deposits)
  BY <1>3 DEF Remainder
<1>4. CASE k < Len(deposits)
  <2>1. paid(k) <= amount
    <3>1. CASE k < first
      <4>1. first..k = {}
        BY <3>1
      <4> QED BY <4>1, SumOfNothing
    <3>2. CASE k >= first
      <4>1. Drains(nets, first, amount, k)
        BY <3>2 DEF DrainsThrough
      <4>2. nets[k] \in Nat
        BY <1>1, <1>4, <3>2 DEF NetsFit
      <4>3. first..k = (first..(k-1)) \cup {k} /\ k \notin first..(k-1)
        BY <3>2
      <4>4. IsFiniteSet(first..(k-1)) /\ \A i \in first..(k-1) : nets[i] \in Int
        <5>1. IsFiniteSet(first..(k-1))
          BY FS_Interval
        <5>2. first..(k-1) \subseteq 1..Len(deposits)
          BY <1>0
        <5> QED BY <1>1, <5>1, <5>2, Zenon
      <4>5. SumOver(nets, (first..(k-1)) \cup {k}) = paid(k-1) + nets[k]
        BY <4>2, <4>3, <4>4, SumOfOneMore
      <4>6. paid(k) = paid(k-1) + nets[k]
        BY <4>3, <4>5
      <4>7. paid(k-1) \in Nat
        BY <1>2
      <4> HIDE DEF nets, paid
      <4>8. nets[k] <= amount - paid(k-1)
        BY <4>1 DEF Drains, paid
      <4> QED BY <4>2, <4>6, <4>7, <4>8
    <3> QED BY <3>1, <3>2
  <2>2. ~Drains(nets, first, amount, k + 1)
    BY <1>4 DEF DrainsThrough
  <2>3. paid(k) < amount => amount - paid(k) < nets[k+1]
    <3>1. (k + 1) - 1 = k
      OBVIOUS
    <3> QED BY <1>1, <1>2, <1>4, <2>2, <3>1 DEF Drains
  <2>4. deposits[k+1].amount \in Nat
    BY <1>0, <1>4
  <2>5. nets[k+1] \in Int /\ nets[k+1] <= deposits[k+1].amount
    BY <1>1, <1>4
  <2>6. paid(k) \in Nat
    BY <1>2, <1>4
  <2>7. Remainder(deposits, fees, first, amount, k) = amount - paid(k)
    BY <1>4 DEF Remainder
  <2> HIDE DEF nets, paid
  <2> QED BY <1>4, <2>1, <2>3, <2>4, <2>5, <2>6, <2>7
<1> QED BY <1>3, <1>4

(* Where a loop over n deposits that starts at `first' can stop. *)
LEMMA StopsInRange ==
    ASSUME NEW n \in Nat, NEW first \in Nat \ {0}, NEW k \in (first - 1)..n
    PROVE  k \in Nat /\ first \in Nat /\ first > 0 /\ k <= n /\ k + 1 > 0
OBVIOUS

(* A withdrawal moves amounts, and leaves deposits and a position in them. *)
LEMMA WithdrawalIsTyped ==
    ASSUME NEW deposits \in Deposits, NEW fees \in Fees,
           NEW first \in Nat \ {0}, NEW amount \in Nat,
           NEW k \in (first - 1)..Len(deposits),
           DrainsThrough(deposits, fees, first, amount, k),
           NetsFit(deposits, fees, first, k)
    PROVE  Withdrawal(deposits, fees, first, amount, k) \in
             [paid : Nat, fee : Nat, drained : Nat, rest : Nat,
              next : Nat \ {0}, left : Deposits]
<1> DEFINE rest == Remainder(deposits, fees, first, amount, k)
<1>1. /\ rest \in Nat
      /\ k = Len(deposits) => rest = 0
      /\ k < Len(deposits) => rest <= deposits[k+1].amount
  BY RemainderIsCovered
<1>2. /\ DOMAIN deposits = 1..Len(deposits) /\ Len(deposits) \in Nat
      /\ IsFiniteSet(first..k) /\ first..k \subseteq DOMAIN deposits
  BY RowsOfSequence, FS_Interval DEF Deposits
<1>0. k \in Nat /\ first \in Nat /\ first > 0 /\ k <= Len(deposits) /\ k + 1 > 0
  BY <1>2, StopsInRange
<1>3. \A i \in DOMAIN deposits : deposits[i] \in [blockNumber : Nat, amount : Nat]
  BY RowsOfSequence DEF Deposits
<1>4. SumOver(NetAmounts(deposits, fees), first..k) \in Nat
  <2>1. \A i \in first..k : NetAmounts(deposits, fees)[i] \in Int
    BY <1>2, <1>3, NetIsBelowAmount DEF NetAmounts
  <2> QED BY <1>2, <2>1, UnitsFinite
<1>5. SumOver([i \in DOMAIN deposits |-> deposits[i].amount], first..k) \in Nat
  <2>1. \A i \in first..k : [j \in DOMAIN deposits |-> deposits[j].amount][i] \in Int
    <3> SUFFICES ASSUME NEW i \in first..k PROVE deposits[i].amount \in Int
      BY <1>2
    <3> QED BY <1>2, <1>3
  <2> QED BY <1>2, <2>1, UnitsFinite
<1> HIDE DEF rest
<1>6. WithdrawalFee(deposits, fees, first, k, rest) \in Nat
  <2> DEFINE feeOf == [i \in DOMAIN deposits |-> DepositFeeAmount(deposits[i], fees)]
  <2>1. \A i \in first..k : feeOf[i] \in Int
    <3> SUFFICES ASSUME NEW i \in first..k PROVE feeOf[i] \in Int
      OBVIOUS
    <3>1. i \in DOMAIN deposits
      BY <1>2
    <3>2. DepositFeeAmount(deposits[i], fees) \in Nat
      BY <1>3, <3>1, NetIsBelowAmount
    <3> QED BY <3>1, <3>2
  <2>2. SumOver(feeOf, first..k) \in Nat
    BY <1>2, <2>1, UnitsFinite
  <2>3. CASE rest = 0
    BY <2>2, <2>3 DEF WithdrawalFee
  <2>4. CASE rest # 0
    <3>1. k + 1 \in DOMAIN deposits
      <4>1. k \in Int /\ k >= 0 /\ k # Len(deposits) /\ k <= Len(deposits)
        <5>1. k # Len(deposits)
          BY <1>1, <2>4, Zenon
        <5> QED BY <1>0, <5>1
      <4>2. k + 1 \in 1..Len(deposits)
        <5> DEFINE n == Len(deposits)
        <5>1. n \in Nat /\ k \in Int /\ k >= 0 /\ k # n /\ k <= n
          BY <1>2, <4>1, Zenon
        <5> HIDE DEF n
        <5>2. k + 1 \in 1..n
          BY <5>1
        <5> QED BY <5>2 DEF n
      <4> QED BY <1>2, <4>2
    <3>2. WithdrawFeeRate(fees, deposits[k+1].blockNumber) \in Nat
      BY <1>3, <3>1, WithdrawFeeRateIsTyped
    <3>3. FeeAmount(rest, WithdrawFeeRate(fees, deposits[k+1].blockNumber)) \in Nat
      BY <1>1, <3>2, FeeIsAmount
    <3> QED BY <2>2, <2>4, <3>3 DEF WithdrawalFee
  <2> QED BY <2>3, <2>4
<1>7. NextToRemove(deposits, first, k) \in Nat \ {0}
  <2>1. k \in Nat /\ first \in Nat /\ first > 0
    BY <1>0, Zenon
  <2>2. CASE k < first
    BY <2>1, <2>2 DEF NextToRemove
  <2>3. CASE ~(k < first)
    <3>1. NextToRemove(deposits, first, k) = k \/ NextToRemove(deposits, first, k) = k + 1
      BY <2>3, Zenon DEF NextToRemove
    <3> QED BY <2>1, <2>3, <3>1
  <2> QED BY <2>2, <2>3
<1>8. DepositsLeft(deposits, first, k, rest) \in Deposits
  <2>1. DepositsLeft(deposits, first, k, rest)
          \in [1..Len(deposits) -> [blockNumber : Nat, amount : Nat]]
    <3> SUFFICES ASSUME NEW i \in 1..Len(deposits)
                 PROVE  [deposits[i] EXCEPT !.amount = IF i \in first..k THEN 0
                                                       ELSE IF i = k + 1 THEN @ - rest ELSE @]
                          \in [blockNumber : Nat, amount : Nat]
      BY <1>2 DEF DepositsLeft
    <3> QED BY <1>1, <1>2, <1>3
  <2> QED BY <1>2, <2>1, SequenceOfLength DEF Deposits
<1>9. SumOver(NetAmounts(deposits, fees), first..k) + rest \in Nat
  BY <1>1, <1>4
<1> QED BY <1>1, <1>5, <1>6, <1>7, <1>8, <1>9 DEF Withdrawal, rest
=============================================================================
