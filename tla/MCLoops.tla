------------------------------ MODULE MCLoops ------------------------------
(***************************************************************************)
(* The inputs on which TLC runs the loops of Pool.                         *)
(***************************************************************************)
EXTENDS Loops

(* Every schedule of up to two tiers, sorted or not, with deleted rows. *)
SomeTiers == [blockNumber : 0..3, multiplier : {1, 3}] \cup
             {[blockNumber |-> 0, multiplier |-> 0]}

MCSchedules == UNION {[1..n -> SomeTiers] : n \in 0..2}
               \cup {<<[blockNumber |-> 1, multiplier |-> 2],
                       [blockNumber |-> 2, multiplier |-> 3],
                       [blockNumber |-> 4, multiplier |-> 1]>>}

(* Up to three deposits in blocks with different fees, empty ones included. *)
SomeDeposits == [blockNumber : {1, 2}, amount : {0, 3, 25}]

MCDepositLists == UNION {[1..n -> SomeDeposits] : n \in 0..3}

Row(b, f) == [blockNumber |-> b, fee |-> f]

(* With the widths of the .cfg the product with a deposit of 25 leaves     *)
(* uint128 from 61 percent on, a fee of 150 percent exceeds the deposit,   *)
(* and one of 220 percent is cut down to 20 by the conversion to 64 bits.  *)
MCFeeTables == {<<>>,
                <<Row(2, 20)>>,
                <<Row(2, 50), Row(3, 100)>>,
                <<Row(0, 0), Row(3, 65)>>,
                <<Row(2, 0), Row(3, 150)>>,
                <<Row(2, 10), Row(3, 220)>>}
=============================================================================
