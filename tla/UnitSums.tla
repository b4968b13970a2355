------------------------------ MODULE UnitSums ------------------------------
(***************************************************************************)
(* Sums of token amounts without recursion: a sum is the number of units   *)
(* it counts.  f maps the members of S to amounts; the unit <<k, n>> is    *)
(* the n-th unit of the amount f[k].  The form is chosen so that lemmas    *)
(* about sums follow from the theory of finite sets (PoolMathProofs).      *)
(***************************************************************************)
EXTENDS Integers, FiniteSets

Units(f, S) == UNION {{k} \X (1..f[k]) : k \in S}

SumOver(f, S) == Cardinality(Units(f, S))
=============================================================================
