---------------------------- MODULE MCDeployment ----------------------------
(* One user of two pools; TheToken is the asset of the first, the second   *)
(* takes a token whose mint is open to all.                                *)
EXTENDS Deployment, TLC

CONSTANTS u1

MCHandovers == {TokenA} \X {PoolA, Zero} \cup {<<Manager, u1>>, <<PoolB, Factory>>}

MCPurse == [a \in Accounts |-> IF a \in Users THEN 10 ELSE 0]

MCTiers == <<[blockNumber |-> 3, multiplier |-> 1]>>

MCFees == <<[blockNumber |-> 4, fee |-> 0]>>

MCAttributes == {[duration |-> 1, expirationDate |-> 4, multiplier |-> 2]}
=============================================================================
