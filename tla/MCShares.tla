------------------------------ MODULE MCShares ------------------------------
(* A pool whose users hold stakes and shares of it. *)
EXTENDS MCPool, PoolShares
=============================================================================
