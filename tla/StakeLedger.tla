---------------------------- MODULE StakeLedger ----------------------------
(***************************************************************************)
(* What a pool is for, without deposits, fees, rewards and boosters: a     *)
(* custodian of the stakes of accounts.  An account enters or leaves on    *)
(* its own; a frozen ledger admits nobody.  A leaver who gives up n units  *)
(* of stake takes n units out of custody and a fee of at most n on top.    *)
(* Module Pool implements it (PoolProperties!ImplementsLedger).            *)
(***************************************************************************)
EXTENDS Integers

CONSTANT Accounts

VARIABLES stake, custody, frozen

ledgerVars == <<stake, custody, frozen>>

Init ==
    /\ stake = [a \in Accounts |-> 0]
    /\ custody = 0
    /\ frozen = FALSE

(* Only the stake of a changes. *)
OthersKeepStakes(a) == \A b \in Accounts \ {a} : stake'[b] = stake[b]

Enter(a) ==
    LET entered == stake'[a] - stake[a]
    IN  /\ ~frozen
        /\ entered > 0
        /\ OthersKeepStakes(a)
        /\ custody' = custody + entered
        /\ UNCHANGED frozen

Leave(a) ==
    LET left == stake[a] - stake'[a]
    IN  /\ left > 0 /\ stake'[a] >= 0
        /\ OthersKeepStakes(a)
        /\ custody - custody' \in left..(2 * left)
        /\ custody' >= 0
        /\ UNCHANGED frozen

(* The custodian's operator freezes and thaws the ledger at will. *)
Freeze ==
    /\ frozen' \in BOOLEAN
    /\ UNCHANGED <<stake, custody>>

Next == Freeze \/ \E a \in Accounts : Enter(a) \/ Leave(a)

Spec == Init /\ [][Next]_ledgerVars
=============================================================================
