------------------------------ MODULE MCNetwork ------------------------------
(***************************************************************************)
(* An instance of Network for TLC: a hub that others dial, of their        *)
(* network or of another.                                                  *)
(***************************************************************************)
EXTENDS Network, TLC

CONSTANT Hub            \* the bootnode of all others

BootnodesOf == [n \in Node |-> IF n = Hub THEN {} ELSE {Hub}]

\* Each block is made by the hub on the genesis.
Chain == [b \in Block |-> "genesis"]
Length == [b \in Block \cup {"genesis"} |-> IF b = "genesis" THEN 0 ELSE 1]
Order == [b \in Block \cup {"genesis"} |-> IF b = "genesis" THEN 0 ELSE 1]
MadeBy == [b \in Block |-> Hub]
SameOrNot == {[n \in Node |-> "main"],
              [n \in Node |-> IF n = Hub THEN "main" ELSE "other"]}

\* One connection is like another.
Swaps == Permutations(Conn)
=============================================================================
