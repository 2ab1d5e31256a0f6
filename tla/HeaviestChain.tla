---------------------------- MODULE HeaviestChain ----------------------------
(***************************************************************************)
(* What Validator.InsertBlock promises its caller: a block whose parent is *)
(* accepted is accepted, and the best block is the accepted block of the   *)
(* most accumulated work, in one step.  A chain's work is computed here    *)
(* from its blocks, not from what was recorded with the parent.            *)
(***************************************************************************)
EXTENDS Blocks

VARIABLES accepted, best

ChainWork[b \in Block] ==
  CalcBlockWork(Target[b])
  + (IF Parent[b] = NoBlock THEN 0 ELSE ChainWork[Parent[b]])

Better(a, b) ==
  \/ ChainWork[a] > ChainWork[b]
  \/ ChainWork[a] = ChainWork[b] /\ Rank[a] < Rank[b]

Init == accepted = {} /\ best = NoBlock

Insert(b) ==
  /\ b \notin accepted
  /\ IF IsGenesis(b) THEN Parent[b] = NoBlock
     ELSE /\ Parent[b] \in accepted
          /\ Height[b] = Height[Parent[b]] + 1
          /\ Stamp[b] > Stamp[Parent[b]]
  /\ accepted' = accepted \cup {b}
  /\ best' = IF best = NoBlock \/ Better(b, best) THEN b ELSE best

Next == \E b \in Block : Insert(b)

Spec == Init /\ [][Next]_<<accepted, best>>
=============================================================================
