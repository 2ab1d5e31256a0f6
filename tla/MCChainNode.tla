---------------------------- MODULE MCChainNode ----------------------------
(***************************************************************************)
(* Instances of ChainNode for TLC: small trees of blocks on the genesis    *)
(* "g".  TargetSpace is 16, so that target 7 is work 2, 3 is work 4 and    *)
(* 15, the easiest, is work 1.                                             *)
(***************************************************************************)
EXTENDS ChainNodeRefinement, TLC

Header(parent, height, stamp, target, rank) ==
  [parent |-> parent, height |-> height, stamp |-> stamp,
   target |-> target, rank |-> rank]

(***************************************************************************)
(* Two branches of equal work from g; b2 continues one of them; f1 is      *)
(* heavier than either but its timestamp is accepted only once the clock   *)
(* has moved; e2 is stamped no later than its parent; the height of w2     *)
(* does not follow its parent's.  m2 can be mined on a1, m3 on b2.  h0 is  *)
(* a second genesis: the one a restart makes when the first was not kept.  *)
(***************************************************************************)
Tree ==
  [g  |-> Header("none", 0, 0, 7, 3),
   a1 |-> Header("g", 1, 1, 7, 4),
   b1 |-> Header("g", 1, 2, 7, 2),
   b2 |-> Header("b1", 2, 3, 7, 5),
   f1 |-> Header("g", 1, 4, 3, 1),
   e2 |-> Header("a1", 2, 1, 7, 6),
   w2 |-> Header("g", 2, 3, 7, 7),
   m2 |-> Header("a1", 2, 2, 7, 8),
   m3 |-> Header("b2", 3, 4, 7, 9),
   h0 |-> Header("none", 0, 1, 7, 10)]

CONSTANT Names          \* the blocks of Tree that an instance uses

TreeParent == [b \in Names |-> Tree[b].parent]
TreeHeight == [b \in Names |-> Tree[b].height]
TreeStamp  == [b \in Names |-> Tree[b].stamp]
TreeTarget == [b \in Names |-> Tree[b].target]
TreeRank   == [b \in Names |-> Tree[b].rank]

\* A snapshot of the chain g, a1 that also knew the branch b1.
OldSnapshot ==
  [work |-> [b \in Names |-> CASE b = "g" -> 2 [] b = "a1" -> 4
                               [] b = "b1" -> 4 [] OTHER -> NoEntry],
   heights |-> [h \in {Tree[b].height : b \in Names} |->
                  CASE h = 0 -> "g" [] h = 1 -> "b1" [] OTHER -> "none"],
   genesis |-> "g",
   tip |-> "b1"]

Reconnections == Permutations(Peer)
=============================================================================
