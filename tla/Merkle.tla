------------------------------- MODULE Merkle -------------------------------
(***************************************************************************)
(* The three ways in which the program builds the Merkle tree of a DAG's   *)
(* cells, loop iteration by loop iteration:                                *)
(*   - level by level, all in memory (merkle.go, buildMerkleLevels);       *)
(*   - streaming, with one pending node per level, for the root that the   *)
(*     validator compares (validator.go, dagMerkleRootStreaming);          *)
(*   - streaming, for the root and the proofs of some cells that the       *)
(*     miner needs (merkle.go, BuildMerkleMultiProofFromAccessor).         *)
(* The two streaming ways have the same loop over the cells, which stands  *)
(* here once; then the validator folds what is pending, and the miner      *)
(* completes the tree.                                                     *)
(*                                                                         *)
(* A hash is the tree of what was hashed: different data, different hash.  *)
(***************************************************************************)
EXTENDS DagGeneration, Sequences

VARIABLES
  levels, top,  \* the tree, level by level, leaves first, and its last level
  levelCounts,  \* the sizes of its levels, as the multiproof computes them
  targets,      \* the cells whose proofs are wanted
  wanted,       \* target -> level -> index of the sibling there
  stage,        \* "dag", "levels", "counts", "wanted", "leaves", "fold", "complete", "built"
  read,         \* cells read
  at, hash,     \* the level where emitNode is, -1: nowhere, and its node
  nextIndex,    \* level -> nodes emitted there
  pending,      \* level -> the node that waits for its right neighbour
  hasPending,
  proofs,       \* target -> level -> sibling, as far as it is known
  filled,
  level,        \* where the loop over the levels is
  acc, accLevel, hasAcc

treeVars == <<dagVars, levels, top, levelCounts, targets, wanted>>
emitVars == <<at, hash, nextIndex, pending, hasPending, proofs, filled>>
foldVars == <<acc, accLevel, hasAcc>>
merkleVars == <<treeVars, stage, read, emitVars, level, foldVars>>

Leaf(data) == <<data>>
hashPair(left, right) == <<left, right>>
Nothing == <<>>

Depth == Len(levelCounts) - 1
Count(l) == levelCounts[l + 1]
Size(l) == levels[l].size
TreeNode(l, i) == levels[l].node[i]

\* idx ^ 1
Neighbour(i) == IF i % 2 = 0 THEN i + 1 ELSE i - 1

Sibling(pos, count) == IF Neighbour(pos) < count THEN Neighbour(pos) ELSE pos

\* The positions of the nodes above a cell, level by level: its index halved
\* again and again (idx /= 2, or idx >> level).
Position(index) ==
  LET pos[l \in Nat] == IF l = 0 THEN index ELSE pos[l - 1] \div 2
  IN  pos

(***************************************************************************)
(* What the proofs of the level-by-level prover are, and their check.      *)
(***************************************************************************)
Proof(t) ==
  [l \in 1..top |-> TreeNode(l - 1, Sibling(Position(t)[l - 1], Size(l - 1)))]

\* The node above h, of which h is the one at pos below and sibling the other.
Joined(h, sibling, pos) ==
  IF pos % 2 = 0 THEN hashPair(h, sibling) ELSE hashPair(sibling, h)

\* The hashes from a leaf up, as a proof has them.
Climb(leaf, index, proof) ==
  LET h[l \in 0..Len(proof)] ==
        IF l = 0 THEN leaf ELSE Joined(h[l - 1], proof[l], Position(index)[l - 1])
  IN  h

VerifyMerkleProof(root, leaf, index, proof) ==
  Climb(leaf, index, proof)[Len(proof)] = root

-----------------------------------------------------------------------------
MerkleInit(indices) ==
  /\ targets = indices
  /\ levels = <<>> /\ top = 0
  /\ levelCounts = <<nodeCount>>
  /\ wanted = [t \in indices |-> <<>>]
  /\ stage = "dag"
  /\ read = 0 /\ at = -1 /\ hash = Nothing
  /\ nextIndex = <<>> /\ pending = <<>> /\ hasPending = <<>>
  /\ proofs = <<>> /\ filled = <<>>
  /\ level = 0
  /\ acc = Nothing /\ accLevel = 0 /\ hasAcc = FALSE

\* The cells' hashes are the first level.
BuildMerkleLeaves ==
  /\ stage = "dag" /\ generated
  /\ stage' = "levels"
  /\ levels' = [l \in {0} |-> [size |-> nodeCount,
                               node |-> [i \in Cells |-> Leaf(dag[i])]]]
  /\ UNCHANGED <<dagVars, top, levelCounts, targets, wanted, read, emitVars, level>>
  /\ UNCHANGED foldVars

\* The level above, where the last node of an odd level is its own neighbour.
Above(l) ==
  LET size == (l.size + 1) \div 2 IN
    [size |-> size,
     node |-> [k \in 0..(size - 1) |->
                hashPair(l.node[2 * k],
                         l.node[IF 2 * k + 1 < l.size THEN 2 * k + 1 ELSE 2 * k])]]

NextLevel ==
  /\ stage = "levels"
  /\ IF Size(top) > 1
     THEN /\ top' = top + 1
          /\ levels' = [l \in 0..(top + 1) |->
                          IF l <= top THEN levels[l] ELSE Above(levels[top])]
          /\ UNCHANGED stage
     ELSE /\ stage' = "counts"
          /\ UNCHANGED <<levels, top>>
  /\ UNCHANGED <<dagVars, levelCounts, targets, wanted, read, emitVars, level, foldVars>>

NextCount ==
  /\ stage = "counts"
  /\ IF Count(Depth) > 1
     THEN /\ levelCounts' = Append(levelCounts, (Count(Depth) + 1) \div 2)
          /\ UNCHANGED stage
     ELSE /\ stage' = "wanted"
          /\ UNCHANGED levelCounts
  /\ UNCHANGED <<dagVars, levels, top, targets, wanted, read, emitVars, level, foldVars>>

\* Mutant: the last node of an odd level is forgotten to be its own sibling.
NeighbourAlways(t) ==
  [l \in 0..(Depth - 1) |-> Neighbour(Position(t)[l])]

SiblingsOf(t) ==
  [l \in 0..(Depth - 1) |-> Sibling(Position(t)[l], Count(l))]

PrepareProofs ==
  /\ stage = "wanted" /\ stage' = "leaves"
  /\ wanted' = [t \in targets |-> SiblingsOf(t)]
  /\ nextIndex' = [l \in 0..Depth |-> 0]
  /\ pending' = [l \in 0..Depth |-> Nothing]
  /\ hasPending' = [l \in 0..Depth |-> FALSE]
  /\ proofs' = [t \in targets |-> [l \in 0..(Depth - 1) |-> Nothing]]
  /\ filled' = [t \in targets |-> [l \in 0..(Depth - 1) |-> FALSE]]
  /\ UNCHANGED <<dagVars, levels, top, levelCounts, targets, read, at, hash>>
  /\ UNCHANGED <<level, foldVars>>

ReadLeaf ==
  /\ stage = "leaves" /\ at = -1 /\ read < nodeCount
  /\ read' = read + 1
  /\ at' = 0 /\ hash' = Leaf(dag[read])
  /\ UNCHANGED <<treeVars, stage, nextIndex, pending, hasPending, proofs, filled>>
  /\ UNCHANGED <<level, foldVars>>

-----------------------------------------------------------------------------
\* assignWanted, for the node that is emitted: whoever has it as its sibling.
WantedHere(t, l) == l = at /\ wanted[t][l] = nextIndex[at]

AssignWanted ==
  /\ proofs' = [t \in targets |-> [l \in 0..(Depth - 1) |->
                  IF WantedHere(t, l) THEN hash ELSE proofs[t][l]]]
  /\ filled' = [t \in targets |-> [l \in 0..(Depth - 1) |->
                  filled[t][l] \/ WantedHere(t, l)]]
  /\ nextIndex' = [nextIndex EXCEPT ![at] = @ + 1]

\* emitNode: the first node of a pair waits.
Park ==
  /\ at >= 0 /\ ~hasPending[at]
  /\ AssignWanted
  /\ pending' = [pending EXCEPT ![at] = hash]
  /\ hasPending' = [hasPending EXCEPT ![at] = TRUE]
  /\ at' = -1
  /\ UNCHANGED <<treeVars, stage, read, hash, level, foldVars>>

\* emitNode: the second one makes a node of the level above.
Combine ==
  /\ at >= 0 /\ hasPending[at]
  /\ AssignWanted
  /\ hash' = hashPair(pending[at], hash)
  /\ hasPending' = [hasPending EXCEPT ![at] = FALSE]
  /\ at' = at + 1
  /\ UNCHANGED <<treeVars, stage, read, pending, level, foldVars>>

LeavesRead ==
  /\ stage = "leaves" /\ at = -1 /\ read = nodeCount
  /\ stage' = "fold"
  /\ UNCHANGED <<treeVars, read, emitVars, level, foldVars>>

-----------------------------------------------------------------------------
\* Mutant: a subtree that is alone on its level goes up as it is.
RaiseUnpaired(h) == h

\* A subtree that is alone on its level is its own neighbour.
RaiseOnce(h) == hashPair(h, h)

\* The validator's fold over the levels, from the leaves up.
FoldLevel ==
  /\ stage = "fold" /\ level <= Depth
  /\ \/ /\ ~hasPending[level]
        /\ level' = level + 1
        /\ UNCHANGED foldVars
     \/ /\ hasPending[level] /\ ~hasAcc
        /\ acc' = pending[level] /\ accLevel' = level /\ hasAcc' = TRUE
        /\ level' = level + 1
     \/ /\ hasPending[level] /\ hasAcc /\ accLevel < level
        /\ acc' = RaiseOnce(acc) /\ accLevel' = accLevel + 1
        /\ UNCHANGED <<level, hasAcc>>
     \/ /\ hasPending[level] /\ hasAcc /\ accLevel = level
        /\ acc' = hashPair(pending[level], acc) /\ accLevel' = level + 1
        /\ level' = level + 1
        /\ UNCHANGED hasAcc
  /\ UNCHANGED <<treeVars, stage, read, emitVars>>

Folded ==
  /\ stage = "fold" /\ level = Depth + 1
  /\ stage' = "complete" /\ level' = 0
  /\ UNCHANGED <<treeVars, read, emitVars, foldVars>>

\* The miner's loop over the levels: a node that waits is its own neighbour.
CompleteLevel ==
  /\ stage = "complete" /\ at = -1 /\ level < Depth
  /\ IF hasPending[level]
     THEN /\ at' = level + 1
          /\ hash' = hashPair(pending[level], pending[level])
          /\ hasPending' = [hasPending EXCEPT ![level] = FALSE]
     ELSE UNCHANGED <<at, hash, hasPending>>
  /\ level' = level + 1
  /\ UNCHANGED <<treeVars, stage, read, nextIndex, pending, proofs, filled, foldVars>>

Completed ==
  /\ stage = "complete" /\ at = -1 /\ level = Depth
  /\ stage' = "built"
  /\ UNCHANGED <<treeVars, read, emitVars, level, foldVars>>

MerkleNext ==
  \/ BuildMerkleLeaves \/ NextLevel \/ NextCount \/ PrepareProofs
  \/ ReadLeaf \/ Park \/ Combine \/ LeavesRead
  \/ FoldLevel \/ Folded
  \/ CompleteLevel \/ Completed

-----------------------------------------------------------------------------
BuildMerkleRoot == TreeNode(top, 0)

(***************************************************************************)
(* The root that the validator streams, and the one that comes with the    *)
(* miner's proofs, are the root of the tree, whatever the number of cells  *)
(* (validator.go:418-464, merkle.go:277-298, against merkle.go:107-159).   *)
(***************************************************************************)
RootsAgree ==
  /\ stage \in {"complete", "built"} => hasAcc /\ acc = BuildMerkleRoot
  /\ stage = "built" => hasPending[Depth] /\ pending[Depth] = BuildMerkleRoot

(***************************************************************************)
(* The proofs that come out of one pass over the cells are complete, and   *)
(* are those of the tree in memory (merkle.go:287-298 against 45-64).      *)
(***************************************************************************)
ProofsAgree ==
  stage = "built" =>
    \A t \in targets :
      /\ \A l \in 0..(Depth - 1) : filled[t][l]
      /\ [l \in 1..Depth |-> proofs[t][l - 1]] = Proof(t)
=============================================================================
