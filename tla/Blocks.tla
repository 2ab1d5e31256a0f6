------------------------------- MODULE Blocks -------------------------------
(***************************************************************************)
(* The data the consensus code works on.  A block is named by its hash     *)
(* (types.go, HeaderHash): two blocks are the same block exactly when      *)
(* their hashes are, so Block is a set of hashes and the header fields     *)
(* that the code reads are functions on it.  Everything that is decided by *)
(* the block alone (algorithm version, epoch seed and DAG size, Merkle     *)
(* root, proof of work) is the set Sound; what depends on the store or on  *)
(* the clock is left to the modules that have them.                        *)
(***************************************************************************)
EXTENDS Integers

CONSTANTS
  Block,        \* block hashes
  NoBlock,      \* the zero hash, types.Hash{}
  Parent,       \* Header.ParentHash
  Height,       \* Header.Height
  Stamp,        \* Header.Timestamp
  Target,       \* Header.Target, as a number
  Rank,         \* order of the hashes' hexadecimal strings
  Sound,        \* blocks that pass the checks decided by the block alone
  TargetSpace   \* 2^256 in the code: one more than the largest target

BlockOrNone == Block \cup {NoBlock}

ASSUME BlockAssumption ==
  /\ NoBlock \notin Block
  /\ Parent \in [Block -> BlockOrNone]
  /\ Height \in [Block -> Nat]
  /\ Stamp \in [Block -> Nat]
  /\ TargetSpace \in Nat \ {0}
  /\ Target \in [Block -> 0 .. TargetSpace - 1]
  /\ Rank \in [Block -> Nat]
  /\ \A a, b \in Block : Rank[a] = Rank[b] => a = b
  /\ Sound \subseteq Block

IsGenesis(b) == Height[b] = 0

-----------------------------------------------------------------------------
(***************************************************************************)
(* Work of one block: 2^256 div (target + 1), and 0 for the zero target.   *)
(***************************************************************************)
CalcBlockWork(target) ==
  IF target = 0 THEN 0 ELSE TargetSpace \div (target + 1)

\* Mutant: equal work is decided the other way.
TieTakesLarger(current, candidate) == Rank[candidate] > Rank[current]

\* Equal work is decided by the smaller hash string.
TieTakesCandidate(current, candidate) == Rank[candidate] < Rank[current]

SelectBestChainByTotalWork(current, currentWork, candidate, candidateWork) ==
  IF \/ candidateWork > currentWork
     \/ candidateWork = currentWork /\ TieTakesCandidate(current, candidate)
  THEN candidate ELSE current
=============================================================================
