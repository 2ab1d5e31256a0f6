-------------------------------- MODULE Epoch --------------------------------
(***************************************************************************)
(* The DAG of a height: its size grows by the epoch and stops at the       *)
(* largest uint64 (colossusx/spec.go), its seed names the epoch            *)
(* (types.go, EpochSeedForHeight).  A chain grows by blocks that the node  *)
(* mines and by blocks that it receives; ValidateBlock lets each in by its *)
(* size and seed, and in the first blocks of an epoch also by those of the *)
(* epoch before (validator.go, validateEpochParameters).                   *)
(*                                                                         *)
(* A seed is a SHA3 digest, modelled by the pair that is digested.         *)
(***************************************************************************)
EXTENDS Integers, Sequences

CONSTANTS
  MaxUint,      \* the largest uint64
  NodeSize,     \* ColossusXNodeSize
  InitialField, \* Spec.InitialDAGSizeBytes; 0 if it is not set
  SizeField,    \* Spec.DAGSizeBytes
  GrowthField,  \* Spec.DAGGrowthBytesPerEpoch; 0 if it is not set
  DefaultGrowth,\* DefaultDAGGrowthBytesPerEpoch
  EpochBlocks,  \* Spec.EpochBlocks
  Grace,        \* ColossusXEpochGraceBlocks
  GenesisHash,  \* Spec.GenesisHash, which no code sets: the zero hash
  ChainGenesis, \* the hash of the block of height 0
  MaxHeight     \* bound of the chain

initialDAGSize == IF InitialField # 0 THEN InitialField ELSE SizeField
growthDAGSizePerEpoch == IF GrowthField # 0 THEN GrowthField ELSE DefaultGrowth

\* Spec.Validate: NewValidator refuses any other.
ASSUME Validate ==
  /\ MaxUint \in Nat /\ NodeSize \in 1 .. MaxUint
  /\ InitialField \in 0 .. MaxUint /\ SizeField \in 0 .. MaxUint
  /\ GrowthField \in 0 .. MaxUint /\ DefaultGrowth \in 1 .. MaxUint
  /\ initialDAGSize > 0
  /\ growthDAGSizePerEpoch > 0
  /\ EpochBlocks \in Nat \ {0}
  /\ (initialDAGSize % NodeSize) = 0
  /\ (growthDAGSizePerEpoch % NodeSize) = 0

ASSUME EpochAssumption == Grace \in Nat /\ MaxHeight \in Nat

VARIABLE chain          \* the headers of the chain; chain[h + 1] has height h
vars == <<chain>>

-----------------------------------------------------------------------------
\* Arithmetic on uint64.
Wrap(n) == n % (MaxUint + 1)

\* Mutant: no check for overflow.
WrappedSize(epoch) == Wrap(initialDAGSize + Wrap(epoch * growthDAGSizePerEpoch))

\* Mutant: the largest size is not rounded down.
WholeRange == MaxUint

\* The largest size of whole nodes.
LargestSize == MaxUint - (MaxUint % NodeSize)

DAGSizeForEpoch(epoch) ==
  IF epoch = 0 THEN initialDAGSize
  ELSE IF epoch > (MaxUint - initialDAGSize) \div growthDAGSizePerEpoch
       THEN LargestSize
       ELSE Wrap(initialDAGSize + Wrap(epoch * growthDAGSizePerEpoch))

EpochOf(height) == height \div EpochBlocks
DAGSizeForHeight(height) == DAGSizeForEpoch(EpochOf(height))
EpochSeedForHeight(height) == [epoch |-> EpochOf(height), genesis |-> GenesisHash]

\* The fields of a header that name its DAG.
Header(size, seed) == [size |-> size, seed |-> seed]
DAGOf(height) == Header(DAGSizeForHeight(height), EpochSeedForHeight(height))

\* Mutant: the window is one block longer.
GraceInclusive(height) == height >= EpochBlocks /\ (height % EpochBlocks) <= Grace

InGrace(height) == height >= EpochBlocks /\ (height % EpochBlocks) < Grace

\* Mutant: size and seed are compared one by one.
AcceptsEach(header, height) ==
  \/ header = DAGOf(height)
  \/ /\ InGrace(height)
     /\ header.size \in {DAGOf(height).size, DAGOf(height - EpochBlocks).size}
     /\ header.seed \in {DAGOf(height).seed, DAGOf(height - EpochBlocks).seed}

validateEpochParameters(header, height) ==
  \/ header = DAGOf(height)
  \/ InGrace(height) /\ header = DAGOf(height - EpochBlocks)

-----------------------------------------------------------------------------
NextHeight == Len(chain)

Genesis == DAGOf(0)

Init == chain = <<Genesis>>

\* mineNextBlock names the DAG of the height it mines.
Template == DAGOf(NextHeight)

Mine ==
  /\ NextHeight <= MaxHeight
  /\ validateEpochParameters(Template, NextHeight)
  /\ chain' = Append(chain, Template)

\* What a block may name: any size and any epoch that some height has, one
\* size that need be no epoch's, and a seed of the chain's own genesis.
Sizes == {DAGSizeForHeight(h) : h \in 0 .. MaxHeight + EpochBlocks} \cup {NodeSize}
Seeds == {EpochSeedForHeight(h) : h \in 0 .. MaxHeight + EpochBlocks}
           \cup {[epoch |-> 0, genesis |-> ChainGenesis]}

Receive(size, seed) ==
  /\ NextHeight <= MaxHeight
  /\ validateEpochParameters(Header(size, seed), NextHeight)
  /\ chain' = Append(chain, Header(size, seed))

\* The bound of the model, not of the code.
AtBound == NextHeight > MaxHeight /\ UNCHANGED vars

Next == Mine \/ (\E size \in Sizes, seed \in Seeds : Receive(size, seed)) \/ AtBound

Spec == Init /\ [][Next]_vars

-----------------------------------------------------------------------------
Heights == 0 .. Len(chain) - 1
At(h) == chain[h + 1]

\* A chain of headers, each of a size that is some whole number of nodes and
\* fits a uint64 (spec.go, DAGSizeForEpoch).
TypeOK ==
  /\ chain \in Seq([size : 1 .. MaxUint, seed : [epoch : Nat, genesis : {GenesisHash}]])
  /\ \A h \in Heights : (At(h).size % NodeSize) = 0

\* "After 64 blocks, only the new epoch's DAG is valid": from the first block
\* past a window on, no block of the chain goes back to an earlier DAG, in
\* whatever window it lies itself.
SwitchoverIsFinal ==
  \A h, k \in Heights :
    h <= k /\ (h % EpochBlocks) >= Grace => At(k).seed.epoch >= EpochOf(h)

\* A block of a later epoch, one that still uses the DAG before included, is
\* never mined on a smaller DAG than a block of an earlier epoch: growth
\* cannot be undone by the window or by the end of the uint64 range.
NeverShrinks ==
  \A h, k \in Heights :
    EpochOf(h) < EpochOf(k) => At(h).size <= At(k).size

\* Size and seed of an accepted header name one DAG, not parts of two.
OneDAG == \A h \in Heights : At(h).size = DAGSizeForEpoch(At(h).seed.epoch)
=============================================================================
