------------------------- MODULE ChainNodeRefinement -------------------------
(***************************************************************************)
(* A node with one inserting goroutine (-no-mine, one peer) that is not    *)
(* killed implements HeaviestChain.  A block counts as accepted when its   *)
(* insertion has taken effect: when it loses against the tip, or when      *)
(* SetCurrentTip makes it the tip; before that it is a file that nobody    *)
(* was told of.                                                            *)
(*                                                                         *)
(* Under it, the disk store whose writes succeed implements MemoryStore.   *)
(* An operation on the store takes effect at its first step: nobody can    *)
(* look until it unlocks, so what the later steps will do to the height    *)
(* index, the genesis and the tip is already counted.                      *)
(***************************************************************************)
EXTENDS ChainNode

Undecided == {blk[t] : t \in {u \in Thread : pc[u] \in {"storing", "readtip", "settip"}}}

Accepted ==
  IF serving THEN {b \in Block : Stored(b)} \ Undecided ELSE {}

Chain == INSTANCE HeaviestChain
           WITH accepted <- Accepted,
                best <- IF serving THEN currentTip ELSE NoBlock

\* InsertBlock, in all its calls on the store, is one Insert of the abstract
\* chain (validator.go:242-278).
ImplementsHeaviestChain == Chain!Spec

HeightToCome == write.step = "height"

Memory == INSTANCE MemoryStore WITH
  totalWork <- entry,
  heights <- IF HeightToCome
             THEN [heightFile EXCEPT ![Height[write.block]] = write.block]
             ELSE heightFile,
  genesisHash <- IF HeightToCome THEN GenesisAfterStore(write.block) ELSE genesisHash,
  currentTip <- IF HeightToCome THEN TipAfterStore(write.block) ELSE currentTip

\* Both implementations of chain.Store answer alike (store_disk.go, memory.go).
ImplementsMemoryStore == Memory!Spec
=============================================================================
