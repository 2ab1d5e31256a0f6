----------------------------- MODULE MemoryStore -----------------------------
(***************************************************************************)
(* chain.MemoryStore: the in-memory implementation of chain.Store.  Every  *)
(* operation holds the mutex for its whole length, so each is one action.  *)
(* It is also the contract that the disk store has to meet while the       *)
(* process lives: ChainNodeRefinement.tla shows that it does.              *)
(***************************************************************************)
EXTENDS Blocks

VARIABLES
  totalWork,            \* total work of each stored block, NoEntry otherwise
  heights,              \* height -> block last stored at that height
  genesisHash,
  currentTip

memVars == <<totalWork, heights, genesisHash, currentTip>>

NoEntry == -1

Init ==
  /\ totalWork = [b \in Block |-> NoEntry]
  /\ heights = [h \in {Height[b] : b \in Block} |-> NoBlock]
  /\ genesisHash = NoBlock
  /\ currentTip = NoBlock

HasBlock(b) == totalWork[b] # NoEntry

StoreBlock(b, w) ==
  /\ w \in Nat
  /\ totalWork' = [totalWork EXCEPT ![b] = w]
  /\ heights' = [heights EXCEPT ![Height[b]] = b]
  /\ genesisHash' = IF IsGenesis(b) /\ genesisHash = NoBlock
                    THEN b ELSE genesisHash
  /\ currentTip' = IF currentTip = NoBlock THEN b ELSE currentTip

\* Setting a block that is not stored is refused: ErrBlockNotFound.
SetCurrentTip(b) ==
  /\ HasBlock(b)
  /\ currentTip' = b
  /\ UNCHANGED <<totalWork, heights, genesisHash>>

\* Callers pass any total work: it is the one that the block has afterwards.
Next == \E b \in Block : SetCurrentTip(b) \/ StoreBlock(b, totalWork'[b])

Spec == Init /\ [][Next]_memVars
=============================================================================
