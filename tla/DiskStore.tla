------------------------------ MODULE DiskStore ------------------------------
(***************************************************************************)
(* chain.DiskStore: one file per block (with its total work), one file per *)
(* height, and chain_meta.json with the genesis and the tip.  An operation *)
(* writes several files, one rename at a time, under the store's write     *)
(* lock: a reader never sees the middle of one, a crash leaves it behind.  *)
(* Hence one action per file written, and `write`, the operation that      *)
(* holds the lock.                                                         *)
(***************************************************************************)
EXTENDS Blocks

CONSTANTS
  Legacy,       \* the chain.json snapshot of an older version, or NoLegacy
  NoLegacy,
  Faults        \* whether file operations may fail

HeightSet == {Height[b] : b \in Block}
NoEntry == -1

\* A snapshot is what an older version saved of a chain it had accepted: its
\* hashes and heights name blocks that it holds.  (An empty chain.json, which
\* unmarshalSnapshot accepts, is not modelled.)
ASSUME StoreAssumption ==
  /\ Faults \in BOOLEAN
  /\ Legacy # NoLegacy =>
       /\ Legacy.work \in [Block -> Nat \cup {NoEntry}]
       /\ Legacy.heights \in [HeightSet -> BlockOrNone]
       /\ Legacy.genesis \in Block /\ Legacy.work[Legacy.genesis] # NoEntry
       /\ Legacy.tip \in Block /\ Legacy.work[Legacy.tip] # NoEntry
       /\ \A h \in HeightSet : Legacy.heights[h] # NoBlock =>
            /\ Legacy.work[Legacy.heights[h]] # NoEntry
            /\ Height[Legacy.heights[h]] = h

VARIABLES
  entry,        \* blocks/: total work recorded in a block's file, or NoEntry
  heightFile,   \* heights/: the block named by a height's file, or NoBlock
  meta,         \* chain_meta.json
  genesisHash,  \* d.genesisHash
  currentTip,   \* d.currentTip
  write,        \* the write under way: the step that comes next, its block
  open          \* NewDiskStore has returned

diskVars == <<entry, heightFile, meta>>
memoryVars == <<genesisHash, currentTip, write, open>>
storeVars == <<entry, heightFile, meta, genesisHash, currentTip, write, open>>

(***************************************************************************)
(* chain_meta.json never names a zero tip (a store is flushed only after   *)
(* its first block has become the tip), so a missing file is written as    *)
(* the pair of zero hashes.                                                *)
(***************************************************************************)
NoMeta == [genesis |-> NoBlock, tip |-> NoBlock]
Unlocked == [step |-> "free", block |-> NoBlock]

Free == write = Unlocked
Stored(b) == entry[b] # NoEntry

StoreInit ==
  /\ entry = [b \in Block |-> NoEntry]
  /\ heightFile = [h \in HeightSet |-> NoBlock]
  /\ meta = NoMeta
  /\ genesisHash = NoBlock /\ currentTip = NoBlock
  /\ write = Unlocked
  /\ open = FALSE

-----------------------------------------------------------------------------
(***************************************************************************)
(* StoreBlock(b, w): block file; height file, then the fields in memory;   *)
(* meta file, then unlock.                                                 *)
(***************************************************************************)
\* Mutant: the error of the block file's write is dropped.
StoreIgnoringError(b, w) ==
  /\ open /\ Free
  /\ entry' \in {[entry EXCEPT ![b] = w]} \cup (IF Faults THEN {entry} ELSE {})
  /\ write' = [step |-> "height", block |-> b]
  /\ UNCHANGED <<heightFile, meta, genesisHash, currentTip, open>>

StoreBegin(b, w) ==
  /\ open /\ Free
  /\ entry' = [entry EXCEPT ![b] = w]
  /\ write' = [step |-> "height", block |-> b]
  /\ UNCHANGED <<heightFile, meta, genesisHash, currentTip, open>>

\* The first block ever stored becomes the tip.
TipAfterStore(b) == IF currentTip = NoBlock THEN b ELSE currentTip

\* Mutant: the last block of height 0 is the genesis.
GenesisIsLast(b) == IF IsGenesis(b) THEN b ELSE genesisHash

GenesisAfterStore(b) ==
  IF IsGenesis(b) /\ genesisHash = NoBlock THEN b ELSE genesisHash

StoreHeight ==
  /\ write.step = "height"
  /\ heightFile' = [heightFile EXCEPT ![Height[write.block]] = write.block]
  /\ genesisHash' = GenesisAfterStore(write.block)
  /\ currentTip' = TipAfterStore(write.block)
  /\ write' = [write EXCEPT !.step = "meta"]
  /\ UNCHANGED <<entry, meta, open>>

\* Mutant: a return path without unlock.
FlushKeepingLock ==
  /\ write.step = "meta"
  /\ meta' = [genesis |-> genesisHash, tip |-> currentTip]
  /\ UNCHANGED <<entry, heightFile, memoryVars>>

Flush ==
  /\ write.step = "meta"
  /\ meta' = [genesis |-> genesisHash, tip |-> currentTip]
  /\ write' = Unlocked
  /\ UNCHANGED <<entry, heightFile, genesisHash, currentTip, open>>

(***************************************************************************)
(* SetCurrentTip(b): refused unless the block's file exists; the field in  *)
(* memory; meta file.                                                      *)
(***************************************************************************)
SetTipBegin(b) ==
  /\ open /\ Free /\ Stored(b)
  /\ currentTip' = b
  /\ write' = [step |-> "meta", block |-> b]
  /\ UNCHANGED <<entry, heightFile, meta, genesisHash, open>>

(***************************************************************************)
(* writeFileAtomic fails: the file keeps its old content, the operation    *)
(* returns the error and unlocks.  What it changed before stays changed,   *)
(* in memory and on disk.  (A failure of the first write changes nothing.) *)
(***************************************************************************)
WriteFails ==
  /\ Faults /\ ~Free
  /\ write' = Unlocked
  /\ UNCHANGED <<diskVars, genesisHash, currentTip, open>>

-----------------------------------------------------------------------------
(***************************************************************************)
(* NewDiskStore.  With a meta file the two hashes are read from it;        *)
(* without one, a legacy snapshot is copied block by block and height by   *)
(* height, and the meta file is written last; without a snapshot either,   *)
(* the store starts empty.                                                 *)
(***************************************************************************)
\* Mutant: load reads the tip only.
LoadTipOnly ==
  /\ ~open
  /\ meta # NoMeta \/ Legacy = NoLegacy
  /\ genesisHash' = NoBlock
  /\ currentTip' = meta.tip
  /\ open' = TRUE
  /\ UNCHANGED <<diskVars, write>>

Load ==
  /\ ~open
  /\ meta # NoMeta \/ Legacy = NoLegacy
  /\ genesisHash' = meta.genesis
  /\ currentTip' = meta.tip
  /\ open' = TRUE
  /\ UNCHANGED <<diskVars, write>>

Migrating == ~open /\ meta = NoMeta /\ Legacy # NoLegacy

MigrateBlock ==
  /\ Migrating
  /\ \E b \in Block :
       /\ Legacy.work[b] # NoEntry /\ ~Stored(b)
       /\ entry' = [entry EXCEPT ![b] = Legacy.work[b]]
  /\ UNCHANGED <<heightFile, meta, memoryVars>>

\* Mutant: migration goes on after the first block.
SomeBlocksCopied == \E b \in Block : Stored(b)

BlocksCopied == \A b \in Block : Legacy.work[b] # NoEntry => Stored(b)

HeightsCopied ==
  \A h \in HeightSet :
    Legacy.heights[h] # NoBlock => heightFile[h] = Legacy.heights[h]

MigrateHeight ==
  /\ Migrating /\ BlocksCopied
  /\ \E h \in HeightSet :
       /\ Legacy.heights[h] \notin {NoBlock, heightFile[h]}
       /\ heightFile' = [heightFile EXCEPT ![h] = Legacy.heights[h]]
  /\ UNCHANGED <<entry, meta, memoryVars>>

\* Mutant: the meta file is written before the blocks.
MigrateMetaFirst ==
  /\ Migrating
  /\ genesisHash' = Legacy.genesis
  /\ currentTip' = Legacy.tip
  /\ meta' = [genesis |-> Legacy.genesis, tip |-> Legacy.tip]
  /\ open' = TRUE
  /\ UNCHANGED <<entry, heightFile, write>>

MigrateMeta ==
  /\ Migrating /\ BlocksCopied /\ HeightsCopied
  /\ genesisHash' = Legacy.genesis
  /\ currentTip' = Legacy.tip
  /\ meta' = [genesis |-> Legacy.genesis, tip |-> Legacy.tip]
  /\ open' = TRUE
  /\ UNCHANGED <<entry, heightFile, write>>

Opening == Load \/ MigrateBlock \/ MigrateHeight \/ MigrateMeta

\* The process is gone: the files stay, what was in memory does not.
LoseMemory ==
  /\ genesisHash' = NoBlock /\ currentTip' = NoBlock
  /\ write' = Unlocked
  /\ open' = FALSE
  /\ UNCHANGED diskVars

-----------------------------------------------------------------------------
(***************************************************************************)
(* What a store may hold.                                                  *)
(***************************************************************************)
StoreTypeOK ==
  /\ entry \in [Block -> Nat \cup {NoEntry}]
  /\ heightFile \in [HeightSet -> BlockOrNone]
  /\ meta \in [genesis : BlockOrNone, tip : BlockOrNone]
  /\ genesisHash \in BlockOrNone
  /\ currentTip \in BlockOrNone
  /\ write \in {Unlocked} \cup [step : {"height", "meta"}, block : Block]
  /\ open \in BOOLEAN

(***************************************************************************)
(* Every pointer names a complete block file: the tip and the genesis, in  *)
(* memory and in the meta file, and each height file, which names a block  *)
(* of that height.  A crash between any two writes must keep this          *)
(* (store_disk.go, StoreBlock: block file before height file before meta;  *)
(* migrateLegacySnapshot: meta last).                                      *)
(***************************************************************************)
PointersResolve ==
  /\ \A p \in {meta.genesis, meta.tip, genesisHash, currentTip} \ {NoBlock} :
       Stored(p)
  /\ \A h \in HeightSet : heightFile[h] # NoBlock =>
       Stored(heightFile[h]) /\ Height[heightFile[h]] = h

(***************************************************************************)
(* A meta file written over a legacy snapshot stands for a finished        *)
(* migration: every block and height of the snapshot has its file, at its  *)
(* old total work, whatever crashes interrupted the copying.               *)
(***************************************************************************)
MigrationComplete ==
  (Legacy # NoLegacy /\ meta # NoMeta) =>
    /\ \A b \in Block :
         Legacy.work[b] # NoEntry => entry[b] = Legacy.work[b]
    /\ \A h \in HeightSet : Legacy.heights[h] # NoBlock =>
         heightFile[h] # NoBlock

(***************************************************************************)
(* What a restart would read back is what the store answers from, whenever *)
(* no operation is under way: nobody was told of a tip that a crash        *)
(* forgets.  (With failing writes this does not hold: StoreBlock and       *)
(* SetCurrentTip change memory before the flush that may fail.)            *)
(***************************************************************************)
DiskAgrees ==
  (open /\ Free) => meta = [genesis |-> genesisHash, tip |-> currentTip]

(***************************************************************************)
(* A step never takes an accepted block, or the genesis that the meta file *)
(* once named, away: the store has no deletion, and a second height-0      *)
(* block does not replace the first (store_disk.go:80).                    *)
(***************************************************************************)
KeepsBlocks == \A b \in Block : Stored(b) => entry'[b] = entry[b]

KeepsGenesis == meta.genesis # NoBlock => meta'.genesis = meta.genesis

NothingForgotten == [][KeepsBlocks /\ KeepsGenesis]_storeVars
=============================================================================
