--------------------------- MODULE ChainNode_proofs ---------------------------
(***************************************************************************)
(* The inductive invariant of ChainNode and the theorems that follow from  *)
(* it, for every set of blocks and peers, every legacy snapshot, with or   *)
(* without crashes and failing writes.                                     *)
(***************************************************************************)
EXTENDS ChainNode, TLAPS

-----------------------------------------------------------------------------
(***************************************************************************)
(* The invariant, in parts.  Placed: a block stands on its stored parent.  *)
(***************************************************************************)
Placed(b) ==
  Height[b] > 0 =>
    /\ Parent[b] \in Block /\ Stored(Parent[b])
    /\ Height[b] = Height[Parent[b]] + 1
    /\ Stamp[b] > Stamp[Parent[b]]

GoodBlock(b) == Placed(b) /\ Stamp[b] <= now + FutureLimit

\* What the files hold.
DiskInv ==
  /\ ~Migrating => \A b \in Block : Stored(b) =>
       GoodBlock(b) /\ entry[b] = TotalWork(b)
  /\ Migrating => \A b \in Block : Stored(b) => entry[b] = Legacy.work[b]
  /\ Legacy # NoLegacy /\ meta.tip # NoBlock =>
       \A b \in Block : Legacy.work[b] # NoEntry => entry[b] = Legacy.work[b]
  /\ \A h \in HeightSet : heightFile[h] # NoBlock =>
       Stored(heightFile[h]) /\ Height[heightFile[h]] = h
  /\ Legacy # NoLegacy /\ meta.tip # NoBlock =>
       \A h \in HeightSet : Legacy.heights[h] # NoBlock => heightFile[h] # NoBlock
  /\ meta.tip # NoBlock <=> meta.genesis # NoBlock
  /\ meta.tip # NoBlock => Stored(meta.tip)
  /\ meta.genesis # NoBlock => Stored(meta.genesis) /\ Height[meta.genesis] = 0

\* What the store keeps in memory, against the files.
MemoryInv ==
  /\ ~open => Free
  /\ open => Legacy = NoLegacy \/ meta.tip # NoBlock
  /\ genesisHash # NoBlock => Stored(genesisHash) /\ Height[genesisHash] = 0
  /\ currentTip # NoBlock => Stored(currentTip) /\ genesisHash # NoBlock
  /\ open /\ meta.genesis # NoBlock => genesisHash = meta.genesis
  /\ write.step = "height" =>
       /\ Stored(write.block)
       /\ currentTip = NoBlock => IsGenesis(write.block)
  /\ write.step = "meta" => currentTip # NoBlock

Holding == {"storing", "setting"}

\* Who runs, and who holds the store's lock.
ThreadInv ==
  /\ open <=> pc[Main] # "down"
  /\ serving => open /\ currentTip # NoBlock /\ pc[Main] # "init"
  /\ ~serving => \A t \in Peer : pc[t] = "idle"
  /\ pc[Main] = "mine" => serving
  /\ \A t \in Thread : pc[t] \in Holding => ~Free
  /\ \A t, u \in Thread : pc[t] \in Holding /\ pc[u] \in Holding => t = u
  /\ \A t \in Thread : pc[t] = "setting" => write.step = "meta"
  /\ \A t \in Thread : pc[t] \in {"readtip", "settip"} => currentTip # NoBlock

\* What InsertBlock knows of the block in its hands, call after call.
Inserts(t) ==
  /\ pc[t] \in Inserting => blk[t] \in Block
  /\ pc[t] \in Inserting /\ ~serving =>
       IsGenesis(blk[t]) /\ pc[t] \notin {"check", "has", "readtip"}
  /\ pc[t] \in Inserting \ {"check"} => GoodBlock(blk[t])
  /\ pc[t] \in Inserting \ {"check", "has"} => total[t] = TotalWork(blk[t])
  /\ pc[t] \in Holding \cup {"readtip", "settip"} => Stored(blk[t])
  /\ t = Main /\ pc[t] = "check" => Placed(blk[t]) /\ Height[blk[t]] > 0

InsertInv == \A t \in Thread : Inserts(t)

IInv ==
  /\ TypeOK
  /\ DiskInv
  /\ MemoryInv
  /\ ThreadInv
  /\ InsertInv

\* The part of it that is about the store alone.
StoreInv == StoreTypeOK /\ DiskInv /\ MemoryInv

-----------------------------------------------------------------------------
(***************************************************************************)
(* Arithmetic of total work.                                               *)
(***************************************************************************)

\* The work of one block is a natural number.
LEMMA WorkIsNat ==
  ASSUME NEW t \in 0 .. TargetSpace - 1
  PROVE  CalcBlockWork(t) \in Nat
BY BlockAssumption DEF CalcBlockWork

\* So is the total work of a block whose parent is stored.
LEMMA TotalIsNat ==
  ASSUME StoreTypeOK, NEW b \in Block, Placed(b)
  PROVE  TotalWork(b) \in Nat
<1>1. CalcBlockWork(Target[b]) \in Nat
  BY WorkIsNat, BlockAssumption
<1>2. CASE IsGenesis(b)
  BY <1>1, <1>2 DEF TotalWork
<1>3. CASE ~IsGenesis(b)
  <2>1. entry[Parent[b]] \in Nat
    BY <1>3, BlockAssumption DEF Placed, IsGenesis, Stored, StoreTypeOK
  <2> QED
    BY <1>1, <1>3, <2>1 DEF TotalWork
<1> QED
  BY <1>2, <1>3

\* What is known of a block stays true as long as blocks are kept.
LEMMA Stable ==
  ASSUME KeepsBlocks, NEW b \in Block, now \in Nat, now' \in Nat, now' >= now
  PROVE  /\ Stored(b) => Stored(b)'
         /\ GoodBlock(b) => GoodBlock(b)' /\ TotalWork(b)' = TotalWork(b)
         /\ Placed(b) => Placed(b)'
<1>1. Stored(b) => Stored(b)'
  BY DEF KeepsBlocks, Stored
<1>2. Placed(b) => Placed(b)'
  BY DEF KeepsBlocks, Stored, Placed
<1>3. GoodBlock(b) => GoodBlock(b)'
  BY <1>2, BlockAssumption, NodeAssumption DEF GoodBlock
<1>4. Placed(b) => TotalWork(b)' = TotalWork(b)
  BY BlockAssumption DEF KeepsBlocks, Placed, TotalWork, IsGenesis, Stored
<1> QED
  BY <1>1, <1>2, <1>3, <1>4 DEF GoodBlock

-----------------------------------------------------------------------------
(***************************************************************************)
(* Each step of the store keeps its part of the invariant, and every block *)
(* and genesis.                                                            *)
(***************************************************************************)
StoreStepOK == StoreInv' /\ KeepsBlocks /\ KeepsGenesis

LEMMA QuietStore ==
  ASSUME StoreInv, UNCHANGED storeVars, now \in Nat, now' \in Nat, now' >= now
  PROVE  StoreStepOK
<1>1. KeepsBlocks /\ KeepsGenesis
  BY DEF storeVars, KeepsBlocks, KeepsGenesis
<1>2. StoreTypeOK'
  BY DEF StoreInv, StoreTypeOK, storeVars
<1>3. MemoryInv'
  BY DEF StoreInv, MemoryInv, storeVars, Free, Stored
<1>4. \A b \in Block : Stored(b) /\ ~Migrating => (GoodBlock(b) /\ entry[b] = TotalWork(b))'
  BY <1>1, Stable DEF StoreInv, DiskInv, storeVars
<1>5. DiskInv'
  BY <1>4 DEF StoreInv, DiskInv, storeVars, Migrating, Stored
<1> QED
  BY <1>1, <1>2, <1>3, <1>5 DEF StoreStepOK, StoreInv

LEMMA StoreBeginOK ==
  ASSUME StoreInv, now \in Nat, now' = now,
         NEW b \in Block, GoodBlock(b), currentTip = NoBlock => IsGenesis(b),
         StoreBegin(b, TotalWork(b))
  PROVE  StoreStepOK
<1> USE DEF StoreInv
<1>1. TotalWork(b) \in Nat
  BY TotalIsNat DEF GoodBlock
<1>2. ~Migrating
  BY DEF StoreBegin, Migrating
<1>3. KeepsBlocks
  BY <1>2 DEF KeepsBlocks, StoreBegin, StoreTypeOK, DiskInv
<1>4. KeepsGenesis
  BY DEF KeepsGenesis, StoreBegin
<1>5. StoreTypeOK'
  BY <1>1 DEF StoreTypeOK, StoreBegin
<1>6. entry'[b] = TotalWork(b) /\ Stored(b)'
  BY <1>1 DEF StoreBegin, StoreTypeOK, Stored, NoEntry
<1>7. \A c \in Block : Stored(c)' => (GoodBlock(c) /\ entry[c] = TotalWork(c))'
  <2> TAKE c \in Block
  <2>1. CASE c = b
    BY <2>1, <1>3, <1>6, Stable DEF GoodBlock
  <2>2. CASE c # b
    <3>1. entry'[c] = entry[c]
      BY <2>2 DEF StoreBegin, StoreTypeOK
    <3>2. Stored(c)' => Stored(c)
      BY <3>1 DEF Stored
    <3> QED
      BY <3>1, <3>2, <1>2, <1>3, Stable DEF DiskInv, GoodBlock
  <2> QED
    BY <2>1, <2>2
<1>8. DiskInv'
  <2>1. ~Migrating'
    BY DEF StoreBegin, Migrating
  <2>2. \A c \in Block : Stored(c) => Stored(c)'
    BY <1>3, Stable
  <2> QED
    BY <1>3, <1>7, <2>1, <2>2
       DEF DiskInv, StoreBegin, KeepsBlocks, StoreTypeOK, Stored, StoreAssumption
<1>9. MemoryInv'
  BY <1>3, <1>6, Stable
     DEF MemoryInv, StoreBegin, Free, Unlocked, StoreTypeOK, BlockOrNone
<1> QED
  BY <1>3, <1>4, <1>5, <1>8, <1>9 DEF StoreStepOK

LEMMA StoreHeightOK ==
  ASSUME StoreInv, now \in Nat, now' = now, StoreHeight
  PROVE  StoreStepOK
<1> USE DEF StoreInv
<1>1. write.block \in Block /\ Stored(write.block)
  BY DEF StoreHeight, StoreTypeOK, MemoryInv, Unlocked
<1>2. KeepsBlocks /\ KeepsGenesis
  BY DEF StoreHeight, KeepsBlocks, KeepsGenesis
<1>3. Height[write.block] \in HeightSet
  BY <1>1 DEF HeightSet
<1>4. StoreTypeOK'
  BY <1>1, <1>3 DEF StoreTypeOK, StoreHeight, GenesisAfterStore, TipAfterStore, BlockOrNone, Unlocked
<1>5. \A c \in Block : Stored(c) /\ ~Migrating => (GoodBlock(c) /\ entry[c] = TotalWork(c))'
  BY <1>2, Stable DEF DiskInv, KeepsBlocks
<1>6. DiskInv'
  BY <1>1, <1>3, <1>5, BlockAssumption
     DEF DiskInv, StoreHeight, Migrating, Stored, StoreTypeOK
<1>7. MemoryInv'
  BY <1>1, BlockAssumption
     DEF MemoryInv, StoreHeight, GenesisAfterStore, TipAfterStore, Free, Unlocked,
         Stored, IsGenesis, DiskInv, StoreTypeOK
<1> QED
  BY <1>2, <1>4, <1>6, <1>7 DEF StoreStepOK

LEMMA FlushOK ==
  ASSUME StoreInv, now \in Nat, now' = now, Flush
  PROVE  StoreStepOK
<1> USE DEF StoreInv
<1>1. currentTip # NoBlock /\ Stored(currentTip) /\ genesisHash # NoBlock
      /\ Stored(genesisHash) /\ Height[genesisHash] = 0
  BY DEF Flush, MemoryInv
<1>2. meta.genesis # NoBlock => open /\ meta.genesis = genesisHash
  BY DEF Flush, MemoryInv, Free, Unlocked
<1>3. KeepsBlocks /\ KeepsGenesis
  BY <1>2 DEF Flush, KeepsBlocks, KeepsGenesis
<1>4. StoreTypeOK'
  BY DEF StoreTypeOK, Flush
<1>5. open /\ (Legacy = NoLegacy \/ meta.tip # NoBlock)
  BY DEF Flush, MemoryInv, Free, Unlocked
<1>6. \A c \in Block : Stored(c) => (GoodBlock(c) /\ entry[c] = TotalWork(c))'
  BY <1>3, <1>5, Stable DEF DiskInv, KeepsBlocks, Migrating
<1>7. DiskInv'
  BY <1>1, <1>3, <1>5, <1>6 DEF DiskInv, Flush, Migrating, Stored
<1>8. MemoryInv'
  BY <1>1, <1>2 DEF MemoryInv, Flush, Free, Unlocked, Stored
<1> QED
  BY <1>3, <1>4, <1>7, <1>8 DEF StoreStepOK

LEMMA SetTipBeginOK ==
  ASSUME StoreInv, now \in Nat, now' = now, NEW b \in Block, SetTipBegin(b),
         currentTip # NoBlock
  PROVE  StoreStepOK
<1> USE DEF StoreInv
<1>1. KeepsBlocks /\ KeepsGenesis
  BY DEF SetTipBegin, KeepsBlocks, KeepsGenesis
<1>2. StoreTypeOK'
  BY DEF StoreTypeOK, SetTipBegin, BlockOrNone
<1>3. \A c \in Block : Stored(c) /\ ~Migrating => (GoodBlock(c) /\ entry[c] = TotalWork(c))'
  BY <1>1, Stable DEF DiskInv, KeepsBlocks
<1>4. DiskInv'
  BY <1>3 DEF DiskInv, SetTipBegin, Migrating, Stored
<1>5. MemoryInv'
  BY BlockAssumption DEF MemoryInv, SetTipBegin, Free, Unlocked, Stored
<1> QED
  BY <1>1, <1>2, <1>4, <1>5 DEF StoreStepOK

LEMMA WriteFailsOK ==
  ASSUME StoreInv, now \in Nat, now' = now, WriteFails
  PROVE  StoreStepOK
<1> USE DEF StoreInv
<1>1. KeepsBlocks /\ KeepsGenesis
  BY DEF WriteFails, diskVars, KeepsBlocks, KeepsGenesis
<1>2. StoreTypeOK'
  BY DEF StoreTypeOK, WriteFails, diskVars
<1>3. \A c \in Block : Stored(c) /\ ~Migrating => (GoodBlock(c) /\ entry[c] = TotalWork(c))'
  BY <1>1, Stable DEF DiskInv, KeepsBlocks
<1>4. DiskInv'
  BY <1>3 DEF DiskInv, WriteFails, diskVars, Migrating, Stored
<1>5. MemoryInv'
  BY DEF MemoryInv, WriteFails, diskVars, Free, Unlocked, Stored
<1> QED
  BY <1>1, <1>2, <1>4, <1>5 DEF StoreStepOK

LEMMA LoseMemoryOK ==
  ASSUME StoreInv, now \in Nat, now' = now, LoseMemory
  PROVE  StoreStepOK
<1> USE DEF StoreInv
<1>1. KeepsBlocks /\ KeepsGenesis
  BY DEF LoseMemory, diskVars, KeepsBlocks, KeepsGenesis
<1>2. StoreTypeOK'
  BY DEF StoreTypeOK, LoseMemory, diskVars, BlockOrNone
<1>3. \A c \in Block : Stored(c) /\ ~Migrating' => (GoodBlock(c) /\ entry[c] = TotalWork(c))'
  BY <1>1, Stable DEF DiskInv, KeepsBlocks, Migrating, LoseMemory, diskVars
<1>4. Migrating' => Migrating
  BY DEF Migrating, LoseMemory, diskVars, MemoryInv, NoMeta
<1>5. DiskInv'
  BY <1>3, <1>4 DEF DiskInv, LoseMemory, diskVars, Stored
<1>6. MemoryInv'
  BY DEF MemoryInv, LoseMemory, diskVars, Free, Unlocked, Stored
<1> QED
  BY <1>1, <1>2, <1>5, <1>6 DEF StoreStepOK

LEMMA OpeningOK ==
  ASSUME StoreInv, now \in Nat, now' = now, Opening
  PROVE  StoreStepOK
<1> USE DEF StoreInv
<1>1. CASE Load
  <2>1. KeepsBlocks /\ KeepsGenesis
    BY <1>1 DEF Load, diskVars, KeepsBlocks, KeepsGenesis
  <2>2. StoreTypeOK'
    BY <1>1 DEF StoreTypeOK, Load, diskVars
  <2>3. ~Migrating /\ ~Migrating'
    BY <1>1 DEF Migrating, Load
  <2>4. \A c \in Block : Stored(c) => (GoodBlock(c) /\ entry[c] = TotalWork(c))'
    BY <2>1, <2>3, Stable DEF DiskInv, KeepsBlocks
  <2>5. DiskInv'
    BY <1>1, <2>3, <2>4 DEF DiskInv, Load, diskVars, Stored
  <2>6. meta # NoMeta => meta.tip # NoBlock
    BY DEF NoMeta, DiskInv, StoreTypeOK
  <2>7. MemoryInv'
    BY <1>1, <2>6 DEF MemoryInv, DiskInv, Load, diskVars, Free, Unlocked, Stored
  <2> QED
    BY <2>1, <2>2, <2>5, <2>7 DEF StoreStepOK
<1>2. CASE MigrateBlock
  <2>1. PICK b \in Block : /\ Legacy.work[b] # NoEntry /\ ~Stored(b)
                           /\ entry' = [entry EXCEPT ![b] = Legacy.work[b]]
    BY <1>2 DEF MigrateBlock
  <2>2. Migrating /\ UNCHANGED <<heightFile, meta, memoryVars>>
    BY <1>2 DEF MigrateBlock
  <2>3. KeepsBlocks /\ KeepsGenesis
    BY <2>1, <2>2 DEF StoreTypeOK, KeepsBlocks, KeepsGenesis, Stored
  <2>4. StoreTypeOK'
    BY <2>1, <2>2, StoreAssumption DEF StoreTypeOK, memoryVars, Migrating
  <2>5. Migrating'
    BY <2>2 DEF Migrating, memoryVars
  <2>6. \A c \in Block : Stored(c)' => entry'[c] = Legacy.work[c]
    BY <2>1, <2>2 DEF StoreTypeOK, DiskInv, Stored
  <2>7. \A c \in Block : Stored(c) => Stored(c)'
    BY <2>3, Stable
  <2>8. meta.tip = NoBlock
    BY <2>2 DEF Migrating, NoMeta
  <2>9. DiskInv'
    BY <2>2, <2>5, <2>6, <2>7, <2>8 DEF DiskInv, StoreTypeOK, BlockOrNone
  <2>10. MemoryInv'
    BY <2>2, <2>7 DEF MemoryInv, memoryVars, Free, Unlocked, StoreTypeOK, BlockOrNone, Migrating
  <2> QED
    BY <2>3, <2>4, <2>9, <2>10 DEF StoreStepOK
<1>3. CASE MigrateHeight
  <2>1. PICK h \in HeightSet : /\ Legacy.heights[h] \notin {NoBlock, heightFile[h]}
                               /\ heightFile' = [heightFile EXCEPT ![h] = Legacy.heights[h]]
    BY <1>3 DEF MigrateHeight
  <2>2. Migrating /\ BlocksCopied /\ UNCHANGED <<entry, meta, memoryVars>>
    BY <1>3 DEF MigrateHeight
  <2>3. KeepsBlocks /\ KeepsGenesis
    BY <2>2 DEF KeepsBlocks, KeepsGenesis
  <2>4. StoreTypeOK'
    BY <2>1, <2>2, StoreAssumption DEF StoreTypeOK, memoryVars, Migrating
  <2>5. Migrating'
    BY <2>2 DEF Migrating, memoryVars
  <2>6. Stored(Legacy.heights[h]) /\ Height[Legacy.heights[h]] = h
    BY <2>1, <2>2, StoreAssumption DEF Migrating, BlocksCopied, BlockOrNone
  <2>7. meta.tip = NoBlock
    BY <2>2 DEF Migrating, NoMeta
  <2>8. DiskInv'
    BY <2>1, <2>2, <2>5, <2>6, <2>7 DEF DiskInv, StoreTypeOK, Stored
  <2>9. MemoryInv'
    BY <2>2 DEF MemoryInv, memoryVars, Free, Stored
  <2> QED
    BY <2>3, <2>4, <2>8, <2>9 DEF StoreStepOK
<1>4. CASE MigrateMeta
  <2>1. /\ Migrating /\ BlocksCopied /\ HeightsCopied
        /\ genesisHash' = Legacy.genesis /\ currentTip' = Legacy.tip
        /\ meta' = [genesis |-> Legacy.genesis, tip |-> Legacy.tip]
        /\ open' = TRUE
        /\ UNCHANGED <<entry, heightFile, write>>
    BY <1>4 DEF MigrateMeta
  <2>2. KeepsBlocks /\ KeepsGenesis
    BY <2>1 DEF KeepsBlocks, KeepsGenesis, Migrating, NoMeta
  <2>3. /\ Legacy # NoLegacy
        /\ Legacy.genesis \in Block /\ Legacy.tip \in Block
        /\ Stored(Legacy.genesis) /\ Stored(Legacy.tip)
        /\ Legacy.genesis # NoBlock /\ Legacy.tip # NoBlock
        /\ Height[Legacy.genesis] = 0
    BY <2>1, StoreAssumption, LegacyAssumption, BlockAssumption DEF Migrating, BlocksCopied
  <2>4. StoreTypeOK'
    BY <2>1, <2>3 DEF StoreTypeOK, BlockOrNone
  <2>5. \A c \in Block : Stored(c) => entry[c] = Legacy.work[c] /\ Legacy.work[c] # NoEntry
    BY <2>1 DEF DiskInv, Stored
  <2>6. \A c \in Block : Stored(c) => GoodBlock(c) /\ entry[c] = TotalWork(c)
    <3> TAKE c \in Block
    <3> HAVE Stored(c)
    <3>1. Placed(c)
      BY <2>1, <2>3, <2>5, LegacyAssumption DEF Placed, BlocksCopied
    <3>2. Stamp[c] <= now + FutureLimit
      BY <2>3, <2>5, LegacyAssumption, NodeAssumption, BlockAssumption
    <3>3. entry[c] = TotalWork(c)
      BY <3>1, <2>3, <2>5, LegacyAssumption, BlockAssumption DEF TotalWork, IsGenesis, Placed
    <3> QED
      BY <3>1, <3>2, <3>3 DEF GoodBlock
  <2>7. \A c \in Block : Stored(c) => (GoodBlock(c) /\ entry[c] = TotalWork(c))'
    BY <2>2, <2>6, Stable DEF KeepsBlocks
  <2>8. ~Migrating'
    BY <2>1 DEF Migrating
  <2>9. DiskInv'
    BY <2>1, <2>3, <2>5, <2>7, <2>8 DEF DiskInv, Stored, BlocksCopied, HeightsCopied
  <2>10. Free
    BY <2>1 DEF MemoryInv, Migrating
  <2>11. MemoryInv'
    BY <2>1, <2>3, <2>10 DEF MemoryInv, Free, Unlocked, Stored
  <2> QED
    BY <2>2, <2>4, <2>9, <2>11 DEF StoreStepOK
<1> QED
  BY <1>1, <1>2, <1>3, <1>4 DEF Opening

-----------------------------------------------------------------------------
(***************************************************************************)
(* Every step of the node is a step of the store, or leaves it alone.      *)
(***************************************************************************)
ClockOK == now' \in Nat /\ now' >= now

LEMMA StoreStep ==
  ASSUME IInv, [Next]_vars
  PROVE  StoreStepOK /\ ClockOK
<1> USE DEF IInv, TypeOK
<1>0. StoreInv /\ now \in Nat
  BY DEF StoreInv
<1>1. CASE UNCHANGED storeVars /\ now' = now
  BY <1>0, <1>1, QuietStore DEF ClockOK
<1>2. CASE Exit
  BY <1>0, <1>2, LoseMemoryOK DEF Exit, ClockOK
<1>3. ASSUME NEW t \in Thread, Fail(t)
      PROVE  StoreStepOK /\ ClockOK
  BY <1>1, <1>2, <1>3 DEF Fail
<1>4. CASE OpenStore
  BY <1>0, <1>4, OpeningOK DEF OpenStore, ClockOK
<1>5. CASE ChainPresent \/ SealGenesis \/ Mine
  BY <1>1, <1>5 DEF ChainPresent, SealGenesis, Mine
<1>6. CASE MineFails \/ Crash
  BY <1>2, <1>6 DEF MineFails, Crash
<1>7. ASSUME NEW t \in Peer, NEW b \in Block, Deliver(t, b)
      PROVE  StoreStepOK /\ ClockOK
  BY <1>1, <1>7 DEF Deliver
<1>8. ASSUME NEW t \in Thread, InsertStep(t)
      PROVE  StoreStepOK /\ ClockOK
  <2>0. Inserts(t)
    BY DEF InsertInv
  <2>1. CASE Check(t)
    BY <1>1, <1>3, <2>1 DEF Check
  <2>2. CASE Known(t)
    BY <1>1, <1>3, <2>2 DEF Known
  <2>3. CASE Store(t)
    <3>1. CASE StoreBegin(blk[t], total[t]) /\ now' = now
      <4>1. /\ blk[t] \in Block /\ GoodBlock(blk[t]) /\ total[t] = TotalWork(blk[t])
            /\ currentTip = NoBlock => IsGenesis(blk[t])
        BY <2>0, <2>3 DEF Inserts, Inserting, Store, At, ThreadInv
      <4> QED
        BY <1>0, <3>1, <4>1, StoreBeginOK DEF ClockOK
    <3> QED
      BY <1>3, <2>3, <3>1 DEF Store
  <2>4. CASE Storing(t)
    BY <1>0, <2>4, StoreHeightOK, FlushOK DEF Storing, ClockOK
  <2>5. CASE ReadTip(t)
    BY <1>1, <2>5 DEF ReadTip
  <2>6. CASE SetTip(t)
    <3>1. CASE SetTipBegin(blk[t]) /\ now' = now
      <4>1. blk[t] \in Block /\ currentTip # NoBlock
        BY <2>0, <2>6 DEF Inserts, Inserting, SetTip, At, ThreadInv
      <4> QED
        BY <1>0, <3>1, <4>1, SetTipBeginOK DEF ClockOK
    <3> QED
      BY <1>3, <2>6, <3>1 DEF SetTip
  <2>7. CASE Setting(t)
    BY <1>0, <2>7, FlushOK DEF Setting, ClockOK
  <2> QED
    BY <1>8, <2>1, <2>2, <2>3, <2>4, <2>5, <2>6, <2>7 DEF InsertStep
<1>9. ASSUME NEW t \in Thread, WriteError(t)
      PROVE  StoreStepOK /\ ClockOK
  BY <1>0, <1>2, <1>9, WriteFailsOK DEF WriteError, ClockOK
<1>10. CASE Tick
  BY <1>0, <1>10, QuietStore DEF Tick, ClockOK
<1>11. CASE UNCHANGED vars
  BY <1>1, <1>11 DEF vars
<1> QED
  BY <1>4, <1>5, <1>6, <1>7, <1>8, <1>9, <1>10, <1>11 DEF Next

\* A goroutine that does not move keeps what it knows.
LEMMA Frame ==
  ASSUME IInv, StoreStepOK, ClockOK, serving => serving', NEW u \in Thread,
         pc'[u] = pc[u], blk'[u] = blk[u], total'[u] = total[u]
  PROVE  Inserts(u)'
<1>1. Inserts(u)
  BY DEF IInv, InsertInv
<1>2. \A b \in Block : /\ Stored(b) => Stored(b)'
                       /\ GoodBlock(b) => GoodBlock(b)' /\ TotalWork(b)' = TotalWork(b)
                       /\ Placed(b) => Placed(b)'
  BY Stable DEF StoreStepOK, IInv, TypeOK, ClockOK
<1> QED
  BY <1>1, <1>2 DEF Inserts, Inserting, Holding

\* One goroutine moves, the others keep what they know.
LEMMA OneMoves ==
  ASSUME IInv, StoreStepOK, ClockOK, serving => serving', NEW t \in Thread,
         \A u \in Thread \ {t} : pc'[u] = pc[u] /\ blk'[u] = blk[u] /\ total'[u] = total[u],
         Inserts(t)'
  PROVE  InsertInv'
<1> SUFFICES ASSUME NEW u \in Thread PROVE Inserts(u)'
  BY DEF InsertInv
<1> QED
  BY Frame

\* What has to be shown of a step of the node, once its store step is known.
NodeStepOK == TypeOK' /\ ThreadInv' /\ InsertInv'

LEMMA ExitOK ==
  ASSUME IInv, StoreStepOK, ClockOK, Exit
  PROVE  NodeStepOK
<1> USE NodeAssumption DEF Exit, AllDown, Thread
<1>1. TypeOK'
  BY DEF StoreStepOK, StoreInv, TypeOK, BlockOrNone, ClockOK
<1>2. ThreadInv'
  BY DEF ThreadInv, LoseMemory, Holding
<1>3. InsertInv'
  BY DEF InsertInv, Inserts, Inserting, Holding
<1> QED
  BY <1>1, <1>2, <1>3 DEF NodeStepOK

\* A goroutine returns from its calls; the store may have been flushed by it.
LEMMA ReturnOK ==
  ASSUME IInv, StoreStepOK, ClockOK, NEW t \in Thread, Return(t),
         open, open' = open, currentTip' = currentTip,
         t = Main => currentTip # NoBlock,
         t # Main => serving,
         \/ UNCHANGED storeVars /\ pc[t] \notin Holding
         \/ pc[t] \in Holding /\ write' = Unlocked
  PROVE  NodeStepOK
<1> USE DEF Return, GoTo, Home, At
<1>0. /\ pc \in [Thread -> Inserting \cup {"down", "init", "mine", "idle"}]
      /\ blk \in [Thread -> BlockOrNone] /\ total \in [Thread -> Nat]
  BY DEF IInv, TypeOK
<1>1. TypeOK'
  BY <1>0, NodeAssumption
     DEF StoreStepOK, StoreInv, IInv, TypeOK, BlockOrNone, ClockOK, Thread
<1>2. ThreadInv'
  BY <1>0, NodeAssumption
     DEF IInv, ThreadInv, Holding, Thread, storeVars, Inserting, Unlocked, Free
<1>3. Inserts(t)'
  BY <1>0 DEF Inserts, Inserting, Holding
<1>4. InsertInv'
  BY <1>0, <1>3, OneMoves
<1> QED
  BY <1>1, <1>2, <1>4 DEF NodeStepOK

LEMMA FailOK ==
  ASSUME IInv, StoreStepOK, ClockOK, NEW t \in Thread, Fail(t),
         pc[t] \in Inserting \ Holding
  PROVE  NodeStepOK
<1>1. CASE t = Main
  BY <1>1, ExitOK DEF Fail
<1>2. CASE t # Main
  <2>1. serving /\ open
    BY <1>2 DEF IInv, ThreadInv, Thread, Inserting
  <2> QED
    BY <1>2, <2>1, ReturnOK DEF Fail, storeVars
<1> QED
  BY <1>1, <1>2

\* Opening, the genesis, a template, a delivery: the steps before InsertBlock.
LEMMA BeforeInsertOK ==
  ASSUME IInv, StoreStepOK, ClockOK,
         \/ OpenStore \/ ChainPresent \/ SealGenesis \/ Mine
         \/ \E t \in Peer, b \in Block : Deliver(t, b)
  PROVE  NodeStepOK
<1>0. /\ pc \in [Thread -> Inserting \cup {"down", "init", "mine", "idle"}]
      /\ blk \in [Thread -> BlockOrNone] /\ total \in [Thread -> Nat]
      /\ Main \in Thread /\ serving \in BOOLEAN
  BY DEF IInv, TypeOK, Thread
<1>1. CASE OpenStore
  <2> USE <1>0, <1>1 DEF OpenStore, At, GoTo
  <2>1. TypeOK'
    BY NodeAssumption DEF StoreStepOK, StoreInv, IInv, TypeOK, ClockOK, Thread
  <2>2. ~open /\ UNCHANGED write /\ ~serving
    BY DEF Opening, Load, MigrateBlock, MigrateHeight, MigrateMeta, memoryVars,
           Migrating, IInv, ThreadInv
  <2>3. ThreadInv'
    BY <2>2, NodeAssumption
       DEF IInv, ThreadInv, Holding, Thread, Free, StoreStepOK, StoreInv, StoreTypeOK
  <2>4. Inserts(Main)'
    BY DEF Inserts, Inserting, Holding
  <2>5. InsertInv'
    BY <2>4, OneMoves
  <2> QED
    BY <2>1, <2>3, <2>5 DEF NodeStepOK
<1>2. CASE ChainPresent
  <2>1. open /\ pc[Main] \notin Holding
    BY <1>2 DEF ChainPresent, At, IInv, ThreadInv, Holding
  <2> QED
    BY <1>0, <1>2, <2>1, ReturnOK DEF ChainPresent, storeVars
<1>3. CASE SealGenesis
  <2> USE <1>0, <1>3 DEF SealGenesis, At, GoTo
  <2>1. PICK g \in Block : /\ IsGenesis(g) /\ Stamp[g] <= now
                           /\ blk' = [blk EXCEPT ![Main] = g]
                           /\ total' = [total EXCEPT ![Main] = CalcBlockWork(Target[g])]
    BY NodeAssumption
  <2>2. Placed(g) /\ CalcBlockWork(Target[g]) = TotalWork(g) /\ TotalWork(g) \in Nat
    BY <2>1, WorkIsNat, BlockAssumption DEF Placed, IsGenesis, TotalWork
  <2>3. TotalWork(g)' = TotalWork(g) /\ GoodBlock(g)'
    BY <2>1, <2>2, Stable, NodeAssumption, BlockAssumption
       DEF GoodBlock, StoreStepOK, ClockOK, IInv, TypeOK
  <2>4. TypeOK'
    BY <2>1, <2>2, NodeAssumption
       DEF StoreStepOK, StoreInv, IInv, TypeOK, ClockOK, Thread, Inserting, BlockOrNone
  <2>5. ThreadInv'
    BY NodeAssumption DEF IInv, ThreadInv, Holding, Thread, Free, storeVars
  <2>6. Inserts(Main)'
    BY <2>1, <2>2, <2>3, NodeAssumption DEF Inserts, Inserting, Holding, IsGenesis
  <2>7. InsertInv'
    BY <2>6, <2>1, OneMoves
  <2> QED
    BY <2>4, <2>5, <2>7 DEF NodeStepOK
<1>4. CASE Mine
  <2> USE <1>0, <1>4 DEF Mine, At, GoTo
  <2>1. PICK b \in Block : /\ Parent[b] = currentTip
                           /\ Height[b] = Height[currentTip] + 1
                           /\ Stamp[b] = TemplateStamp
                           /\ blk' = [blk EXCEPT ![Main] = b]
    BY NodeAssumption
  <2>2. currentTip \in Block /\ Stored(currentTip) /\ serving
    BY DEF IInv, MemoryInv, ThreadInv, TypeOK, StoreTypeOK, BlockOrNone
  <2>3. Placed(b) /\ Height[b] > 0
    BY <2>1, <2>2, BlockAssumption DEF Placed, TemplateStamp, IInv, TypeOK
  <2>4. Placed(b)'
    BY <2>3, Stable DEF StoreStepOK, ClockOK, IInv, TypeOK
  <2>5. TypeOK'
    BY <2>1, NodeAssumption
       DEF StoreStepOK, StoreInv, IInv, TypeOK, ClockOK, Thread, Inserting, BlockOrNone
  <2>6. ThreadInv'
    BY <2>2, NodeAssumption DEF IInv, ThreadInv, Holding, Thread, Free, storeVars
  <2>7. Inserts(Main)'
    BY <2>1, <2>2, <2>3, <2>4, NodeAssumption DEF Inserts, Inserting, Holding
  <2>8. InsertInv'
    BY <2>1, <2>7, OneMoves
  <2> QED
    BY <2>5, <2>6, <2>8 DEF NodeStepOK
<1>5. ASSUME NEW t \in Peer, NEW b \in Block, Deliver(t, b)
      PROVE  NodeStepOK
  <2> USE <1>0, <1>5 DEF Deliver, At, GoTo
  <2>0. t \in Thread /\ t # Main
    BY NodeAssumption DEF Thread
  <2>1. TypeOK'
    BY <2>0, NodeAssumption
       DEF StoreStepOK, StoreInv, IInv, TypeOK, ClockOK, Thread, Inserting, BlockOrNone
  <2>2. ThreadInv'
    BY <2>0, NodeAssumption DEF IInv, ThreadInv, Holding, Thread, Free, storeVars
  <2>3. Inserts(t)'
    BY <2>0 DEF Inserts, Inserting, Holding
  <2>4. InsertInv'
    BY <2>0, <2>3, OneMoves
  <2> QED
    BY <2>1, <2>2, <2>4 DEF NodeStepOK
<1> QED
  BY <1>1, <1>2, <1>3, <1>4, <1>5

\* The calls of InsertBlock that read the store, and their outcomes.
LEMMA ReadingStepOK ==
  ASSUME IInv, StoreStepOK, ClockOK, NEW t \in Thread,
         Check(t) \/ Known(t) \/ ReadTip(t)
  PROVE  NodeStepOK
<1>0. /\ pc \in [Thread -> Inserting \cup {"down", "init", "mine", "idle"}]
      /\ blk \in [Thread -> BlockOrNone] /\ total \in [Thread -> Nat]
      /\ pc[t] \in Inserting \ Holding
      /\ Inserts(t) /\ blk[t] \in Block
  BY DEF IInv, TypeOK, InsertInv, Inserts, Check, Known, ReadTip, At, Inserting, Holding
<1>1. serving /\ open /\ currentTip # NoBlock /\ pc[t] \in {"check", "has", "readtip"}
  BY <1>0, NodeAssumption
     DEF Check, Known, ReadTip, At, IInv, ThreadInv, Inserts, Inserting, Thread
<1>2. CASE Fail(t)
  BY <1>0, <1>2, FailOK
<1>3. CASE Return(t) /\ UNCHANGED <<storeVars, now>>
  BY <1>0, <1>1, <1>3, ReturnOK DEF storeVars
<1>4. CASE /\ At(t, "check") /\ Free /\ ValidateBlock(blk[t]) /\ GoTo(t, "has")
           /\ UNCHANGED <<storeVars, serving, blk, total, now>>
  <2> USE <1>0, <1>1, <1>4 DEF At, GoTo
  <2>1. GoodBlock(blk[t])
    BY BlockAssumption
       DEF ValidateBlock, ExtendsStored, NotTooFarAhead, IsGenesis, GoodBlock, Placed, BlockOrNone
  <2>2. GoodBlock(blk[t])'
    BY <2>1, Stable DEF StoreStepOK, ClockOK, IInv, TypeOK
  <2>3. TypeOK'
    BY NodeAssumption
       DEF StoreStepOK, StoreInv, IInv, TypeOK, ClockOK, Thread, Inserting
  <2>4. ThreadInv'
    BY DEF IInv, ThreadInv, Holding, Thread, Free, storeVars
  <2>5. Inserts(t)'
    BY <2>2 DEF Inserts, Inserting, Holding
  <2>6. InsertInv'
    BY <2>5, OneMoves
  <2> QED
    BY <2>3, <2>4, <2>6 DEF NodeStepOK
<1>5. CASE /\ At(t, "has") /\ Free /\ total' = [total EXCEPT ![t] = TotalWork(blk[t])]
           /\ GoTo(t, "store")
           /\ UNCHANGED <<storeVars, serving, blk, now>>
  <2> USE <1>0, <1>1, <1>5 DEF At, GoTo
  <2>1. GoodBlock(blk[t])
    BY DEF Inserts, Inserting
  <2>2. GoodBlock(blk[t])' /\ TotalWork(blk[t])' = TotalWork(blk[t])
    BY <2>1, Stable DEF StoreStepOK, ClockOK, IInv, TypeOK
  <2>3. TotalWork(blk[t]) \in Nat
    BY <2>1, TotalIsNat DEF IInv, TypeOK, GoodBlock
  <2>4. TypeOK'
    BY <2>3, NodeAssumption
       DEF StoreStepOK, StoreInv, IInv, TypeOK, ClockOK, Thread, Inserting
  <2>5. ThreadInv'
    BY DEF IInv, ThreadInv, Holding, Thread, Free, storeVars
  <2>6. Inserts(t)'
    BY <2>2 DEF Inserts, Inserting, Holding
  <2>7. InsertInv'
    BY <2>6, OneMoves
  <2> QED
    BY <2>4, <2>5, <2>7 DEF NodeStepOK
<1>6. CASE /\ At(t, "readtip") /\ Free /\ GoTo(t, "settip")
           /\ UNCHANGED <<storeVars, serving, blk, total, now>>
  <2> USE <1>0, <1>1, <1>6 DEF At, GoTo
  <2>1. GoodBlock(blk[t]) /\ total[t] = TotalWork(blk[t]) /\ Stored(blk[t])
    BY DEF Inserts, Inserting
  <2>2. GoodBlock(blk[t])' /\ TotalWork(blk[t])' = TotalWork(blk[t]) /\ Stored(blk[t])'
    BY <2>1, Stable DEF StoreStepOK, ClockOK, IInv, TypeOK
  <2>3. TypeOK'
    BY NodeAssumption
       DEF StoreStepOK, StoreInv, IInv, TypeOK, ClockOK, Thread, Inserting
  <2>4. ThreadInv'
    BY DEF IInv, ThreadInv, Holding, Thread, Free, storeVars
  <2>5. Inserts(t)'
    BY <2>1, <2>2 DEF Inserts, Inserting, Holding
  <2>6. InsertInv'
    BY <2>5, OneMoves
  <2> QED
    BY <2>3, <2>4, <2>6 DEF NodeStepOK
<1> QED
  BY <1>2, <1>3, <1>4, <1>5, <1>6 DEF Check, Known, ReadTip

\* The calls that write the store.
LEMMA WritingStepOK ==
  ASSUME IInv, StoreStepOK, ClockOK, NEW t \in Thread,
         Store(t) \/ Storing(t) \/ SetTip(t) \/ Setting(t) \/ WriteError(t)
  PROVE  NodeStepOK
<1>0. /\ pc \in [Thread -> Inserting \cup {"down", "init", "mine", "idle"}]
      /\ blk \in [Thread -> BlockOrNone] /\ total \in [Thread -> Nat]
      /\ pc[t] \in Inserting \ {"check", "has", "readtip"}
      /\ Inserts(t) /\ blk[t] \in Block
  BY DEF IInv, TypeOK, InsertInv, Inserts, Store, Storing, SetTip, Setting, WriteError,
         At, Inserting
<1>1. GoodBlock(blk[t]) /\ total[t] = TotalWork(blk[t])
  BY <1>0 DEF Inserts, Inserting
<1>2. open /\ (t # Main => serving)
  BY <1>0, NodeAssumption DEF IInv, ThreadInv, Thread, Inserting
<1>3. CASE Fail(t) /\ pc[t] \notin Holding
  BY <1>0, <1>3, FailOK
<1>4. CASE /\ At(t, "store") /\ StoreBegin(blk[t], total[t]) /\ GoTo(t, "storing")
           /\ UNCHANGED <<serving, blk, total, now>>
  <2> USE <1>0, <1>4 DEF At, GoTo
  <2>0. /\ GoodBlock(blk[t])' /\ TotalWork(blk[t])' = TotalWork(blk[t])
        /\ Stored(blk[t]) => Stored(blk[t])'
    BY <1>1, Stable DEF StoreStepOK, ClockOK, IInv, TypeOK
  <2>1. Stored(blk[t])'
    BY <1>1, TotalIsNat
       DEF StoreBegin, Stored, NoEntry, GoodBlock, IInv, TypeOK, StoreTypeOK
  <2>2. TypeOK'
    BY NodeAssumption
       DEF StoreStepOK, StoreInv, IInv, TypeOK, ClockOK, Thread, Inserting
  <2>3. ThreadInv'
    BY DEF IInv, ThreadInv, Holding, Thread, Free, Unlocked, StoreBegin
  <2>4. Inserts(t)'
    BY <1>1, <2>0, <2>1 DEF Inserts, Inserting, Holding
  <2>5. InsertInv'
    BY <2>4, OneMoves
  <2> QED
    BY <2>2, <2>3, <2>5 DEF NodeStepOK
<1>5. CASE Storing(t) /\ StoreHeight
  <2> USE <1>0, <1>5 DEF Storing, At, GoTo
  <2>0. /\ GoodBlock(blk[t])' /\ TotalWork(blk[t])' = TotalWork(blk[t])
        /\ Stored(blk[t]) => Stored(blk[t])'
    BY <1>1, Stable DEF StoreStepOK, ClockOK, IInv, TypeOK
  <2>1. UNCHANGED pc
    BY DEF StoreHeight, Flush
  <2>2. TypeOK'
    BY <2>1 DEF StoreStepOK, StoreInv, IInv, TypeOK, ClockOK
  <2>3. ThreadInv'
    BY <2>1, BlockAssumption
       DEF IInv, ThreadInv, Holding, Thread, Free, Unlocked, StoreHeight, TipAfterStore,
           MemoryInv, TypeOK, StoreTypeOK
  <2>4. Inserts(t)'
    BY <1>1, <2>0, <2>1 DEF Inserts, Inserting, Holding
  <2>5. InsertInv'
    BY <2>1, <2>4, OneMoves
  <2> QED
    BY <2>2, <2>3, <2>5 DEF NodeStepOK
<1>6. CASE Storing(t) /\ Flush
  <2> USE <1>0, <1>6 DEF Storing, At, GoTo
  <2>0. /\ GoodBlock(blk[t])' /\ TotalWork(blk[t])' = TotalWork(blk[t])
        /\ Stored(blk[t]) => Stored(blk[t])'
    BY <1>1, Stable DEF StoreStepOK, ClockOK, IInv, TypeOK
  <2>1. pc' = [pc EXCEPT ![t] = IF serving THEN "readtip" ELSE "settip"]
    BY DEF StoreHeight, Flush
  <2>2. TypeOK'
    BY <2>1, NodeAssumption
       DEF StoreStepOK, StoreInv, IInv, TypeOK, ClockOK, Thread, Inserting
  <2>3. ThreadInv'
    BY <2>1 DEF IInv, ThreadInv, Holding, Thread, Free, Flush, MemoryInv
  <2>4. Inserts(t)'
    BY <1>1, <1>2, <2>0, <2>1, NodeAssumption DEF Inserts, Inserting, Holding
  <2>5. InsertInv'
    BY <2>1, <2>4, OneMoves
  <2> QED
    BY <2>2, <2>3, <2>5 DEF NodeStepOK
<1>7. CASE /\ At(t, "settip") /\ SetTipBegin(blk[t]) /\ GoTo(t, "setting")
           /\ UNCHANGED <<serving, blk, total, now>>
  <2> USE <1>0, <1>7 DEF At, GoTo
  <2>0. /\ GoodBlock(blk[t])' /\ TotalWork(blk[t])' = TotalWork(blk[t])
        /\ Stored(blk[t]) => Stored(blk[t])'
    BY <1>1, Stable DEF StoreStepOK, ClockOK, IInv, TypeOK
  <2>1. TypeOK'
    BY NodeAssumption
       DEF StoreStepOK, StoreInv, IInv, TypeOK, ClockOK, Thread, Inserting
  <2>2. ThreadInv'
    BY BlockAssumption DEF IInv, ThreadInv, Holding, Thread, Free, Unlocked, SetTipBegin
  <2>3. Inserts(t)'
    BY <1>1, <2>0 DEF Inserts, Inserting, Holding
  <2>4. InsertInv'
    BY <2>3, OneMoves
  <2> QED
    BY <2>1, <2>2, <2>4 DEF NodeStepOK
<1>8. CASE Setting(t)
  <2>1. open' = open /\ currentTip' = currentTip /\ currentTip # NoBlock
        /\ pc[t] \in Holding /\ write' = Unlocked
    BY <1>8 DEF Setting, Flush, At, Holding, IInv, ThreadInv, MemoryInv
  <2> QED
    BY <1>2, <1>8, <2>1, ReturnOK DEF Setting
<1>9. CASE WriteError(t)
  <2>1. CASE t = Main
    BY <1>9, <2>1, ExitOK DEF WriteError
  <2>2. CASE t # Main
    BY <1>2, <1>9, <2>2, ReturnOK DEF WriteError, WriteFails, Holding
  <2> QED
    BY <2>1, <2>2
<1> QED
  BY <1>3, <1>4, <1>5, <1>6, <1>7, <1>8, <1>9 DEF Store, Storing, SetTip, At, Holding

-----------------------------------------------------------------------------
(***************************************************************************)
(* The invariant is inductive.                                             *)
(***************************************************************************)

\* The empty store, or a legacy snapshot that nobody has opened yet.
LEMMA InitOK == Init => IInv
<1> SUFFICES ASSUME Init PROVE IInv
  OBVIOUS
<1> USE DEF Init, StoreInit
<1>1. \A b \in Block : ~Stored(b)
  BY DEF Stored
<1>2. TypeOK
  BY NodeAssumption
     DEF TypeOK, StoreTypeOK, AllDown, Thread, NoMeta, Unlocked, NoEntry, BlockOrNone, Inserting
<1>3. DiskInv
  BY <1>1 DEF DiskInv, NoMeta
<1>4. MemoryInv
  BY DEF MemoryInv, Free, Unlocked, NoMeta
<1>5. ThreadInv
  BY NodeAssumption DEF ThreadInv, AllDown, Thread, Holding
<1>6. InsertInv
  BY DEF InsertInv, Inserts, AllDown, Inserting, Holding, Thread
<1> QED
  BY <1>2, <1>3, <1>4, <1>5, <1>6 DEF IInv

\* A step that leaves the goroutines alone: the clock ticks, or nothing moves.
LEMMA QuietStepOK ==
  ASSUME IInv, StoreStepOK, ClockOK, UNCHANGED <<storeVars, nodeVars>>
  PROVE  NodeStepOK
<1> USE DEF nodeVars, storeVars
<1>1. TypeOK'
  BY DEF IInv, TypeOK, StoreStepOK, StoreInv, ClockOK
<1>2. ThreadInv'
  BY DEF IInv, ThreadInv, Free, Holding
<1>3. InsertInv'
  BY Frame DEF InsertInv
<1> QED
  BY <1>1, <1>2, <1>3 DEF NodeStepOK

\* Every step keeps the invariant.
LEMMA StepOK == IInv /\ [Next]_vars => IInv'
<1> SUFFICES ASSUME IInv, [Next]_vars PROVE IInv'
  OBVIOUS
<1>1. StoreStepOK /\ ClockOK
  BY StoreStep
<1>2. NodeStepOK
  <2>1. CASE OpenStore \/ ChainPresent \/ SealGenesis \/ Mine
    BY <1>1, <2>1, BeforeInsertOK
  <2>2. CASE MineFails \/ Crash
    BY <1>1, <2>2, ExitOK DEF MineFails, Crash
  <2>3. ASSUME NEW t \in Peer, NEW b \in Block, Deliver(t, b)
        PROVE  NodeStepOK
    BY <1>1, <2>3, BeforeInsertOK
  <2>4. ASSUME NEW t \in Thread, InsertStep(t) \/ WriteError(t)
        PROVE  NodeStepOK
    BY <1>1, <2>4, ReadingStepOK, WritingStepOK DEF InsertStep
  <2>5. CASE Tick \/ UNCHANGED vars
    BY <1>1, <2>5, QuietStepOK DEF Tick, vars
  <2> QED
    BY <2>1, <2>2, <2>3, <2>4, <2>5 DEF Next
<1> QED
  BY <1>1, <1>2 DEF IInv, NodeStepOK, StoreStepOK, StoreInv

(***************************************************************************)
(* The invariant holds in every state of every behaviour.                  *)
(***************************************************************************)
THEOREM Invariant == Spec => []IInv
<1> QED
  BY InitOK, StepOK, PTL DEF Spec

-----------------------------------------------------------------------------
(***************************************************************************)
(* What follows from it.                                                   *)
(***************************************************************************)

(***************************************************************************)
(* The variables keep their types; in particular the main goroutine is     *)
(* never left in the readers' loop.                                        *)
(***************************************************************************)
THEOREM Typing == Spec => []TypeOK
<1>1. IInv => TypeOK
  BY DEF IInv
<1> QED
  BY <1>1, Invariant, PTL

(***************************************************************************)
(* The stored blocks form chains down to height 0, although validateHeader *)
(* looks at the parent long before StoreBlock writes the block, and with   *)
(* crashes and failing writes between any two calls.                       *)
(***************************************************************************)
THEOREM Connected == Spec => []ChainConnected
<1>1. IInv => ChainConnected
  BY DEF IInv, DiskInv, ChainConnected, GoodBlock, Placed
<1> QED
  BY <1>1, Invariant, PTL

(***************************************************************************)
(* The total work on disk is the work of the whole chain, although         *)
(* InsertBlock computes it from a store that others change meanwhile.      *)
(***************************************************************************)
THEOREM Accounted == Spec => []WorkAccounted
<1>1. IInv => WorkAccounted
  BY DEF IInv, DiskInv, WorkAccounted, TotalWork, IsGenesis
<1> QED
  BY <1>1, Invariant, PTL

(***************************************************************************)
(* No stored block is more than FutureLimit ahead of the clock.            *)
(***************************************************************************)
THEOREM NotFromFuture == Spec => []NoneFromFuture
<1>1. IInv => NoneFromFuture
  <2> SUFFICES ASSUME IInv, NEW b \in Block, Stored(b)
               PROVE  Stamp[b] <= now + FutureLimit
    BY DEF NoneFromFuture
  <2>1. CASE ~Migrating
    BY <2>1 DEF IInv, DiskInv, GoodBlock
  <2>2. CASE Migrating
    <3>1. Legacy.work[b] # NoEntry /\ Legacy # NoLegacy
      BY <2>2 DEF IInv, DiskInv, Stored, Migrating
    <3>2. Stamp[b] <= FutureLimit
      BY <3>1, LegacyAssumption
    <3> QED
      BY <3>2, NodeAssumption, BlockAssumption DEF IInv, TypeOK
  <2> QED
    BY <2>1, <2>2
<1> QED
  BY <1>1, Invariant, PTL

(***************************************************************************)
(* Tip, genesis and heights name complete block files, in memory and on    *)
(* disk, whatever was interrupted between two files.                       *)
(***************************************************************************)
THEOREM PointersAreGood == Spec => []PointersResolve
<1>1. IInv => PointersResolve
  BY DEF IInv, DiskInv, MemoryInv, PointersResolve
<1> QED
  BY <1>1, Invariant, PTL

(***************************************************************************)
(* A meta file over a legacy snapshot stands for a finished migration.     *)
(***************************************************************************)
THEOREM MigrationIsComplete == Spec => []MigrationComplete
<1>1. IInv => MigrationComplete
  <2> SUFFICES ASSUME IInv, Legacy # NoLegacy, meta # NoMeta
               PROVE  MigrationComplete
    BY DEF MigrationComplete
  <2>1. meta.tip # NoBlock
    BY DEF IInv, DiskInv, TypeOK, StoreTypeOK, NoMeta
  <2> QED
    BY <2>1 DEF IInv, DiskInv, MigrationComplete
<1> QED
  BY <1>1, Invariant, PTL

(***************************************************************************)
(* A node that serves its peers has a tip and a genesis.                   *)
(***************************************************************************)
THEOREM Serving == Spec => []ServesAChain
<1>1. IInv => ServesAChain
  BY DEF IInv, ThreadInv, MemoryInv, ServesAChain
<1> QED
  BY <1>1, Invariant, PTL

(***************************************************************************)
(* The parent of the miner's own block is still there, one lower and       *)
(* earlier, when the search for the nonce is over.                         *)
(***************************************************************************)
THEOREM OwnBlockFits == Spec => []OwnBlockFitsItsParent
<1>1. IInv => OwnBlockFitsItsParent
  BY DEF IInv, InsertInv, Inserts, OwnBlockFitsItsParent, At, Thread, Placed
<1> QED
  BY <1>1, Invariant, PTL

(***************************************************************************)
(* No step takes an accepted block or the genesis away.                    *)
(***************************************************************************)
THEOREM Kept == Spec => NothingForgotten
<1>1. IInv /\ [Next]_vars => [KeepsBlocks /\ KeepsGenesis]_storeVars
  BY StoreStep DEF StoreStepOK
<1> QED
  BY <1>1, Invariant, PTL DEF Spec, NothingForgotten
=============================================================================
