---------------------- MODULE ChainNodeRefinement_proofs ----------------------
(***************************************************************************)
(* What the store and InsertBlock promise when file operations succeed:    *)
(* the disk store answers as the memory store does, for any number of      *)
(* goroutines, and InsertBlock keeps the heaviest block as the tip, as the *)
(* abstract chain does, if only one goroutine inserts.                     *)
(***************************************************************************)
EXTENDS ChainNodeRefinement, ChainNode_proofs

-----------------------------------------------------------------------------
(***************************************************************************)
(* The steps by what they do to the store.  A process that is not killed   *)
(* ends between two operations: InitGenesis or mineNextBlock fail, or the  *)
(* miner's own block is not valid.                                         *)
(***************************************************************************)
Ends ==
  /\ Exit
  /\ \/ Crashes
     \/ Free /\ At(Main, "init")
     \/ Free /\ At(Main, "mine") /\ Mining
     \/ Free /\ At(Main, "check")

LEMMA StoreActions ==
  ASSUME ~Faults, IInv, [Next]_vars
  PROVE  \/ UNCHANGED storeVars
         \/ OpenStore
         \/ Ends
         \/ \E t \in Thread : Store(t) /\ StoreBegin(blk[t], total[t])
         \/ \E t \in Thread : Storing(t) /\ (StoreHeight \/ Flush)
         \/ \E t \in Thread : SetTip(t) /\ SetTipBegin(blk[t])
         \/ \E t \in Thread : Setting(t) /\ Flush
<1>1. CASE ChainPresent \/ SealGenesis \/ Mine \/ Tick \/ UNCHANGED vars
  BY <1>1 DEF ChainPresent, SealGenesis, Mine, Tick, vars
<1>2. CASE MineFails \/ Crash
  BY <1>2 DEF MineFails, Crash, Ends
<1>3. ASSUME NEW t \in Peer, NEW b \in Block, Deliver(t, b)
      PROVE  UNCHANGED storeVars
  BY <1>3 DEF Deliver
<1>4. ASSUME NEW t \in Thread, Check(t) \/ Known(t) \/ ReadTip(t)
      PROVE  UNCHANGED storeVars \/ Ends
  BY <1>4 DEF Check, Known, ReadTip, Fail, Ends, At
<1>5. ASSUME NEW t \in Thread, Store(t)
      PROVE  StoreBegin(blk[t], total[t])
  BY <1>5 DEF Store
<1>6. ASSUME NEW t \in Thread, SetTip(t)
      PROVE  SetTipBegin(blk[t])
  BY <1>6 DEF SetTip, At, IInv, InsertInv, Inserts
<1>7. ASSUME NEW t \in Thread, Storing(t)
      PROVE  StoreHeight \/ Flush
  BY <1>7 DEF Storing
<1>8. ASSUME NEW t \in Thread, Setting(t)
      PROVE  Flush
  BY <1>8 DEF Setting
<1>9. ASSUME NEW t \in Thread, WriteError(t)
      PROVE  FALSE
  BY <1>9 DEF WriteError, WriteFails
<1>10. ASSUME NEW t \in Thread, InsertStep(t)
       PROVE  \/ UNCHANGED storeVars
              \/ Ends
              \/ Store(t) /\ StoreBegin(blk[t], total[t])
              \/ Storing(t) /\ (StoreHeight \/ Flush)
              \/ SetTip(t) /\ SetTipBegin(blk[t])
              \/ Setting(t) /\ Flush
  BY <1>4, <1>5, <1>6, <1>7, <1>8, <1>10 DEF InsertStep
<1> QED
  BY <1>1, <1>2, <1>3, <1>9, <1>10 DEF Next

-----------------------------------------------------------------------------
(***************************************************************************)
(* Memory and meta file.                                                   *)
(***************************************************************************)
\* Each write of the meta file leaves the two hashes that memory has.
LEMMA DiskAgreesKept ==
  ASSUME ~Faults, IInv, DiskAgrees, [Next]_vars
  PROVE  DiskAgrees'
<1> USE DEF DiskAgrees, Free, Unlocked
<1>1. CASE UNCHANGED storeVars
  BY <1>1 DEF storeVars
<1>2. CASE OpenStore
  <2>1. CASE Load
    BY <2>1 DEF Load, diskVars, IInv, TypeOK, StoreTypeOK
  <2>2. CASE MigrateBlock \/ MigrateHeight
    BY <2>2 DEF MigrateBlock, MigrateHeight, Migrating, memoryVars
  <2>3. CASE MigrateMeta
    BY <2>3 DEF MigrateMeta
  <2> QED
    BY <1>2, <2>1, <2>2, <2>3 DEF OpenStore, Opening
<1>3. CASE Ends
  BY <1>3 DEF Ends, Exit, LoseMemory
<1>4. ASSUME NEW t \in Thread, StoreBegin(blk[t], total[t])
      PROVE  DiskAgrees'
  BY <1>4 DEF StoreBegin
<1>5. CASE StoreHeight
  BY <1>5 DEF StoreHeight, IInv, TypeOK, StoreTypeOK
<1>6. CASE Flush
  BY <1>6 DEF Flush
<1>7. ASSUME NEW t \in Thread, SetTipBegin(blk[t])
      PROVE  DiskAgrees'
  BY <1>7 DEF SetTipBegin
<1> QED
  BY <1>1, <1>2, <1>3, <1>4, <1>5, <1>6, <1>7, StoreActions

(***************************************************************************)
(* If file operations succeed, a restart finds the tip and the genesis     *)
(* that the store answered from, at whatever time the process is killed    *)
(* between two operations, for any number of goroutines and over an        *)
(* upgrade (store_disk.go, flush under the store's lock).                  *)
(***************************************************************************)
THEOREM RestartFindsTheTip ==
  ASSUME ~Faults
  PROVE  Spec => []DiskAgrees
<1>1. Init => DiskAgrees
  BY DEF Init, StoreInit, DiskAgrees
<1>2. IInv /\ DiskAgrees /\ [Next]_vars => DiskAgrees'
  BY DiskAgreesKept
<1> QED
  BY <1>1, <1>2, Invariant, PTL DEF Spec

-----------------------------------------------------------------------------
(***************************************************************************)
(* The disk store against the memory store: what each of its steps is      *)
(* there.                                                                  *)
(***************************************************************************)
HeightsBar ==
  IF HeightToCome THEN [heightFile EXCEPT ![Height[write.block]] = write.block]
  ELSE heightFile
GenesisBar == IF HeightToCome THEN GenesisAfterStore(write.block) ELSE genesisHash
TipBar == IF HeightToCome THEN TipAfterStore(write.block) ELSE currentTip
MemoryBar == <<entry, HeightsBar, GenesisBar, TipBar>>

\* Either nothing is seen to happen, or one operation of the memory store.
MemoryStep == UNCHANGED MemoryBar \/ Memory!Next

\* StoreBlock takes effect with its first file.
LEMMA StoreBeginIsStoreBlock ==
  ASSUME NEW b \in Block, NEW wk \in Nat, StoreTypeOK, StoreBegin(b, wk)
  PROVE  Memory!StoreBlock(b, entry'[b])
<1>1. entry' = [entry EXCEPT ![b] = wk] /\ entry'[b] = wk
  BY DEF StoreBegin, StoreTypeOK
<1>2. ~HeightToCome /\ HeightToCome' /\ write'.block = b
      /\ UNCHANGED <<heightFile, genesisHash, currentTip>>
  BY DEF StoreBegin, HeightToCome, Free, Unlocked
<1> QED
  BY <1>1, <1>2
     DEF Memory!StoreBlock, Memory!IsGenesis, IsGenesis, GenesisAfterStore, TipAfterStore

\* Its second file makes true what the first has already counted.
LEMMA StoreHeightIsNothing ==
  ASSUME StoreTypeOK, StoreHeight
  PROVE  UNCHANGED MemoryBar
<1>1. HeightToCome /\ ~HeightToCome'
  BY DEF StoreHeight, HeightToCome, StoreTypeOK, Unlocked
<1> QED
  BY <1>1 DEF StoreHeight, MemoryBar, HeightsBar, GenesisBar, TipBar

\* The meta file is nothing that the memory store knows of.
LEMMA FlushIsNothing ==
  ASSUME Flush
  PROVE  UNCHANGED MemoryBar
<1>1. ~HeightToCome /\ ~HeightToCome'
  BY DEF Flush, HeightToCome, Unlocked
<1> QED
  BY <1>1 DEF Flush, MemoryBar, HeightsBar, GenesisBar, TipBar

\* SetCurrentTip takes effect in memory, before the meta file is written.
LEMMA SetTipBeginIsSetCurrentTip ==
  ASSUME NEW b \in Block, SetTipBegin(b)
  PROVE  Memory!SetCurrentTip(b)
<1>1. ~HeightToCome /\ ~HeightToCome'
  BY DEF SetTipBegin, HeightToCome, Free, Unlocked
<1> QED
  BY <1>1
     DEF SetTipBegin, Stored, NoEntry, Memory!SetCurrentTip, Memory!HasBlock, Memory!NoEntry

\* A step of a process that lives on.
LEMMA LivingStep ==
  ASSUME ~Faults, IInv, [Next]_vars, ~OpenStore, ~Ends
  PROVE  MemoryStep
<1> USE DEF MemoryStep
<1>0. StoreTypeOK
  BY DEF IInv, TypeOK
<1>1. CASE UNCHANGED storeVars
  BY <1>1 DEF storeVars, MemoryBar, HeightsBar, GenesisBar, TipBar, HeightToCome,
              GenesisAfterStore, TipAfterStore
<1>2. ASSUME NEW t \in Thread, Store(t), StoreBegin(blk[t], total[t])
      PROVE  Memory!Next
  <2>1. blk[t] \in Block /\ total[t] \in Nat
    BY <1>2 DEF IInv, TypeOK, InsertInv, Inserts, Store, At, Inserting
  <2> QED
    BY <1>0, <1>2, <2>1, StoreBeginIsStoreBlock DEF Memory!Next
<1>3. CASE StoreHeight \/ Flush
  BY <1>0, <1>3, StoreHeightIsNothing, FlushIsNothing
<1>4. ASSUME NEW t \in Thread, SetTip(t), SetTipBegin(blk[t])
      PROVE  Memory!Next
  <2>1. blk[t] \in Block
    BY <1>4 DEF IInv, TypeOK, InsertInv, Inserts, SetTip, At, Inserting
  <2> QED
    BY <1>4, <2>1, SetTipBeginIsSetCurrentTip DEF Memory!Next
<1> QED
  BY <1>1, <1>2, <1>3, <1>4, StoreActions

(***************************************************************************)
(* While a process lives, each of its steps is an operation of the memory  *)
(* store, or no operation at all, for any number of goroutines that insert *)
(* at once, after any number of crashes and over an upgrade                *)
(* (store_disk.go against memory.go).                                      *)
(***************************************************************************)
AnswersLikeMemory == [][open /\ open' => MemoryStep]_vars

THEOREM Answers ==
  ASSUME ~Faults
  PROVE  Spec => AnswersLikeMemory
<1>1. ASSUME IInv, [Next]_vars, open, open'
      PROVE  MemoryStep
  <2>1. ~Ends /\ ~OpenStore
    BY <1>1 DEF Ends, Exit, LoseMemory, OpenStore, Opening, Load, MigrateBlock, MigrateHeight,
                MigrateMeta, Migrating
  <2> QED
    BY <1>1, <2>1, LivingStep
<1>2. IInv /\ [Next]_vars => [open /\ open' => MemoryStep]_vars
  BY <1>1
<1> QED
  BY <1>2, Invariant, PTL DEF Spec, AnswersLikeMemory

\* A node that is not killed and does not mine ends, if at all, before
\* anything is stored.
NothingStored ==
  /\ entry = [b \in Block |-> NoEntry]
  /\ heightFile = [h \in HeightSet |-> NoBlock]
  /\ meta = NoMeta /\ genesisHash = NoBlock /\ currentTip = NoBlock

MainWaits == ~Mining /\ serving => pc[Main] = "mine"

OneLife ==
  /\ pc[Main] \in {"down", "init"} => NothingStored
  /\ MainWaits

\* Who moves the main goroutine, and how far.
LEMMA MainMoves ==
  ASSUME ~Faults, ~Mining, IInv, MainWaits, [Next]_vars, ~OpenStore, ~Ends
  PROVE  \/ UNCHANGED <<storeVars, serving>> /\ pc'[Main] = pc[Main]
         \/ pc'[Main] = "mine"
         \/ pc'[Main] \in Inserting /\ ~serving'
<1> USE DEF MainWaits, At, GoTo
<1>0. /\ pc \in [Thread -> Inserting \cup {"down", "init", "mine", "idle"}] /\ Main \in Thread
      /\ \A t \in Peer : t \in Thread /\ t # Main
  BY NodeAssumption DEF IInv, TypeOK, Thread
<1>1. CASE ChainPresent \/ SealGenesis
  BY <1>0, <1>1 DEF ChainPresent, SealGenesis, Return, Home, IInv, ThreadInv, Inserting
<1>2. CASE Mine \/ MineFails \/ Crash
  BY <1>2 DEF Mine, MineFails, Crash, Ends
<1>3. ASSUME NEW t \in Peer, NEW b \in Block, Deliver(t, b)
      PROVE  UNCHANGED <<storeVars, serving>> /\ pc'[Main] = pc[Main]
  BY <1>0, <1>3 DEF Deliver
<1>4. ASSUME NEW t \in Peer, InsertStep(t)
      PROVE  pc'[Main] = "mine"
  <2>1. pc[t] # "idle"
    BY <1>4 DEF InsertStep, Check, Known, Store, Storing, ReadTip, SetTip, Setting
  <2>2. pc[Main] = "mine"
    BY <1>0, <2>1 DEF IInv, ThreadInv
  <2>3. pc'[Main] = pc[Main]
    BY <1>0, <1>4
       DEF InsertStep, Check, Known, Store, Storing, ReadTip, SetTip, Setting, Fail, Return
  <2> QED
    BY <2>2, <2>3
<1>5. CASE InsertStep(Main)
  <2>1. pc[Main] \in Inserting
    BY <1>5 DEF InsertStep, Check, Known, Store, Storing, ReadTip, SetTip, Setting, Inserting
  <2>2. ~serving /\ pc[Main] \notin {"check", "has", "readtip"}
    BY <1>0, <2>1 DEF IInv, InsertInv, Inserts, Inserting
  <2>3. CASE Store(Main) \/ Storing(Main)
    BY <1>0, <2>2, <2>3 DEF Store, Storing, Inserting
  <2>4. CASE SetTip(Main)
    <3>1. Stored(blk[Main])
      BY <1>0, <2>4 DEF SetTip, IInv, InsertInv, Inserts
    <3> QED
      BY <1>0, <2>2, <2>4, <3>1 DEF SetTip, Inserting
  <2>5. CASE Setting(Main)
    BY <1>0, <2>5 DEF Setting, Return, Home
  <2> QED
    BY <1>5, <2>2, <2>3, <2>4, <2>5 DEF InsertStep, Check, Known, ReadTip
<1>6. ASSUME NEW t \in Thread, WriteError(t)
      PROVE  FALSE
  BY <1>6 DEF WriteError, WriteFails
<1>7. CASE Tick \/ UNCHANGED vars
  BY <1>7 DEF Tick, vars, nodeVars
<1> QED
  BY <1>1, <1>2, <1>3, <1>4, <1>5, <1>6, <1>7 DEF Next, Thread

\* Such a node starts once; each step of it is a step of the memory store.
LEMMA OneLifeKept ==
  ASSUME ~Faults, ~Crashes, ~Mining, Legacy = NoLegacy, IInv, OneLife, [Next]_vars
  PROVE  OneLife' /\ MemoryStep
<1> USE DEF OneLife, MainWaits
<1>0. /\ pc \in [Thread -> Inserting \cup {"down", "init", "mine", "idle"}] /\ Main \in Thread
      /\ StoreTypeOK
  BY DEF IInv, TypeOK, Thread
<1>1. CASE Ends
  <2>1. At(Main, "init") /\ Free
    BY <1>1 DEF Ends, At, IInv, InsertInv, Inserts, Inserting, Thread
  <2>2. UNCHANGED <<diskVars, genesisHash, currentTip>> /\ write' = write
    BY <1>1, <2>1 DEF Ends, Exit, LoseMemory, At, NothingStored, Free
  <2>3. UNCHANGED MemoryBar
    BY <2>2 DEF diskVars, MemoryBar, HeightsBar, GenesisBar, TipBar, HeightToCome,
                GenesisAfterStore, TipAfterStore
  <2>4. NothingStored'
    BY <2>1, <2>2 DEF At, NothingStored, diskVars
  <2> QED
    BY <1>0, <1>1, <2>3, <2>4 DEF Ends, Exit, MemoryStep
<1>2. CASE OpenStore
  <2>1. pc[Main] = "down" /\ Load /\ ~serving /\ UNCHANGED serving
    BY <1>2 DEF OpenStore, Opening, MigrateBlock, MigrateHeight, MigrateMeta, Migrating, At,
                IInv, ThreadInv
  <2>2. UNCHANGED <<diskVars, genesisHash, currentTip, write>>
    BY <2>1 DEF Load, NothingStored, NoMeta
  <2>3. UNCHANGED MemoryBar
    BY <2>2 DEF diskVars, MemoryBar, HeightsBar, GenesisBar, TipBar, HeightToCome,
                GenesisAfterStore, TipAfterStore
  <2>4. NothingStored'
    BY <2>1, <2>2 DEF NothingStored, diskVars
  <2> QED
    BY <2>1, <2>3, <2>4 DEF MemoryStep
<1>3. CASE ~Ends /\ ~OpenStore
  <2>1. MemoryStep
    BY <1>3, LivingStep
  <2>2. CASE UNCHANGED <<storeVars, serving>> /\ pc'[Main] = pc[Main]
    BY <2>1, <2>2 DEF storeVars, NothingStored
  <2>3. CASE pc'[Main] = "mine"
    BY <2>1, <2>3
  <2>4. CASE pc'[Main] \in Inserting /\ ~serving'
    BY <2>1, <2>4 DEF Inserting
  <2> QED
    BY <1>3, <2>2, <2>3, <2>4, MainMoves
<1> QED
  BY <1>1, <1>2, <1>3

(***************************************************************************)
(* The disk store of a node that is not killed and does not mine (both of  *)
(* which end a process, and with it a memory store) implements the memory  *)
(* store, for any number of peers whose blocks are inserted at once.       *)
(***************************************************************************)
THEOREM ImplementsMemory ==
  ASSUME ~Faults, ~Crashes, ~Mining, Legacy = NoLegacy
  PROVE  Spec => ImplementsMemoryStore
<1>1. Init => OneLife /\ Memory!Init
  <2>1. Init => OneLife
    BY DEF Init, StoreInit, OneLife, MainWaits, NothingStored
  <2>2. Init => ~HeightToCome
    BY DEF Init, StoreInit, HeightToCome, Unlocked
  <2>3. Init => Memory!Init
    BY <2>2 DEF Init, StoreInit, Memory!Init, NoEntry, Memory!NoEntry, HeightSet
  <2> QED
    BY <2>1, <2>3
<1>2. IInv /\ OneLife /\ [Next]_vars => OneLife'
  BY OneLifeKept
<1>3. IInv /\ OneLife /\ [Next]_vars => [Memory!Next]_(Memory!memVars)
  BY OneLifeKept DEF MemoryStep, MemoryBar, HeightsBar, GenesisBar, TipBar, Memory!memVars
<1> QED
  BY <1>1, <1>2, <1>3, Invariant, PTL DEF Spec, ImplementsMemoryStore, Memory!Spec

-----------------------------------------------------------------------------
(***************************************************************************)
(* One goroutine that inserts: the one peer's reader, or the miner's.  Of  *)
(* two, each can put its own block over the other's, which it has not      *)
(* compared it with.                                                       *)
(***************************************************************************)
SoleInserter == Peer = {} \/ (~Mining /\ \A t, u \in Peer : t = u)

Sole == \A t, u \in Thread : pc[t] \in Inserting /\ pc[u] \in Inserting => t = u

\* The lock is held for the block that is being stored.
HolderWrites == \A t \in Thread : pc[t] = "storing" => write.block = blk[t]

\* InitGenesis makes its block the tip without a comparison.
FirstBlock == ~serving /\ pc[Main] \in Inserting => currentTip \in {NoBlock, blk[Main]}

\* What was compared with the tip is still compared with the tip.
ChoiceStands == \A t \in Thread : pc[t] = "settip" => ~Heavier(currentTip, blk[t])

\* The tip that is about to be written is no lighter than the one on disk.
NextTip ==
  ~Free /\ meta.tip # NoBlock => currentTip # NoBlock /\ ~Heavier(meta.tip, currentTip)

SoleInv == MainWaits /\ DiskAgrees /\ HolderWrites /\ FirstBlock /\ ChoiceStands /\ NextTip

\* With one peer and no miner, or a miner and no peer, one goroutine inserts.
LEMMA OneInserts ==
  ASSUME SoleInserter, IInv, MainWaits
  PROVE  Sole
<1> SUFFICES ASSUME NEW t \in Thread, NEW u \in Thread,
                    pc[t] \in Inserting, pc[u] \in Inserting, t # u, t # Main
             PROVE  FALSE
  BY DEF Sole
<1>1. t \in Peer /\ pc[t] # "idle"
  BY DEF Thread, Inserting
<1>2. serving /\ ~Mining /\ u = Main
  BY <1>1 DEF IInv, ThreadInv, SoleInserter, Thread
<1> QED
  BY <1>2 DEF MainWaits, Inserting

\* Heavier is a strict order of the stored blocks by work, then by rank.
LEMMA HeavierOrder ==
  ASSUME StoreTypeOK, NEW a \in Block, NEW b \in Block, NEW c \in Block,
         Stored(a), Stored(b), Stored(c)
  PROVE  /\ ~Heavier(a, a)
         /\ ~Heavier(a, b) /\ ~Heavier(b, c) => ~Heavier(a, c)
<1>1. /\ entry[a] \in Nat /\ entry[b] \in Nat /\ entry[c] \in Nat
      /\ Rank[a] \in Nat /\ Rank[b] \in Nat /\ Rank[c] \in Nat
  BY BlockAssumption DEF StoreTypeOK, Stored
<1> QED
  BY <1>1 DEF Heavier

\* It does not change once they are stored.
LEMMA HeavierStable ==
  ASSUME KeepsBlocks, NEW a \in Block, NEW b \in Block, Stored(a), Stored(b)
  PROVE  Heavier(a, b)' <=> Heavier(a, b)
BY DEF KeepsBlocks, Heavier

\* SelectBestChainByTotalWork is this order, for a stored candidate.
LEMMA BestIsHeaviest ==
  ASSUME IInv, NEW t \in Thread, pc[t] = "readtip"
  PROVE  /\ currentTip \in Block /\ Stored(currentTip)
         /\ blk[t] \in Block /\ Stored(blk[t]) /\ entry[blk[t]] = total[t]
         /\ BecomesTip(t) => ~Heavier(currentTip, blk[t])
         /\ ~BecomesTip(t) => ~Heavier(blk[t], currentTip)
<1>1. currentTip \in Block /\ Stored(currentTip) /\ open
  BY DEF IInv, TypeOK, StoreTypeOK, BlockOrNone, MemoryInv, ThreadInv, Inserts, InsertInv,
         Inserting, Thread
<1>2. blk[t] \in Block /\ Stored(blk[t]) /\ total[t] = TotalWork(blk[t])
  BY DEF IInv, InsertInv, Inserts, Inserting
<1>3. entry[blk[t]] = total[t]
  BY <1>1, <1>2 DEF IInv, DiskInv, Migrating
<1>4. /\ entry[blk[t]] \in Nat /\ entry[currentTip] \in Nat
      /\ Rank[blk[t]] \in Nat /\ Rank[currentTip] \in Nat
  BY <1>1, <1>2, BlockAssumption DEF IInv, TypeOK, StoreTypeOK, Stored
<1>5. BecomesTip(t) => ~Heavier(currentTip, blk[t])
  BY <1>1, <1>3, <1>4, BlockAssumption
     DEF BecomesTip, SelectBestChainByTotalWork, TieTakesCandidate, Heavier
<1>6. ~BecomesTip(t) => ~Heavier(blk[t], currentTip)
  BY <1>1, <1>3, <1>4
     DEF BecomesTip, SelectBestChainByTotalWork, TieTakesCandidate, Heavier
<1> QED
  BY <1>1, <1>2, <1>3, <1>5, <1>6

\* The calls that come after the block's file has been begun.
Late == {"storing", "readtip", "settip", "setting"}

\* A step that nobody who is that far takes.
Quiet ==
  /\ UNCHANGED storeVars
  /\ \A t \in Thread : pc[t] \in Late \/ pc'[t] \in Late =>
       pc'[t] = pc[t] /\ blk'[t] = blk[t]
  /\ ~serving' /\ pc'[Main] \in Inserting =>
       \/ currentTip = NoBlock
       \/ ~serving /\ pc[Main] \in Inserting /\ blk'[Main] = blk[Main]

\* A step of the goroutine that inserts.
Alone(t) ==
  /\ pc[t] \in Inserting
  /\ t # Main => serving
  /\ \A u \in Thread \ {t} :
       pc[u] \notin Inserting /\ pc'[u] = pc[u] /\ blk'[u] = blk[u]

\* The calls after the checks are steps of the goroutine that inserts.
LEMMA ActsAlone ==
  ASSUME ~Faults, SoleInserter, IInv, MainWaits, NEW t \in Thread,
         Store(t) \/ Storing(t) \/ ReadTip(t) \/ SetTip(t) \/ Setting(t)
  PROVE  Alone(t)
<1> USE DEF At, GoTo
<1>0. /\ pc \in [Thread -> Inserting \cup {"down", "init", "mine", "idle"}]
      /\ blk \in [Thread -> BlockOrNone] /\ Main \in Thread /\ Sole
  BY OneInserts DEF IInv, TypeOK, Thread
<1>1. pc[t] \in Inserting
  BY DEF Store, Storing, ReadTip, SetTip, Setting, Inserting
<1>2. \A u \in Thread \ {t} : pc[u] \notin Inserting
  BY <1>0, <1>1 DEF Sole
<1>3. t # Main => serving
  BY <1>0, <1>1 DEF IInv, ThreadInv, Inserting, Thread
<1>4. SetTip(t) => Stored(blk[t])
  BY DEF SetTip, IInv, InsertInv, Inserts
<1>5. CASE Return(t)
  BY <1>0, <1>1, <1>2, <1>3, <1>5 DEF Return, Alone
<1>6. CASE UNCHANGED blk /\ \A u \in Thread \ {t} : pc'[u] = pc[u]
  BY <1>0, <1>1, <1>2, <1>3, <1>6 DEF Alone
<1>7. Return(t) \/ (UNCHANGED blk /\ \A u \in Thread \ {t} : pc'[u] = pc[u])
  BY <1>0, <1>4
     DEF Store, Storing, ReadTip, SetTip, Setting, StoreBegin, StoreHeight, Flush, SetTipBegin
<1> QED
  BY <1>5, <1>6, <1>7

\* The steps by who takes them.
LEMMA SoleMoves ==
  ASSUME ~Faults, SoleInserter, IInv, MainWaits, [Next]_vars
  PROVE  \/ Ends \/ OpenStore \/ Quiet
         \/ \E t \in Thread : /\ Alone(t)
                              /\ \/ Store(t) \/ Storing(t) \/ ReadTip(t)
                                 \/ SetTip(t) \/ Setting(t)
<1> USE DEF At, GoTo
<1>0. /\ pc \in [Thread -> Inserting \cup {"down", "init", "mine", "idle"}]
      /\ blk \in [Thread -> BlockOrNone] /\ serving \in BOOLEAN
      /\ Main \in Thread /\ \A t \in Peer : t \in Thread /\ t # Main
      /\ Sole
  BY NodeAssumption, OneInserts DEF IInv, TypeOK, Thread
<1>1. CASE ChainPresent \/ SealGenesis
  BY <1>0, <1>1 DEF ChainPresent, SealGenesis, Return, Home, Quiet, Late, Inserting
<1>2. CASE Mine
  BY <1>0, <1>2 DEF Mine, Quiet, Late, IInv, ThreadInv
<1>3. CASE MineFails \/ Crash
  BY <1>3 DEF MineFails, Crash, Ends
<1>4. ASSUME NEW t \in Peer, NEW b \in Block, Deliver(t, b)
      PROVE  Quiet
  BY <1>0, <1>4 DEF Deliver, Quiet, Late
<1>5. ASSUME NEW t \in Thread, Check(t) \/ Known(t)
      PROVE  Quiet \/ Ends
  <2>1. serving
    BY <1>0, <1>5 DEF Check, Known, IInv, InsertInv, Inserts, Inserting
  <2>2. CASE At(t, "check") /\ Free /\ Fail(t) /\ t = Main
    BY <2>2 DEF Fail, Ends
  <2>3. CASE /\ UNCHANGED storeVars /\ Return(t)
    BY <1>0, <1>5, <2>1, <2>3 DEF Check, Known, Return, Home, Quiet, Late, Inserting
  <2>4. CASE /\ UNCHANGED <<storeVars, serving, blk>>
             /\ \E here \in {"has", "store"} : GoTo(t, here)
    BY <1>0, <1>5, <2>1, <2>4 DEF Check, Known, Quiet, Late
  <2> QED
    BY <1>5, <2>2, <2>3, <2>4 DEF Check, Known, Fail
<1>6. ASSUME NEW t \in Thread,
             Store(t) \/ Storing(t) \/ ReadTip(t) \/ SetTip(t) \/ Setting(t)
      PROVE  Alone(t)
  BY <1>6, ActsAlone
<1>7. ASSUME NEW t \in Thread, WriteError(t)
      PROVE  FALSE
  BY <1>7 DEF WriteError, WriteFails
<1>8. CASE Tick \/ UNCHANGED vars
  BY <1>0, <1>8 DEF Tick, vars, nodeVars, Quiet
<1>9. ASSUME NEW t \in Thread, InsertStep(t)
      PROVE  \/ Quiet \/ Ends
             \/ /\ Alone(t)
                /\ Store(t) \/ Storing(t) \/ ReadTip(t) \/ SetTip(t) \/ Setting(t)
  BY <1>5, <1>6, <1>9 DEF InsertStep
<1> QED
  BY <1>1, <1>2, <1>3, <1>4, <1>7, <1>8, <1>9 DEF Next

\* What the sole inserter may rely on when it moves.
LEMMA InserterKnows ==
  ASSUME IInv, SoleInv, NEW t \in Thread, Alone(t)
  PROVE  /\ blk[t] \in Block /\ currentTip \in BlockOrNone
         /\ currentTip # NoBlock => Stored(currentTip)
         /\ meta.tip \in BlockOrNone
         /\ meta.tip # NoBlock => Stored(meta.tip)
         /\ pc[t] \in Late => Stored(blk[t])
         /\ open
BY DEF IInv, TypeOK, StoreTypeOK, DiskInv, MemoryInv, InsertInv, Inserts, Alone, Late, Holding,
       ThreadInv, Inserting, Thread

\* A node that does not mine and serves leaves its main goroutine waiting.
LEMMA WaitsKept ==
  ASSUME ~Faults, IInv, MainWaits, [Next]_vars
  PROVE  MainWaits'
<1>1. CASE ~Mining /\ ~OpenStore /\ ~Ends
  BY <1>1, MainMoves DEF MainWaits
<1>2. CASE OpenStore
  BY <1>2 DEF OpenStore, At, MainWaits, IInv, ThreadInv
<1>3. CASE Ends
  BY <1>3 DEF Ends, Exit, MainWaits
<1> QED
  BY <1>1, <1>2, <1>3 DEF MainWaits

\* Each step keeps what the goroutine that inserts relies on.
LEMMA SoleKept ==
  ASSUME ~Faults, SoleInserter, IInv, SoleInv, [Next]_vars
  PROVE  SoleInv'
<1>0. /\ pc \in [Thread -> Inserting \cup {"down", "init", "mine", "idle"}]
      /\ blk \in [Thread -> BlockOrNone] /\ serving \in BOOLEAN
      /\ Main \in Thread /\ StoreTypeOK /\ KeepsBlocks /\ IInv' /\ StoreTypeOK'
  BY StoreStep, StepOK DEF IInv, TypeOK, Thread, StoreStepOK
<1>1. MainWaits' /\ DiskAgrees'
  BY WaitsKept, DiskAgreesKept DEF SoleInv
<1> DEFINE Rest == HolderWrites /\ FirstBlock /\ ChoiceStands /\ NextTip
<1>2. ASSUME Ends
      PROVE  Rest'
  <2>1. write' = Unlocked /\ \A t \in Thread : pc'[t] \notin Inserting
    BY <1>2 DEF Ends, Exit, LoseMemory, AllDown, Inserting
  <2> QED
    BY <1>0, <2>1 DEF HolderWrites, FirstBlock, ChoiceStands, NextTip, Free, Inserting
<1>3. ASSUME OpenStore
      PROVE  Rest'
  <2>1. ~open /\ ~serving /\ pc[Main] = "down" /\ Free /\ UNCHANGED write
    BY <1>3 DEF OpenStore, At, IInv, ThreadInv, MemoryInv, Opening, Load, MigrateBlock,
                MigrateHeight, MigrateMeta, memoryVars
  <2>2. \A t \in Thread : pc'[t] \notin Inserting
    BY <1>0, <1>3, <2>1 DEF OpenStore, GoTo, IInv, ThreadInv, Inserting, Thread
  <2> QED
    BY <1>0, <2>1, <2>2 DEF HolderWrites, FirstBlock, ChoiceStands, NextTip, Free, Inserting
<1>4. ASSUME Quiet
      PROVE  Rest'
  BY <1>4 DEF Quiet, Late, SoleInv, HolderWrites, FirstBlock, ChoiceStands, NextTip, Free,
              Heavier, storeVars
<1>5. ASSUME NEW t \in Thread, Alone(t), Store(t)
      PROVE  Rest'
  <2>1. /\ StoreBegin(blk[t], total[t]) /\ pc' = [pc EXCEPT ![t] = "storing"]
        /\ UNCHANGED <<serving, blk>>
    BY <1>5 DEF Store, GoTo
  <2>2. write'.block = blk[t] /\ UNCHANGED <<meta, currentTip>> /\ Free /\ open
    BY <2>1 DEF StoreBegin
  <2>3. meta.tip = currentTip
    BY <2>2 DEF SoleInv, DiskAgrees
  <2>4. HolderWrites' /\ FirstBlock' /\ ChoiceStands'
    BY <1>0, <1>5, <2>1, <2>2
       DEF SoleInv, HolderWrites, FirstBlock, ChoiceStands, Alone, Inserting, Store, At
  <2>5. NextTip'
    <3>1. meta.tip # NoBlock => meta.tip \in Block /\ Stored(meta.tip)'
      BY <1>0, <1>5, <2>2, InserterKnows DEF BlockOrNone, KeepsBlocks, Stored
    <3>2. ASSUME meta.tip # NoBlock
          PROVE  ~Heavier(meta.tip, currentTip)'
      <4>1. PICK b \in Block : b = meta.tip
        BY <3>1, <3>2
      <4>2. entry'[b] \in Nat /\ Rank[b] \in Nat
        BY <1>0, <2>2, <3>1, <3>2, <4>1, BlockAssumption DEF StoreTypeOK, Stored
      <4>3. ~Heavier(b, b)'
        BY <4>2 DEF Heavier
      <4> QED
        BY <2>2, <2>3, <4>1, <4>3 DEF Heavier
    <3> QED
      BY <2>2, <2>3, <3>2 DEF NextTip
  <2> QED
    BY <2>4, <2>5
<1>6. ASSUME NEW t \in Thread, Alone(t), Storing(t), StoreHeight
      PROVE  Rest'
  <2>1. /\ UNCHANGED <<serving, blk, pc, entry, meta>> /\ pc[t] = "storing"
        /\ write'.block = write.block /\ write.block = blk[t] /\ ~Free
        /\ currentTip' = IF currentTip = NoBlock THEN blk[t] ELSE currentTip
    BY <1>0, <1>6
       DEF Storing, At, StoreHeight, Flush, TipAfterStore, SoleInv, HolderWrites, StoreTypeOK,
           Free, Unlocked
  <2>2. HolderWrites' /\ FirstBlock' /\ ChoiceStands'
    BY <1>0, <1>6, <2>1
       DEF SoleInv, HolderWrites, FirstBlock, ChoiceStands, Alone, Inserting
  <2>3. NextTip'
    BY <2>1 DEF SoleInv, NextTip, Heavier
  <2> QED
    BY <2>2, <2>3
<1>7. ASSUME NEW t \in Thread, Alone(t), Storing(t), Flush
      PROVE  Rest'
  <2>1. /\ UNCHANGED <<serving, blk, entry, currentTip>> /\ pc[t] = "storing"
        /\ pc' = [pc EXCEPT ![t] = IF serving THEN "readtip" ELSE "settip"]
        /\ Free' /\ currentTip # NoBlock
    BY <1>7 DEF Storing, At, GoTo, StoreHeight, Flush, Free, IInv, MemoryInv
  <2>2. blk[t] \in Block /\ Stored(blk[t])
    BY <1>7, <2>1, InserterKnows DEF Late
  <2>3. ~serving => t = Main /\ currentTip = blk[t]
    BY <1>7, <2>1 DEF Alone, SoleInv, FirstBlock
  <2>4. ~Heavier(blk[t], blk[t])
    BY <1>0, <2>2, HeavierOrder
  <2>5. ChoiceStands'
    BY <1>0, <1>7, <2>1, <2>3, <2>4 DEF Alone, ChoiceStands, Inserting, Heavier
  <2> QED
    BY <1>0, <1>7, <2>1, <2>3, <2>5
       DEF HolderWrites, FirstBlock, NextTip, Alone, Inserting
<1>8. ASSUME NEW t \in Thread, Alone(t), ReadTip(t)
      PROVE  Rest'
  <2>1. pc[t] = "readtip" /\ UNCHANGED storeVars /\ Free /\ serving
    BY <1>8 DEF ReadTip, At, IInv, InsertInv, Inserts, Inserting
  <2>2. CASE Return(t)
    BY <1>0, <1>8, <2>1, <2>2
       DEF Return, GoTo, Home, Alone, Inserting, HolderWrites, FirstBlock, ChoiceStands, NextTip,
           Free, storeVars
  <2>3. CASE BecomesTip(t) /\ GoTo(t, "settip") /\ UNCHANGED <<serving, blk>>
    <3>1. ~Heavier(currentTip, blk[t])
      BY <2>1, <2>3, BestIsHeaviest
    <3> QED
      BY <1>0, <1>8, <2>1, <2>3, <3>1
         DEF GoTo, Alone, Inserting, HolderWrites, FirstBlock, ChoiceStands, NextTip,
             Free, storeVars, Heavier
  <2> QED
    BY <1>8, <2>2, <2>3 DEF ReadTip
<1>9. ASSUME NEW t \in Thread, Alone(t), SetTip(t)
      PROVE  Rest'
  <2>1. /\ pc[t] = "settip" /\ pc' = [pc EXCEPT ![t] = "setting"]
        /\ UNCHANGED <<serving, blk, entry, meta>> /\ currentTip' = blk[t] /\ Free /\ open
    BY <1>9 DEF SetTip, At, GoTo, SetTipBegin, IInv, InsertInv, Inserts
  <2>2. meta.tip = currentTip /\ ~Heavier(currentTip, blk[t]) /\ blk[t] \in Block
    BY <1>9, <2>1, InserterKnows DEF SoleInv, DiskAgrees, ChoiceStands
  <2>3. NextTip'
    BY <2>1, <2>2, BlockAssumption DEF NextTip, Heavier
  <2> QED
    BY <1>0, <1>9, <2>1, <2>3 DEF Alone, Inserting, HolderWrites, FirstBlock, ChoiceStands
<1>10. ASSUME NEW t \in Thread, Alone(t), Setting(t)
       PROVE  Rest'
  <2>1. Return(t) /\ Free' /\ pc[t] = "setting"
    BY <1>10 DEF Setting, At, Flush, Free
  <2> QED
    BY <1>0, <1>10, <2>1
       DEF Return, GoTo, Home, Alone, Inserting, HolderWrites, FirstBlock, ChoiceStands, NextTip
<1> QED
  BY <1>1, <1>2, <1>3, <1>4, <1>5, <1>6, <1>7, <1>8, <1>9, <1>10, SoleMoves DEF SoleInv, Storing

\* At the start nobody relies on anything.
LEMMA SoleInit == Init => SoleInv
BY NodeAssumption
   DEF Init, StoreInit, AllDown, Thread, Inserting, Free, SoleInv, MainWaits, DiskAgrees,
       HolderWrites, FirstBlock, ChoiceStands, NextTip

(***************************************************************************)
(* Between its calls the goroutine that inserts may rely on what it found: *)
(* the tip it compared with is still the tip when it sets it               *)
(* (validator.go:262-277).                                                 *)
(***************************************************************************)
THEOREM SoleInvariant ==
  ASSUME ~Faults, SoleInserter
  PROVE  Spec => []SoleInv
<1>1. IInv /\ SoleInv /\ [Next]_vars => SoleInv'
  BY SoleKept
<1> QED
  BY <1>1, SoleInit, Invariant, PTL DEF Spec

(***************************************************************************)
(* The tip on disk never gets lighter, whenever the process is killed and  *)
(* started again, as long as one goroutine inserts (validator.go:262-277:  *)
(* the tip is read and set in two calls).                                  *)
(***************************************************************************)
THEOREM TipNeverLighter ==
  ASSUME ~Faults, SoleInserter
  PROVE  Spec => DurableTipNeverLighter
<1>1. ASSUME IInv, SoleInv, [Next]_vars, meta.tip # NoBlock
      PROVE  ~Heavier(meta.tip, meta'.tip)
  <2>1. meta.tip \in Block /\ Stored(meta.tip) /\ StoreTypeOK
    BY <1>1 DEF IInv, TypeOK, StoreTypeOK, DiskInv, BlockOrNone
  <2>2. meta'.tip \in {meta.tip, currentTip} /\ (meta' # meta => ~Free)
    <3>1. CASE OpenStore
      <4>1. ~Migrating
        BY <1>1 DEF Migrating, NoMeta
      <4>2. Load
        BY <3>1, <4>1 DEF OpenStore, Opening, MigrateBlock, MigrateHeight, MigrateMeta
      <4> QED
        BY <4>2 DEF Load, diskVars
    <3>2. CASE Flush
      BY <3>2 DEF Flush, Free, Unlocked
    <3>3. CASE ~OpenStore /\ ~Flush
      <4>1. UNCHANGED meta
        BY <1>1, <3>3, StoreActions
           DEF storeVars, Ends, Exit, LoseMemory, diskVars, StoreBegin, StoreHeight, SetTipBegin,
               Storing, Setting
      <4> QED
        BY <4>1
    <3> QED
      BY <3>1, <3>2, <3>3
  <2>3. ~Heavier(meta.tip, meta.tip)
    BY <2>1, HeavierOrder
  <2> QED
    BY <1>1, <2>2, <2>3 DEF SoleInv, NextTip
<1>2. IInv /\ SoleInv /\ [Next]_vars => [meta.tip # NoBlock => ~Heavier(meta.tip, meta'.tip)]_vars
  BY <1>1
<1> QED
  BY <1>2, Invariant, SoleInvariant, PTL DEF Spec, DurableTipNeverLighter

-----------------------------------------------------------------------------
(***************************************************************************)
(* The tip against all blocks.  A block that was stored and not yet        *)
(* compared with the tip may be heavier than it.  While the store is       *)
(* closed, it is the tip on disk that counts.                              *)
(***************************************************************************)
LegacyTipHeaviest ==
  Legacy # NoLegacy =>
    \A b \in Block : Legacy.work[b] # NoEntry =>
      ~ \/ Legacy.work[b] > Legacy.work[Legacy.tip]
        \/ Legacy.work[b] = Legacy.work[Legacy.tip] /\ Rank[b] < Rank[Legacy.tip]

Heaviest(tip, decided) ==
  \A b \in decided : Stored(b) => tip # NoBlock /\ ~Heavier(b, tip)

Decided == Block \ Undecided

HeaviestInv ==
  /\ open => Heaviest(currentTip, Decided)
  /\ ~open /\ ~Migrating => Heaviest(meta.tip, Block)

\* Who is alone leaves nothing undecided but its own block.
LEMMA SoleUndecided ==
  ASSUME IInv, NEW t \in Thread, Alone(t)
  PROVE  /\ pc[t] \notin {"storing", "readtip", "settip"} => Undecided = {}
         /\ pc[t] \in {"storing", "readtip", "settip"} => Undecided = {blk[t]}
         /\ pc'[t] \notin {"storing", "readtip", "settip"} => Undecided' = {}
         /\ pc'[t] \in {"storing", "readtip", "settip"} => Undecided' = {blk'[t]}
BY DEF Alone, Undecided, Inserting

\* Each step leaves no decided block heavier than the tip.
LEMMA HeaviestKept ==
  ASSUME ~Faults, ~Crashes, SoleInserter, LegacyTipHeaviest,
         IInv, SoleInv, HeaviestInv, [Next]_vars
  PROVE  HeaviestInv'
<1>0. /\ pc \in [Thread -> Inserting \cup {"down", "init", "mine", "idle"}]
      /\ blk \in [Thread -> BlockOrNone] /\ serving \in BOOLEAN
      /\ Main \in Thread /\ StoreTypeOK /\ KeepsBlocks /\ IInv' /\ StoreTypeOK'
  BY StoreStep, StepOK DEF IInv, TypeOK, Thread, StoreStepOK
<1>1. ASSUME Ends
      PROVE  HeaviestInv'
  <2>1. ~open' /\ Free /\ open /\ UNCHANGED diskVars
    BY <1>1 DEF Ends, Exit, LoseMemory, At, IInv, ThreadInv
  <2>2. \A t \in Thread \ {Main} : pc[t] \notin Inserting
    BY <1>0, <1>1, OneInserts
       DEF Ends, At, SoleInv, Sole, SoleInserter, IInv, ThreadInv, Inserting, Thread
  <2>3. pc[Main] \notin {"storing", "readtip", "settip"}
    BY <1>1 DEF Ends, At
  <2>4. Undecided = {}
    BY <2>2, <2>3 DEF Undecided, Inserting
  <2>5. meta.tip = currentTip
    BY <2>1 DEF SoleInv, DiskAgrees
  <2>6. Heaviest(meta.tip, Block)
    BY <2>1, <2>4, <2>5 DEF HeaviestInv, Decided
  <2> QED
    BY <2>1, <2>6 DEF HeaviestInv, Heaviest, diskVars, Stored, Heavier
<1>2. ASSUME OpenStore, Load
      PROVE  HeaviestInv'
  <2>1. ~open /\ ~Migrating /\ open' /\ currentTip' = meta.tip /\ UNCHANGED diskVars
    BY <1>2 DEF Load, Migrating
  <2> QED
    BY <2>1 DEF HeaviestInv, Heaviest, Decided, diskVars, Stored, Heavier
<1>3. ASSUME OpenStore, MigrateBlock \/ MigrateHeight
      PROVE  HeaviestInv'
  BY <1>3 DEF MigrateBlock, MigrateHeight, Migrating, memoryVars, HeaviestInv
<1>4. ASSUME OpenStore, MigrateMeta
      PROVE  HeaviestInv'
  <2>1. open' /\ currentTip' = Legacy.tip /\ UNCHANGED entry /\ Migrating /\ BlocksCopied
    BY <1>4 DEF MigrateMeta
  <2>2. \A b \in Block : Stored(b) => entry[b] = Legacy.work[b] /\ Legacy.work[b] # NoEntry
    BY <2>1 DEF IInv, DiskInv, Stored
  <2>3. Legacy # NoLegacy /\ Legacy.tip \in Block /\ Stored(Legacy.tip) /\ Legacy.tip # NoBlock
    BY <2>1, StoreAssumption, BlockAssumption DEF Migrating, BlocksCopied
  <2> QED
    BY <2>1, <2>2, <2>3
       DEF LegacyTipHeaviest, HeaviestInv, Heaviest, Decided, Heavier, Stored
<1>5. ASSUME Quiet
      PROVE  HeaviestInv'
  <2>1. Undecided' = Undecided
    BY <1>5 DEF Quiet, Late, Undecided
  <2> QED
    BY <1>5, <2>1
       DEF Quiet, storeVars, HeaviestInv, Heaviest, Decided, Heavier, Stored, Migrating
<1>6. ASSUME NEW t \in Thread, Alone(t), Store(t)
      PROVE  HeaviestInv'
  <2>1. /\ StoreBegin(blk[t], total[t]) /\ pc' = [pc EXCEPT ![t] = "storing"]
        /\ UNCHANGED <<blk, currentTip, open>> /\ open /\ pc[t] = "store"
        /\ entry' = [entry EXCEPT ![blk[t]] = total[t]]
    BY <1>6 DEF Store, At, GoTo, StoreBegin
  <2>2. Undecided = {} /\ Undecided' = {blk[t]}
    BY <1>0, <1>6, <2>1, SoleUndecided
  <2>3. ASSUME NEW b \in Block \ {blk[t]}, Stored(b)'
        PROVE  currentTip # NoBlock /\ ~Heavier(b, currentTip)'
    <3>1. Stored(b) /\ currentTip \in BlockOrNone
      BY <1>0, <2>1, <2>3 DEF Stored, StoreTypeOK
    <3>2. currentTip # NoBlock /\ ~Heavier(b, currentTip)
      BY <2>1, <2>2, <3>1 DEF HeaviestInv, Heaviest, Decided
    <3>3. currentTip \in Block /\ Stored(currentTip)
      BY <3>1, <3>2 DEF IInv, MemoryInv, BlockOrNone
    <3> QED
      BY <1>0, <2>1, <3>1, <3>2, <3>3 DEF KeepsBlocks, Heavier
  <2> QED
    BY <2>1, <2>2, <2>3 DEF HeaviestInv, Heaviest, Decided
<1>7. ASSUME NEW t \in Thread, Alone(t), Storing(t)
      PROVE  HeaviestInv'
  <2>1. /\ pc[t] = "storing" /\ pc'[t] \in {"storing", "readtip", "settip"}
        /\ UNCHANGED <<blk, entry, open>> /\ open
        /\ currentTip # NoBlock => UNCHANGED currentTip
    BY <1>0, <1>7, InserterKnows
       DEF Storing, At, GoTo, StoreHeight, Flush, TipAfterStore
  <2>2. Undecided' = Undecided
    BY <1>7, <2>1, SoleUndecided
  <2> QED
    BY <2>1, <2>2 DEF HeaviestInv, Heaviest, Decided, Heavier, Stored
<1>8. ASSUME NEW t \in Thread, Alone(t), ReadTip(t)
      PROVE  HeaviestInv'
  <2>1. pc[t] = "readtip" /\ UNCHANGED storeVars /\ open
    BY <1>8, InserterKnows DEF ReadTip, At
  <2>2. Undecided = {blk[t]}
    BY <1>8, <2>1, SoleUndecided
  <2>3. CASE GoTo(t, "settip") /\ UNCHANGED blk
    <3>1. Undecided' = Undecided
      BY <1>0, <1>8, <2>1, <2>2, <2>3, SoleUndecided DEF GoTo
    <3> QED
      BY <2>1, <3>1 DEF storeVars, HeaviestInv, Heaviest, Decided, Heavier, Stored
  <2>4. CASE ~BecomesTip(t)
    <3>1. currentTip # NoBlock /\ ~Heavier(blk[t], currentTip)
      BY <2>1, <2>4, BestIsHeaviest, BlockAssumption
    <3>2. Heaviest(currentTip, Block)
      BY <2>1, <2>2, <3>1 DEF HeaviestInv, Heaviest, Decided
    <3> QED
      BY <2>1, <3>2 DEF storeVars, HeaviestInv, Heaviest, Decided, Heavier, Stored
  <2> QED
    BY <1>8, <2>3, <2>4 DEF ReadTip
<1>9. ASSUME NEW t \in Thread, Alone(t), SetTip(t)
      PROVE  HeaviestInv'
  <2>1. /\ pc[t] = "settip" /\ UNCHANGED <<entry, open>> /\ currentTip' = blk[t] /\ open
    BY <1>9 DEF SetTip, At, SetTipBegin, IInv, InsertInv, Inserts
  <2>2. /\ blk[t] \in Block /\ Stored(blk[t])
        /\ currentTip \in Block /\ Stored(currentTip)
    BY <1>9, <2>1, InserterKnows DEF Late, IInv, ThreadInv, BlockOrNone
  <2>3. ~Heavier(currentTip, blk[t])
    BY <2>1 DEF SoleInv, ChoiceStands
  <2>4. Undecided = {blk[t]}
    BY <1>9, <2>1, SoleUndecided
  <2>5. ASSUME NEW b \in Block, Stored(b)
        PROVE  ~Heavier(b, blk[t])
    <3>1. CASE b = blk[t]
      BY <1>0, <2>2, <3>1, HeavierOrder
    <3>2. CASE b # blk[t]
      <4>1. ~Heavier(b, currentTip)
        BY <2>1, <2>4, <2>5, <3>2 DEF HeaviestInv, Heaviest, Decided
      <4> QED
        BY <1>0, <2>2, <2>3, <2>5, <4>1, HeavierOrder
    <3> QED
      BY <3>1, <3>2
  <2> QED
    BY <2>1, <2>2, <2>5, BlockAssumption DEF HeaviestInv, Heaviest, Decided, Heavier, Stored
<1>10. ASSUME NEW t \in Thread, Alone(t), Setting(t)
       PROVE  HeaviestInv'
  <2>1. /\ pc[t] = "setting" /\ pc'[t] \in {"mine", "idle"}
        /\ UNCHANGED <<entry, currentTip, open>> /\ open
    BY <1>0, <1>10, InserterKnows DEF Setting, At, Flush, Return, GoTo, Home
  <2>2. Undecided = {} /\ Undecided' = {}
    BY <1>10, <2>1, SoleUndecided
  <2> QED
    BY <2>1, <2>2 DEF HeaviestInv, Heaviest, Decided, Heavier, Stored
<1> QED
  BY <1>1, <1>2, <1>3, <1>4, <1>5, <1>6, <1>7, <1>8, <1>9, <1>10, SoleMoves
     DEF SoleInv, OpenStore, Opening

(***************************************************************************)
(* Between insertions the tip is the heaviest block that is stored, as     *)
(* long as one goroutine inserts and the process is not killed between     *)
(* StoreBlock and SetCurrentTip (validator.go:262-277), over an upgrade    *)
(* from a chain whose tip was the heaviest.                                *)
(***************************************************************************)
THEOREM HeaviestBecomesTip ==
  ASSUME ~Faults, ~Crashes, SoleInserter, LegacyTipHeaviest
  PROVE  Spec => []TipIsHeaviest
<1>1. Init => HeaviestInv
  BY DEF Init, StoreInit, HeaviestInv, Heaviest, Stored
<1>2. IInv /\ SoleInv /\ HeaviestInv /\ [Next]_vars => HeaviestInv'
  BY HeaviestKept
<1>3. IInv /\ HeaviestInv => TipIsHeaviest
  <2> HAVE IInv /\ HeaviestInv
  <2>1. AtRest => Undecided = {}
    BY DEF AtRest, At, Undecided, Thread
  <2>2. AtRest => open
    BY DEF AtRest, IInv, ThreadInv
  <2> QED
    BY <2>1, <2>2 DEF HeaviestInv, Heaviest, Decided, TipIsHeaviest
<1> QED
  BY <1>1, <1>2, <1>3, Invariant, SoleInvariant, PTL DEF Spec

-----------------------------------------------------------------------------
(***************************************************************************)
(* A stored block with a parent has work of its own: a target of zero is   *)
(* refused (validator.go:149), as is a parent of a block of height 0.      *)
(***************************************************************************)
Founded(b) == IF IsGenesis(b) THEN Parent[b] = NoBlock ELSE Target[b] # 0

\* An older version refused them as well.
LegacyFounded ==
  Legacy # NoLegacy => \A b \in Block : Legacy.work[b] # NoEntry => Founded(b)

FoundedInv ==
  /\ \A b \in Block : Stored(b) => Founded(b)
  /\ \A t \in Thread : pc[t] \in Inserting \ {"check"} => Founded(blk[t])

\* Every step keeps it.
LEMMA FoundedKept ==
  ASSUME LegacyFounded, IInv, FoundedInv, [Next]_vars
  PROVE  FoundedInv'
<1> USE DEF At, GoTo
<1>0. /\ pc \in [Thread -> Inserting \cup {"down", "init", "mine", "idle"}]
      /\ blk \in [Thread -> BlockOrNone]
      /\ entry \in [Block -> Nat \cup {NoEntry}]
      /\ Main \in Thread /\ \A t \in Peer : t \in Thread
  BY DEF IInv, TypeOK, StoreTypeOK, Thread
<1>1. ASSUME NEW b, Founded(b)
      PROVE  Founded(b)'
  BY <1>1 DEF Founded, IsGenesis
<1>2. ASSUME UNCHANGED entry,
             \A t \in Thread : pc'[t] \in Inserting \ {"check"} =>
               pc[t] \in Inserting \ {"check"} /\ blk'[t] = blk[t]
      PROVE  FoundedInv'
  BY <1>1, <1>2 DEF FoundedInv, Stored, Founded, IsGenesis
<1>3. CASE OpenStore
  <2>1. ASSUME NEW b \in Block, Stored(b)'
        PROVE  Stored(b) \/ (Legacy # NoLegacy /\ Legacy.work[b] # NoEntry)
    BY <1>0, <1>3, <2>1
       DEF OpenStore, Opening, Load, MigrateBlock, MigrateHeight, MigrateMeta, Migrating, diskVars,
           Stored
  <2>2. \A t \in Thread : pc'[t] \in Inserting => pc[t] \in Inserting
    BY <1>0, <1>3 DEF OpenStore, Inserting
  <2>3. blk' = blk /\ \A t \in Thread : pc'[t] \in Inserting => pc'[t] = pc[t]
    BY <1>0, <1>3 DEF OpenStore, Inserting
  <2> QED
    BY <1>1, <2>1, <2>2, <2>3 DEF FoundedInv, LegacyFounded, Founded, IsGenesis
<1>4. ASSUME NEW t \in Thread, Return(t), UNCHANGED entry
      PROVE  FoundedInv'
  BY <1>0, <1>2, <1>4 DEF Return, Home, Inserting
<1>5. CASE Exit
  BY <1>0, <1>2, <1>5 DEF Exit, LoseMemory, AllDown, diskVars, Inserting
<1>6. ASSUME NEW t \in Thread, Fail(t)
      PROVE  FoundedInv'
  BY <1>4, <1>5, <1>6 DEF Fail, storeVars, diskVars
<1>7. CASE SealGenesis
  <2>1. PICK g \in Sealed : IsGenesis(g) /\ Parent[g] = NoBlock /\ blk' = [blk EXCEPT ![Main] = g]
    BY <1>7 DEF SealGenesis
  <2>2. UNCHANGED entry /\ pc' = [pc EXCEPT ![Main] = "store"]
    BY <1>7 DEF SealGenesis, storeVars, diskVars
  <2>3. Founded(g)
    BY <2>1 DEF Founded
  <2> QED
    BY <1>0, <2>1, <2>2, <2>3 DEF FoundedInv, Stored, Founded, IsGenesis
<1>8. CASE Mine \/ \E t \in Peer, b \in Block : Deliver(t, b)
  <2>1. PICK t \in Thread : pc' = [pc EXCEPT ![t] = "check"]
                            /\ \A u \in Thread \ {t} : blk'[u] = blk[u]
    BY <1>0, <1>8 DEF Mine, Deliver
  <2>2. UNCHANGED entry
    BY <1>8 DEF Mine, Deliver, storeVars, diskVars
  <2> QED
    BY <1>0, <1>2, <2>1, <2>2
<1>9. CASE Tick \/ ChainPresent \/ MineFails \/ Crash \/ UNCHANGED vars
  <2>1. CASE Tick \/ UNCHANGED vars
    BY <1>2, <2>1 DEF Tick, vars, nodeVars, storeVars, diskVars
  <2> QED
    BY <1>0, <1>4, <1>5, <1>9, <2>1 DEF ChainPresent, MineFails, Crash, storeVars, diskVars
<1>10. ASSUME NEW t \in Thread, Store(t)
       PROVE  FoundedInv'
  <2>1. CASE Fail(t)
    BY <1>6, <2>1
  <2>2. CASE /\ pc[t] = "store" /\ pc' = [pc EXCEPT ![t] = "storing"] /\ blk' = blk
             /\ entry' = [entry EXCEPT ![blk[t]] = total[t]]
    <3>1. Founded(blk[t])
      BY <2>2 DEF FoundedInv, Inserting
    <3>2. \A b \in Block : Stored(b)' => Stored(b) \/ b = blk[t]
      BY <1>0, <2>2 DEF Stored
    <3>3. \A u \in Thread : pc'[u] \in Inserting \ {"check"} => Founded(blk[u])
      BY <1>0, <2>2, <3>1 DEF FoundedInv
    <3> QED
      BY <2>2, <3>1, <3>2, <3>3 DEF FoundedInv, Founded, IsGenesis
  <2> QED
    BY <1>10, <2>1, <2>2 DEF Store, StoreBegin
<1>11. ASSUME NEW t \in Thread, Check(t)
       PROVE  FoundedInv'
  <2>1. CASE Fail(t)
    BY <1>6, <2>1
  <2>2. CASE /\ ValidateBlock(blk[t]) /\ pc' = [pc EXCEPT ![t] = "has"]
             /\ UNCHANGED <<entry, blk>>
    <3>1. Founded(blk[t])
      BY <2>2 DEF ValidateBlock, Founded
    <3> QED
      BY <1>0, <2>2, <3>1 DEF FoundedInv, Stored, Founded, IsGenesis
  <2> QED
    BY <1>11, <2>1, <2>2 DEF Check, storeVars, diskVars
<1>12. ASSUME NEW t \in Thread, Known(t) \/ Storing(t) \/ ReadTip(t) \/ SetTip(t) \/ Setting(t)
       PROVE  FoundedInv'
  <2>1. CASE Fail(t)
    BY <1>6, <2>1
  <2>2. CASE Return(t) /\ UNCHANGED entry
    BY <1>4, <2>2
  <2>3. CASE /\ pc[t] \in Inserting \ {"check"} /\ UNCHANGED <<entry, blk>>
             /\ \A u \in Thread \ {t} : pc'[u] = pc[u]
    BY <1>2, <2>3
  <2> QED
    BY <1>0, <1>12, <2>1, <2>2, <2>3
       DEF Known, Storing, ReadTip, SetTip, Setting, StoreHeight, Flush, SetTipBegin, storeVars,
           diskVars, Inserting
<1>13. ASSUME NEW t \in Thread, WriteError(t)
       PROVE  FoundedInv'
  BY <1>4, <1>5, <1>13 DEF WriteError, WriteFails, diskVars
<1> QED
  BY <1>3, <1>7, <1>8, <1>9, <1>10, <1>11, <1>12, <1>13 DEF Next, InsertStep

\* Who has work of his own is heavier than his parent.
LEMMA ChildIsHeavier ==
  ASSUME IInv, FoundedInv, open, NEW b \in Block, Stored(b), Parent[b] \in Block
  PROVE  Heavier(b, Parent[b])
<1>1. ~Migrating /\ Height[b] > 0 /\ Height[b] \in Nat
  BY BlockAssumption DEF FoundedInv, Founded, Migrating, IsGenesis
<1>2. Stored(Parent[b]) /\ entry[b] = CalcBlockWork(Target[b]) + entry[Parent[b]]
  BY <1>1 DEF IInv, DiskInv, GoodBlock, Placed, TotalWork, IsGenesis
<1>3. entry[Parent[b]] \in Nat
  BY <1>2 DEF IInv, TypeOK, StoreTypeOK, Stored
<1>4. CalcBlockWork(Target[b]) \in Nat \ {0}
  <2> PICK n, m : n = Target[b] /\ m = TargetSpace
    OBVIOUS
  <2>1. n \in Nat /\ n # 0 /\ m \in Nat /\ n + 1 <= m
    BY <1>1, BlockAssumption DEF FoundedInv, Founded, IsGenesis
  <2>2. m \div (n + 1) \in Nat \ {0}
    BY <2>1, Z3
  <2> QED
    BY <2>1, <2>2 DEF CalcBlockWork
<1> QED
  BY <1>2, <1>3, <1>4 DEF Heavier

(***************************************************************************)
(* With one goroutine that inserts and no kill, a block that was accepted  *)
(* on top of the tip has become the tip when its insertion is over, as     *)
(* validator_test.go:97 expects; with two goroutines it need not.          *)
(***************************************************************************)
THEOREM ChildTakesOver ==
  ASSUME ~Faults, ~Crashes, SoleInserter, LegacyTipHeaviest, LegacyFounded
  PROVE  Spec => []ChildBecomesTip
<1>1. Init => FoundedInv
  BY DEF Init, StoreInit, FoundedInv, Stored, AllDown, Inserting, Thread
<1>2. IInv /\ FoundedInv /\ [Next]_vars => FoundedInv'
  BY FoundedKept
<1>3. ASSUME IInv, FoundedInv, TipIsHeaviest
      PROVE  ChildBecomesTip
  <2> SUFFICES ASSUME AtRest, NEW b \in Block, Stored(b), Parent[b] = currentTip
               PROVE  FALSE
    BY DEF ChildBecomesTip
  <2>1. open /\ currentTip \in Block
    BY <1>3 DEF AtRest, IInv, ThreadInv, TypeOK, StoreTypeOK, BlockOrNone
  <2> QED
    BY <1>3, <2>1, ChildIsHeavier DEF TipIsHeaviest
<1> QED
  BY <1>1, <1>2, <1>3, Invariant, HeaviestBecomesTip, PTL DEF Spec

-----------------------------------------------------------------------------
(***************************************************************************)
(* InsertBlock against the heaviest chain: what one goroutine that inserts *)
(* into one life of the store adds to it.                                  *)
(***************************************************************************)
Best == IF serving THEN currentTip ELSE NoBlock

Order == INSTANCE HeaviestChain_proofs WITH accepted <- Accepted, best <- Best

OneLifeOnly == ~Faults /\ ~Crashes /\ ~Mining /\ Legacy = NoLegacy

\* Before it serves, the store holds the new genesis at most.
FirstIsGenesis ==
  ~serving => \A b \in Block : Stored(b) => pc[Main] \in Inserting /\ b = blk[Main]

\* A block of height 0 that passed the checks, or was made here, has no parent.
Rooted ==
  /\ \A b \in Block : Stored(b) /\ IsGenesis(b) => Parent[b] = NoBlock
  /\ \A t \in Thread : pc[t] \in Inserting \ {"check"} /\ IsGenesis(blk[t]) =>
       Parent[blk[t]] = NoBlock

\* A block is stored once, and only then compared with the tip.
StoredOnce ==
  \A t \in Thread :
    /\ pc[t] = "store" => ~Stored(blk[t])
    /\ serving /\ pc[t] \in {"storing", "readtip", "settip"} => currentTip # blk[t]

ChainInv == FirstIsGenesis /\ Rooted /\ StoredOnce

\* The recorded work is the work of the chain.
LEMMA RecordedIsChainWork ==
  ASSUME Order!Acyclic, Legacy = NoLegacy, IInv, ChainInv, NEW b \in Block, Stored(b)
  PROVE  Chain!ChainWork[b] = entry[b]
<1> DEFINE S == {c \in Block : Stored(c)}
<1>1. Order!IsChainWork(Order!ChainWork, Block) /\ Order!Ancestral(Block)
  BY Order!ChainWorkDefined, BlockAssumption
     DEF Order!BlockOrNone, BlockOrNone, Order!Ancestral
<1>2. \A c \in S : /\ Parent[c] # NoBlock => Parent[c] \in S /\ ~IsGenesis(c)
                   /\ Parent[c] = NoBlock => IsGenesis(c)
                   /\ entry[c] = TotalWork(c)
  BY BlockAssumption
     DEF ChainInv, Rooted, IInv, DiskInv, Migrating, GoodBlock, Placed, IsGenesis, BlockOrNone
<1>3. Order!Ancestral(S)
  BY <1>2 DEF Order!Ancestral
<1>4. Order!IsChainWork(entry, S)
  BY <1>2 DEF Order!IsChainWork, Order!WorkOver, TotalWork, Order!CalcBlockWork, CalcBlockWork
<1>5. Order!ChainWork[b] = entry[b]
  BY <1>1, <1>3, <1>4, Order!WorkUnique, BlockAssumption
     DEF Order!BlockOrNone, BlockOrNone
<1> QED
  BY <1>5 DEF Chain!ChainWork, Order!ChainWork, Chain!CalcBlockWork, Order!CalcBlockWork

\* So the order of the abstract chain is the order that the tip is chosen by.
LEMMA BetterIsHeavier ==
  ASSUME Order!Acyclic, Legacy = NoLegacy, IInv, ChainInv,
         NEW a \in Block, NEW b \in Block, Stored(a), Stored(b)
  PROVE  Chain!Better(a, b) <=> Heavier(a, b)
BY RecordedIsChainWork DEF Chain!Better, Heavier

\* A stored block that becomes accepted is inserted.
LEMMA AcceptOne ==
  ASSUME Legacy = NoLegacy, IInv, ChainInv, NEW b \in Block, Stored(b),
         b \notin Accepted, Accepted' = Accepted \cup {b},
         ~IsGenesis(b) => \A c \in Block \ {b} : Stored(c) => c \in Accepted,
         Best' = IF Best = NoBlock \/ Chain!Better(b, Best) THEN b ELSE Best
  PROVE  Chain!Insert(b)
<1>1. CASE IsGenesis(b)
  BY <1>1 DEF Chain!Insert, Chain!IsGenesis, IsGenesis, ChainInv, Rooted, Best
<1>2. CASE ~IsGenesis(b)
  <2>1. /\ Parent[b] \in Block /\ Stored(Parent[b]) /\ Height[b] = Height[Parent[b]] + 1
        /\ Stamp[b] > Stamp[Parent[b]]
    BY <1>2, BlockAssumption DEF IInv, DiskInv, Migrating, GoodBlock, Placed, IsGenesis
  <2>2. Parent[b] # b
    BY <2>1, BlockAssumption
  <2> QED
    BY <1>2, <2>1, <2>2 DEF Chain!Insert, Chain!IsGenesis, IsGenesis, Best
<1> QED
  BY <1>1, <1>2

\* What the sole goroutine that inserts has in its hands.
LEMMA HandsFull ==
  ASSUME OneLifeOnly, IInv, SoleInv, NEW t \in Thread, Alone(t)
  PROVE  /\ blk[t] \in Block
         /\ t # Main => serving
         /\ serving => t # Main /\ currentTip \in Block /\ Stored(currentTip)
         /\ ~serving => pc[t] \in {"store", "storing", "settip", "setting"} /\ IsGenesis(blk[t])
         /\ pc[t] \in Late => Stored(blk[t])
<1>1. blk[t] \in Block /\ (t # Main => serving) /\ (pc[t] \in Late => Stored(blk[t]))
  BY DEF Alone, IInv, InsertInv, Inserts, Late, Holding
<1>2. serving => t # Main
  BY DEF Alone, SoleInv, MainWaits, OneLifeOnly, Inserting
<1>3. serving => currentTip \in Block /\ Stored(currentTip)
  BY DEF IInv, TypeOK, StoreTypeOK, BlockOrNone, MemoryInv, ThreadInv
<1>4. ~serving => pc[t] \in {"store", "storing", "settip", "setting"} /\ IsGenesis(blk[t])
  BY DEF Alone, IInv, InsertInv, Inserts, Inserting
<1> QED
  BY <1>1, <1>2, <1>3, <1>4

\* Each step keeps the chain's part of the invariant.
LEMMA ChainInvKept ==
  ASSUME OneLifeOnly, SoleInserter, IInv, OneLife, SoleInv, ChainInv, [Next]_vars
  PROVE  ChainInv'
<1> USE DEF At, GoTo
<1>0. /\ pc \in [Thread -> Inserting \cup {"down", "init", "mine", "idle"}]
      /\ blk \in [Thread -> BlockOrNone] /\ serving \in BOOLEAN /\ StoreTypeOK
      /\ Main \in Thread /\ \A t \in Peer : t \in Thread /\ t # Main
  BY NodeAssumption DEF IInv, TypeOK, Thread
<1>1. CASE OpenStore \/ Ends
  <2>1. NothingStored /\ UNCHANGED entry /\ \A t \in Thread : pc'[t] \notin Inserting
    <3>1. CASE OpenStore
      <4>1. pc[Main] = "down" /\ Load
        BY <3>1 DEF OneLifeOnly, OpenStore, Opening, MigrateBlock, MigrateHeight, MigrateMeta,
                    Migrating
      <4> QED
        BY <1>0, <3>1, <4>1 DEF OpenStore, Load, OneLife, diskVars, IInv, ThreadInv, Inserting,
                                Thread
    <3>2. CASE Ends
      <4>1. pc[Main] = "init"
        BY <3>2 DEF OneLifeOnly, Ends, OneLife, MainWaits, IInv, InsertInv, Inserts, Inserting,
                    Thread
      <4> QED
        BY <3>2, <4>1 DEF Ends, Exit, LoseMemory, AllDown, OneLife, diskVars, Inserting
    <3> QED
      BY <1>1, <3>1, <3>2
  <2> QED
    BY <2>1 DEF NothingStored, ChainInv, FirstIsGenesis, Rooted, StoredOnce, Stored, Inserting
<1>2. CASE ChainPresent \/ Mine \/ MineFails \/ Crash
  BY <1>1, <1>2
     DEF OneLifeOnly, ChainPresent, Mine, MineFails, Crash, Ends, OneLife, NothingStored
<1>3. CASE SealGenesis
  <2>1. pc[Main] = "init" /\ NothingStored /\ UNCHANGED <<entry, currentTip, serving>> /\ ~serving
    BY <1>3 DEF SealGenesis, OneLife, storeVars, IInv, ThreadInv
  <2>2. PICK g \in Block : Parent[g] = NoBlock /\ blk' = [blk EXCEPT ![Main] = g]
    BY <1>3, NodeAssumption DEF SealGenesis
  <2>3. pc' = [pc EXCEPT ![Main] = "store"] /\ \A b \in Block : ~Stored(b) /\ ~Stored(b)'
    BY <1>3, <2>1 DEF SealGenesis, NothingStored, Stored
  <2>4. Rooted'
    BY <1>0, <2>2, <2>3 DEF ChainInv, Rooted
  <2>5. StoredOnce'
    <3>1. \A t \in Thread \ {Main} : pc'[t] = "idle"
      BY <1>0, <2>1, <2>3 DEF IInv, ThreadInv, Thread
    <3>2. blk'[Main] = g /\ pc'[Main] = "store" /\ ~Stored(g)'
      BY <1>0, <2>2, <2>3
    <3> QED
      BY <3>1, <3>2, <2>1 DEF StoredOnce
  <2> QED
    BY <2>3, <2>4, <2>5 DEF ChainInv, FirstIsGenesis
<1>4. ASSUME NEW t \in Peer, NEW b \in Block, Deliver(t, b)
      PROVE  ChainInv'
  BY <1>0, <1>4 DEF Deliver, storeVars, ChainInv, FirstIsGenesis, Rooted, StoredOnce, Stored
<1>5. ASSUME NEW t \in Thread, Check(t) \/ Known(t)
      PROVE  ChainInv'
  <2>1. serving /\ t # Main
    BY <1>5 DEF Check, Known, OneLifeOnly, OneLife, MainWaits, IInv, InsertInv, Inserts, Inserting
  <2>2. CASE Return(t) /\ UNCHANGED storeVars
    BY <1>0, <2>1, <2>2
       DEF Return, Home, storeVars, ChainInv, FirstIsGenesis, Rooted, StoredOnce, Stored, Inserting
  <2>3. CASE /\ ValidateBlock(blk[t]) /\ GoTo(t, "has")
             /\ UNCHANGED <<storeVars, serving, blk>>
    BY <1>0, <2>1, <2>3
       DEF ValidateBlock, storeVars, ChainInv, FirstIsGenesis, Rooted, StoredOnce, Stored,
           Inserting
  <2>4. CASE /\ At(t, "has") /\ ~Stored(blk[t]) /\ GoTo(t, "store")
             /\ UNCHANGED <<storeVars, serving, blk>>
    BY <1>0, <2>1, <2>4
       DEF storeVars, ChainInv, FirstIsGenesis, Rooted, StoredOnce, Stored, Inserting
  <2> QED
    BY <1>5, <2>1, <2>2, <2>3, <2>4 DEF Check, Known, Fail, OneLifeOnly
<1>6. ASSUME NEW t \in Thread, Alone(t), Store(t)
      PROVE  ChainInv'
  <2>1. /\ pc[t] = "store" /\ pc' = [pc EXCEPT ![t] = "storing"]
        /\ UNCHANGED <<blk, serving, currentTip>>
        /\ entry' = [entry EXCEPT ![blk[t]] = total[t]]
    BY <1>6 DEF Store, StoreBegin, OneLifeOnly
  <2>2. ~Stored(blk[t]) /\ (serving => currentTip # blk[t])
    BY <1>6, <2>1, HandsFull DEF ChainInv, StoredOnce
  <2> QED
    BY <1>0, <1>6, <2>1, <2>2, HandsFull
       DEF Alone, ChainInv, FirstIsGenesis, Rooted, StoredOnce, Stored, Inserting
<1>7. ASSUME NEW t \in Thread, Alone(t), Storing(t)
      PROVE  ChainInv'
  <2>1. /\ pc[t] = "storing" /\ pc'[t] \in {"storing", "readtip", "settip"}
        /\ \A u \in Thread \ {t} : pc'[u] = pc[u]
        /\ UNCHANGED <<blk, serving, entry>>
        /\ currentTip # NoBlock => UNCHANGED currentTip
    BY <1>0, <1>7 DEF Storing, StoreHeight, Flush, TipAfterStore
  <2> QED
    BY <1>0, <1>7, <2>1, HandsFull, BlockAssumption
       DEF Alone, ChainInv, FirstIsGenesis, Rooted, StoredOnce, Stored, Inserting
<1>8. ASSUME NEW t \in Thread, Alone(t), ReadTip(t)
      PROVE  ChainInv'
  <2>1. UNCHANGED storeVars /\ pc[t] = "readtip" /\ serving /\ t # Main
    BY <1>8, HandsFull DEF ReadTip
  <2> QED
    BY <1>0, <1>8, <2>1
       DEF ReadTip, Return, Home, storeVars, ChainInv, FirstIsGenesis, Rooted, StoredOnce, Stored,
           Inserting
<1>9. ASSUME NEW t \in Thread, Alone(t), SetTip(t)
       PROVE  ChainInv'
  <2>1. /\ pc[t] = "settip" /\ pc' = [pc EXCEPT ![t] = "setting"]
        /\ UNCHANGED <<blk, serving, entry>>
    BY <1>9 DEF SetTip, SetTipBegin, OneLifeOnly, IInv, InsertInv, Inserts
  <2> QED
    BY <1>0, <1>9, <2>1
       DEF Alone, ChainInv, FirstIsGenesis, Rooted, StoredOnce, Stored, Inserting
<1>10. ASSUME NEW t \in Thread, Alone(t), Setting(t)
       PROVE  ChainInv'
  <2>1. Return(t) /\ UNCHANGED <<entry, currentTip>> /\ (t # Main => serving)
    BY <1>10, HandsFull DEF Setting, Flush
  <2> QED
    BY <1>0, <1>10, <2>1
       DEF Alone, Return, Home, ChainInv, FirstIsGenesis, Rooted, StoredOnce, Stored, Inserting
<1>11. CASE Tick \/ UNCHANGED vars
  BY <1>11 DEF Tick, vars, nodeVars, storeVars, ChainInv, FirstIsGenesis, Rooted, StoredOnce,
               Stored
<1>12. ASSUME NEW t \in Thread, InsertStep(t)
       PROVE  ChainInv'
  BY <1>5, <1>6, <1>7, <1>8, <1>9, <1>10, <1>12, ActsAlone
     DEF InsertStep, SoleInv, OneLifeOnly
<1>13. ASSUME NEW t \in Thread, WriteError(t)
       PROVE  FALSE
  BY <1>13 DEF WriteError, WriteFails, OneLifeOnly
<1> QED
  BY <1>1, <1>2, <1>3, <1>4, <1>11, <1>12, <1>13 DEF Next

\* Nothing becomes accepted, and the best block stays.
ChainStands == UNCHANGED <<Accepted, Best>>

\* Where the tip, the files and the undecided blocks stay, so does the chain.
LEMMA StandsWhenSame ==
  ASSUME \/ ~serving /\ ~serving'
         \/ UNCHANGED <<entry, currentTip, serving>> /\ Undecided' = Undecided
  PROVE  ChainStands
BY DEF ChainStands, Accepted, Best, Stored

\* Each step inserts one block into the abstract chain, or leaves it alone.
LEMMA ChainStep ==
  ASSUME OneLifeOnly, SoleInserter, Order!Acyclic, IInv, OneLife, SoleInv, ChainInv, [Next]_vars
  PROVE  ChainStands \/ Chain!Next
<1> USE DEF At, GoTo
<1>0. /\ pc \in [Thread -> Inserting \cup {"down", "init", "mine", "idle"}]
      /\ blk \in [Thread -> BlockOrNone] /\ serving \in BOOLEAN /\ StoreTypeOK
      /\ Main \in Thread /\ \A t \in Peer : t \in Thread /\ t # Main
  BY NodeAssumption DEF IInv, TypeOK, Thread
<1>1. CASE OpenStore \/ Ends
  <2>1. ~serving /\ ~serving'
    BY <1>1
       DEF OpenStore, Ends, Exit, OneLifeOnly, OneLife, MainWaits, IInv, ThreadInv, InsertInv,
           Inserts, Inserting, Thread
  <2> QED
    BY <2>1, StandsWhenSame
<1>2. CASE ChainPresent \/ Mine \/ MineFails \/ Crash
  BY <1>1, <1>2
     DEF OneLifeOnly, ChainPresent, Mine, MineFails, Crash, Ends, OneLife, NothingStored
<1>3. CASE SealGenesis
  <2>1. ~serving /\ ~serving'
    BY <1>3 DEF SealGenesis, IInv, ThreadInv
  <2> QED
    BY <2>1, StandsWhenSame
<1>4. ASSUME NEW t \in Peer, NEW b \in Block, Deliver(t, b)
      PROVE  ChainStands
  <2>1. UNCHANGED <<entry, currentTip, serving>> /\ Undecided' = Undecided
    BY <1>0, <1>4 DEF Deliver, storeVars, Undecided
  <2> QED
    BY <2>1, StandsWhenSame
<1>5. ASSUME NEW t \in Thread, Check(t) \/ Known(t)
      PROVE  ChainStands
  <2>1. serving /\ t # Main
    BY <1>5 DEF Check, Known, OneLifeOnly, OneLife, MainWaits, IInv, InsertInv, Inserts, Inserting
  <2>2. /\ UNCHANGED storeVars
        /\ Return(t) \/ (UNCHANGED <<serving, blk>> /\ \E c \in {"has", "store"} : GoTo(t, c))
    BY <1>5, <2>1 DEF Check, Known, Fail, OneLifeOnly
  <2>3. UNCHANGED <<entry, currentTip, serving>>
    BY <2>1, <2>2 DEF storeVars, Return
  <2>4. Undecided' = Undecided
    <3>1. pc[t] \in {"check", "has"} /\ pc'[t] \in {"idle", "has", "store"}
      BY <1>0, <1>5, <2>1, <2>2 DEF Check, Known, Return, Home
    <3>2. \A u \in Thread \ {t} : pc'[u] = pc[u] /\ blk'[u] = blk[u]
      BY <1>0, <2>2 DEF Return
    <3> QED
      BY <3>1, <3>2 DEF Undecided
  <2> QED
    BY <2>3, <2>4, StandsWhenSame
<1>6. ASSUME NEW t \in Thread, Alone(t), Store(t)
      PROVE  ChainStands
  <2>1. /\ pc[t] = "store" /\ pc' = [pc EXCEPT ![t] = "storing"]
        /\ UNCHANGED <<blk, serving, currentTip>>
        /\ entry' = [entry EXCEPT ![blk[t]] = total[t]]
    BY <1>6 DEF Store, StoreBegin, OneLifeOnly
  <2>2. ~Stored(blk[t]) /\ blk[t] \in Block
    BY <1>6, <2>1, HandsFull DEF ChainInv, StoredOnce
  <2>3. Undecided = {} /\ Undecided' = {blk[t]}
    BY <1>0, <1>6, <2>1, SoleUndecided
  <2>4. \A b \in Block : (Stored(b)' /\ b # blk[t]) <=> Stored(b)
    BY <1>0, <2>1, <2>2 DEF StoreTypeOK, Stored
  <2>5. Accepted' = Accepted
    BY <2>1, <2>3, <2>4 DEF Accepted
  <2> QED
    BY <2>1, <2>5 DEF ChainStands, Best
<1>7. ASSUME NEW t \in Thread, Alone(t), Storing(t)
      PROVE  ChainStands
  <2>1. /\ pc[t] = "storing" /\ pc'[t] \in {"storing", "readtip", "settip"}
        /\ UNCHANGED <<blk, serving, entry>>
        /\ currentTip # NoBlock => UNCHANGED currentTip
    BY <1>0, <1>7 DEF Storing, StoreHeight, Flush, TipAfterStore
  <2>2. Undecided' = Undecided
    BY <1>7, <2>1, SoleUndecided
  <2>3. serving => currentTip # NoBlock
    BY DEF IInv, ThreadInv
  <2> QED
    BY <2>1, <2>2, <2>3, StandsWhenSame
<1>8. ASSUME NEW t \in Thread, Alone(t), ReadTip(t)
      PROVE  ChainStands \/ Chain!Next
  <2>1. pc[t] = "readtip" /\ UNCHANGED storeVars /\ serving /\ t # Main
    BY <1>8, HandsFull DEF ReadTip
  <2>2. Undecided = {blk[t]}
    BY <1>8, <2>1, SoleUndecided
  <2>3. CASE GoTo(t, "settip") /\ UNCHANGED <<serving, blk>>
    <3>1. Undecided' = Undecided
      BY <1>0, <1>8, <2>1, <2>2, <2>3, SoleUndecided
    <3> QED
      BY <2>1, <2>3, <3>1, StandsWhenSame DEF storeVars
  <2>4. CASE ~BecomesTip(t) /\ Return(t)
    <3>1. serving' /\ Undecided' = {}
      BY <1>0, <1>8, <2>1, <2>4, SoleUndecided DEF Return, Home
    <3>2. /\ blk[t] \in Block /\ Stored(blk[t]) /\ ~Heavier(blk[t], currentTip)
          /\ currentTip \in Block /\ Stored(currentTip)
      BY <2>1, <2>4, BestIsHeaviest
    <3>3. Accepted = {b \in Block : Stored(b)} \ {blk[t]} /\ Accepted' = {b \in Block : Stored(b)}
      BY <2>1, <2>2, <3>1 DEF Accepted, Stored, storeVars
    <3>4. Best = currentTip /\ Best' = currentTip /\ Best # NoBlock
      BY <2>1, <3>1, <3>2, BlockAssumption DEF Best, storeVars
    <3>5. ~Chain!Better(blk[t], Best)
      BY <3>2, <3>4, BetterIsHeavier DEF OneLifeOnly
    <3>6. Chain!Insert(blk[t])
      BY <3>2, <3>3, <3>4, <3>5, AcceptOne DEF OneLifeOnly
    <3> QED
      BY <3>2, <3>6 DEF Chain!Next
  <2> QED
    BY <1>8, <2>3, <2>4 DEF ReadTip, OneLifeOnly
<1>9. ASSUME NEW t \in Thread, Alone(t), SetTip(t)
      PROVE  ChainStands \/ Chain!Next
  <2>1. /\ pc[t] = "settip" /\ pc' = [pc EXCEPT ![t] = "setting"]
        /\ UNCHANGED <<blk, serving, entry>> /\ currentTip' = blk[t]
    BY <1>9 DEF SetTip, SetTipBegin, OneLifeOnly, IInv, InsertInv, Inserts
  <2>2. CASE ~serving
    BY <2>1, <2>2, StandsWhenSame
  <2>3. CASE serving
    <3>1. Undecided = {blk[t]} /\ Undecided' = {}
      BY <1>0, <1>9, <2>1, SoleUndecided
    <3>2. /\ blk[t] \in Block /\ Stored(blk[t])
          /\ currentTip \in Block /\ Stored(currentTip)
      BY <1>9, <2>1, <2>3, HandsFull DEF Late
    <3>3. ~Heavier(currentTip, blk[t]) /\ currentTip # blk[t]
      BY <2>1, <2>3 DEF SoleInv, ChoiceStands, ChainInv, StoredOnce
    <3>4. Heavier(blk[t], currentTip)
      <4>1. /\ entry[blk[t]] \in Nat /\ entry[currentTip] \in Nat
            /\ Rank[blk[t]] \in Nat /\ Rank[currentTip] \in Nat
            /\ Rank[blk[t]] # Rank[currentTip]
        BY <1>0, <3>2, <3>3, BlockAssumption DEF StoreTypeOK, Stored
      <4> QED
        BY <3>3, <4>1 DEF Heavier
    <3>5. Accepted = {b \in Block : Stored(b)} \ {blk[t]} /\ Accepted' = {b \in Block : Stored(b)}
      BY <2>1, <2>3, <3>1 DEF Accepted, Stored
    <3>6. Best = currentTip /\ Best' = blk[t] /\ Best # NoBlock
      BY <2>1, <2>3, <3>2, BlockAssumption DEF Best
    <3>7. Chain!Better(blk[t], Best)
      BY <3>2, <3>4, <3>6, BetterIsHeavier DEF OneLifeOnly
    <3>8. Chain!Insert(blk[t])
      BY <3>2, <3>5, <3>6, <3>7, AcceptOne DEF OneLifeOnly
    <3> QED
      BY <3>2, <3>8 DEF Chain!Next
  <2> QED
    BY <1>0, <2>2, <2>3
<1>10. ASSUME NEW t \in Thread, Alone(t), Setting(t)
       PROVE  ChainStands \/ Chain!Next
  <2>1. /\ pc[t] = "setting" /\ pc'[t] \in {"mine", "idle"} /\ Return(t)
        /\ UNCHANGED <<entry, currentTip>> /\ (t # Main => serving) /\ (serving => t # Main)
    BY <1>0, <1>10, HandsFull DEF Setting, Flush, Return, Home
  <2>2. Undecided = {} /\ Undecided' = {}
    BY <1>10, <2>1, SoleUndecided
  <2>3. CASE serving
    BY <2>1, <2>2, <2>3, StandsWhenSame DEF Return
  <2>4. CASE ~serving
    <3>1. t = Main /\ serving'
      BY <2>1, <2>4 DEF Return
    <3>2. blk[t] \in Block /\ Stored(blk[t]) /\ IsGenesis(blk[t])
      BY <1>10, <2>1, <2>4, HandsFull DEF Late
    <3>3. currentTip = blk[t]
      BY <1>10, <2>1, <2>4, <3>1
         DEF SoleInv, FirstBlock, Inserting, IInv, MemoryInv, ThreadInv
    <3>4. {b \in Block : Stored(b)} = {blk[t]}
      BY <2>4, <3>1, <3>2 DEF ChainInv, FirstIsGenesis
    <3>5. Accepted = {} /\ Accepted' = {blk[t]}
      BY <2>1, <2>2, <2>4, <3>1, <3>4 DEF Accepted, Stored
    <3>6. Best = NoBlock /\ Best' = blk[t]
      BY <2>1, <2>4, <3>1, <3>3 DEF Best
    <3>7. Chain!Insert(blk[t])
      BY <3>2, <3>5, <3>6, AcceptOne DEF OneLifeOnly
    <3> QED
      BY <3>2, <3>7 DEF Chain!Next
  <2> QED
    BY <1>0, <2>3, <2>4
<1>11. CASE Tick \/ UNCHANGED vars
  <2>1. UNCHANGED <<storeVars, nodeVars>>
    BY <1>11 DEF Tick, vars
  <2>2. UNCHANGED <<entry, currentTip, serving>> /\ Undecided' = Undecided
    BY <2>1 DEF nodeVars, storeVars, Undecided
  <2> QED
    BY <2>2, StandsWhenSame
<1>12. ASSUME NEW t \in Thread, InsertStep(t)
       PROVE  ChainStands \/ Chain!Next
  BY <1>5, <1>6, <1>7, <1>8, <1>9, <1>10, <1>12, ActsAlone DEF InsertStep, SoleInv, OneLifeOnly
<1>13. ASSUME NEW t \in Thread, WriteError(t)
       PROVE  FALSE
  BY <1>13 DEF WriteError, WriteFails, OneLifeOnly
<1> QED
  BY <1>1, <1>2, <1>3, <1>4, <1>11, <1>12, <1>13 DEF Next

(***************************************************************************)
(* InsertBlock, in all its calls on the store, is one Insert of the        *)
(* abstract chain (validator.go:242-278), whose best block is by           *)
(* FindsTheBest the accepted block of the most work.  One goroutine        *)
(* inserts, into one life of a store that starts empty.                    *)
(***************************************************************************)
THEOREM ImplementsChain ==
  ASSUME OneLifeOnly, SoleInserter, Order!Acyclic
  PROVE  Spec => ImplementsHeaviestChain
<1>1. Init => OneLife /\ SoleInv /\ ChainInv /\ Chain!Init
  <2>1. Init => OneLife
    BY DEF Init, StoreInit, OneLife, MainWaits, NothingStored
  <2>2. Init => ChainInv
    BY DEF Init, StoreInit, AllDown, Stored, ChainInv, FirstIsGenesis, Rooted, StoredOnce,
           Inserting
  <2>3. Init => Chain!Init
    BY DEF Init, Chain!Init, Accepted
  <2>4. Init => SoleInv
    BY SoleInit
  <2> QED
    BY <2>1, <2>2, <2>3, <2>4
<1>2. IInv /\ OneLife /\ SoleInv /\ ChainInv /\ [Next]_vars => OneLife' /\ SoleInv' /\ ChainInv'
  BY OneLifeKept, SoleKept, ChainInvKept DEF OneLifeOnly
<1>3. IInv /\ OneLife /\ SoleInv /\ ChainInv /\ [Next]_vars =>
        [Chain!Next]_<<Accepted, IF serving THEN currentTip ELSE NoBlock>>
  BY ChainStep DEF ChainStands, Best
<1> QED
  BY <1>1, <1>2, <1>3, Invariant, PTL DEF Spec, ImplementsHeaviestChain, Chain!Spec
=============================================================================
