------------------------------ MODULE ChainNode ------------------------------
(***************************************************************************)
(* A node: its main goroutine, which opens the store, makes the genesis    *)
(* and then mines (node.go, InitGenesis and Run), and one reader goroutine *)
(* per peer, which hands every block it receives to onNewBlock.  All of    *)
(* them insert blocks with Validator.InsertBlock over one DiskStore.       *)
(* InsertBlock takes the store's lock for each call it makes and for       *)
(* nothing longer: between two calls anything may happen.  Node.mu exists  *)
(* but no code takes it.                                                   *)
(*                                                                         *)
(* pc[t] names the call that goroutine t makes next, or is in.             *)
(***************************************************************************)
EXTENDS DiskStore

CONSTANTS
  Main,         \* the goroutine of Node.Run
  Peer,         \* the reader goroutines of the connected peers
  Sealed,       \* blocks SealBlock can return: a nonce was found for them
  Bits,         \* cfg.Genesis.Bits, the target of every block mined here
  Mining,       \* cfg.Mine
  FutureLimit,  \* how far ahead of the clock a timestamp may be
  MaxNow,       \* bound of the clock
  Crashes       \* whether the process may be killed

Thread == {Main} \cup Peer

ASSUME NodeAssumption ==
  /\ Main \notin Peer
  /\ Sealed \subseteq Block
  /\ FutureLimit \in Nat /\ MaxNow \in Nat
  /\ Crashes \in BOOLEAN /\ Mining \in BOOLEAN

\* A legacy snapshot is a chain that an older version accepted.
ASSUME LegacyAssumption ==
  Legacy # NoLegacy =>
    /\ Height[Legacy.genesis] = 0
    /\ \A b \in Block : Legacy.work[b] # NoEntry =>
         /\ Stamp[b] <= FutureLimit
         /\ Height[b] > 0 =>
              /\ Parent[b] \in Block /\ Legacy.work[Parent[b]] # NoEntry
              /\ Height[b] = Height[Parent[b]] + 1
              /\ Stamp[b] > Stamp[Parent[b]]
         /\ Legacy.work[b] = CalcBlockWork(Target[b])
              + (IF Height[b] = 0 THEN 0 ELSE Legacy.work[Parent[b]])

VARIABLES
  serving,      \* InitGenesis is done and the p2p server started
  pc,
  blk,          \* the block that a goroutine is inserting
  total,        \* the total work that InsertBlock computed for it
  now           \* the wall clock

nodeVars == <<serving, pc, blk, total>>
vars == <<storeVars, nodeVars, now>>

Inserting == {"check", "has", "store", "storing", "readtip", "settip", "setting"}
\* Mutant: the main loop resumes like a reader.
HomeOfReaders(t) == "idle"

Home(t) == IF t = Main THEN "mine" ELSE "idle"
AllDown == [t \in Thread |-> IF t = Main THEN "down" ELSE "idle"]

Init ==
  /\ StoreInit
  /\ serving = FALSE
  /\ pc = AllDown
  /\ blk = [t \in Thread |-> NoBlock]
  /\ total = [t \in Thread |-> 0]
  /\ now = 0

-----------------------------------------------------------------------------
At(t, here) == pc[t] = here
GoTo(t, there) == pc' = [pc EXCEPT ![t] = there]

\* The call chain of goroutine t returns to its loop.
Return(t) ==
  /\ GoTo(t, Home(t))
  /\ blk' = [blk EXCEPT ![t] = NoBlock]
  /\ total' = [total EXCEPT ![t] = 0]
  /\ serving' = (serving \/ t = Main)

\* Run returns, or the process is killed.
Exit ==
  /\ LoseMemory
  /\ serving' = FALSE
  /\ pc' = AllDown
  /\ blk' = [t \in Thread |-> NoBlock]
  /\ total' = [t \in Thread |-> 0]
  /\ UNCHANGED now

\* An error without effect on the store.  A reader logs it; it ends Run.
Fail(t) ==
  IF t = Main THEN Exit ELSE Return(t) /\ UNCHANGED <<storeVars, now>>

(***************************************************************************)
(* The checks of ValidateBlock.  The block alone: Sound, and a target that *)
(* is not zero.  Its place: a genesis has no parent; any other block has a *)
(* stored parent, one lower and earlier.  The clock: not too far ahead.    *)
(***************************************************************************)
\* Mutant: height and timestamp are not compared with the parent's.
ParentStoredOnly(b) == Parent[b] # NoBlock /\ Stored(Parent[b])

ExtendsStored(b) ==
  /\ Parent[b] # NoBlock
  /\ Stored(Parent[b])
  /\ Height[b] = Height[Parent[b]] + 1
  /\ Stamp[b] > Stamp[Parent[b]]

\* Mutant: no limit on the timestamp.
AnyTime(b) == TRUE

NotTooFarAhead(b) == Stamp[b] <= now + FutureLimit

ValidateBlock(b) ==
  /\ b \in Sound
  /\ Target[b] # 0
  /\ IF IsGenesis(b) THEN Parent[b] = NoBlock ELSE ExtendsStored(b)
  /\ NotTooFarAhead(b)

\* Mutant: the parent's total is not added.
OwnWorkOnly(b) == CalcBlockWork(Target[b])

TotalWork(b) ==
  CalcBlockWork(Target[b]) + (IF IsGenesis(b) THEN 0 ELSE entry[Parent[b]])

-----------------------------------------------------------------------------
(***************************************************************************)
(* Opening and InitGenesis.  Any error of CurrentTip counts as "no chain   *)
(* yet"; the new genesis is stored and made the tip without validation.    *)
(***************************************************************************)
OpenStore ==
  /\ At(Main, "down")
  /\ Opening
  /\ IF open' THEN GoTo(Main, "init") ELSE UNCHANGED pc
  /\ UNCHANGED <<serving, blk, total, now>>

\* Mutant: InitGenesis takes any opened store for one that has a chain.
ChainAssumed ==
  /\ At(Main, "init") /\ Free
  /\ Return(Main)
  /\ UNCHANGED <<storeVars, now>>

ChainPresent ==
  /\ At(Main, "init") /\ Free
  /\ currentTip # NoBlock
  /\ Return(Main)
  /\ UNCHANGED <<storeVars, now>>

SealGenesis ==
  /\ At(Main, "init") /\ Free
  /\ currentTip = NoBlock \/ Faults
  /\ \E g \in Sealed :
       /\ IsGenesis(g) /\ Parent[g] = NoBlock
       /\ Target[g] = Bits /\ Stamp[g] <= now
       /\ blk' = [blk EXCEPT ![Main] = g]
       /\ total' = [total EXCEPT ![Main] = CalcBlockWork(Target[g])]
  /\ GoTo(Main, "store")
  /\ UNCHANGED <<storeVars, serving, now>>

\* Mutant: the template is stamped with the clock alone.
StampOfClock == now

TemplateStamp == IF now > Stamp[currentTip] THEN now ELSE Stamp[currentTip] + 1

(***************************************************************************)
(* mineNextBlock: a template on the tip, stamped max(now, tip + 1), and    *)
(* SealBlock.  The tip is read once, before the search for a nonce.        *)
(***************************************************************************)
Mine ==
  /\ Mining /\ At(Main, "mine") /\ Free
  /\ currentTip # NoBlock
  /\ \E b \in Sealed :
       /\ Parent[b] = currentTip
       /\ Height[b] = Height[currentTip] + 1
       /\ Stamp[b] = TemplateStamp
       /\ Target[b] = Bits
       /\ blk' = [blk EXCEPT ![Main] = b]
  /\ GoTo(Main, "check")
  /\ UNCHANGED <<storeVars, serving, total, now>>

\* No nonce among MaxNonces, or the tip cannot be read: Run returns the error.
MineFails ==
  /\ \/ At(Main, "init")
     \/ Mining /\ At(Main, "mine")
  /\ Free
  /\ Exit

\* onNewBlock: a peer's block that is already stored is ignored.
Deliver(t, b) ==
  /\ serving /\ At(t, "idle") /\ Free
  /\ ~Stored(b) \/ Faults
  /\ GoTo(t, "check")
  /\ blk' = [blk EXCEPT ![t] = b]
  /\ UNCHANGED <<storeVars, serving, total, now>>

-----------------------------------------------------------------------------
(***************************************************************************)
(* InsertBlock, one action per call on the store.                          *)
(***************************************************************************)
Check(t) ==
  /\ At(t, "check") /\ Free
  /\ \/ /\ ValidateBlock(blk[t])
        /\ GoTo(t, "has")
        /\ UNCHANGED <<storeVars, serving, blk, total, now>>
     \/ /\ ~ValidateBlock(blk[t]) \/ Faults
        /\ Fail(t)

(***************************************************************************)
(* HasBlock, and TotalWork of the parent for a block that is new.  (A file *)
(* that cannot be read counts as a block that is not there.)               *)
(***************************************************************************)
Known(t) ==
  /\ At(t, "has") /\ Free
  /\ \/ /\ Stored(blk[t])
        /\ Return(t)
        /\ UNCHANGED <<storeVars, now>>
     \/ /\ ~Stored(blk[t]) \/ Faults
        /\ total' = [total EXCEPT ![t] = TotalWork(blk[t])]
        /\ GoTo(t, "store")
        /\ UNCHANGED <<storeVars, serving, blk, now>>
     \/ Faults /\ Fail(t)

\* Mutant: StoreBlock gives up when the lock is taken.
StoreIfUnlocked(t) ==
  /\ At(t, "store")
  /\ \/ /\ StoreBegin(blk[t], total[t])
        /\ GoTo(t, "storing")
        /\ UNCHANGED <<serving, blk, total, now>>
     \/ ~Free /\ Return(t) /\ UNCHANGED <<storeVars, now>>

Store(t) ==
  /\ At(t, "store")
  /\ \/ /\ StoreBegin(blk[t], total[t])
        /\ GoTo(t, "storing")
        /\ UNCHANGED <<serving, blk, total, now>>
     \/ Faults /\ Free /\ Fail(t)

\* The two later writes; then InsertBlock compares, InitGenesis does not.
Storing(t) ==
  /\ At(t, "storing")
  /\ \/ StoreHeight /\ UNCHANGED pc
     \/ Flush /\ GoTo(t, IF serving THEN "readtip" ELSE "settip")
  /\ UNCHANGED <<serving, blk, total, now>>

\* Mutant: the block stored last wins.
LastWins(t) == TRUE

\* Mutant: heights are compared instead of total work.
HigherWins(t) ==
  currentTip = NoBlock \/ Height[blk[t]] > Height[currentTip]

(***************************************************************************)
(* CurrentTip and the choice between the tip and the block just stored.    *)
(* The choice is kept, not the lock: SetCurrentTip is a later call.        *)
(***************************************************************************)
BecomesTip(t) ==
  \/ currentTip = NoBlock
  \/ blk[t] = SelectBestChainByTotalWork(currentTip, entry[currentTip],
                                         blk[t], total[t])

ReadTip(t) ==
  /\ At(t, "readtip") /\ Free
  /\ \/ /\ BecomesTip(t) \/ Faults
        /\ GoTo(t, "settip")
        /\ UNCHANGED <<storeVars, serving, blk, total, now>>
     \/ /\ ~BecomesTip(t)
        /\ Return(t)
        /\ UNCHANGED <<storeVars, now>>

SetTip(t) ==
  /\ At(t, "settip")
  /\ \/ /\ SetTipBegin(blk[t])
        /\ GoTo(t, "setting")
        /\ UNCHANGED <<serving, blk, total, now>>
     \/ /\ Free /\ (~Stored(blk[t]) \/ Faults)
        /\ Fail(t)

Setting(t) == At(t, "setting") /\ Flush /\ Return(t) /\ UNCHANGED now

\* A failing write ends the operation and, for the main goroutine, the run.
WriteError(t) ==
  /\ pc[t] \in {"storing", "setting"}
  /\ IF t = Main THEN Faults /\ Exit
     ELSE WriteFails /\ Return(t) /\ UNCHANGED now

InsertStep(t) ==
  \/ Check(t) \/ Known(t) \/ Store(t) \/ Storing(t)
  \/ ReadTip(t) \/ SetTip(t) \/ Setting(t)

-----------------------------------------------------------------------------
Crash == Crashes /\ open /\ Exit

Tick ==
  /\ now < MaxNow
  /\ now' = now + 1
  /\ UNCHANGED <<storeVars, nodeVars>>

Next ==
  \/ OpenStore \/ ChainPresent \/ SealGenesis \/ Mine \/ MineFails
  \/ \E t \in Peer, b \in Block : Deliver(t, b)
  \/ \E t \in Thread : InsertStep(t) \/ WriteError(t)
  \/ Crash
  \/ Tick

Spec == Init /\ [][Next]_vars

(***************************************************************************)
(* The Go scheduler runs every goroutine that can run, and a goroutine     *)
(* that waits for the store's sync.RWMutex gets it although others come    *)
(* and go.  Nothing makes a peer send a block, a search succeed or an      *)
(* operator restart the process.                                           *)
(***************************************************************************)
Fairness == \A t \in Thread : SF_vars(InsertStep(t))

FairSpec == Spec /\ Fairness

-----------------------------------------------------------------------------
TypeOK ==
  /\ StoreTypeOK
  /\ serving \in BOOLEAN
  /\ pc \in [Thread -> Inserting \cup {"down", "init", "mine", "idle"}]
  /\ pc[Main] # "idle"
  /\ \A t \in Peer : pc[t] \in Inserting \cup {"idle"}
  /\ blk \in [Thread -> BlockOrNone]
  /\ total \in [Thread -> Nat]
  /\ now \in Nat

(***************************************************************************)
(* Whatever goroutines, crashes and failing writes did to each other, the  *)
(* stored blocks form chains: every one stands on a stored parent that is  *)
(* one lower and strictly earlier, down to a block of height 0             *)
(* (validator.go, validateHeader; nothing deletes a block).                *)
(***************************************************************************)
ChainConnected ==
  ~Migrating => \A b \in Block : Stored(b) /\ Height[b] > 0 =>
    /\ Parent[b] \in Block /\ Stored(Parent[b])
    /\ Height[b] = Height[Parent[b]] + 1
    /\ Stamp[b] > Stamp[Parent[b]]

(***************************************************************************)
(* The total work recorded with a block is the work of its whole chain:    *)
(* its own and what is recorded with its parent.  InsertBlock computes it  *)
(* from a store that other goroutines change, and writes it only two calls *)
(* later (validator.go:251-260).                                           *)
(***************************************************************************)
WorkAccounted ==
  ~Migrating => \A b \in Block : Stored(b) =>
    entry[b] = CalcBlockWork(Target[b])
               + (IF Height[b] = 0 THEN 0 ELSE entry[Parent[b]])

(***************************************************************************)
(* No stored block is further ahead of the clock than the two hours that   *)
(* validateHeader grants, own blocks (stamped by the template, not by the  *)
(* clock) and blocks of an earlier run included.                           *)
(***************************************************************************)
NoneFromFuture ==
  \A b \in Block : Stored(b) => Stamp[b] <= now + FutureLimit

(***************************************************************************)
(* A node that serves its peers has a chain: a tip, and a genesis that is  *)
(* a block of height 0 (node.go:104-108: the p2p server is started after   *)
(* InitGenesis).                                                           *)
(***************************************************************************)
ServesAChain ==
  serving => /\ currentTip # NoBlock /\ Stored(currentTip)
             /\ genesisHash # NoBlock /\ Height[genesisHash] = 0

AtRest == serving /\ At(Main, "mine") /\ \A t \in Peer : At(t, "idle")

(***************************************************************************)
(* Between insertions the tip is the heaviest block that is stored, the    *)
(* one of the smaller hash among equals.                                   *)
(***************************************************************************)
Heavier(a, b) ==
  \/ entry[a] > entry[b]
  \/ entry[a] = entry[b] /\ Rank[a] < Rank[b]

TipIsHeaviest ==
  AtRest => \A b \in Block : Stored(b) => ~Heavier(b, currentTip)

(***************************************************************************)
(* A block that was accepted on top of the tip has become the tip: between *)
(* insertions the tip has no stored child (validator_test.go:97).          *)
(***************************************************************************)
ChildBecomesTip ==
  AtRest => \A b \in Block : Stored(b) => Parent[b] # currentTip

\* The tip that a restart finds never gets lighter.
DurableTipNeverLighter ==
  [][meta.tip # NoBlock => ~Heavier(meta.tip, meta'.tip)]_vars

(***************************************************************************)
(* The clock is the only check that the miner's own block can fail: the    *)
(* template was made from a tip read before the search, and whatever peers *)
(* delivered meanwhile its parent is stored, one lower and earlier         *)
(* (node.go:145-161).  SealBlock is taken to return sound blocks here.     *)
(***************************************************************************)
OwnBlockFitsItsParent ==
  At(Main, "check") =>
    /\ Stored(Parent[blk[Main]])
    /\ Height[blk[Main]] = Height[Parent[blk[Main]]] + 1
    /\ Stamp[blk[Main]] > Stamp[Parent[blk[Main]]]

(***************************************************************************)
(* The miner's own block passes the checks of InsertBlock: Run ends with   *)
(* the error of the first one that does not (node.go:125-128).             *)
(***************************************************************************)
OwnBlockPasses == At(Main, "check") => ValidateBlock(blk[Main])

(***************************************************************************)
(* A block that a peer delivered and that passed the checks is stored in   *)
(* the end, however many others are being inserted.                        *)
(***************************************************************************)
ValidGetsStored ==
  \A t \in Peer, b \in Block :
    (At(t, "has") /\ blk[t] = b) ~> (Stored(b) \/ ~open)

\* onNewBlock returns: no insertion waits forever for the store.
InsertionEnds == \A t \in Peer : ~At(t, "idle") ~> At(t, "idle")
=============================================================================
