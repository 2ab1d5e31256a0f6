------------------------------ MODULE DAGCache ------------------------------
(***************************************************************************)
(* The validator's DAGs (validator.go): one per epoch seed and size,       *)
(* generated under the validator's mutex when first needed, shared by the  *)
(* miner and by all validations, or, if the miner's memory cannot be       *)
(* shared, a second one for the validations; and the cache of their Merkle *)
(* roots, which is looked up and filled under the mutex, but streamed      *)
(* outside of it.  The miner seals blocks one at a time with a backend     *)
(* that it prepares on the block's DAG; readers validate side by side.     *)
(*                                                                         *)
(* A DAG's content, and so its root, is determined by seed and size        *)
(* (modules DagGeneration and Merkle).                                     *)
(***************************************************************************)
EXTENDS Integers, Sequences, FiniteSets

CONSTANTS
  Header,       \* the [seed, size] that headers name
  Readers,      \* goroutines that validate blocks of peers
  Miner         \* the goroutine that seals blocks and validates its own

ASSUME CacheAssumption ==
  /\ Miner \notin Readers
  /\ IsFiniteSet(Header)
  /\ \A h \in Header : h = [seed |-> h.seed, size |-> h.size]

VARIABLES
  mining,       \* what SetMiningBackend was given: [backend, digest, memories,
                \* mayFail, able, reuse]: the memories that allocating may come
                \* to, if it may fail, those on which Prepare succeeds, and if
                \* validations may share them
  dags,         \* every DAG ever allocated: [content, memory, open]
  shared, fallback,     \* sharedDAGs, fallbackValidationDAGs: key -> number of a DAG
  roots,        \* colossusxMerkleRoots
  view,         \* the DAG that the backend was prepared on, 0: none
  closed,       \* Close was called
  pc, sealing,  \* where each goroutine is, and whether it seals or validates
  header,       \* the header it works on
  held, root    \* the DAG and the root that it got for it

cacheVars == <<mining, dags, shared, fallback, roots, view, closed>>
callVars == <<pc, sealing, header, held, root>>
dagCacheVars == <<cacheVars, callVars>>

Goroutine == Readers \cup {Miner}
NoMining == [backend |-> "none"]
NoHeader == [seed |-> "none", size |-> 0]
NoRoot == NoHeader

\* Mutant: the key forgets the epoch.
SizeOnly(h) == <<"", h.size, "">>

sharedDAGCacheKey(h) == <<h.seed, h.size, "">>
fallbackValidationDAGCacheKey(h) == <<h.seed, h.size, "validation">>

\* dagMerkleRootStreaming
RootOf(content) == content

CacheInit ==
  /\ mining = NoMining
  /\ dags = <<>> /\ shared = <<>> /\ fallback = <<>> /\ roots = <<>>
  /\ view = 0 /\ closed = FALSE
  /\ pc = [g \in Goroutine |-> "idle"]
  /\ sealing = [g \in Goroutine |-> FALSE]
  /\ header = [g \in Goroutine |-> NoHeader]
  /\ held = [g \in Goroutine |-> 0]
  /\ root = [g \in Goroutine |-> NoRoot]

Put(f, key, value) == [k \in DOMAIN f \cup {key} |-> IF k = key THEN value ELSE f[k]]
Without(f, keys) == [k \in DOMAIN f \ keys |-> f[k]]

CloseAll(cached) ==
  dags' = [d \in DOMAIN dags |-> [dags[d] EXCEPT !.open = @ /\ d \notin cached]]

DAGsOf(cache) == {cache[k] : k \in DOMAIN cache}

\* The program calls it once, before it uses the validator.
SetMiningBackend(m) ==
  /\ mining = NoMining
  /\ mining' = m
  /\ CloseAll(DAGsOf(shared))
  /\ shared' = <<>> /\ roots' = <<>>
  /\ UNCHANGED <<fallback, view, closed, callVars>>

Goes(g, place) == pc' = [pc EXCEPT ![g] = place]

\* A block of a peer, or a template, comes with its header.
Begin(g, h) ==
  /\ mining # NoMining /\ ~closed /\ pc[g] = "idle"
  /\ Goes(g, "dag")
  /\ sealing' = [sealing EXCEPT ![g] = (g = Miner)]
  /\ header' = [header EXCEPT ![g] = h]
  /\ UNCHANGED <<cacheVars, held, root>>

-----------------------------------------------------------------------------
(***************************************************************************)
(* cachedDAGForHeader, in one step under the mutex.                        *)
(***************************************************************************)
UsesShared(g) == sealing[g] \/ mining.reuse
KeyFor(g) == IF UsesShared(g) THEN sharedDAGCacheKey(header[g])
             ELSE fallbackValidationDAGCacheKey(header[g])
Cache(g) == IF UsesShared(g) THEN shared ELSE fallback
Memory(g) == IF UsesShared(g) THEN mining.memories ELSE {"go-slice"}

\* Mutant: a DAG is looked for before the mutex is taken, and missed.
NeverCached(g) == FALSE

IsCached(g) == KeyFor(g) \in DOMAIN Cache(g)

FindDAG(g) ==
  /\ pc[g] = "dag" /\ IsCached(g)
  /\ held' = [held EXCEPT ![g] = Cache(g)[KeyFor(g)]]
  /\ Goes(g, IF sealing[g] THEN "prepare" ELSE "root")
  /\ UNCHANGED <<cacheVars, sealing, header, root>>

\* Mutant: the DAGs of other epochs are freed.
CacheDAGAlone(g, mem) ==
  /\ dags' = Append([d \in DOMAIN dags |-> [dags[d] EXCEPT !.open = FALSE]],
                    [content |-> header[g], memory |-> mem, open |-> TRUE])
  /\ shared' = IF UsesShared(g) THEN Put(<<>>, KeyFor(g), Len(dags')) ELSE shared
  /\ fallback' = IF UsesShared(g) THEN fallback ELSE Put(<<>>, KeyFor(g), Len(dags'))

CacheDAG(g, mem) ==
  /\ dags' = Append(dags, [content |-> header[g], memory |-> mem, open |-> TRUE])
  /\ shared' = IF UsesShared(g) THEN Put(shared, KeyFor(g), Len(dags')) ELSE shared
  /\ fallback' = IF UsesShared(g) THEN fallback ELSE Put(fallback, KeyFor(g), Len(dags'))

GenerateDAG(g) ==
  /\ pc[g] = "dag" /\ ~IsCached(g)
  /\ \E mem \in Memory(g) : CacheDAG(g, mem)
  /\ roots' = Put(roots, KeyFor(g), RootOf(header[g]))
  /\ held' = [held EXCEPT ![g] = Len(dags')]
  /\ Goes(g, IF sealing[g] THEN "prepare" ELSE "root")
  /\ UNCHANGED <<mining, view, closed, sealing, header, root>>

Return(g, place) ==
  /\ Goes(g, place)
  /\ held' = [held EXCEPT ![g] = 0]
  /\ root' = [root EXCEPT ![g] = NoRoot]
  /\ header' = [header EXCEPT ![g] = NoHeader]

\* After an error the miner's loop ends, a reader takes the next message.
Fails(g) == Return(g, IF g = Miner THEN "stopped" ELSE "idle")

AllocationFails(g) ==
  /\ pc[g] = "dag" /\ ~IsCached(g) /\ UsesShared(g) /\ mining.mayFail
  /\ Fails(g)
  /\ UNCHANGED <<cacheVars, sealing>>

-----------------------------------------------------------------------------
\* Mutant: the backend is prepared only once.
PrepareOnce == view' = IF view = 0 THEN held[Miner] ELSE view

PrepareView == view' = held[Miner]

Prepare ==
  /\ pc[Miner] = "prepare"
  /\ IF dags[held[Miner]].memory \in mining.able
     THEN PrepareView /\ Goes(Miner, "root") /\ UNCHANGED <<header, held, root>>
     ELSE Fails(Miner) /\ UNCHANGED view
  /\ UNCHANGED <<mining, dags, shared, fallback, roots, closed, sealing>>

\* merkleRootForDAG: always under the key of the shared cache.
FindRoot(g) ==
  /\ pc[g] = "root"
  /\ LET key == sharedDAGCacheKey(header[g]) IN
     IF key \in DOMAIN roots
     THEN /\ root' = [root EXCEPT ![g] = roots[key]]
          /\ Goes(g, IF sealing[g] THEN "mine" ELSE "verdict")
     ELSE Goes(g, "stream") /\ UNCHANGED root
  /\ UNCHANGED <<cacheVars, sealing, header, held>>

\* Reading a cell of a DAG whose memory was freed is a panic of the process.
Reads(g, place) ==
  Goes(g, IF dags[held[g]].open THEN place ELSE "panic")

Stream(g) ==
  /\ pc[g] = "stream"
  /\ Reads(g, "store")
  /\ root' = [root EXCEPT ![g] = RootOf(dags[held[g]].content)]
  /\ UNCHANGED <<cacheVars, sealing, header, held>>

StoreRoot(g) ==
  /\ pc[g] = "store"
  /\ roots' = Put(roots, sharedDAGCacheKey(header[g]), root[g])
  /\ Goes(g, IF sealing[g] THEN "mine" ELSE "verdict")
  /\ UNCHANGED <<mining, dags, shared, fallback, view, closed, sealing, header, held, root>>

\* Workers hash; some backends read the DAG they were prepared on.
Mine ==
  /\ pc[Miner] = "mine"
  /\ \/ Reads(Miner, "build") /\ UNCHANGED <<header, held, root>>
     \/ Fails(Miner)
  /\ UNCHANGED <<cacheVars, sealing>>

\* The proofs are built over the DAG and come with its root; then the block is
\* validated like any other.
BuildSolution ==
  /\ pc[Miner] = "build"
  /\ IF root[Miner] = RootOf(dags[held[Miner]].content)
     THEN Reads(Miner, "dag") /\ sealing' = [sealing EXCEPT ![Miner] = FALSE]
          /\ UNCHANGED <<header, held, root>>
     ELSE Fails(Miner) /\ UNCHANGED sealing
  /\ UNCHANGED cacheVars

\* The block's root is compared, its solution checked.
Verdict(g) ==
  /\ pc[g] = "verdict"
  /\ Return(g, "idle") \/ Fails(g)
  /\ UNCHANGED <<cacheVars, sealing>>

\* When Run has returned, so has the miner; readers go on until the process
\* exits.
Close ==
  /\ pc[Miner] \in {"idle", "stopped"} /\ mining # NoMining /\ ~closed
  /\ closed' = TRUE
  /\ CloseAll(DAGsOf(shared) \cup DAGsOf(fallback))
  /\ roots' = Without(roots, DOMAIN shared \cup DOMAIN fallback)
  /\ shared' = <<>> /\ fallback' = <<>>
  /\ UNCHANGED <<mining, view, callVars>>

CacheNext ==
  /\ \A g \in Goroutine : pc[g] # "panic"
  /\ \/ \E g \in Goroutine :
          \/ \E h \in Header : Begin(g, h)
          \/ FindDAG(g) \/ GenerateDAG(g) \/ AllocationFails(g)
          \/ FindRoot(g) \/ Stream(g) \/ StoreRoot(g) \/ Verdict(g)
     \/ Prepare \/ Mine \/ BuildSolution \/ Close

-----------------------------------------------------------------------------
(***************************************************************************)
(* The root that a block is sealed with or compared to is that of its      *)
(* header's own seed and size, whatever other epochs' roots are computed   *)
(* and cached side by side (validator.go:466-477).                         *)
(***************************************************************************)
RootIsOfHeader ==
  \A g \in Goroutine : root[g] # NoRoot => root[g] = RootOf(header[g])

(***************************************************************************)
(* A DAG, tens of gigabytes, is never lost: every one that is not freed is *)
(* in a cache, and no epoch has two in one cache (validator.go:567-588).   *)
(***************************************************************************)
EveryDAGIsCached ==
  /\ \A d \in DOMAIN dags :
       dags[d].open => \E c \in {shared, fallback} : \E k \in DOMAIN c : c[k] = d
  /\ Cardinality({d \in DOMAIN dags : dags[d].open}) <= 2 * Cardinality(Header)

(***************************************************************************)
(* Until the validator is closed nobody reads a DAG whose memory was freed *)
(* (validator.go:102-118, 326-347).                                        *)
(***************************************************************************)
ReadsOpenDAG == \A g \in Goroutine : pc[g] = "panic" => closed
=============================================================================
