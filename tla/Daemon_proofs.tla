---------------------------- MODULE Daemon_proofs ----------------------------
(***************************************************************************)
(* Proofs about Daemon for every set of readers and every set of headers,  *)
(* hence any number of epochs: what the caches hold belongs to the header  *)
(* that it is looked up for, and the backend hashes with the DAG that it   *)
(* was prepared on.                                                        *)
(***************************************************************************)
EXTENDS Daemon, TLAPS, FiniteSetTheorems

Holding == {"prepare", "root", "stream", "store", "mine", "build", "verdict"}
Places == Holding \cup {"idle", "dag", "stopped", "panic"}

DagIn(M) == [content : Header, memory : M, open : BOOLEAN]
SomeDags == \E M : dags \in Seq(DagIn(M))

Typed ==
  /\ SomeDags
  /\ pc \in [Goroutine -> Places]
  /\ sealing \in [Goroutine -> BOOLEAN]
  /\ header \in [Goroutine -> Header \cup {NoHeader}]
  /\ root \in [Goroutine -> Header \cup {NoHeader}]
  /\ held \in [Goroutine -> Nat]
  /\ closed \in BOOLEAN

\* A cache's entry is the DAG of the header that it is found under.
SharedInv ==
  \A k \in DOMAIN shared :
    /\ shared[k] \in DOMAIN dags
    /\ k = sharedDAGCacheKey(dags[shared[k]].content)

FallbackInv ==
  \A k \in DOMAIN fallback :
    /\ fallback[k] \in DOMAIN dags
    /\ k = fallbackValidationDAGCacheKey(dags[fallback[k]].content)

\* Roots under the fallback's keys do not count: nobody looks there.
RootsInv ==
  \A h \in Header :
    sharedDAGCacheKey(h) \in DOMAIN roots => roots[sharedDAGCacheKey(h)] = h

InACache(d) ==
  \/ \E k \in DOMAIN shared : shared[k] = d
  \/ \E k \in DOMAIN fallback : fallback[k] = d

OpenInv ==
  \A d \in DOMAIN dags :
    /\ dags[d].open => InACache(d)
    /\ ~closed => dags[d].open

\* Before the backend is set nothing has happened.
FreshInv ==
  mining = NoMining =>
    /\ ~closed /\ dags = <<>> /\ shared = <<>> /\ fallback = <<>>

CallsInv ==
  \A g \in Goroutine :
    /\ pc[g] \in Holding \cup {"dag"} => header[g] \in Header /\ mining # NoMining
    /\ pc[g] \in Holding =>
         held[g] \in DOMAIN dags /\ dags[held[g]].content = header[g]
    /\ root[g] # NoRoot => root[g] = header[g]
    /\ pc[g] = "idle" => root[g] = NoRoot
    /\ pc[g] = "store" => root[g] = header[g]
    /\ pc[g] = "panic" => closed

\* Between Prepare and the end of the seal the backend keeps its view.
Sealed == {"root", "stream", "store", "mine", "build"}

PreparedInv ==
  /\ pc[Miner] \in {"prepare", "mine", "build"} => sealing[Miner]
  /\ pc[Miner] \in Sealed /\ sealing[Miner] =>
       view = held[Miner] /\ mining.able # {}

MiningInv ==
  mining # NoMining /\ mining.able # {} /\ mining.backend \in {"cuda", "opencl"} =>
    mining.digest # "host"

CacheInv ==
  /\ Typed /\ SharedInv /\ FallbackInv /\ RootsInv /\ OpenInv
  /\ FreshInv /\ CallsInv /\ PreparedInv /\ MiningInv

\* The mine command: no best candidate before the benchmark, then one that was
\* prepared on the command's own DAG.
StartupInv ==
  /\ phase \in {"flags", "runtime", "strategy", "dag"} /\ command = "mine" => best = "none"
  /\ phase = "dag" => command = "mine"
  /\ phase = "benchmark" => command = "daemon"
  /\ phase \notin {"library", "handed over"} => command \in {"mine", "daemon"}
  /\ phase = "tune" /\ best # "none" => NewBackend(best) # "cuda"
  /\ phase = "hash" => prepared = memory /\ NewBackend(mode) # "cuda"

IInv == CacheInv /\ StartupInv

-----------------------------------------------------------------------------
(***************************************************************************)
(* What allocating and freeing do to the DAGs.                             *)
(***************************************************************************)
LEMMA Numbered ==
  ASSUME SomeDags
  PROVE  /\ DOMAIN dags = 1..Len(dags) /\ Len(dags) \in Nat
         /\ \A d \in DOMAIN dags :
              dags[d].content \in Header /\ dags[d].open \in BOOLEAN
<1> PICK M : dags \in Seq(DagIn(M))
  BY DEF SomeDags
<1>1. DOMAIN dags = 1..Len(dags) /\ Len(dags) \in Nat
  OBVIOUS
<1>2. \A d \in DOMAIN dags : dags[d] \in DagIn(M)
  OBVIOUS
<1> QED
  BY <1>1, <1>2 DEF DagIn

LEMMA Grown ==
  ASSUME SomeDags, NEW h \in Header, NEW mem,
         dags' = Append(dags, [content |-> h, memory |-> mem, open |-> TRUE])
  PROVE  /\ SomeDags'
         /\ DOMAIN dags' = DOMAIN dags \cup {Len(dags')}
         /\ Len(dags') \in Nat /\ Len(dags') \notin DOMAIN dags
         /\ \A d \in DOMAIN dags : dags'[d] = dags[d]
         /\ dags'[Len(dags')].content = h /\ dags'[Len(dags')].open
<1> PICK M : dags \in Seq(DagIn(M))
  BY DEF SomeDags
<1> DEFINE N == M \cup {mem}
           new == [content |-> h, memory |-> mem, open |-> TRUE]
<1>1. dags \in Seq(DagIn(N))
  <2>1. DagIn(M) \subseteq DagIn(N)
    BY DEF DagIn
  <2>2. dags \in [1..Len(dags) -> DagIn(M)] /\ Len(dags) \in Nat
    OBVIOUS
  <2>3. dags \in [1..Len(dags) -> DagIn(N)]
    BY <2>1, <2>2
  <2> HIDE DEF N
  <2> QED
    BY <2>2, <2>3
<1>2. new \in DagIn(N)
  BY DEF DagIn
<1>3. dags' \in Seq(DagIn(N))
  BY <1>1, <1>2
<1>4. SomeDags'
  BY <1>3 DEF SomeDags
<1>5. Len(dags') = Len(dags) + 1 /\ Len(dags) \in Nat
  BY <1>1
<1>6. DOMAIN dags' = 1..(Len(dags) + 1) /\ DOMAIN dags = 1..Len(dags)
  BY <1>1, <1>3, <1>5
<1>7. \A d \in DOMAIN dags : dags'[d] = dags[d]
  BY <1>1, <1>6
<1>8. dags'[Len(dags')] = new
  BY <1>1, <1>5
<1> QED
  BY <1>4, <1>5, <1>6, <1>7, <1>8

LEMMA Freed ==
  ASSUME SomeDags, NEW cached, CloseAll(cached)
  PROVE  /\ SomeDags'
         /\ DOMAIN dags' = DOMAIN dags
         /\ \A d \in DOMAIN dags :
              /\ dags'[d].content = dags[d].content
              /\ dags'[d].open <=> (dags[d].open /\ d \notin cached)
<1> PICK M : dags \in Seq(DagIn(M))
  BY DEF SomeDags
<1>1. DOMAIN dags = 1..Len(dags) /\ Len(dags) \in Nat
  OBVIOUS
<1>2. \A d \in DOMAIN dags : dags[d] \in DagIn(M)
  OBVIOUS
<1>3. \A d \in DOMAIN dags :
        /\ dags'[d] \in DagIn(M)
        /\ dags'[d].content = dags[d].content
        /\ dags'[d].open <=> (dags[d].open /\ d \notin cached)
  BY <1>2 DEF CloseAll, DagIn
<1>4. dags' \in [1..Len(dags) -> DagIn(M)]
  BY <1>1, <1>3 DEF CloseAll
<1>5. dags' \in Seq(DagIn(M))
  BY <1>1, <1>4
<1> QED
  BY <1>3, <1>5 DEF SomeDags, CloseAll

(***************************************************************************)
(* No two headers have a key in common, and no key is one of both caches.  *)
(***************************************************************************)
LEMMA Keys ==
  ASSUME NEW h \in Header, NEW i \in Header
  PROVE  /\ sharedDAGCacheKey(h) = sharedDAGCacheKey(i) => h = i
         /\ fallbackValidationDAGCacheKey(h) = fallbackValidationDAGCacheKey(i) => h = i
         /\ sharedDAGCacheKey(h) # fallbackValidationDAGCacheKey(i)
<1>1. h = [seed |-> h.seed, size |-> h.size] /\ i = [seed |-> i.seed, size |-> i.size]
  BY CacheAssumption
<1>2. /\ sharedDAGCacheKey(h)[1] = h.seed /\ sharedDAGCacheKey(h)[2] = h.size
      /\ sharedDAGCacheKey(i)[1] = i.seed /\ sharedDAGCacheKey(i)[2] = i.size
      /\ sharedDAGCacheKey(h)[3] = ""
  BY DEF sharedDAGCacheKey
<1>3. /\ fallbackValidationDAGCacheKey(h)[1] = h.seed
      /\ fallbackValidationDAGCacheKey(h)[2] = h.size
      /\ fallbackValidationDAGCacheKey(i)[1] = i.seed
      /\ fallbackValidationDAGCacheKey(i)[2] = i.size
      /\ fallbackValidationDAGCacheKey(i)[3] = "validation"
  BY DEF fallbackValidationDAGCacheKey
<1> QED
  BY <1>1, <1>2, <1>3

LEMMA Same ==
  ASSUME CacheInv, UNCHANGED dagCacheVars
  PROVE  CacheInv'
BY DEF CacheInv, Typed, SomeDags, SharedInv, FallbackInv, RootsInv, OpenInv, InACache,
       FreshInv, CallsInv, PreparedInv, MiningInv, dagCacheVars, cacheVars, callVars

(***************************************************************************)
(* Steps that leave the caches alone.                                      *)
(***************************************************************************)
LEMMA CachesKept ==
  ASSUME CacheInv, UNCHANGED <<mining, dags, shared, fallback, roots, closed>>
  PROVE  /\ SomeDags' /\ SharedInv' /\ FallbackInv' /\ RootsInv' /\ OpenInv'
         /\ FreshInv' /\ MiningInv'
BY DEF CacheInv, Typed, SomeDags, SharedInv, FallbackInv, RootsInv, OpenInv, InACache,
       FreshInv, MiningInv

\* What of CacheInv such a step may disturb.
Disturbed ==
  /\ pc \in [Goroutine -> Places]
  /\ sealing \in [Goroutine -> BOOLEAN]
  /\ header \in [Goroutine -> Header \cup {NoHeader}]
  /\ root \in [Goroutine -> Header \cup {NoHeader}]
  /\ held \in [Goroutine -> Nat]
  /\ CallsInv /\ PreparedInv

LEMMA Kept ==
  ASSUME CacheInv, UNCHANGED <<mining, dags, shared, fallback, roots, closed>>, Disturbed'
  PROVE  CacheInv'
BY CachesKept DEF CacheInv, Typed, Disturbed

LEMMA BeginPreserves ==
  ASSUME CacheInv, NEW g \in Goroutine, NEW h \in Header, Begin(g, h)
  PROVE  CacheInv'
<1>1. UNCHANGED <<mining, dags, shared, fallback, roots, closed>>
  BY DEF Begin, cacheVars
<1>2. CallsInv'
  BY DEF CacheInv, Typed, CallsInv, Begin, Goes, cacheVars, Holding, Places
<1>3. PreparedInv'
  BY DEF CacheInv, Typed, PreparedInv, Sealed, Begin, Goes, cacheVars, Goroutine
<1>4. Disturbed'
  BY <1>2, <1>3 DEF Disturbed, CacheInv, Typed, Begin, Goes, Places
<1> QED
  BY <1>1, <1>4, Kept

LEMMA FindDAGPreserves ==
  ASSUME CacheInv, NEW g \in Goroutine, FindDAG(g)
  PROVE  CacheInv'
<1>1. UNCHANGED <<mining, dags, shared, fallback, roots, closed>>
  BY DEF FindDAG, cacheVars
<1>2. /\ Cache(g)[KeyFor(g)] \in DOMAIN dags
      /\ dags[Cache(g)[KeyFor(g)]].content = header[g]
  <2>1. header[g] \in Header
    BY DEF CacheInv, CallsInv, FindDAG
  <2>2. \A d \in DOMAIN dags : dags[d].content \in Header
    BY Numbered DEF CacheInv, Typed
  <2>3. CASE UsesShared(g)
    BY <2>1, <2>2, <2>3, Keys DEF CacheInv, SharedInv, FindDAG, IsCached, Cache, KeyFor
  <2>4. CASE ~UsesShared(g)
    BY <2>1, <2>2, <2>4, Keys DEF CacheInv, FallbackInv, FindDAG, IsCached, Cache, KeyFor
  <2> QED
    BY <2>3, <2>4
<1>3. Cache(g)[KeyFor(g)] \in Nat
  BY <1>2, Numbered DEF CacheInv, Typed
<1>4. CallsInv'
  BY <1>2 DEF CacheInv, Typed, CallsInv, FindDAG, Goes, cacheVars, Holding, Places
<1>5. PreparedInv'
  BY DEF CacheInv, Typed, PreparedInv, Sealed, FindDAG, Goes, cacheVars, Goroutine
<1>6. Disturbed'
  BY <1>3, <1>4, <1>5 DEF Disturbed, CacheInv, Typed, FindDAG, Goes, Places, Holding
<1> QED
  BY <1>1, <1>6, Kept

LEMMA FailsPreserves ==
  ASSUME CacheInv, NEW g \in Goroutine, NEW place \in {"idle", "stopped"},
         Return(g, place), UNCHANGED <<mining, dags, shared, fallback, roots, closed>>,
         UNCHANGED view \/ g = Miner,
         \A h \in Goroutine \ {g} : sealing'[h] = sealing[h],
         sealing' \in [Goroutine -> BOOLEAN]
  PROVE  CacheInv'
<1>1. CallsInv'
  BY DEF CacheInv, Typed, CallsInv, Return, Goes, Holding, Places
<1>2. PreparedInv'
  BY DEF CacheInv, Typed, PreparedInv, Sealed, Return, Goes, Goroutine
<1>3. Disturbed'
  BY <1>1, <1>2 DEF Disturbed, CacheInv, Typed, Return, Goes, Places, NoRoot
<1> QED
  BY <1>3, Kept

LEMMA FindRootPreserves ==
  ASSUME CacheInv, NEW g \in Goroutine, FindRoot(g)
  PROVE  CacheInv'
<1>1. UNCHANGED <<mining, dags, shared, fallback, roots, closed>>
  BY DEF FindRoot, cacheVars
<1> DEFINE key == sharedDAGCacheKey(header[g])
<1>2. header[g] \in Header
  BY DEF CacheInv, CallsInv, FindRoot, Holding
<1>3. key \in DOMAIN roots => roots[key] = header[g]
  BY <1>2 DEF CacheInv, RootsInv
<1>4. pc' = [pc EXCEPT ![g] = pc'[g]] /\ pc'[g] \in {"mine", "verdict", "stream"}
  BY DEF CacheInv, Typed, FindRoot, Goes
<1>5. root' = [root EXCEPT ![g] = root'[g]] /\ root'[g] \in {root[g], header[g]}
  BY <1>3 DEF CacheInv, Typed, FindRoot
<1>6. CallsInv'
  BY <1>2, <1>4, <1>5 DEF CacheInv, Typed, CallsInv, FindRoot, cacheVars, Holding, Places
<1>7. PreparedInv'
  BY <1>4 DEF CacheInv, Typed, PreparedInv, Sealed, FindRoot, Goes, cacheVars, Goroutine
<1>8. Disturbed'
  BY <1>2, <1>4, <1>5, <1>6, <1>7 DEF Disturbed, CacheInv, Typed, FindRoot, Places, Holding
<1> QED
  BY <1>1, <1>8, Kept

LEMMA StreamPreserves ==
  ASSUME CacheInv, NEW g \in Goroutine, Stream(g)
  PROVE  CacheInv'
<1>1. UNCHANGED <<mining, dags, shared, fallback, roots, closed>>
  BY DEF Stream, cacheVars
<1>2. /\ header[g] \in Header
      /\ held[g] \in DOMAIN dags
      /\ root' = [root EXCEPT ![g] = header[g]]
  BY DEF CacheInv, CallsInv, Stream, Holding, RootOf
<1>3. pc' = [pc EXCEPT ![g] = pc'[g]] /\ pc'[g] \in {"store", "panic"}
  BY DEF CacheInv, Typed, Stream, Reads, Goes
<1>4. pc'[g] = "panic" => closed
  BY <1>2 DEF CacheInv, Typed, Stream, Reads, Goes, OpenInv
<1>5. CallsInv'
  BY <1>2, <1>3, <1>4
     DEF CacheInv, Typed, CallsInv, Stream, cacheVars, Holding, Places
<1>6. PreparedInv'
  BY <1>3 DEF CacheInv, Typed, PreparedInv, Sealed, Stream, cacheVars, Goroutine
<1>7. Disturbed'
  BY <1>2, <1>3, <1>5, <1>6 DEF Disturbed, CacheInv, Typed, Stream, Places, Holding
<1> QED
  BY <1>1, <1>7, Kept

LEMMA StoreRootPreserves ==
  ASSUME CacheInv, NEW g \in Goroutine, StoreRoot(g)
  PROVE  CacheInv'
<1>1. header[g] \in Header /\ root[g] = header[g]
  BY DEF CacheInv, CallsInv, StoreRoot, Holding
<1>2. RootsInv'
  <2> SUFFICES ASSUME NEW h \in Header, sharedDAGCacheKey(h) \in DOMAIN roots'
               PROVE  roots'[sharedDAGCacheKey(h)] = h
    BY DEF RootsInv
  <2> QED
    BY <1>1, Keys DEF CacheInv, RootsInv, StoreRoot, Put
<1>3. /\ SomeDags' /\ SharedInv' /\ FallbackInv' /\ OpenInv'
      /\ FreshInv' /\ MiningInv'
  BY DEF CacheInv, Typed, SomeDags, SharedInv, FallbackInv, OpenInv, InACache,
         FreshInv, MiningInv, StoreRoot
<1>4. pc' = [pc EXCEPT ![g] = pc'[g]] /\ pc'[g] \in {"mine", "verdict"}
  BY DEF CacheInv, Typed, StoreRoot, Goes
<1>5. CallsInv'
  BY <1>1, <1>4 DEF CacheInv, Typed, CallsInv, StoreRoot, Holding, Places
<1>6. PreparedInv'
  BY <1>4 DEF CacheInv, Typed, PreparedInv, Sealed, StoreRoot, Goes, Goroutine
<1>7. Disturbed'
  BY <1>4, <1>5, <1>6 DEF Disturbed, CacheInv, Typed, StoreRoot, Places, Holding
<1> QED
  BY <1>2, <1>3, <1>7 DEF CacheInv, Typed, Disturbed, StoreRoot

LEMMA PreparePreserves ==
  ASSUME CacheInv, Prepare
  PROVE  CacheInv'
<1>1. UNCHANGED <<mining, dags, shared, fallback, roots, closed>>
  BY DEF Prepare
<1> Miner \in Goroutine
  BY DEF Goroutine
<1>2. CASE PrepareView /\ Goes(Miner, "root") /\ UNCHANGED <<header, held, root>>
           /\ dags[held[Miner]].memory \in mining.able
  <2>1. CallsInv'
    BY <1>2 DEF CacheInv, Typed, CallsInv, Prepare, Goes, Holding, Places
  <2>2. PreparedInv'
    BY <1>2 DEF CacheInv, Typed, PreparedInv, Sealed, Prepare, Goes, PrepareView
  <2>3. Disturbed'
    BY <1>2, <2>1, <2>2 DEF Disturbed, CacheInv, Typed, Prepare, Goes, Places, Holding
  <2> QED
    BY <1>1, <2>3, Kept
<1>3. CASE Fails(Miner) /\ UNCHANGED view
  BY <1>1, <1>3, FailsPreserves DEF Fails, Prepare, CacheInv, Typed
<1> QED
  BY <1>2, <1>3 DEF Prepare

LEMMA MinePreserves ==
  ASSUME CacheInv, Mine
  PROVE  CacheInv'
<1>1. UNCHANGED <<mining, dags, shared, fallback, roots, closed, view, sealing>>
  BY DEF Mine, cacheVars
<1> Miner \in Goroutine
  BY DEF Goroutine
<1>2. CASE Reads(Miner, "build") /\ UNCHANGED <<header, held, root>>
  <2>1. pc' = [pc EXCEPT ![Miner] = pc'[Miner]] /\ pc'[Miner] \in {"build", "panic"}
    BY <1>2 DEF CacheInv, Typed, Reads, Goes
  <2>2. pc'[Miner] = "panic" => closed
    BY <1>2 DEF CacheInv, Typed, CallsInv, Mine, Reads, Goes, OpenInv, Holding
  <2>3. CallsInv'
    BY <1>1, <1>2, <2>1, <2>2 DEF CacheInv, Typed, CallsInv, Mine, Holding, Places
  <2>4. PreparedInv'
    BY <1>1, <1>2, <2>1 DEF CacheInv, Typed, PreparedInv, Sealed, Mine
  <2>5. Disturbed'
    BY <1>1, <1>2, <2>1, <2>3, <2>4 DEF Disturbed, CacheInv, Typed, Places, Holding
  <2> QED
    BY <1>1, <2>5, Kept
<1>3. CASE Fails(Miner)
  BY <1>1, <1>3, FailsPreserves DEF Fails, CacheInv, Typed
<1> QED
  BY <1>2, <1>3 DEF Mine

LEMMA BuildSolutionPreserves ==
  ASSUME CacheInv, BuildSolution
  PROVE  CacheInv'
<1>1. UNCHANGED <<mining, dags, shared, fallback, roots, closed, view>>
  BY DEF BuildSolution, cacheVars
<1> Miner \in Goroutine
  BY DEF Goroutine
<1>2. CASE Reads(Miner, "dag") /\ sealing' = [sealing EXCEPT ![Miner] = FALSE]
           /\ UNCHANGED <<header, held, root>>
  <2>1. pc' = [pc EXCEPT ![Miner] = pc'[Miner]] /\ pc'[Miner] \in {"dag", "panic"}
    BY <1>2 DEF CacheInv, Typed, Reads, Goes
  <2>2. pc'[Miner] = "panic" => closed
    BY <1>2 DEF CacheInv, Typed, CallsInv, BuildSolution, Reads, Goes, OpenInv, Holding
  <2>3. CallsInv'
    BY <1>1, <1>2, <2>1, <2>2
       DEF CacheInv, Typed, CallsInv, BuildSolution, Holding, Places
  <2>4. PreparedInv'
    BY <1>1, <1>2, <2>1 DEF CacheInv, Typed, PreparedInv, Sealed
  <2>5. Disturbed'
    BY <1>1, <1>2, <2>1, <2>3, <2>4 DEF Disturbed, CacheInv, Typed, Places, Holding
  <2> QED
    BY <1>1, <2>5, Kept
<1>3. CASE Fails(Miner) /\ UNCHANGED sealing
  BY <1>1, <1>3, FailsPreserves DEF Fails, CacheInv, Typed
<1> QED
  BY <1>2, <1>3 DEF BuildSolution

LEMMA OthersPreserve ==
  ASSUME CacheInv, NEW g \in Goroutine, AllocationFails(g) \/ Verdict(g)
  PROVE  CacheInv'
<1>1. UNCHANGED <<mining, dags, shared, fallback, roots, closed, view, sealing>>
  BY DEF AllocationFails, Verdict, cacheVars
<1>2. \E place \in {"idle", "stopped"} : Return(g, place)
  BY DEF AllocationFails, Verdict, Fails
<1> QED
  BY <1>1, <1>2, FailsPreserves DEF CacheInv, Typed

-----------------------------------------------------------------------------
(***************************************************************************)
(* A DAG is allocated and cached at once.                                  *)
(***************************************************************************)
LEMMA GenerateDAGPreserves ==
  ASSUME CacheInv, NEW g \in Goroutine, GenerateDAG(g)
  PROVE  CacheInv'
<1> PICK h : h = header[g]
  OBVIOUS
<1> PICK new : new = Len(dags')
  OBVIOUS
<1>1. h \in Header /\ mining # NoMining
  BY DEF CacheInv, CallsInv, GenerateDAG
<1> PICK mem \in Memory(g) : CacheDAG(g, mem)
  BY DEF GenerateDAG
<1>2. /\ SomeDags'
      /\ DOMAIN dags' = DOMAIN dags \cup {new}
      /\ new \in Nat /\ new \notin DOMAIN dags
      /\ \A d \in DOMAIN dags : dags'[d] = dags[d]
      /\ dags'[new].content = h /\ dags'[new].open
  BY <1>1, Grown DEF CacheInv, Typed, CacheDAG
<1>3. \A d \in DOMAIN dags : dags[d].content \in Header
  BY Numbered DEF CacheInv, Typed
<1>4. ASSUME UsesShared(g)
      PROVE  /\ SharedInv' /\ FallbackInv' /\ RootsInv'
             /\ \A d \in DOMAIN dags' : dags'[d].open => InACache(d)'
  <2>1. /\ shared' = Put(shared, sharedDAGCacheKey(h), new) /\ fallback' = fallback
        /\ sharedDAGCacheKey(h) \notin DOMAIN shared
        /\ roots' = Put(roots, sharedDAGCacheKey(h), h)
    BY <1>4 DEF GenerateDAG, CacheDAG, KeyFor, IsCached, Cache, RootOf
  <2>2. SharedInv' /\ FallbackInv'
    BY <1>2, <2>1 DEF CacheInv, SharedInv, FallbackInv, Put
  <2>3. RootsInv'
    BY <1>1, <2>1, Keys DEF CacheInv, RootsInv, Put
  <2>4. \A d \in DOMAIN dags' : dags'[d].open => InACache(d)'
    <3>1. \A d \in DOMAIN dags : dags[d].open => InACache(d)
      BY DEF CacheInv, OpenInv
    <3>2. \A d \in DOMAIN dags : InACache(d) => InACache(d)'
      BY <2>1 DEF InACache, Put
    <3>3. InACache(new)'
      BY <2>1 DEF InACache, Put
    <3> QED
      BY <1>2, <3>1, <3>2, <3>3
  <2> QED
    BY <2>2, <2>3, <2>4
<1>5. ASSUME ~UsesShared(g)
      PROVE  /\ SharedInv' /\ FallbackInv' /\ RootsInv'
             /\ \A d \in DOMAIN dags' : dags'[d].open => InACache(d)'
  <2>1. /\ fallback' = Put(fallback, fallbackValidationDAGCacheKey(h), new)
        /\ shared' = shared
        /\ fallbackValidationDAGCacheKey(h) \notin DOMAIN fallback
        /\ roots' = Put(roots, fallbackValidationDAGCacheKey(h), h)
    BY <1>5 DEF GenerateDAG, CacheDAG, KeyFor, IsCached, Cache, RootOf
  <2>2. SharedInv' /\ FallbackInv'
    BY <1>2, <2>1 DEF CacheInv, SharedInv, FallbackInv, Put
  <2>3. RootsInv'
    BY <1>1, <2>1, Keys DEF CacheInv, RootsInv, Put
  <2>4. \A d \in DOMAIN dags' : dags'[d].open => InACache(d)'
    <3>1. \A d \in DOMAIN dags : dags[d].open => InACache(d)
      BY DEF CacheInv, OpenInv
    <3>2. \A d \in DOMAIN dags : InACache(d) => InACache(d)'
      BY <2>1 DEF InACache, Put
    <3>3. InACache(new)'
      BY <2>1 DEF InACache, Put
    <3> QED
      BY <1>2, <3>1, <3>2, <3>3
  <2> QED
    BY <2>2, <2>3, <2>4
<1>6. SharedInv' /\ FallbackInv' /\ RootsInv'
      /\ \A d \in DOMAIN dags' : dags'[d].open => InACache(d)'
  BY <1>4, <1>5
<1>7. OpenInv'
  BY <1>2, <1>6 DEF CacheInv, OpenInv, GenerateDAG
<1>8. FreshInv' /\ MiningInv'
  BY <1>1 DEF CacheInv, FreshInv, MiningInv, GenerateDAG
<1>9. pc' = [pc EXCEPT ![g] = pc'[g]] /\ pc'[g] \in {"prepare", "root"}
  BY DEF CacheInv, Typed, GenerateDAG, Goes
<1>10. /\ held' = [held EXCEPT ![g] = new]
       /\ UNCHANGED <<mining, view, closed, sealing, header, root>>
  BY DEF GenerateDAG
<1>11. CallsInv'
  <2> SUFFICES ASSUME NEW i \in Goroutine
               PROVE  CallsInv!(i)'
    BY DEF CallsInv
  <2>1. CASE i = g
    BY <2>1, <1>1, <1>2, <1>9, <1>10 DEF CacheInv, Typed, CallsInv, Holding
  <2>2. CASE i # g
    BY <2>2, <1>2, <1>9, <1>10 DEF CacheInv, Typed, CallsInv
  <2> QED
    BY <2>1, <2>2
<1>12. PreparedInv'
  BY <1>9, <1>10
     DEF CacheInv, Typed, PreparedInv, Sealed, GenerateDAG, Goes, Goroutine
<1>13. Typed'
  BY <1>2, <1>9, <1>10 DEF CacheInv, Typed, Places, Holding
<1> QED
  BY <1>6, <1>7, <1>8, <1>11, <1>12, <1>13 DEF CacheInv

(***************************************************************************)
(* Close frees what the caches hold, which is everything.                  *)
(***************************************************************************)
LEMMA ClosePreserves ==
  ASSUME CacheInv, Close
  PROVE  CacheInv'
<1> DEFINE cached == DAGsOf(shared) \cup DAGsOf(fallback)
<1>1. /\ SomeDags'
      /\ DOMAIN dags' = DOMAIN dags
      /\ \A d \in DOMAIN dags :
           /\ dags'[d].content = dags[d].content
           /\ dags'[d].open <=> (dags[d].open /\ d \notin cached)
  BY Freed DEF CacheInv, Typed, Close
<1>2. shared' = <<>> /\ fallback' = <<>> /\ DOMAIN <<>> = {}
  BY DEF Close
<1>3. SharedInv' /\ FallbackInv'
  BY <1>2 DEF SharedInv, FallbackInv
<1>4. RootsInv'
  BY DEF CacheInv, RootsInv, Close, Without, sharedDAGCacheKey
<1>5. \A d \in DOMAIN dags : ~dags'[d].open
  BY <1>1 DEF CacheInv, OpenInv, InACache, DAGsOf
<1>6. OpenInv'
  BY <1>1, <1>5 DEF OpenInv, Close
<1>7. FreshInv' /\ MiningInv'
  BY DEF CacheInv, FreshInv, MiningInv, Close
<1>8. CallsInv' /\ PreparedInv'
  BY <1>1 DEF CacheInv, CallsInv, PreparedInv, Close, callVars
<1>9. Typed'
  BY <1>1 DEF CacheInv, Typed, Close, callVars
<1> QED
  BY <1>3, <1>4, <1>6, <1>7, <1>8, <1>9 DEF CacheInv

LEMMA SetMiningBackendPreserves ==
  ASSUME CacheInv, NEW m, SetMiningBackend(m), m # NoMining,
         m.able # {} /\ m.backend \in {"cuda", "opencl"} => m.digest # "host"
  PROVE  CacheInv'
<1>1. mining = NoMining /\ mining' = m
  BY DEF SetMiningBackend
<1>2. shared = <<>> /\ fallback = <<>> /\ dags = <<>> /\ DOMAIN <<>> = {}
  BY <1>1 DEF CacheInv, FreshInv
<1>3. SomeDags' /\ DOMAIN dags' = {}
  BY <1>2, Freed DEF CacheInv, Typed, SetMiningBackend
<1>4. shared' = <<>> /\ fallback' = <<>> /\ roots' = <<>>
  BY <1>2 DEF SetMiningBackend
<1>5. SharedInv' /\ FallbackInv' /\ RootsInv' /\ OpenInv'
  BY <1>2, <1>3, <1>4 DEF SharedInv, FallbackInv, RootsInv, OpenInv
<1>6. FreshInv' /\ MiningInv'
  BY <1>1 DEF FreshInv, MiningInv
<1>7. \A g \in Goroutine : pc[g] \notin Holding \cup {"dag"}
  BY <1>1 DEF CacheInv, CallsInv
<1>8. CallsInv'
  BY <1>7 DEF CacheInv, CallsInv, SetMiningBackend, callVars
<1>9. PreparedInv'
  BY <1>7 DEF PreparedInv, SetMiningBackend, callVars, Holding, Sealed, Goroutine
<1>10. Typed'
  BY <1>3 DEF CacheInv, Typed, SetMiningBackend, callVars
<1> QED
  BY <1>5, <1>6, <1>8, <1>9, <1>10 DEF CacheInv

LEMMA CacheNextPreserves ==
  ASSUME CacheInv, CacheNext
  PROVE  CacheInv'
<1>1. ASSUME NEW g \in Goroutine, NEW h \in Header, Begin(g, h)
      PROVE  CacheInv'
  BY <1>1, BeginPreserves
<1>2. ASSUME NEW g \in Goroutine,
             \/ FindDAG(g) \/ GenerateDAG(g) \/ AllocationFails(g)
             \/ FindRoot(g) \/ Stream(g) \/ StoreRoot(g) \/ Verdict(g)
      PROVE  CacheInv'
  BY <1>2, FindDAGPreserves, GenerateDAGPreserves, OthersPreserve,
     FindRootPreserves, StreamPreserves, StoreRootPreserves
<1>3. CASE Prepare \/ Mine \/ BuildSolution \/ Close
  BY <1>3, PreparePreserves, MinePreserves, BuildSolutionPreserves, ClosePreserves
<1> QED
  BY <1>1, <1>2, <1>3 DEF CacheNext

-----------------------------------------------------------------------------
(***************************************************************************)
(* Start-up.                                                               *)
(***************************************************************************)
\* The code for CUDA has no kernel, and will not be prepared in this mode.
LEMMA CudaNeverPrepares == \A mem : ~Prepares("cuda", mem)
BY DEF Prepares, CudaPrepares, specMode

LEMMA DigestOnDevice ==
  ASSUME NEW b, b # "cuda"
  PROVE  b \in {"cuda", "opencl"} => Digest(b) # "host"
BY DEF Digest, OpenCLDigest

LEMMA StartupPreserves ==
  ASSUME StartupInv, StartupNext
  PROVE  StartupInv'
<1>1. UNCHANGED <<machine, command>>
  BY DEF StartupNext, ParseCLIConfig, parseDaemonFlags, ParsedTo, benchmarkDaemonBackends,
         autoTuneBackend, Candidate, DaemonChooses, InitializeBackendRuntime,
         ResolveStrategy, AllocateDAG, Tuned, PrepareDAG, HashAndClose
<1>2. \A m : NewBackend(m)' = NewBackend(m)
  BY <1>1 DEF NewBackend
<1>3. CASE ParseCLIConfig \/ parseDaemonFlags
  BY <1>1, <1>2, <1>3 DEF StartupInv, ParseCLIConfig, parseDaemonFlags, ParsedTo
<1>4. CASE benchmarkDaemonBackends
  BY <1>1, <1>2, <1>4 DEF StartupInv, benchmarkDaemonBackends, Candidate
<1>5. CASE autoTuneBackend
  BY <1>1, <1>2, <1>5, CudaNeverPrepares DEF StartupInv, autoTuneBackend, Candidate
<1>6. CASE DaemonChooses
  BY <1>1, <1>2, <1>6 DEF StartupInv, DaemonChooses
<1>7. CASE InitializeBackendRuntime
  BY <1>1, <1>2, <1>7 DEF StartupInv, InitializeBackendRuntime
<1>8. CASE ResolveStrategy
  BY <1>1, <1>2, <1>8 DEF StartupInv, ResolveStrategy
<1>9. CASE AllocateDAG
  BY <1>1, <1>2, <1>9 DEF StartupInv, AllocateDAG
<1>10. CASE Tuned
  BY <1>1, <1>2, <1>10 DEF StartupInv, Tuned
<1>11. CASE PrepareDAG
  BY <1>1, <1>2, <1>11, CudaNeverPrepares DEF StartupInv, PrepareDAG
<1>12. CASE HashAndClose
  BY <1>1, <1>2, <1>12 DEF StartupInv, HashAndClose
<1> QED
  BY <1>3, <1>4, <1>5, <1>6, <1>7, <1>8, <1>9, <1>10, <1>11, <1>12 DEF StartupNext

LEMMA InitIInv == Init => IInv
<1> SUFFICES ASSUME Init
             PROVE  IInv
  OBVIOUS
<1>1. DOMAIN <<>> = {} /\ <<>> \in Seq(DagIn({}))
  OBVIOUS
<1>2. SomeDags
  BY <1>1 DEF Init, CacheInit, SomeDags
<1>3. Typed
  BY <1>2 DEF Init, CacheInit, Typed, Places, Holding, NoRoot
<1>4. SharedInv /\ FallbackInv /\ RootsInv /\ OpenInv /\ FreshInv
  BY <1>1 DEF Init, CacheInit, SharedInv, FallbackInv, RootsInv, OpenInv, FreshInv
<1>5. CallsInv /\ PreparedInv /\ MiningInv
  BY DEF Init, CacheInit, CallsInv, PreparedInv, MiningInv, Holding, Sealed, Goroutine
<1>6. StartupInv
  BY DEF Init, StartupInit, StartupInv
<1> QED
  BY <1>3, <1>4, <1>5, <1>6 DEF IInv, CacheInv

LEMMA HandedOverPreserves == HandedOver => StartupInv'
BY DEF HandedOver, StartupInv

LEMMA DaemonPreserves ==
  ASSUME CacheInv, DaemonSetMiningBackend
  PROVE  CacheInv'
<1> DEFINE b == NewBackend(mode)
           able == {mem \in Allocated(memories) : Prepares(b, mem)}
           m == [backend |-> b, digest |-> Digest(b), memories |-> Allocated(memories),
                 mayFail |-> AllocationMayFail(memories), able |-> able, reuse |-> TRUE]
<1>1. SetMiningBackend(m)
  BY DEF DaemonSetMiningBackend
<1>2. m # NoMining
  <2>1. "able" \in DOMAIN m /\ "able" \notin DOMAIN NoMining
    BY DEF NoMining
  <2> QED
    BY <2>1
<1>3. b = "cuda" => able = {}
  BY CudaNeverPrepares
<1>4. m.able = able /\ m.backend = b /\ m.digest = Digest(b)
  OBVIOUS
<1>5. m.able # {} /\ m.backend \in {"cuda", "opencl"} => m.digest # "host"
  <2> HIDE DEF m, b, able
  <2>1. CASE b = "cuda"
    BY <2>1, <1>3, <1>4
  <2>2. CASE b # "cuda"
    BY <2>2, <1>4, DigestOnDevice
  <2> QED
    BY <2>1, <2>2
<1> QED
  <2> HIDE DEF m
  <2> QED
    BY <1>1, <1>2, <1>5, SetMiningBackendPreserves

LEMMA LibraryPreserves ==
  ASSUME CacheInv, LibrarySetMiningBackend
  PROVE  CacheInv'
<1> PICK reuse \in BOOLEAN :
      SetMiningBackend([backend |-> "cpu", digest |-> "host", memories |-> {"custom"},
                        mayFail |-> FALSE, able |-> {"custom"}, reuse |-> reuse])
  BY DEF LibrarySetMiningBackend
<1> DEFINE m == [backend |-> "cpu", digest |-> "host", memories |-> {"custom"},
                 mayFail |-> FALSE, able |-> {"custom"}, reuse |-> reuse]
<1>1. SetMiningBackend(m)
  OBVIOUS
<1>2. m # NoMining
  <2>1. "able" \in DOMAIN m /\ "able" \notin DOMAIN NoMining
    BY DEF NoMining
  <2> QED
    BY <2>1
<1>3. m.backend = "cpu"
  OBVIOUS
<1> QED
  <2> HIDE DEF m
  <2> QED
    BY <1>1, <1>2, <1>3, SetMiningBackendPreserves

LEMMA NextPreserves ==
  ASSUME IInv, [Next]_vars
  PROVE  IInv'
<1>1. CASE StartupNext /\ UNCHANGED dagCacheVars
  BY <1>1, StartupPreserves, Same DEF IInv
<1>2. CASE DaemonSetMiningBackend
  BY <1>2, DaemonPreserves, HandedOverPreserves DEF IInv, DaemonSetMiningBackend
<1>3. CASE LibrarySetMiningBackend
  BY <1>3, LibraryPreserves, HandedOverPreserves DEF IInv, LibrarySetMiningBackend
<1>4. UNCHANGED startupVars => StartupInv'
  BY DEF IInv, StartupInv, startupVars, NewBackend
<1>5. CASE CacheNext /\ UNCHANGED startupVars
  BY <1>4, <1>5, CacheNextPreserves DEF IInv
<1>6. CASE UNCHANGED vars
  BY <1>4, <1>6, Same DEF IInv, vars
<1> QED
  BY <1>1, <1>2, <1>3, <1>5, <1>6 DEF Next

(***************************************************************************)
(* The inductive invariant holds in every state.                           *)
(***************************************************************************)
THEOREM Invariant == Spec => []IInv
<1>1. IInv /\ [Next]_vars => IInv'
  BY NextPreserves
<1> QED
  BY InitIInv, <1>1, PTL DEF Spec

-----------------------------------------------------------------------------
(***************************************************************************)
(* A block is sealed with, and compared to, the root of its own header's   *)
(* DAG, for any number of epochs and readers (validator.go:466-483).       *)
(***************************************************************************)
THEOREM RootsBelong == Spec => []RootIsOfHeader
<1>1. IInv => RootIsOfHeader
  BY DEF IInv, CacheInv, CallsInv, RootIsOfHeader, RootOf
<1> QED
  BY Invariant, <1>1, PTL

(***************************************************************************)
(* Before Close nobody reads freed memory (validator.go:102-118, 326-347). *)
(***************************************************************************)
THEOREM ReadsAreOfOpenDAGs == Spec => []ReadsOpenDAG
<1>1. IInv => ReadsOpenDAG
  BY DEF IInv, CacheInv, CallsInv, ReadsOpenDAG
<1> QED
  BY Invariant, <1>1, PTL

(***************************************************************************)
(* What the backend was prepared on is what is hashed, by the mine command *)
(* and by the validator's miner (main.go:208-222, validator.go:280-298).   *)
(***************************************************************************)
THEOREM Prepared == Spec => []HashesPrepared
<1>1. IInv => HashesPrepared
  BY DEF IInv, CacheInv, PreparedInv, StartupInv, HashesPrepared, Sealed
<1> QED
  BY Invariant, <1>1, PTL

(***************************************************************************)
(* No digest of the cuda or opencl backend is computed on the host,        *)
(* whatever the machine and the flags (gpu_backend_cuda.go:83-85).         *)
(***************************************************************************)
THEOREM NeverOnHost == Spec => []NoHostReference
<1>1. ASSUME IInv
      PROVE  NoHostReference
  <2>1. phase = "hash" => NewBackend(mode) # "cuda"
    BY <1>1 DEF IInv, StartupInv
  <2>2. pc[Miner] = "mine" => mining # NoMining /\ mining.able # {}
    BY <1>1 DEF IInv, CacheInv, CallsInv, PreparedInv, Holding, Sealed, Goroutine
  <2> QED
    BY <1>1, <2>1, <2>2, DigestOnDevice DEF IInv, CacheInv, MiningInv, NoHostReference
<1> QED
  BY Invariant, <1>1, PTL

(***************************************************************************)
(* The DAGs that a cache holds are no more than there are headers.         *)
(***************************************************************************)
LEMMA OnePerHeader ==
  ASSUME NEW cache, NEW key, NEW D,
         key \in [Header -> D], DOMAIN cache \subseteq {key[h] : h \in Header}
  PROVE  IsFiniteSet(DAGsOf(cache)) /\ Cardinality(DAGsOf(cache)) <= Cardinality(Header)
<1> DEFINE H == {h \in Header : key[h] \in DOMAIN cache}
           f == [h \in H |-> cache[key[h]]]
<1>1. IsFiniteSet(Header) /\ H \in SUBSET Header
  BY CacheAssumption
<1>2. IsFiniteSet(H) /\ Cardinality(H) <= Cardinality(Header)
  BY <1>1, FS_Subset
<1>3. f \in Surjection(H, DAGsOf(cache))
  BY DEF Surjection, DAGsOf
<1>4. IsFiniteSet(DAGsOf(cache)) /\ Cardinality(DAGsOf(cache)) <= Cardinality(H)
  BY <1>2, <1>3, FS_Surjection
<1>5. Cardinality(DAGsOf(cache)) \in Nat /\ Cardinality(H) \in Nat
      /\ Cardinality(Header) \in Nat
  BY <1>1, <1>2, <1>4, FS_CardinalityType
<1> QED
  BY <1>2, <1>4, <1>5

(***************************************************************************)
(* A DAG that is not freed is in a cache, and there are at most two for    *)
(* each epoch (validator.go:567-588).                                      *)
(***************************************************************************)
THEOREM NoneLost == Spec => []EveryDAGIsCached
<1>1. ASSUME IInv
      PROVE  EveryDAGIsCached
  <2> DEFINE Open == {d \in DOMAIN dags : dags[d].open}
             S == DAGsOf(shared)
             F == DAGsOf(fallback)
  <2>1. \A d \in DOMAIN dags : dags[d].content \in Header
    BY <1>1, Numbered DEF IInv, CacheInv, Typed
  <2>2. IsFiniteSet(S) /\ Cardinality(S) <= Cardinality(Header)
    <3> DEFINE key == [h \in Header |-> sharedDAGCacheKey(h)]
    <3>1. DOMAIN shared \subseteq {key[h] : h \in Header}
      BY <1>1, <2>1 DEF IInv, CacheInv, SharedInv
    <3>2. key \in [Header -> {key[h] : h \in Header}]
      OBVIOUS
    <3> HIDE DEF key
    <3> QED
      BY <3>1, <3>2, OnePerHeader
  <2>3. IsFiniteSet(F) /\ Cardinality(F) <= Cardinality(Header)
    <3> DEFINE key == [h \in Header |-> fallbackValidationDAGCacheKey(h)]
    <3>1. DOMAIN fallback \subseteq {key[h] : h \in Header}
      BY <1>1, <2>1 DEF IInv, CacheInv, FallbackInv
    <3>2. key \in [Header -> {key[h] : h \in Header}]
      OBVIOUS
    <3> HIDE DEF key
    <3> QED
      BY <3>1, <3>2, OnePerHeader
  <2>4. /\ IsFiniteSet(S \cup F)
        /\ Cardinality(S \cup F) = Cardinality(S) + Cardinality(F) - Cardinality(S \cap F)
    BY <2>2, <2>3, FS_Union
  <2>5. Open \in SUBSET (S \cup F)
    BY <1>1 DEF IInv, CacheInv, OpenInv, InACache, DAGsOf
  <2>6. IsFiniteSet(Open) /\ Cardinality(Open) <= Cardinality(S \cup F)
    BY <2>4, <2>5, FS_Subset
  <2>7. IsFiniteSet(S \cap F)
    <3>1. S \cap F \in SUBSET S
      OBVIOUS
    <3> QED
      BY <2>2, <3>1, FS_Subset
  <2>8. /\ Cardinality(S) \in Nat /\ Cardinality(F) \in Nat
        /\ Cardinality(S \cap F) \in Nat /\ Cardinality(S \cup F) \in Nat
        /\ Cardinality(Header) \in Nat /\ Cardinality(Open) \in Nat
    BY <2>2, <2>3, <2>4, <2>6, <2>7, FS_CardinalityType, CacheAssumption
  <2>9. Cardinality(Open) <= 2 * Cardinality(Header)
    BY <2>2, <2>3, <2>4, <2>6, <2>8
  <2> QED
    BY <1>1, <2>9 DEF IInv, CacheInv, OpenInv, InACache, EveryDAGIsCached
<1> QED
  BY Invariant, <1>1, PTL
=============================================================================
