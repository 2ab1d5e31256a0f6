# Colossus-X in TLA+

TLA+ models of the Colossus-X proof-of-work node (`src/`, Go), the TLC
configurations that check them on small instances, and TLAPS proofs of the
properties that matter most for every instance.

    tlc -config ChainNode_failing_files.cfg MCChainNode.tla # one run
    tlapm ChainNode_proofs.tla                              # proofs of one component

`PROJECT.json` lists the components, the runs with the properties each one
checks, the mutations of the code that each property catches, the source lines
behind every definition, the hazards and the theorems.

## 1. The system

A node is one process (`cmd/colossusx daemon`). Its parts:

| Component | State | Operations | Talks to |
|---|---|---|---|
| **Chain store** (`pkg/chain`) | block files with their total work, a height index, a meta file; genesis and tip hash in memory; one RWMutex | `StoreBlock`, `SetCurrentTip`, reads, `NewDiskStore` with the migration of an old `chain.json` | called by validator and node |
| **Validator** (`pkg/consensus`) | DAG caches, Merkle root cache, mining backend | `ValidateBlock`, `InsertBlock`, `SealBlock`, `SetMiningBackend`, `Close` | store, miner, DAG |
| **Node** (`pkg/node`) | its configuration (the mutex it declares is never taken) | `InitGenesis`, `Run` (mining loop), `onNewBlock`, status and ping handlers | validator, store, p2p callbacks |
| **P2P** (`pkg/p2p`) | peer set, keyed by address until the hello and by ID after it; per peer: ID, hello, status, send mutex | accept and dial loops, one reader goroutine per connection, `dispatch`, `Broadcast`, shutdown | calls the node's handlers on the reader goroutine |
| **Types** (`pkg/types`) | - | header encoding, block hash, genesis block, epoch seed | all |
| **Spec** (`colossusx/spec.go`) | - | DAG size per epoch and height, validation of parameters | validator, node, CLI |
| **Miner** (`colossusx/miner.go`) | found flag, result channel, counters | `Mine` (workers or one batch) | backend |
| **DAG** (`colossusx/dag*.go`) | the nodes' memory | parallel generation, stateless access, growth | validator, backends |
| **Merkle and solution** (`colossusx/merkle.go`, `colossusx_solution.go`) | - | roots (by level, streaming), multiproofs, building, compacting and verifying solutions | validator, CLI |
| **Backends** (`src/*.go`, kernels) | device contexts and buffers, the DAG they were prepared on | `InitializeRuntime`, `Prepare`, `Hash`, `HashBatch`; memory strategies (`go-heap`, pinned, CUDA managed, OpenCL SVM, Metal shared) | miner, validator, CLI |
| **CLI** (`cmd/colossusx`, `main.go`) | flags | `daemon`, `mine`, `verify`; the choice of a backend by benchmark | all |

What is hard about it:

* **Concurrency.** The main goroutine and one reader goroutine per connection
  call `Validator.InsertBlock` on one store. The store locks each call; nothing
  locks the five calls that make up an insertion.
* **Crashes.** One `StoreBlock` is three file renames, an insertion is five, a
  migration any number; the process may be killed between any two.
* **Failure.** Any of those writes may fail after memory was changed. A device
  may fail where the interface has no error to return.
* **Connections.** They are lost and dialled again, a peer may not read, and
  sending has no deadline; the peer set is changed by the goroutines of all.
* **Sharing.** One DAG serves the miner and every validation of its epoch, and
  its memory is freed by hand.
* **Combinations.** Flags, build and devices decide together which backend
  hashes in which memory; few of the combinations can be tested on one machine.
* **Time.** Timestamps are whole seconds, must grow along a chain, and may not
  be two hours ahead of the clock; the node stamps its own blocks.
* **Arithmetic.** DAG growth, nonce ranges and chunking at the ends of uint64;
  trees whose levels have an odd number of nodes.

What makes each component correct:

* *store*: what is written stays readable through any interruption; disk and
  memory answer alike; the migration is all or nothing for its readers;
* *validator and node*: stored blocks form chains with the right total work;
  the tip is the heaviest stored block; every insertion ends; a restart resumes
  with what was accepted; the miner's own block is acceptable;
* *p2p*: a peer is listed from connection to disconnection and not after, no
  block is taken from a foreign network, a slow peer does not stop the node;
* *spec*: DAG sizes are monotone and a multiple of the node size, and every
  verifier accepts the same blocks;
* *miner*: the result is a solution, every nonce of the range is tried once;
* *DAG, Merkle*: every cell is written once; all ways to compute a root or a
  proof agree; what is sealed is accepted by everybody, and whatever is accepted has
  the encoded header, the cells read and the mix that were sealed; a root belongs to its header's DAG; no use after free;
* *backends, CLI*: whatever hashes was prepared on the DAG it hashes with, and
  nothing hashes on the host in the name of a device.

The hazards behind these, each at its source line, are in `PROJECT.json`.

## 2. Modules

| Module | Models | Uses |
|---|---|---|
| `Blocks` | the data: a block is its hash, header fields are functions on it; work of a target, choice between two heads | |
| `MemoryStore` | `chain.MemoryStore`: each operation is atomic; the contract of a store | `Blocks` |
| `DiskStore` | `chain.DiskStore`, one action per file renamed | `Blocks` |
| `ChainNode` | main goroutine and peers' readers inserting into one disk store; genesis, mining, crash, restart, clock | `DiskStore` |
| `HeaviestChain` | what `InsertBlock` promises: accept a block and choose the best in one step | `Blocks` |
| `ChainNodeRefinement` | refinement mappings from `ChainNode` to `HeaviestChain` and `MemoryStore` | `ChainNode`, `HeaviestChain`, `MemoryStore` |
| `P2P` | the p2p servers of several nodes and the connections between them | |
| `Network` | nodes over `P2P`: main loops that mine and broadcast, readers that insert | `P2P` |
| `MinerSearch` | `Miner.Mine`: its workers, the race for the result channel, its waiting caller | |
| `Search` | what `Mine` promises its caller: one answer, right for the range | |
| `MinerSearchRefinement` | `MinerSearch` implements `Search` | `MinerSearch`, `Search` |
| `Epoch` | DAG size and seed of a height; a chain under the validator's grace window | |
| `DagGeneration` | the workers that fill a DAG | |
| `Merkle` | three ways to the Merkle root of a DAG, and the multiproof | `DagGeneration` |
| `Solution` | sealing, compacting, sending, expanding and checking a solution; the verify command | `Merkle` |
| `Startup` | from flags, build and devices to a backend and the DAG's memory; the mine command | |
| `DAGCache` | the validator's caches of DAGs and roots, under the miner and the readers | |
| `Daemon` | `Startup` hands over to `DAGCache` | `Startup`, `DAGCache` |
| `ChainNode_proofs`, `ChainNodeRefinement_proofs`, `HeaviestChain_proofs`, `Network_proofs`, `MinerSearch_proofs`, `Epoch_proofs`, `Solution_proofs`, `Daemon_proofs` | inductive invariants and theorems | the module they are named for, `TLAPS` |
| `MCChainNode`, `MCNetwork`, `MCSolution`, `MCDaemon` | instances for TLC; `MinerSearch` and `Epoch` need none | |

The groups meet in constants and contracts. `ChainNode`'s set `Sound` is where
`Epoch`'s window and `Solution`'s verdict come in, and its set `Sealed` is what
a search of `MinerSearch` returns. `Network` inserts a block in one step, which
is what `HeaviestChain` promises; `ChainNode` has that insertion call by call.
`DAGCache` takes a DAG's root as a function of its seed and size, which is what
`DagGeneration` (same cells whatever the workers) and `Merkle` (same root
whatever the way) establish.

### Blocks

A block is named by `BlockHash`. Two blocks are the same exactly when their
hashes are, so `Parent`, `Height`, `Stamp`, `Target` are constant functions on
the set of hashes. `Rank` is the order of the hexadecimal strings, which breaks
ties of equal work. `Sound` is the set of blocks that pass those checks which
depend on the block alone (algorithm version, epoch seed and DAG size, Merkle
root, proof of work). `CalcBlockWork` is the code's 2^256 div (target + 1),
with 2^256 the constant `TargetSpace`.

### DiskStore

| Model | Code (`store_disk.go`) |
|---|---|
| `entry[b]` | `blocks/<hash>.json`: total work, or `NoEntry` when there is no file |
| `heightFile[h]`, `meta` | `heights/<h>.txt`, `chain_meta.json` |
| `genesisHash`, `currentTip`, `open` | the fields in memory; whether `NewDiskStore` returned |
| `write` | the operation that holds `d.mu`, and its next step |
| `StoreBegin`, `StoreHeight`, `Flush` | `StoreBlock`: block file (74), height file and fields (77-85), meta file and unlock (86) |
| `SetTipBegin`, `Flush` | `SetCurrentTip` |
| `WriteFails` | an error of `writeFileAtomic` |
| `Load`, `MigrateBlock`, `MigrateHeight`, `MigrateMeta` | `load`, `migrateLegacySnapshot` |
| `LoseMemory` | the process is gone, the files stay |

`writeFileAtomic` writes a temporary file and renames it: the model sees the
old or the new content, never a part. A reader takes the read lock, so its
guard is `Free`. A read that fails is an outcome of the caller (`Faults`).

### ChainNode

`pc[t]` is the store call that goroutine `t` makes next or is in:

    Main:  down -OpenStore-> init -SealGenesis-> store ... -> mine -Mine-> check ...
    peer:  idle -Deliver-> check ...
    both:  check -> has -> store -> storing (2 writes) -> readtip -> settip -> setting -> home

`InitGenesis` stores and sets the tip without the steps `check`, `has` and
`readtip`. An error ends the run when it is the main goroutine's
(`Exit`) and only the call when it is a reader's (`Return`). `Crash` kills the
process between any two steps. The goroutine that runs `SealBlock` reads the
tip before the search and inserts after it; the search itself succeeds with any
block of `Sealed` that fits the template or fails (`MineFails`). Where the code
waits (`-block-time`, the search) the model lets any time pass, or none.

`Faults` makes every store call able to fail: a write with the file kept as it
was, a read as an error or as "not there", which is how `os.Stat`'s error is
taken by `blockExists`.

### MinerSearch

| Model | Code (`colossusx/miner.go`) |
|---|---|
| `start`, `limit`, `solving` | `startNonce`, `maxNonces`, the nonces whose digest is at most `target` |
| `pc[w]`, `nonce[w]`, `meets[w]` | worker `w`'s statement and its locals `nonce`, `h` |
| `found`, `cancelled`, `totalHashes` | the two atomics and the context |
| `channel`, `closed` | `resultCh`, of capacity one |
| `main`, `message`, `answer`, `hashes` | `Mine` itself and its result |
| `tried` | history: what each worker has hashed |
| `Begin`, `Check`, `Hash`, `Count`, `Claim`, `Send`, `Cancel` | the worker's loop (80-115), cut wherever it touches shared state |
| `Close` | the goroutine that waits for the workers and closes the channel (117) |
| `Receive`, `ReturnFound`, `ReturnNotFound` | the rest of `Mine` (118-124) and the deferred `cancel` |

    start -> check -> hash -> count -> claim -> send -> cancel -> done
               ^                 |
               +---- no luck ----+            (or done, from check and claim)

`AddUint64` refuses to pass the largest nonce (`Fits`). `CanFail` lets the
backend fail: `Hash` has no error to return, so a failing device returns the
digest of zeros, and `meets` becomes true. `Mine` dispatches to `mineBatch` when
the backend has `HashBatch`, but every caller in the repository wraps its
backend in a struct that embeds only `HashBackend`, which hides that method:
the model has the loop only.

### Epoch

The constants are the fields of `Spec`, assumed to pass `Spec.Validate`, over
integers of any width (`MaxUint`). `DAGSizeForEpoch` adds modulo the width, as
Go does, so that its test for overflow has something to prevent. A seed is a
digest; the model has the pair that is digested, since two digests are the same
only if those are. `chain` is the sequence of the headers' two fields. It grows
by `Mine`, with the fields that `mineNextBlock` writes, and by `Receive`, with
any size and seed that the validator lets in.

### P2P and Network

A connection `c` has two ends, `<<c, "out">>` at the node that dialled and
`<<c, "in">>` at the one that accepted; each end has one goroutine, in
`handleConn`.

| Model | Code (`p2p/transport.go`, `peer.go`, `message.go`; `node/node.go`) |
|---|---|
| `link[c]`, `pc[e]` | the two nodes; where the end's goroutine is |
| `up[e]`, `wire[e]` | this side's socket is open; frames in the kernel's buffer, at most `Capacity` |
| `outbox[e]` | messages that goroutines other than reader and main loop are about to send: `sendStatus`, the ping of `onPeerConnected`, `broadcastStatus` |
| `id[e]`, `peers[n]`, `peerKey` | `Peer.ID`, the `PeerSet` as pairs of key and peer |
| `phase[n]`, `Cancel`, `Sweep` | the context; the goroutine that closes listener and peers (76-84) |
| `Dial`, `Refuse` | an iteration of `dialLoop` (105-122); a connection accepted by nobody |
| `HandleConn`, `SendHello` | `handleConn` to its first `Send` |
| `DispatchHello`, `DispatchInfo`, `DispatchPing`, `SendPong`, `OnNewBlock` | `dispatch` with the node's handlers |
| `Leave` | the deferred function: `Remove`, then `Close` |
| `Mine`, `SendBlock`, `Sent`, `Return` | `mineNextBlock` with `InsertBlock`; `broadcastNewBlock`, one blocking `Send` after the other; `broadcastStatus`; the end of `Run` |
| `Drop` | the network loses a connection |

`Send` waits for room without a deadline (`CanSend`): on the reader itself for
the hello and the pong, on the main loop for a new block. A write to a
connection of which either side is gone returns, and what it wrote is lost.
A peer that is listed but no longer served is not in `Reached`: sending to it
fails at once.

The code's keys are strings: an ID, or an address for a peer without one. The
model tags the two apart, so a peer that says another connection's address as its
ID is not in it.

### DagGeneration, Merkle and Solution

| Model | Code |
|---|---|
| `StartWorker`, `WriteCell`, `Wait`, `chunk`, `from`, `to` | the generation loops (dag.go:134-171, dag_colossusx_v2.go:90-123) |
| `levels`, `BuildMerkleLeaves`, `NextLevel` | `buildMerkleLevels` |
| `levelCounts`, `NextCount`, `PrepareProofs`, `wanted` | the first half of `BuildMerkleMultiProofFromAccessor` |
| `ReadLeaf`, `Park`, `Combine`, `AssignWanted` | the cells' loop of both streams: `emitNode` at level `at` |
| `FoldLevel`, `Folded` | `dagMerkleRootStreaming`'s fold (validator.go:437-464) |
| `CompleteLevel`, `Completed` | the multiproof's loop over the levels (merkle.go:277-298) |
| `Mixes`, `Accessed`, `ColossusXAuditIndices` | `ColossusXTraceHash`; the audited cells |
| `CompactColossusXSolution`, `ExpandCompactColossusXSolution` | the pool of siblings and the references into it |
| `block` | the header as it is encoded for mining; `Header.Nonce`, which is not; the root, a field of its own here; transactions; the solution and its form |
| `SealBlock`, `Arrives` | sealing, which writes the nonce into the header too; the block as it comes from a file or a peer |
| `Accepts`, `Validate` | `validatePoW` |
| `InGrace`, `Verifies`, `RunVerify` | the verify command: its rule for the epoch (main.go:387-390, 490-493), which knows no grace window, and its check of the solution |

The two streams share one loop over the cells in the model, as their code is
the same there; what each does with the nodes left over follows one after the
other. A hash is the tree of what was hashed, a mix the sequence of what was
mixed in: different data give different hashes. Bytes are given by what they hash
to. Leaves and inner nodes have one hash function (`blake3.Sum256`), so the 64
bytes of two child hashes can stand where the bytes of a cell are meant;
`OfNodeSize` is what tells them apart, where the code asks for it.

`Arrives` takes a sealed block as it is, in full form, without its solution, or
with one field changed: the encoded header, its root, its nonce, the transactions,
or in the compact solution the nonce, the mix, a shared sibling, or of one cell the
data, the index, one reference, the number of references, or the whole cell for an
inner node of the tree with the rest of its proof; or one cell less.

### Startup, DAGCache and Daemon

`Startup` is a decision procedure over all machines (CUDA build or not, device
or not, macOS or not, five kinds of OpenCL runtime) and all values of the two
flags. `Candidate` is one round of a benchmark, whose rates are arbitrary; the
tables `HasContext`, `Prepares`, `Digest`, `MayFail` and `MaySucceed` say what
each backend and each memory does on a machine.

| Model | Code (`consensus/validator.go`) |
|---|---|
| `dags`, `shared`, `fallback`, `roots` | allocated DAGs; `sharedDAGs`, `fallbackValidationDAGs`, `colossusxMerkleRoots` with their keys |
| `view` | the DAG that the backend keeps from its last `Prepare` |
| `FindDAG`, `GenerateDAG`, `AllocationFails` | `cachedDAGForHeader`, under the validator's mutex |
| `FindRoot`, `Stream`, `StoreRoot` | `merkleRootForDAG`: two critical sections and the work between them |
| `Prepare`, `Mine`, `BuildSolution` | `SealBlock` |
| `Verdict`, `Close`, `SetMiningBackend` | the end of `validatePoW`; the methods of these names |

    seal:      dag -> prepare -> root -> mine -> build -> (validates its own block)
    validate:  dag -> root [-> stream -> store] -> verdict

`Daemon` hands over what `Startup` came to, or what a program that uses the
validator as a library (`validator_test.go:169-230`) sets, whose memory
validations may have to leave alone. After that only the handed-over record
matters; `HandedOver` forgets the flags.

## 3. Runs

| Run | Bounds | Shows |
|---|---|---|
| `failing_files` | miner, 2 peers, 5 blocks (with a second genesis), kills, faults, clock 0..1; 650,000 states | `ChainConnected`, `WorkAccounted`, `NoneFromFuture`, `ServesAChain`, `OwnBlockFitsItsParent`, `PointersResolve`, `NothingForgotten` under every interleaving, though any file operation may fail and the process be killed at any point |
| `legacy` | snapshot of 3 blocks, then 1 peer, 8 blocks, kills | `MigrationComplete`, `DiskAgrees` through interrupted migrations; `DurableTipNeverLighter`: with a single inserter, whatever the kills |
| `one_peer` | 1 peer, 10 blocks, clock 0..2 | `TipIsHeaviest`; `ImplementsHeaviestChain`: with a single inserter the calls add up to one atomic insertion; `ImplementsMemoryStore`: disk and memory store agree |
| `liveness` | miner, 2 peers, 4 blocks, kills | `InsertionEnds`, `ValidGetsStored` |
| `lost_update` | 2 peers, 3 blocks | **violated**: see below |
| `clock_drift` | miner, 3 blocks | **violated**: see below |
| `search` | 3 workers, nonces 0..4, every start, limit and set of solutions | `EachNonceOnce`, `HashesNearlyExact`, `TypeOK`; `ImplementsSearch`, `SearchEnds` |
| `growth` | 31 is the largest integer, 5 blocks an epoch, a window of 3, 24 heights | `SwitchoverIsFinal`, `NeverShrinks`, `OneDAG`, `TypeOK` |
| `network` | a node and the hub it dials, of one network or of two; one connection; one frame fits each way; pings; one mined block; one loss; the hub may be stopped; 35,000 states | `BroadcastEnds`, `ShutdownEnds`, `BootnodesStayConnected` |
| `connections` | the same two nodes with two connections, two frames each way, pings, one mined block, one loss; 980,000 states | `EveryConnectionListed`, `ForeignUnheard` |
| `proofs` | 1 to 7 cells, 1 to 3 workers, 3 headers of which one names the previous epoch's DAG, 2 nonces, 2 cells read and 2 audited, any one field changed; 84,000 states | `EveryCellOnce`, `RootsAgree`, `ProofsAgree`; `SealedIsAccepted`, `AcceptedIsSealed` |
| `daemon` | all machines and flags, 2 epochs with DAGs of one size, miner and 2 readers; 370,000 states | `HashesPrepared`, `NoHostReference`, `RootIsOfHeader`, `EveryDAGIsCached`, `ReadsOpenDAG` |

**Why the bounds are enough.** The blocks of `MCChainNode` are a small tree: two
branches of equal work, a continuation of one, a heavier block that the clock
forbids at first, a block not later than its parent, one of the wrong height,
blocks to be mined, and a second genesis. Total works 1, 2 and 4 suffice to have
lighter, equal and heavier heads; heights to 3 suffice for a reorganisation by
two blocks. Two inserters besides the miner are enough for the races: each one
involves a read by one goroutine and a write by another between two of its own
calls; a third peer adds a second such pair.

For the miner, five nonces and three workers are enough for a worker that
starts beyond the largest nonce, a range shorter than the number of workers, a
worker with several nonces, and two losers of the race. `start`, `limit` and
`solving` take every value, so that ranges end at every place against the end of
the nonce space. The backend works there (`CanFail` is false); all theorems but the
last hold with one that fails (section 4). For `Epoch`, the size starts at 12 and grows by 8: 12, 20, 28,
then it saturates; five epochs have it grow twice and stay twice. `SizeField`
differs from `InitialField`, so that taking the one for the other shows.
`AtBound` in `Epoch` lets the chain stop at the height where the model ends;
`Terminated` in `MinerSearch` stands for a call of which nothing is left.

In `network`, a capacity of one frame makes every send able to wait, with a
ping on its way in each direction; with `MaxDrops` 1 the connection is lost and
dialled again, after the hello or before it. The run has one connection, that is,
the node dials again when both ends of the old one are gone.

In the code it need not wait: the hub's end of the lost connection may still be
there when the next one is set up. `connections` has both. Then the old end
leaves before the new one has said hello or after it, and the same key may stand
for either. Its wires take two frames, so that a block or a ping can be behind the
hello of a foreign node when that is read; with room for one, nothing would be
left to be heard. Its hub is not stopped, which is a loss as any other to a
listener. That neither property depends on these numbers is proved (section 4).

In `proofs`, trees of 1 to 7 cells have every pattern of odd and even levels up
to three of them, so that the fold raises a subtree by none, one and two levels
(7 = 4 + 2 + 1, 5 = 4 + 1); three workers meet 1 to 7 cells with a remainder,
without one, and with more workers than cells. `PickBySum` makes every cell read
depend on every one before it, and repeats cells within a solution, which is
what the pool of siblings is for. Trees of three levels below the root have inner
nodes to be taken for cells.

In `daemon`, machines and flags are not bounded. Two epochs of one size are what
tells a key with the seed from one without; two readers and the miner are enough
for a root that is streamed twice at a time, or by the one while another epoch's
is cached by the other.

`SYMMETRY` exchanges the two peers of `failing_files`, the two connections of
`connections` and the two readers of `daemon`, which nothing distinguishes; these
runs check safety only.

Deadlock is checked except where the system may really stop: a node that does
not mine, whose peers have no more blocks to send; a hub that was stopped; two readers
that wait for each other; a block on which both verdicts have been given; a start-up that failed, a command
that is done, a process that panicked.

**Fairness.** `ChainNode`'s `FairSpec` has strong fairness of each goroutine's
next step inside an insertion. The Go scheduler runs every runnable goroutine; waiting
for the store's lock makes the step enabled and disabled again and again, and
`sync.RWMutex` is starvation-free: a waiting writer blocks later readers, and
a waiting reader is let in when the writer unlocks. Hence strong, not weak.
Nothing is assumed of peers, of the search, of the clock or of restarts. The
run has no failing writes. `MinerSearch`'s `FairSpec` has weak fairness of each
goroutine: no step that is enabled is disabled by another goroutine's (the one
guard that waits, for room in the channel, is only ever waited for by the one
worker that won), so that the scheduler's running every runnable goroutine is
weak fairness. `Network`'s has strong fairness of each end's goroutine and of
each main loop: they wait for room in a connection, into which goroutines of
the same node also write; `Peer.Send` holds the peer's mutex, which Go hands to
a waiter that has starved. The dial loops retry for ever (weak fairness of
`Dial`), and so does the one goroutine that closes the connections (`Sweep`).
Nothing makes a node mine, stop or lose a connection.

**Disagreements found.**

* `lost_update`: between `CurrentTip` (validator.go:263) and `SetCurrentTip`
  (272) another reader goroutine may insert a child and make it the tip; the
  older choice is then written over it. The tip stays at the parent until a
  further block arrives; the child itself is ignored when sent again
  (node.go:209). `validator_test.go:98` expects the child of the tip to become
  the tip. A process killed between `StoreBlock` and `SetCurrentTip` ends in the
  same state: it restarts with a stored child of the tip that is never compared
  again.
* `clock_drift`: `max(now, tip+1)` (node.go:156) moves timestamps a whole
  second per block while the default block time is 500 ms; at two hours of
  drift the node refuses its own block and `Run` ends. The run uses a limit of
  one second in place of two hours.

Others have no run of their own; most can be read off the model's definitions:

* *A device that fails.* `GPUBackend.Hash` returns `HashResult{}`
  (gpu_backend_opencl.go:228), and zeros are at most any target
  (miner.go:102): `Mine` reports a solution that is none (`CanFail`; a run of
  `MinerSearch` with it breaks `ImplementsSearch`). In the daemon the validator
  then refuses the sealed block and `Run` ends; `mine` prints it. An OpenCL
  runtime without shared virtual memory fails like that on every hash: `Prepare`
  lets it pass (`OpenCLPrepares`), and the benchmark takes a backend that fails at
  once for the fastest.
* *The grace window.* In the first 64 blocks of an epoch the validator also lets in
  the DAG of the epoch before; `colossusx verify` calls such a block a mismatch
  (cmd/colossusx/main.go:387-390, 490-493; `RunVerify`'s `"other_dag"`). Line 336
  of `COLOSSUS-X SpecificationV2` says that it is accepted.
* *The size of an audited cell.* `VerifyColossusXSolution` checks the size of the
  cells that the hash read (colossusx_solution.go:163) and not that of the audited
  ones (186-195): the two hashes below an inner node, with the rest of the proof,
  are accepted in place of an audited cell. Lines 261-262 of the specification say
  that these are checked "identically to the 128 mining cells".
* *Transactions.* Neither `validateHeader` nor `validatePoW` reads them, and
  `TxRoot` is the hash of the height's decimal text (node.go:160-172), so a block is
  accepted with any. Lines 343-345 of `README.md` say that a block whose
  transactions are not those its header commits to must be rejected.
* *The header's nonce.* `SealBlock` writes the nonce found into the header
  (validator.go:306). `EncodeForMining` (types.go:87-101) leaves that field out,
  `BlockHash` (102-108) has it, and nothing compares it with the solution's: a block
  that arrives with another one is accepted under another hash. No document says
  how the two relate.
* No code outside tests sets `Spec.GenesisHash`, so that an epoch's seed is the
  digest of its number and zeros on every network; lines 67 and 76 of the
  specification say that it is anchored in the chain's genesis.
* The daemon's `-backend auto` never chooses cuda or metal: it benchmarks them
  on a DAG in the heap, on which neither can be prepared
  (`benchmarkDaemonBackends`). `README.md:216` gives the order cuda, metal,
  opencl, unified.
* The rules for the flags let `cuda` and `metal` through with `go-heap`, which
  their `Prepare` refuses; and what `auto` comes to is not checked against
  `-dag-alloc` again.
* The strategy that tries several memories is named "auto", for which validations
  share the miner's DAG whatever memory it got; the fallback cache is reached by
  programs that use the validator as a library only.
* A root computed with a fallback DAG is cached under a key nobody looks up; it
  is streamed again and cached under the other key.
* After `Close`, which the daemon calls when `Run` has returned, a reader that
  is still validating may read freed memory; `ReadsOpenDAG` says that this is
  the only case.
* Two readers may wait for each other for ever, each in a `Send` to the other
  over a connection that is full both ways: `CircularWait` is the one exception in
  `BroadcastEnds` and `ShutdownEnds`.
* A peer's entry may outlive its connection, since it is added under an address
  and removed under an ID: `EveryConnectionListed` holds in one direction only.

## 4. Proofs

Of the 39 properties that passing runs check, the 33 that are no liveness
properties are theorems too. Each holds for every value of the constants that
satisfies the named assumptions of the modules; TLC evaluates these in every
run. Where a theorem needs more, its `ASSUME` says so and the text below says why.

### The node

`ChainNode_proofs` proves, for every set of blocks, every set of peers, every
legacy snapshot that an older version can have left, with or without kills and
failing writes:

| Theorem | States |
|---|---|
| `Invariant` | the inductive invariant `IInv` |
| `Typing` | `TypeOK` |
| `Connected` | `ChainConnected` |
| `Accounted` | `WorkAccounted` |
| `NotFromFuture` | `NoneFromFuture` |
| `PointersAreGood` | `PointersResolve` |
| `MigrationIsComplete` | `MigrationComplete` |
| `Serving` | `ServesAChain` |
| `OwnBlockFits` | `OwnBlockFitsItsParent` |
| `Kept` | `NothingForgotten` |

The assumptions are the named ones of `Blocks` (types of the header functions,
hashes have different ranks), `DiskStore` and `ChainNode` (a legacy snapshot is
a chain that was accepted; parameters are numbers and Booleans). TLC evaluates
them in every run.

The properties are not inductive. `ChainConnected`, say, is established when a
block's file is written, from what `ValidateBlock` saw several calls earlier;
so the invariant has to say what each goroutine knows and that others cannot
make it false:

* `DiskInv`: a stored block stands on its stored parent and its work is
  accounted for; during a migration, what has been copied is the snapshot's;
  heights and meta name stored blocks;
* `MemoryInv`: what memory holds against the files, by the step of the
  operation that holds the lock;
* `ThreadInv`: at most one goroutine holds the lock and it is the one that
  `write` belongs to; peers act only while the node serves;
* `InsertInv`: from the call that established it, a goroutine's block fits its
  parent (`GoodBlock`), its total work is right (`TotalWork`), it is stored.

The facts that others cannot make false rest on one lemma, `Stable`: blocks
are only added, with a work that never changes, and the clock does not go back. First
each step of the store is shown to keep the store's part (`StoreStep`), then
each step of the node to keep the rest (`OneMoves` deals with the goroutines
that do not move), by one lemma per group of actions. `Connected` and the
others follow from `IInv`.

### What store and insertion promise

`ChainNodeRefinement_proofs` and `HeaviestChain_proofs` build on that invariant.
A failing write leaves memory ahead of the files, so all but the last suppose that
file operations succeed (`~Faults`); kills and the migration are in unless the
table says otherwise.

| Theorem | States | Supposes besides |
|---|---|---|
| `RestartFindsTheTip` | `DiskAgrees` | |
| `Answers` | while a process lives, each step is an operation of `MemoryStore` or none | |
| `ImplementsMemory` | `ImplementsMemoryStore` | one life: no kill, no mining, no old snapshot |
| `SoleInvariant` | the invariant `SoleInv` | a sole inserter |
| `TipNeverLighter` | `DurableTipNeverLighter` | a sole inserter |
| `HeaviestBecomesTip` | `TipIsHeaviest` | a sole inserter, no kill, an old tip that was the heaviest |
| `ChildTakesOver` | `ChildBecomesTip` | the same, and an old snapshot without targets of zero |
| `ImplementsChain` | `ImplementsHeaviestChain` | a sole inserter, one life, `Acyclic` |
| `FindsTheBest` | in `HeaviestChain`, `best` is the accepted block of the most work | `Acyclic` |

* *The memory store.* A memory store dies with its process; the disk store
  begins its second life with what the first has left. `Answers` is therefore
  about the steps of a living process, and `ImplementsMemory` about a single
  life. The mapping is simple but for one place: the memory store's `StoreBlock` is the
  write of the block file, so that in the step between it and the height file
  (`HeightToCome`) height, genesis and tip count as if they were there.
* *A sole inserter* is one peer and no miner, or a miner and no peer. The
  run `lost_update` shows that two are too many: then what was compared with the
  tip may no longer be so when it is set. `SoleInv` says that for one it is
  (`ChoiceStands`, `NextTip`).
* *The heaviest tip.* `HeaviestInv` lets the one block between `StoreBlock` and
  its comparison with the tip be `Undecided`. A kill at that place leaves a
  stored block that is never compared, hence no kills. An old snapshot has to
  come with its heaviest block as its tip (`LegacyTipHeaviest`), since the
  migration compares nothing. A child of the tip is heavier than the tip, as
  its target is not zero (`FoundedInv`), so that it becomes the tip.
* *One atomic insertion.* `Acyclic` says that parents come to an end: a block's
  hash covers its parent's. From it the work of a chain exists
  (`ChainWorkDefined`: the smallest age at which it would not leads to one
  smaller still), and what the code records is that work (`RecordedIsChainWork`).
  `ChainInv` says that a block is stored once and compared once.

### The miner

`MinerSearch_proofs` proves, for every number of workers and every width of the
nonce, from `MinerAssumption` alone:

| Theorem | States |
|---|---|
| `Typing` | `TypeOK`; in particular no nonce passes the largest |
| `NonceOnce` | `EachNonceOnce` |
| `HashesReported` | `HashesNearlyExact` |
| `Implements` | `ImplementsSearch`, for a backend that does not fail |

* `NonceOnce`: a worker's nonces are its `Share`, the numbers at its distance
  from `start` modulo the number of workers; shares are disjoint
  (`SharesDisjoint`, which needs a little arithmetic of residues). `Progress`
  says that what a worker has tried lies in its share and below its nonce;
  `Ledger` that `totalHashes` and the hashes being added are those tried.
* `HashesReported`: `Finder` says that `found` has exactly one winner, who is
  where the channel and `Mine` say; `Exactness` charges each hash that
  comes after `Mine` read the counter to a worker that was still at it.
* `Implements`: `OnlyGood` (a worker that claims, the channel and the message
  have a nonce that solves and lies in the range), `NonePassed` (as long as
  nothing is found, no worker has gone past a nonce that solves) and `OnItsWay`
  (if something is found, it arrives before the channel is closed).
  With these, both of `Mine`'s returns are steps of `Search`, and every other
  step is a stutter.

### Epochs

`Epoch_proofs` proves, for every `Spec` that passes `Validate`, every width of
the integers, every length of the window and every chain:

| Theorem | States |
|---|---|
| `Typing` | `TypeOK`: sizes are whole nodes and fit |
| `Final` | `SwitchoverIsFinal` |
| `Growing` | `NeverShrinks` |
| `Single` | `OneDAG` |

The invariant `Accepted` says that every header was accepted at its height. The
rest is arithmetic: where the test for overflow lets the sum through, it
does not wrap (`NoOverflow`); the size is whole nodes (`SizeFits`, over
`WholeSum` and `Largest`) and grows with the epoch (`SizeGrows`); a header
names the DAG of its own epoch or, in the window, of the one before
(`BlockNames`). The height is not bounded by the width there: 2^64 blocks are
out of reach.

### Network

`Network_proofs` proves, for every set of nodes, connections and bootnodes,
every capacity, every chatter and every number of losses:

| Theorem | States |
|---|---|
| `Invariant` | the inductive invariant `IInv` |
| `Listing` | `EveryConnectionListed` |
| `ForeignIsUnheard` | `ForeignUnheard`, an action property |

A peer is added under its address and removed under its ID once it has said one;
that no other peer's entry is replaced or removed is the point. `NoIDBefore` and
`KeyedByAddress` say that all keys in a set are addresses, so that a removal
under an ID removes nothing; `OneDialled` (a dial loop has one connection) gives
`KeysDiffer`: no two connections that a node handles have one address; hence
`ListedByAddress`. For the other theorem, `ForeignClosed`: an ID learned is the
remote node's, and its connection is closed if the networks differ; the only
steps that shorten a wire are reads by an open end and the end of the connection
(`OnlyReadsShorten`).

### DAGs, roots and solutions

`Solution_proofs` proves, for every number of cells and of workers, every number
of cells read and audited, whatever cells the hashes pick:

| Theorem | States |
|---|---|
| `Invariant` | the inductive invariant `IInv` |
| `CellsWrittenOnce` | `EveryCellOnce` |
| `RootsEqual` | `RootsAgree` |
| `ProofsEqual` | `ProofsAgree` |
| `SealedAccepted` | `SealedIsAccepted` |
| `AcceptedSealed` | `AcceptedIsSealed` |

The last three use further invariants. `ProofsEqual`, `SealedAccepted` and
`AcceptedSealed` suppose `Words`: the hashes that choose cells return numbers, as
`uint32` and `uint64` are. Without it nothing says that a chosen cell exists.

`GenInv`: started workers' chunks cover what lies before the next start
(`Covered`) and do not overlap (`ChunksApart`, from `StartsAscend`, which needs a
little multiplication); what is written is what lies before each worker's next
cell, and the counter is its cardinality (`Writes`).

`MerkleInv`: `Shape` has the tree in memory as the definition of a node by the
two below it. The numbers of nodes emitted per level are those of a binary
counter (`Emits`): level `l + 1` has half as many as level `l`, less the one that
is on its way up; a node waits on the levels where the number is odd, and it is
the last one of the tree's node so far. `Pairs` is the one fact about the tree
that the streams need: two neighbours make the node above them, and the last of
an odd level makes it with itself. The fold (`FoldInv`) then always holds the
last node of its level, and the levels that it skips have an odd size
(`FoldLevelPreserves` has one case for each of the loop's branches); the
miner's loop leaves complete levels behind (`Base`). At the top both have the
root.

`WantedInv`: a slot of a proof is filled exactly when as many nodes of its level
have been emitted as its sibling's number says, and then with the tree's node
(`Slots`); in the end all nodes of all levels have been. That a sibling is among
those is `PositionFits` and `SiblingFits`: a cell's position, halved level by
level, stays below the size of the level, which is halved and rounded up.

`SealedAccepted`: the verifier's mixes are the miner's (`SealedMixes`, by induction
over the rounds); a proof leads from its cell to the root (`ProofLeadsUp`, over the
levels); what the compact form refers to is what was there (`PoolHasAll`,
`PlaceFinds`, `ReducedExpands`).

It holds of the validator and of the verify command's check of the solution, whose
root is the header's; when the block is as sealed, that is the DAG's.

`AcceptedSealed` goes the other way: what has passed either check, against the
DAG's root, has the header, the root, the solution's nonce, the mix and all the
cells read that were sealed, and every audited cell that has the size of a node. It
claims nothing of the header's nonce, of the transactions and of audited cells of
another size, which the code does not bind. That an accepted proof need not be as
long as the sealed one is where the difficulty lies, as leaves and inner nodes have
one hash. A proof that leads to the root leads down through the nodes of the tree
(`ProofReachesDown`): it starts from the tree's node at the level where it starts.
Data of a node's size hash to a leaf, which is no inner node, so it starts at the
bottom and is the sealed cell with the sealed proof (`ProvedIsTrue`). A mix tells the
header, the nonce and all the cells that went into it (`MixTells`), hence binds the
indices of the cells read, and with them those to audit; `VerifiedIsSealed` puts
this together. `ArrivalInv` says what a changed block can look like (`CellChanged`,
`CellsChanged`): it is still a solution. These are statements about hashes that
never collide.

Induction goes through sets of numbers (`SetInduction`: a set with 0 and all
successors is the set of natural numbers), and a definition by recursion is shown to exist as
a function that each step extends (`Recursion`), since the library's theorems for
both take operators, which no installed prover can fill in.

### Start-up and the DAG caches

`Daemon_proofs` proves, for every finite set of headers (hence any number of
epochs), any number of readers, every machine and all flags:

| Theorem | States |
|---|---|
| `Invariant` | the inductive invariant `IInv` |
| `RootsBelong` | `RootIsOfHeader` |
| `ReadsAreOfOpenDAGs` | `ReadsOpenDAG` |
| `Prepared` | `HashesPrepared` |
| `NeverOnHost` | `NoHostReference` |
| `NoneLost` | `EveryDAGIsCached` |

`SharedInv`, `FallbackInv` and `RootsInv`: what is found under a key belongs to
the header that the key is made of, since keys determine headers (`Keys`).
`CallsInv` carries this over to what each goroutine holds; it has to say that a
DAG found before a critical section is still the right one after it, which holds
since DAGs are only added and their contents never change. `OpenInv`: every open
DAG is in a cache, and all are open until `Close`. The bound of two per epoch is a
cardinality argument: an open DAG is a cache's only one for its header, so the
open DAGs are in the union of two images of `Header` (`OnePerHeader`).
`PreparedInv` says that the backend's view stays on the miner's DAG from
`Prepare` to the end of the seal, although the readers find and generate others
meanwhile. `StartupInv`, with `CudaNeverPrepares`, keeps the CUDA backend, whose
digests come from the host, from ever being prepared.

### Only model-checked

* Liveness (`InsertionEnds`, `ValidGetsStored`, `SearchEnds`, `BroadcastEnds`,
  `ShutdownEnds`, `BootnodesStayConnected`), which is out of the prover's reach.

## 5. Not modelled

* A power failure: `writeFileAtomic` does not sync, so a rename may outlive
  the data it names. The crash here is a killed process.
* Losing or corrupting a file by other hands, an unreadable meta file (the node
  refuses to start), an empty `chain.json`, a snapshot without total works.
* A clock that is set back.
* The wait of `-block-time` between two mined blocks (any time may pass).
* The byte encodings: JSON, hexadecimal, the header's fixed layout, the length
  prefix of a frame. A malformed frame ends a connection as a loss does.
* `mineBatch`, which no caller reaches; `NodeCount` and the presets of `Spec`;
  numeric flags and file paths of the commands.
* The contents of a DAG node and the hash: SHA3 and FNV arithmetic, of which a
  model would show nothing that a test vector does not. The stateless access and
  the tensor tiles of `dag_stateless.go` and `dag_tensor.go`, which nothing
  reaches in `colossusx` mode.
* Device drivers, cgo and kernels; what a device does is a row in the tables of
  `Startup`.
* The data race on `GPUBackend.lastPlan` (gpu_backend_opencl.go:238) when several
  workers hash: the field is only reported.

## 6. Plan

1. *(done)* Store, insertion, node; `MinerSearch` with its contract; `Epoch`; their
   proofs.
2. *(done)* `P2P` and `Network` with its proofs.
3. *(done)* `DagGeneration`, `Merkle`, `Solution`; `Startup`, `DAGCache`, `Daemon`; their
   proofs.
4. *(done)* Memory store and abstract chain as contracts of the disk store and of
   the insertion; Merkle proofs and solutions for every number of cells.
5. To add: an abstract contract for the validator's caches (a DAG and a root for
   each header, whoever asks) that `DAGCache` implements, and one for what a
   listener of `P2P` may rely on.
