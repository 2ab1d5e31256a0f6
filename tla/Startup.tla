------------------------------- MODULE Startup -------------------------------
(***************************************************************************)
(* How the mine command and the daemon come from their flags and the       *)
(* machine they run on to a backend and to the memory of the DAG           *)
(* (src/main.go, cmd/colossusx/main.go, memory_strategy.go and the         *)
(* backends).  The mine command goes on to hash with them; the daemon      *)
(* hands them to the validator.                                            *)
(*                                                                         *)
(* A backend is named by the code behind it: which one a mode stands for   *)
(* depends on the build.  Rates are arbitrary.                             *)
(***************************************************************************)
EXTENDS Sequences, Naturals

VARIABLES
  machine,      \* build and devices
  command,      \* "mine", "daemon"
  flags,        \* [backend, alloc]
  phase,        \* "flags", "benchmark", "runtime", "strategy", "dag", "tune",
                \* "prepare", "hash", "ready", "done", "failed"
  mode,         \* the backend's mode as it was parsed, or as chosen since
  candidates,   \* modes still to be benchmarked
  best,         \* the best mode so far, or "none"
  memories,     \* the allocation strategies to try, in their order
  memory,       \* the memory of the DAG, or "none"
  prepared      \* the memory that the backend in use was prepared on, or "none"

startupVars == <<machine, command, flags, phase, mode, candidates, best,
                 memories, memory, prepared>>

BackendModes == {"cpu", "unified", "gpu", "cuda", "opencl", "metal"}
DeviceMemories == {"cuda-managed", "opencl-svm", "metal-shared"}
Memories == DeviceMemories \cup {"go-heap", "pinned-host"}

\* OpenCL: no runtime; one whose kernel does not build; without shared virtual
\* memory; with it; with it, and taking pointers to any memory of the process.
OpenCLKinds == {"none", "broken", "plain", "svm", "system-svm"}

Machines ==
  {m \in [cuda : BOOLEAN, device : BOOLEAN, darwin : BOOLEAN, opencl : OpenCLKinds] :
     m.device => m.cuda}

HasSVM == machine.opencl \in {"svm", "system-svm"}

-----------------------------------------------------------------------------
(***************************************************************************)
(* The backends.                                                           *)
(***************************************************************************)
\* NewBackend: a build for CUDA has no OpenCL backend, and the other way round.
NewBackend(m) ==
  IF m \in {"cuda", "opencl", "gpu"}
  THEN IF machine.cuda THEN "cuda" ELSE "opencl"
  ELSE m

InitializeRuntimeSucceeds(b) ==
  CASE b = "cuda"   -> machine.device
    [] b = "opencl" -> machine.opencl # "none"
    [] OTHER        -> TRUE

\* The contexts that the runtime of backend b offers.
HasContext(b, mem) ==
  \/ mem = "cuda-managed" /\ b \in {"cuda", "unified"} /\ machine.device
  \/ mem = "opencl-svm" /\ b = "opencl"
  \/ mem = "opencl-svm" /\ b = "unified" /\ HasSVM
  \/ mem = "metal-shared" /\ b = "metal"

\* Mutant: hashing on the host instead of on the device is not forbidden.
CudaOnManagedMemory(mem) == mem = "cuda-managed" /\ machine.device

\* The only mode that Spec.Validate lets through.
specMode == "colossusx"

\* CUDAHashBackend.Prepare: there is no device kernel, and in this mode
\* hashing on the host instead is forbidden.
CudaPrepares(mem) ==
  mem = "cuda-managed" /\ machine.device /\ specMode # "colossusx"

\* Without shared virtual memory nothing is asked of the DAG's memory, although
\* no hash can succeed then.
OpenCLPrepares(mem) ==
  \/ machine.opencl \in {"plain", "system-svm"}
  \/ machine.opencl = "svm" /\ mem = "opencl-svm"

Prepares(b, mem) ==
  CASE b = "cuda"   -> CudaPrepares(mem)
    [] b = "metal"  -> mem = "metal-shared"
    [] b = "opencl" -> OpenCLPrepares(mem)
    [] OTHER        -> TRUE

\* Where the digest comes from: a device, the host, or nowhere: the zero digest.
CudaDigest == IF machine.device THEN "host" ELSE "zero"
OpenCLDigest == IF HasSVM THEN "device" ELSE "zero"

Digest(b) ==
  CASE b = "cuda"   -> CudaDigest
    [] b = "opencl" -> OpenCLDigest
    [] OTHER        -> "host"

-----------------------------------------------------------------------------
(***************************************************************************)
(* Flags and strategies.                                                   *)
(***************************************************************************)
resolveAutoBackendMode ==
  IF machine.device THEN "cuda"
  ELSE IF machine.darwin THEN "metal"
  ELSE IF machine.opencl # "none" THEN "opencl" ELSE "unified"

ParsedMode == IF flags.backend = "auto" THEN resolveAutoBackendMode ELSE flags.backend

ValidateColossusXProductionConfig(b, alloc) ==
  /\ b \in BackendModes
  /\ alloc \in Memories \cup {"auto"}
  /\ b = "cpu" => alloc \notin DeviceMemories
  /\ b = "cuda" => alloc \notin {"opencl-svm", "metal-shared"}
  /\ b = "opencl" => alloc \notin {"cuda-managed", "metal-shared"}
  /\ b = "metal" => alloc \notin {"cuda-managed", "opencl-svm"}
  /\ b = "unified" => alloc = "auto"

\* Explicit memory, or everything there is a context for and the heap at last.
\* The cpu backend has no runtime to ask.
ResolveDAGStrategy(b, alloc) ==
  LET found(mem) == HasContext(b, mem) IN
  IF alloc = "auto"
  THEN SelectSeq(<<"cuda-managed", "opencl-svm", "metal-shared">>, found)
         \o <<"go-heap">>
  ELSE IF alloc \notin DeviceMemories \/ found(alloc) THEN <<alloc>> ELSE <<>>

\* What allocating may come to.
MayFail(mem) == mem \in {"cuda-managed", "opencl-svm", "pinned-host"}
MaySucceed(mem) == mem = "opencl-svm" => HasSVM

\* fallbackMemoryStrategy.Alloc: the first that succeeds.
Allocated(tries) ==
  {tries[i] : i \in {j \in 1..Len(tries) :
     MaySucceed(tries[j]) /\ \A k \in 1..(j - 1) : MayFail(tries[k])}}
AllocationMayFail(tries) == \A i \in 1..Len(tries) : MayFail(tries[i])

autoBenchmarkCandidateModes ==
  (IF machine.device THEN <<"cuda">> ELSE <<>>)
    \o (IF machine.darwin THEN <<"metal">> ELSE <<>>)
    \o (IF machine.opencl # "none" THEN <<"opencl">> ELSE <<>>)
    \o <<"unified">>

daemonCandidates == <<"cuda", "metal", "opencl", "unified", "cpu">>

-----------------------------------------------------------------------------
StartupInit ==
  /\ machine \in Machines
  /\ command \in {"mine", "daemon"}
  /\ flags \in [backend : BackendModes \cup {"auto", "AUTO"},
                alloc : Memories \cup {"auto", "go"}]
  /\ phase = "flags" /\ mode = "none"
  /\ candidates = <<>> /\ best = "none"
  /\ memories = <<>> /\ memory = "none" /\ prepared = "none"

ParsedTo(place, modes) ==
  /\ phase = "flags"
  /\ IF ValidateColossusXProductionConfig(ParsedMode, flags.alloc)
     THEN phase' = place /\ mode' = ParsedMode /\ candidates' = modes
     ELSE phase' = "failed" /\ UNCHANGED <<mode, candidates>>
  /\ UNCHANGED <<machine, command, flags, best, memories, memory, prepared>>

ParseCLIConfig == command = "mine" /\ ParsedTo("runtime", <<>>)

parseDaemonFlags ==
  /\ command = "daemon"
  /\ ParsedTo(IF flags.backend = "auto" THEN "benchmark" ELSE "runtime",
              daemonCandidates)

\* One round of either benchmark: a candidate without runtime, or that cannot
\* be prepared on the DAG, is skipped.
Candidate(dag) ==
  /\ candidates # <<>>
  /\ LET candidate == Head(candidates)
         b == NewBackend(candidate)
     IN  IF InitializeRuntimeSucceeds(b) /\ Prepares(b, dag)
         THEN \/ best' = candidate
              \/ best # "none" /\ UNCHANGED best
         ELSE UNCHANGED best
  /\ candidates' = Tail(candidates)
  /\ UNCHANGED <<machine, command, flags, phase, mode, memories, memory, prepared>>

\* The daemon benchmarks on a small DAG of its own, in the heap.
benchmarkDaemonBackends == phase = "benchmark" /\ Candidate("go-heap")

\* The mine command benchmarks on the DAG that it will hash with.
autoTuneBackend == phase = "tune" /\ Candidate(memory)

\* The daemon makes a new backend of the mode chosen; none is prepared.
DaemonChooses ==
  /\ phase = "benchmark" /\ candidates = <<>>
  /\ IF best = "none"
     THEN phase' = "failed" /\ UNCHANGED mode
     ELSE phase' = "runtime" /\ mode' = best
  /\ UNCHANGED <<machine, command, flags, candidates, best, memories, memory, prepared>>

InitializeBackendRuntime ==
  /\ phase = "runtime"
  /\ phase' = IF InitializeRuntimeSucceeds(NewBackend(mode)) THEN "strategy" ELSE "failed"
  /\ UNCHANGED <<machine, command, flags, mode, candidates, best, memories, memory>>
  /\ UNCHANGED prepared

ResolveStrategy ==
  /\ phase = "strategy"
  /\ memories' = ResolveDAGStrategy(NewBackend(mode), flags.alloc)
  /\ phase' = IF memories' = <<>> THEN "failed"
              ELSE IF command = "daemon" THEN "ready" ELSE "dag"
  /\ UNCHANGED <<machine, command, flags, mode, candidates, best, memory, prepared>>

\* The mine command's DAG, generated in place.
AllocateDAG ==
  /\ phase = "dag"
  /\ \/ \E mem \in Allocated(memories) :
          /\ memory' = mem
          /\ phase' = IF flags.backend = "auto" THEN "tune" ELSE "prepare"
          /\ candidates' = IF flags.backend = "auto"
                           THEN autoBenchmarkCandidateModes ELSE <<>>
     \/ /\ AllocationMayFail(memories)
        /\ phase' = "failed" /\ UNCHANGED <<memory, candidates>>
  /\ UNCHANGED <<machine, command, flags, mode, best, memories, prepared>>

\* The backend that was benchmarked is used, as it was prepared.
Tuned ==
  /\ phase = "tune" /\ candidates = <<>>
  /\ IF best # "none"
     THEN mode' = best /\ prepared' = memory /\ phase' = "hash"
     ELSE phase' = "prepare" /\ UNCHANGED <<mode, prepared>>
  /\ UNCHANGED <<machine, command, flags, candidates, best, memories, memory>>

PrepareDAG ==
  /\ phase = "prepare"
  /\ IF Prepares(NewBackend(mode), memory)
     THEN prepared' = memory /\ phase' = "hash"
     ELSE phase' = "failed" /\ UNCHANGED prepared
  /\ UNCHANGED <<machine, command, flags, mode, candidates, best, memories, memory>>

\* Mine or Benchmark, and the deferred Close of the DAG.
HashAndClose ==
  /\ phase = "hash"
  /\ phase' = "done" /\ memory' = "none"
  /\ UNCHANGED <<machine, command, flags, mode, candidates, best, memories, prepared>>

StartupNext ==
  \/ ParseCLIConfig \/ parseDaemonFlags
  \/ benchmarkDaemonBackends \/ autoTuneBackend \/ DaemonChooses
  \/ InitializeBackendRuntime \/ ResolveStrategy
  \/ AllocateDAG \/ Tuned \/ PrepareDAG \/ HashAndClose
=============================================================================
