------------------------------- MODULE Daemon -------------------------------
(***************************************************************************)
(* The commands and the validator's DAGs together: the daemon hands the    *)
(* backend and the memory that it started with (module Startup) to the     *)
(* validator (module DAGCache).  A program that uses the validator as a    *)
(* library, as validator_test.go does, may hand it an allocator whose      *)
(* memory validations must not share; the daemon's strategies all allow    *)
(* it.                                                                     *)
(***************************************************************************)
EXTENDS Startup, DAGCache

vars == <<startupVars, dagCacheVars>>

Init ==
  /\ StartupInit \/ (phase = "library" /\ machine = "any" /\ command = "library"
                     /\ flags = "none" /\ mode = "cpu" /\ candidates = <<>>
                     /\ best = "none" /\ memories = <<>> /\ memory = "none"
                     /\ prepared = "none")
  /\ CacheInit

\* Of the machine and the flags only what they came to matters from here on.
HandedOver ==
  /\ phase' = "handed over"
  /\ machine' = "any" /\ flags' = "none" /\ mode' = "none" /\ candidates' = <<>>
  /\ best' = "none" /\ memories' = <<>>
  /\ UNCHANGED <<command, memory, prepared>>

\* runDaemon: canValidationReuseMiningDAG holds of every strategy it may have
\* resolved, by its own answer or, of the sequence of them, by the name "auto".
DaemonSetMiningBackend ==
  /\ phase = "ready"
  /\ LET b == NewBackend(mode) IN
     SetMiningBackend([backend |-> b, digest |-> Digest(b),
                       memories |-> Allocated(memories),
                       mayFail |-> AllocationMayFail(memories),
                       able |-> {mem \in Allocated(memories) : Prepares(b, mem)},
                       reuse |-> TRUE])
  /\ HandedOver

LibrarySetMiningBackend ==
  /\ phase = "library"
  /\ \E reuse \in BOOLEAN :
       SetMiningBackend([backend |-> "cpu", digest |-> "host", memories |-> {"custom"},
                         mayFail |-> FALSE, able |-> {"custom"}, reuse |-> reuse])
  /\ HandedOver

Next ==
  \/ StartupNext /\ UNCHANGED dagCacheVars
  \/ DaemonSetMiningBackend
  \/ LibrarySetMiningBackend
  \/ CacheNext /\ UNCHANGED startupVars

Spec == Init /\ [][Next]_vars

-----------------------------------------------------------------------------
(***************************************************************************)
(* Nobody hashes with a backend that was not prepared on the very DAG that *)
(* is mined: the miners' own Prepare is turned off by a wrapper, and the   *)
(* cpu and unified backends read the DAG of their last Prepare, whatever   *)
(* DAG they are given (main.go:208-222, validator.go:280-298, 322-324).    *)
(***************************************************************************)
HashesPrepared ==
  /\ phase = "hash" => prepared = memory
  /\ pc[Miner] = "mine" => view = held[Miner]

(***************************************************************************)
(* "host-reference fallback is forbidden": no digest of the cuda or opencl *)
(* backend is computed on the host, by either command, on any machine      *)
(* (gpu_backend_cuda.go:83-85, gpu_backend_opencl.go:148-152).             *)
(***************************************************************************)
NoHostReference ==
  /\ phase = "hash" /\ NewBackend(mode) \in {"cuda", "opencl"}
       => Digest(NewBackend(mode)) # "host"
  /\ pc[Miner] = "mine" /\ mining.backend \in {"cuda", "opencl"}
       => mining.digest # "host"
=============================================================================
