---------------------------- MODULE DagGeneration ----------------------------
(***************************************************************************)
(* The generation of a DAG (dag.go, dag_colossusx_v2.go): one goroutine    *)
(* splits the cells into chunks and starts a worker for each; the workers  *)
(* write their cells side by side; the first goroutine waits for them.     *)
(* The computation of the memory-hard cell contents is left out: a cell's  *)
(* content is named by the cell's number.                                  *)
(***************************************************************************)
EXTENDS Integers

CONSTANTS
  MaxCells,     \* bound of the number of cells
  MaxWorkers    \* bound of the number of workers

ASSUME GenerationAssumption ==
  MaxCells \in Nat \ {0} /\ MaxWorkers \in Nat \ {0}

VARIABLES
  nodeCount,    \* cells of the DAG
  workers,      \* workers asked for
  dag,          \* the cells
  done,         \* the counter behind the progress messages
  w,            \* the loop variable of the starting goroutine
  next, until,  \* started worker -> its next cell, and the end of its chunk
  generated

dagVars == <<nodeCount, workers, dag, done, w, next, until, generated>>

Blank == -1
CellContent(i) == i

Cells == 0..(nodeCount - 1)
chunk == IF nodeCount < workers THEN 1 ELSE nodeCount \div workers
from == w * chunk

GenerationInit(n, asked) ==
  /\ nodeCount = n /\ workers = asked
  /\ dag = [i \in 0..(n - 1) |-> Blank]
  /\ done = 0 /\ w = 0
  /\ next = <<>> /\ until = <<>>
  /\ generated = FALSE

\* Mutant: every worker stops after one chunk.
EvenTo == from + chunk

\* The last worker takes the rest.
to == IF w = workers - 1 \/ from + chunk > nodeCount THEN nodeCount ELSE from + chunk

StartWorker ==
  /\ w < workers /\ from < nodeCount
  /\ next' = [v \in 0..w |-> IF v = w THEN from ELSE next[v]]
  /\ until' = [v \in 0..w |-> IF v = w THEN to ELSE until[v]]
  /\ w' = w + 1
  /\ UNCHANGED <<nodeCount, workers, dag, done, generated>>

\* One cell is written, and counted.
WriteCell(v) ==
  /\ v \in DOMAIN next /\ next[v] < until[v]
  /\ dag' = [dag EXCEPT ![next[v]] = CellContent(next[v])]
  /\ done' = done + 1
  /\ next' = [next EXCEPT ![v] = @ + 1]
  /\ UNCHANGED <<nodeCount, workers, w, until, generated>>

\* wg.Wait, after all were started or no cell was left for another.
Wait ==
  /\ ~generated
  /\ w = workers \/ from >= nodeCount
  /\ \A v \in DOMAIN next : next[v] = until[v]
  /\ generated' = TRUE
  /\ UNCHANGED <<nodeCount, workers, dag, done, w, next, until>>

GenerationNext ==
  \/ StartWorker
  \/ \E v \in 0..(MaxWorkers - 1) : WriteCell(v)
  \/ Wait

-----------------------------------------------------------------------------
(***************************************************************************)
(* Whatever the numbers of cells and of workers, every cell of a generated *)
(* DAG is written, with the content that every other node computes for it, *)
(* and no cell is written twice: the counter ends at the number of cells   *)
(* (dag.go:134-171, dag_colossusx_v2.go:90-123).                           *)
(***************************************************************************)
EveryCellOnce ==
  generated => done = nodeCount /\ \A i \in Cells : dag[i] = CellContent(i)
=============================================================================
