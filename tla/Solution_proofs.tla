--------------------------- MODULE Solution_proofs ---------------------------
(***************************************************************************)
(* Proofs about the generation of a DAG, its Merkle roots and proofs, and  *)
(* the solutions that are sealed with them and checked, for every number   *)
(* of cells and of workers, whatever cells the hashes name.                *)
(***************************************************************************)
EXTENDS Solution, TLAPS, FiniteSetTheorems, WellFoundedInduction

-----------------------------------------------------------------------------
(***************************************************************************)
(* Generation.  A started worker's cells are those from its number times   *)
(* the chunk to its end; what it has written is what lies before its next. *)
(***************************************************************************)
GenTyped ==
  /\ nodeCount \in Nat \ {0} /\ workers \in Nat \ {0} /\ w \in 0..workers
  /\ dag \in [0..(nodeCount - 1) -> Int]
  /\ done \in Nat /\ generated \in BOOLEAN
  /\ DOMAIN next = 0..(w - 1) /\ DOMAIN until = 0..(w - 1)

Start(v) == v * chunk

Chunks ==
  \A v \in 0..(w - 1) :
    /\ until[v] \in 0..nodeCount
    /\ next[v] \in Start(v)..until[v]
    /\ v # workers - 1 => until[v] <= Start(v + 1)

Covered ==
  \A i \in Cells :
    i < Start(w) \/ w = workers => \E v \in 0..(w - 1) : i \in Start(v)..(until[v] - 1)

Written == {i \in Cells : dag[i] # Blank}

Writes ==
  /\ \A i \in Cells :
       i \in Written <=> \E v \in 0..(w - 1) : i \in Start(v)..(next[v] - 1)
  /\ \A i \in Written : dag[i] = CellContent(i)
  /\ done = Cardinality(Written)

Finished ==
  generated => /\ w = workers \/ from >= nodeCount
               /\ \A v \in 0..(w - 1) : next[v] = until[v]

GenInv == GenTyped /\ Chunks /\ Covered /\ Writes /\ Finished

LEMMA ChunkIsPositive ==
  ASSUME GenTyped
  PROVE  chunk \in Nat \ {0}
<1>1. ASSUME NEW n \in Nat, NEW k \in Nat \ {0}, n >= k
      PROVE  n \div k \in Nat \ {0}
  BY <1>1, Z3
<1> QED
  BY <1>1 DEF GenTyped, chunk

LEMMA StartsAscend ==
  ASSUME GenTyped, NEW u \in Nat, NEW v \in Nat
  PROVE  /\ Start(u) \in Nat
         /\ Start(u + 1) = Start(u) + chunk
         /\ u <= v => Start(u) <= Start(v)
<1>1. chunk \in Nat
  BY ChunkIsPositive
<1>2. ASSUME NEW c \in Nat
      PROVE  /\ u * c \in Nat /\ (u + 1) * c = u * c + c
             /\ u <= v => u * c <= v * c
  <2>1. u * c \in Nat /\ v * c \in Nat /\ (u + 1) * c = u * c + c
    BY Z3
  <2>2. ASSUME u <= v PROVE u * c <= v * c
    <3>1. (v - u) \in Nat /\ (v - u) * c \in Nat
      BY <2>2, Z3
    <3>2. v * c = u * c + (v - u) * c
      BY Z3
    <3> QED
      BY <2>1, <3>1, <3>2
  <2> QED
    BY <2>1, <2>2
<1> QED
  BY <1>1, <1>2 DEF Start

\* Chunks of two workers have no cell in common.
LEMMA ChunksApart ==
  ASSUME GenTyped, Chunks, NEW u \in 0..(w - 1), NEW v \in 0..(w - 1), u < v
  PROVE  until[u] <= Start(v)
<1>1. u # workers - 1 /\ u + 1 <= v /\ u \in Nat /\ v \in Nat
  BY DEF GenTyped
<1>2. until[u] <= Start(u + 1) /\ until[u] \in Nat
  BY <1>1 DEF Chunks, GenTyped
<1>3. Start(u + 1) <= Start(v) /\ Start(u + 1) \in Nat /\ Start(v) \in Nat
  BY <1>1, StartsAscend
<1> QED
  BY <1>2, <1>3

LEMMA StartWorkerPreserves ==
  ASSUME GenInv, StartWorker
  PROVE  GenInv'
<1>1. /\ nodeCount \in Nat \ {0} /\ workers \in Nat \ {0} /\ w \in Nat
      /\ w < workers /\ w' = w + 1
      /\ UNCHANGED <<nodeCount, workers, dag, done, generated>>
  BY DEF GenInv, GenTyped, StartWorker
<1>2. chunk' = chunk /\ \A v : Start(v)' = Start(v)
  BY <1>1 DEF chunk, Start
<1>3. /\ Start(w) \in Nat /\ Start(w + 1) \in Nat /\ Start(w + 1) = Start(w) + chunk
      /\ chunk \in Nat \ {0} /\ from = Start(w)
  <2>1. from = Start(w)
    BY DEF from, Start
  <2> QED
    BY <1>1, <2>1, StartsAscend, ChunkIsPositive DEF GenInv
<1>4. /\ DOMAIN next' = 0..w /\ DOMAIN until' = 0..w
      /\ \A v \in 0..(w - 1) : next'[v] = next[v] /\ until'[v] = until[v]
      /\ next'[w] = Start(w) /\ until'[w] = to
  BY <1>1, <1>3 DEF StartWorker
<1>5. /\ to \in Start(w)..nodeCount
      /\ w # workers - 1 => to <= Start(w + 1)
      /\ \A i \in Cells : i < Start(w + 1) \/ w = workers - 1 => i < to
  BY <1>1, <1>3 DEF to, StartWorker, Cells
<1>6. 0..(w' - 1) = 0..w /\ \A v \in 0..w : v \in 0..(w - 1) \/ v = w
  BY <1>1
<1>7. GenTyped'
  BY <1>1, <1>4, <1>6 DEF GenInv, GenTyped
<1>8. Chunks'
  <2> SUFFICES ASSUME NEW v \in 0..w
               PROVE  /\ until'[v] \in 0..nodeCount
                      /\ next'[v] \in Start(v)..until'[v]
                      /\ v # workers - 1 => until'[v] <= Start(v + 1)
    BY <1>1, <1>2, <1>6 DEF Chunks
  <2>1. CASE v = w
    BY <1>1, <1>3, <1>4, <1>5, <2>1
  <2>2. CASE v \in 0..(w - 1)
    BY <1>4, <2>2 DEF GenInv, Chunks
  <2> QED
    BY <1>6, <2>1, <2>2
<1>9. Covered'
  <2> SUFFICES ASSUME NEW i \in Cells, i < Start(w + 1) \/ w + 1 = workers
               PROVE  \E v \in 0..w : i \in Start(v)..(until'[v] - 1)
    BY <1>1, <1>2, <1>6 DEF Covered, Cells
  <2>1. CASE i < Start(w)
    <3> PICK v \in 0..(w - 1) : i \in Start(v)..(until[v] - 1)
      BY <2>1 DEF GenInv, Covered
    <3> QED
      BY <1>1, <1>4
  <2>2. CASE i >= Start(w)
    <3>1. i \in Start(w)..(until'[w] - 1)
      BY <1>1, <1>3, <1>4, <1>5, <2>2 DEF Cells
    <3> QED
      BY <1>1, <3>1
  <2> QED
    BY <1>1, <1>3, <2>1, <2>2 DEF Cells
<1>10. Writes'
  <2>1. Start(w)..(next'[w] - 1) = {}
    BY <1>3, <1>4
  <2>2. Written' = Written /\ Cells' = Cells
    BY <1>1 DEF Written, Cells, Blank
  <2>3. ASSUME NEW i \in Cells
        PROVE  i \in Written <=> \E v \in 0..w : i \in Start(v)..(next'[v] - 1)
    BY <1>1, <1>4, <1>6, <2>1 DEF GenInv, Writes
  <2> QED
    BY <1>1, <1>2, <1>6, <2>2, <2>3 DEF GenInv, Writes, CellContent
<1>11. Finished'
  BY <1>1, <1>3 DEF GenInv, Finished, StartWorker, from
<1> QED
  BY <1>7, <1>8, <1>9, <1>10, <1>11 DEF GenInv

LEMMA WriteCellPreserves ==
  ASSUME GenInv, NEW u, WriteCell(u)
  PROVE  GenInv'
<1>1. /\ nodeCount \in Nat \ {0} /\ workers \in Nat \ {0} /\ w \in Nat
      /\ u \in 0..(w - 1)
      /\ UNCHANGED <<nodeCount, workers, w, until, generated>>
  BY DEF GenInv, GenTyped, WriteCell
<1>2. chunk' = chunk /\ \A v : Start(v)' = Start(v)
  BY <1>1 DEF chunk, Start
<1>3. /\ \A v \in 0..(w - 1) : Start(v) \in Nat /\ next[v] \in Start(v)..until[v]
                               /\ until[v] \in 0..nodeCount
  BY <1>1, StartsAscend DEF GenInv, Chunks
<1> PICK c : c = next[u]
  OBVIOUS
<1>4. c \in Cells /\ c \in Start(u)..(until[u] - 1)
  BY <1>1, <1>3 DEF WriteCell, Cells
<1>5. /\ DOMAIN next' = DOMAIN next /\ next'[u] = c + 1
      /\ \A v \in 0..(w - 1) : v # u => next'[v] = next[v]
      /\ dag' = [dag EXCEPT ![c] = c] /\ done' = done + 1
  BY <1>1 DEF GenInv, GenTyped, WriteCell, CellContent
<1>6. GenTyped'
  BY <1>1, <1>4, <1>5 DEF GenInv, GenTyped, Cells
<1>7. Chunks'
  BY <1>1, <1>2, <1>3, <1>4, <1>5 DEF GenInv, Chunks
<1>8. Covered'
  BY <1>1, <1>2 DEF GenInv, Covered, Cells
<1>9. ASSUME NEW v \in 0..(w - 1), c \in Start(v)..(next[v] - 1)
      PROVE  FALSE
  <2>1. CASE u = v
    BY <1>3, <1>4, <1>9, <2>1
  <2>2. CASE u < v
    BY <1>1, <1>3, <1>4, <1>9, <2>2, ChunksApart DEF GenInv
  <2>3. CASE v < u
    BY <1>1, <1>3, <1>4, <1>9, <2>3, ChunksApart DEF GenInv
  <2> QED
    BY <1>1, <2>1, <2>2, <2>3
<1>10. c \notin Written
  BY <1>4, <1>9 DEF GenInv, Writes
<1>11. Written' = Written \cup {c}
  BY <1>1, <1>4, <1>5 DEF GenInv, GenTyped, Written, Cells, Blank
<1>12. Writes'
  <2>1. done' = Cardinality(Written')
    <3>1. IsFiniteSet(Cells) /\ Written \in SUBSET Cells
      BY <1>1, FS_Interval DEF Cells, Written
    <3>2. IsFiniteSet(Written)
      BY <3>1, FS_Subset
    <3> QED
      BY <1>5, <1>10, <1>11, <3>2, FS_AddElement DEF GenInv, Writes
  <2>2. \A i \in Cells : i \in Written' <=> \E v \in 0..(w - 1) : i \in Start(v)..(next'[v] - 1)
    <3> SUFFICES ASSUME NEW i \in Cells
                 PROVE  i \in Written' <=> \E v \in 0..(w - 1) : i \in Start(v)..(next'[v] - 1)
      OBVIOUS
    <3>1. i \in Written <=> \E v \in 0..(w - 1) : i \in Start(v)..(next[v] - 1)
      BY DEF GenInv, Writes
    <3>2. \A v \in 0..(w - 1) :
            i \in Start(v)..(next'[v] - 1) <=>
              i \in Start(v)..(next[v] - 1) \/ (v = u /\ i = c)
      BY <1>1, <1>3, <1>4, <1>5 DEF Cells
    <3> QED
      BY <1>1, <1>11, <3>1, <3>2
  <2>3. \A i \in Written' : dag'[i] = CellContent(i)
    <3>1. \A i \in Written : dag[i] = i /\ i # c /\ i \in DOMAIN dag
      BY <1>10 DEF GenInv, GenTyped, Writes, CellContent, Written, Cells
    <3>2. c \in DOMAIN dag
      BY <1>4 DEF GenInv, GenTyped, Cells
    <3> QED
      BY <1>5, <1>11, <3>1, <3>2 DEF CellContent
  <2> QED
    BY <1>1, <1>2, <2>1, <2>2, <2>3 DEF Writes, Cells, CellContent
<1>13. ~generated
  BY <1>1, <1>3 DEF GenInv, Finished, WriteCell
<1>14. Finished'
  BY <1>1, <1>13 DEF Finished
<1> QED
  BY <1>6, <1>7, <1>8, <1>12, <1>14 DEF GenInv

LEMMA WaitPreserves ==
  ASSUME GenInv, Wait
  PROVE  GenInv'
<1>1. UNCHANGED <<nodeCount, workers, dag, done, w, next, until>>
  BY DEF Wait
<1>2. chunk' = chunk /\ \A v : Start(v)' = Start(v)
  BY <1>1 DEF chunk, Start
<1>3. GenTyped' /\ Chunks' /\ Covered' /\ Writes'
  <2>1. GenTyped'
    BY <1>1 DEF GenInv, GenTyped, Wait
  <2>2. Chunks' /\ Covered'
    BY <1>1, <1>2 DEF GenInv, Chunks, Covered, Cells
  <2>3. Writes'
    BY <1>1, <1>2 DEF GenInv, Writes, Written, Cells, Blank, CellContent
  <2> QED
    BY <2>1, <2>2, <2>3
<1>4. Finished'
  BY <1>1, <1>2 DEF GenInv, GenTyped, Finished, Wait, from
<1> QED
  BY <1>3, <1>4 DEF GenInv

LEMMA GenKept ==
  ASSUME GenInv, UNCHANGED dagVars
  PROVE  GenInv'
<1>1. chunk' = chunk /\ \A v : Start(v)' = Start(v)
  BY DEF chunk, Start, dagVars
<1> QED
  BY <1>1 DEF GenInv, GenTyped, Chunks, Covered, Writes, Written, Finished, Cells, Blank,
              CellContent, from, dagVars

LEMMA AllWritten ==
  ASSUME GenInv, generated
  PROVE  Written = Cells
<1>1. /\ nodeCount \in Nat \ {0}
      /\ w = workers \/ from >= nodeCount
      /\ \A v \in 0..(w - 1) : next[v] = until[v]
  BY DEF GenInv, GenTyped, Finished
<1>2. from = Start(w) /\ Start(w) \in Nat
  <2>1. from = Start(w) /\ w \in Nat
    BY DEF GenInv, GenTyped, from, Start
  <2> QED
    BY <2>1, StartsAscend DEF GenInv
<1>3. ASSUME NEW i \in Cells
      PROVE  i \in Written
  <2>1. i < Start(w) \/ w = workers
    <3>1. i \in 0..(nodeCount - 1)
      BY DEF Cells
    <3> QED
      BY <1>1, <1>2, <3>1
  <2> PICK v \in 0..(w - 1) : i \in Start(v)..(until[v] - 1)
    BY <2>1 DEF GenInv, Covered
  <2> QED
    BY <1>1 DEF GenInv, Writes
<1> QED
  BY <1>3 DEF Written

LEMMA OnceEach ==
  ASSUME GenInv
  PROVE  EveryCellOnce
<1> SUFFICES ASSUME generated
             PROVE  done = nodeCount /\ \A i \in Cells : dag[i] = CellContent(i)
  BY DEF EveryCellOnce
<1>1. Cardinality(Cells) = nodeCount
  <2>1. 0 \in Int /\ nodeCount - 1 \in Int /\ nodeCount \in Nat \ {0}
    BY DEF GenInv, GenTyped
  <2> QED
    BY <2>1, FS_Interval DEF Cells
<1> QED
  BY <1>1, AllWritten DEF GenInv, Writes

-----------------------------------------------------------------------------
(***************************************************************************)
(* The tree, level by level: each level's nodes are the hashes of pairs of *)
(* the level below, up to one that has a single node.                      *)
(***************************************************************************)
Shape ==
  stage # "dag" =>
    /\ generated
    /\ top \in Nat /\ DOMAIN levels = 0..top
    /\ \A l \in 0..top : Size(l) \in Nat \ {0}
    /\ Size(0) = nodeCount
    /\ \A i \in 0..(nodeCount - 1) : TreeNode(0, i) = Leaf(dag[i])
    /\ \A l \in 0..(top - 1) :
         /\ Size(l) > 1 /\ Size(l + 1) = (Size(l) + 1) \div 2
         /\ \A k \in 0..(Size(l + 1) - 1) :
              TreeNode(l + 1, k) =
                hashPair(TreeNode(l, 2 * k),
                         TreeNode(l, IF 2 * k + 1 < Size(l) THEN 2 * k + 1 ELSE 2 * k))
    /\ stage # "levels" => Size(top) = 1

Early == {"dag", "levels", "counts", "wanted"}
Late == {"leaves", "fold", "complete", "built"}

Counts ==
  /\ levelCounts \in Seq(Nat) /\ Len(levelCounts) >= 1
  /\ stage \in {"dag", "levels"} => Len(levelCounts) = 1 /\ levelCounts[1] = nodeCount
  /\ stage # "dag" => \A l \in 0..Depth : l <= top /\ Count(l) = Size(l)
  /\ stage \notin {"dag", "levels", "counts"} => Depth = top

Unused ==
  /\ stage \in Early => read = 0 /\ at = -1 /\ level = 0
  /\ stage \in Early \cup {"leaves"} => level = 0 /\ ~hasAcc
  /\ stage = "dag" => top = 0

\* The level from which the loops still work; what lies below is complete.
Base == IF stage \in {"complete", "built"} THEN level ELSE 0

\* A node of level l has been made, and not yet been emitted.
Held(l) == IF at = l THEN 1 ELSE 0

EmitTyped ==
  /\ read \in 0..nodeCount
  /\ nextIndex \in [0..Depth -> Nat]
  /\ hasPending \in [0..Depth -> BOOLEAN]
  /\ DOMAIN pending = 0..Depth
  /\ at \in {-1} \cup 0..Depth
  /\ level \in 0..(Depth + 1)

\* The numbers of nodes emitted are those of a binary counter, and the nodes
\* are those of the tree.
Emits ==
  /\ at >= 0 => /\ at >= Base /\ nextIndex[at] < Size(at)
                /\ hash = TreeNode(at, nextIndex[at])
  /\ \A l \in Base..Depth :
       /\ hasPending[l] <=> nextIndex[l] % 2 = 1
       /\ hasPending[l] => pending[l] = TreeNode(l, nextIndex[l] - 1)
  /\ \A l \in Base..(Depth - 1) : nextIndex[l + 1] = nextIndex[l] \div 2 - Held(l + 1)

EmitStage ==
  /\ stage = "leaves" => nextIndex[0] = read - Held(0)
  /\ stage = "fold" => at = -1 /\ nextIndex[0] = nodeCount
  /\ stage \in {"complete", "built"} =>
       level <= Depth /\ nextIndex[level] = Size(level) - Held(level)
  /\ stage = "built" => level = Depth /\ at = -1

\* The fold has the last node of its level, or there is none that is not among
\* those emitted.
FoldInv ==
  stage = "fold" =>
    /\ ~hasAcc => level <= Depth /\ Size(level) = nextIndex[level]
    /\ hasAcc => /\ accLevel \in 0..Depth /\ accLevel <= level
                 /\ acc = TreeNode(accLevel, Size(accLevel) - 1)
                 /\ \A m \in accLevel..(level - 1) : m <= Depth => Size(m) % 2 = 1
                 /\ level <= Depth => Size(level) = nextIndex[level] + 1
                 /\ level >= Depth => accLevel = Depth

RootInv ==
  stage \in {"complete", "built"} => hasAcc /\ acc = TreeNode(top, 0)

MerkleInv ==
  /\ stage \in Early \cup Late
  /\ hasAcc \in BOOLEAN
  /\ Shape /\ Counts /\ Unused
  /\ stage \in Late => EmitTyped /\ Emits /\ EmitStage
  /\ FoldInv /\ RootInv

IInv == GenInv /\ MerkleInv

\* The DAG is not generated while a worker can still move.
LEMMA StillGenerating ==
  ASSUME GenInv, GenerationNext
  PROVE  ~generated
<1>1. CASE StartWorker
  <2>1. w \in Nat /\ w < workers /\ workers \in Nat /\ from < nodeCount /\ nodeCount \in Nat
    BY <1>1 DEF GenInv, GenTyped, StartWorker
  <2>2. from \in Nat
    BY <2>1, StartsAscend DEF GenInv, from, Start
  <2> QED
    BY <2>1, <2>2 DEF GenInv, Finished
<1>2. ASSUME NEW v, WriteCell(v) PROVE ~generated
  BY <1>2 DEF GenInv, GenTyped, Chunks, Finished, WriteCell
<1> QED
  BY <1>1, <1>2 DEF GenerationNext, Wait

LEMMA GenerationKeeps ==
  ASSUME IInv, GenerationNext,
         UNCHANGED <<levels, top, levelCounts, stage, read, emitVars, level, foldVars>>
  PROVE  IInv'
<1>1. GenInv'
  BY StartWorkerPreserves, WriteCellPreserves, WaitPreserves DEF IInv, GenerationNext
<1>2. ~generated
  BY StillGenerating DEF IInv
<1>3. stage = "dag"
  BY <1>2 DEF IInv, MerkleInv, Shape
<1>4. nodeCount' = nodeCount
  BY DEF GenerationNext, StartWorker, WriteCell, Wait
<1>5. Shape' /\ Counts' /\ Unused'
  BY <1>3, <1>4 DEF IInv, MerkleInv, Shape, Counts, Unused, emitVars, foldVars, Early
<1>6. FoldInv' /\ RootInv' /\ stage' \notin Late
  BY <1>3 DEF FoldInv, RootInv, Late
<1> QED
  BY <1>1, <1>5, <1>6 DEF IInv, MerkleInv, foldVars

-----------------------------------------------------------------------------
(***************************************************************************)
(* The tree in memory, and the sizes of its levels.                        *)
(***************************************************************************)
LEMMA ShapeKept ==
  ASSUME Shape, UNCHANGED <<dagVars, levels, top>>,
         stage \notin {"dag", "levels"}, stage' \notin {"dag", "levels"}
  PROVE  Shape'
BY DEF Shape, Size, TreeNode, Leaf, dagVars

\* The steps of the stages before the cells are read.
LEMMA EarlySteps ==
  ASSUME IInv, stage \in Early, stage' \in Early,
         UNCHANGED <<dagVars, read, emitVars, level, foldVars>>,
         stage' # "dag", Shape', Counts'
  PROVE  IInv'
<1>1. GenInv'
  BY GenKept DEF IInv
<1>2. Unused'
  BY DEF IInv, MerkleInv, Unused, emitVars, foldVars
<1>3. FoldInv' /\ RootInv' /\ stage' \notin Late
  BY DEF FoldInv, RootInv, Late, Early
<1> QED
  BY <1>1, <1>2, <1>3 DEF IInv, MerkleInv, foldVars

LEMMA LeavesPreserve ==
  ASSUME IInv, BuildMerkleLeaves
  PROVE  IInv'
<1>1. /\ top = 0 /\ top' = 0 /\ stage = "dag" /\ stage' = "levels" /\ generated
      /\ UNCHANGED <<dagVars, levelCounts>> /\ nodeCount' = nodeCount /\ dag' = dag
      /\ nodeCount \in Nat \ {0} /\ generated' = generated
  BY DEF IInv, GenInv, GenTyped, MerkleInv, Unused, BuildMerkleLeaves, dagVars
<1>2. /\ DOMAIN levels' = {0}
      /\ levels'[0].size = nodeCount
      /\ levels'[0].node = [i \in Cells |-> Leaf(dag[i])]
  BY DEF BuildMerkleLeaves
<1>3. 0..0 = {0} /\ 0..(0 - 1) = {}
  OBVIOUS
<1>4. Shape'
  BY <1>1, <1>2, <1>3 DEF Shape, Size, TreeNode, Leaf, Cells
<1>5. Counts'
  <2>1. Len(levelCounts) = 1 /\ levelCounts[1] = nodeCount /\ Depth = 0 /\ Depth' = 0
    BY <1>1 DEF IInv, MerkleInv, Counts, Depth
  <2> QED
    BY <1>1, <1>2, <1>3, <2>1 DEF IInv, MerkleInv, Counts, Count, Size
<1> QED
  BY <1>1, <1>4, <1>5, EarlySteps DEF BuildMerkleLeaves, Early

LEMMA NextLevelPreserves ==
  ASSUME IInv, NextLevel
  PROVE  IInv'
<1>1. /\ stage = "levels" /\ UNCHANGED <<dagVars, levelCounts>>
      /\ nodeCount' = nodeCount /\ dag' = dag /\ generated' = generated
  BY DEF NextLevel, dagVars
<1>2. Shape /\ top \in Nat /\ Size(top) \in Nat \ {0} /\ DOMAIN levels = 0..top /\ generated
  BY <1>1 DEF IInv, MerkleInv, Shape
<1> PICK t : t = top
  OBVIOUS
<1>3. CASE Size(top) > 1
  <2>1. /\ top' = top + 1 /\ stage' = "levels" /\ DOMAIN levels' = 0..(top + 1)
        /\ \A l \in 0..top : levels'[l] = levels[l]
        /\ levels'[top + 1] = Above(levels[top])
    BY <1>1, <1>2, <1>3 DEF NextLevel
  <2> DEFINE size == (Size(top) + 1) \div 2
  <2>2. /\ levels'[top + 1].size = size
        /\ \A k \in 0..(size - 1) :
             levels'[top + 1].node[k] =
               hashPair(TreeNode(top, 2 * k),
                        TreeNode(top, IF 2 * k + 1 < Size(top) THEN 2 * k + 1 ELSE 2 * k))
    BY <2>1 DEF Above, Size, TreeNode
  <2>3. size \in Nat \ {0}
    BY <1>2
  <2>4. Shape'
    <3>1. \A l \in 0..t : Size(l)' = Size(l) /\ \A i : TreeNode(l, i)' = TreeNode(l, i)
      BY <2>1 DEF Size, TreeNode
    <3>2. /\ Size(t + 1)' = size
          /\ \A k : TreeNode(t + 1, k)' = levels'[t + 1].node[k]
      BY <2>2 DEF Size, TreeNode
    <3>3. 0..(top' - 1) = 0..t /\ \A l \in 0..top' : l \in 0..t \/ l = t + 1
      BY <1>2, <2>1
    <3>4. \A l \in 0..top' : Size(l)' \in Nat \ {0}
      BY <1>1, <1>2, <2>3, <3>1, <3>2, <3>3 DEF Shape
    <3>5. /\ Size(0)' = nodeCount
          /\ \A i \in 0..(nodeCount - 1) : TreeNode(0, i)' = Leaf(dag[i])
      BY <1>1, <1>2, <3>1 DEF Shape
    <3>6. ASSUME NEW l \in 0..t
          PROVE  /\ Size(l)' > 1 /\ Size(l + 1)' = (Size(l)' + 1) \div 2
                 /\ \A k \in 0..(Size(l + 1)' - 1) :
                      TreeNode(l + 1, k)' =
                        hashPair(TreeNode(l, 2 * k)',
                                 TreeNode(l, IF 2 * k + 1 < Size(l) THEN 2 * k + 1 ELSE 2 * k)')
      <4>1. CASE l = t
        BY <1>3, <2>2, <3>1, <3>2, <4>1
      <4>2. CASE l # t
        <5>1. l \in 0..(t - 1) /\ l + 1 \in 0..t
          BY <1>2, <4>2
        <5> QED
          BY <1>1, <1>2, <3>1, <5>1 DEF Shape
      <4> QED
        BY <4>1, <4>2
    <3>7. \A l \in 0..(top' - 1) :
            /\ Size(l)' > 1 /\ Size(l + 1)' = (Size(l)' + 1) \div 2
            /\ \A k \in 0..(Size(l + 1)' - 1) :
                 TreeNode(l + 1, k)' =
                   hashPair(TreeNode(l, 2 * k),
                            TreeNode(l, IF 2 * k + 1 < Size(l) THEN 2 * k + 1 ELSE 2 * k))'
      BY <3>1, <3>3, <3>6 DEF hashPair
    <3> QED
      BY <1>1, <1>2, <2>1, <3>4, <3>5, <3>7 DEF Shape, Leaf
  <2>5. Counts'
    <3>1. Len(levelCounts) = 1 /\ levelCounts[1] = Size(0)
      BY <1>1 DEF IInv, MerkleInv, Counts, Shape
    <3>2. \A l \in 0..Depth : l = 0
      BY <3>1 DEF Depth
    <3>3. Size(0)' = Size(0)
      BY <1>2, <2>1 DEF Size
    <3> QED
      BY <1>1, <1>2, <2>1, <3>1, <3>2, <3>3 DEF IInv, MerkleInv, Counts, Depth, Count
  <2> QED
    BY <1>1, <2>1, <2>4, <2>5, EarlySteps DEF NextLevel, Early
<1>4. CASE ~(Size(top) > 1)
  <2>1. stage' = "counts" /\ UNCHANGED <<levels, top>>
    BY <1>1, <1>4 DEF NextLevel
  <2>2. Size(top) = 1
    BY <1>2, <1>4
  <2>3. Shape'
    BY <1>1, <1>2, <2>1, <2>2 DEF Shape, Size, TreeNode, Leaf
  <2>4. Counts'
    BY <1>1, <2>1 DEF IInv, MerkleInv, Counts, Depth, Count, Size
  <2> QED
    BY <1>1, <2>1, <2>3, <2>4, EarlySteps DEF NextLevel, Early
<1> QED
  BY <1>3, <1>4

LEMMA NextCountPreserves ==
  ASSUME IInv, NextCount
  PROVE  IInv'
<1>1. /\ stage = "counts" /\ UNCHANGED <<dagVars, levels, top>>
      /\ stage' \in {"counts", "wanted"}
  BY DEF NextCount
<1>2. Shape'
  BY <1>1, ShapeKept DEF IInv, MerkleInv
<1>3. /\ levelCounts \in Seq(Nat) /\ Len(levelCounts) >= 1 /\ Depth \in 0..top
      /\ \A l \in 0..Depth : l <= top /\ Count(l) = Size(l)
      /\ top \in Nat
  BY <1>1 DEF IInv, MerkleInv, Counts, Shape, Depth
<1>4. CASE Count(Depth) > 1
  <2>1. Depth < top
    BY <1>1, <1>3, <1>4 DEF IInv, MerkleInv, Shape
  <2>2. Size(Depth + 1) = (Size(Depth) + 1) \div 2 /\ Size(Depth) \in Nat
    BY <1>1, <1>3, <2>1 DEF IInv, MerkleInv, Shape
  <2>3. Size(Depth + 1) \in Nat
    BY <2>2
  <2>4. levelCounts' = Append(levelCounts, Size(Depth + 1)) /\ stage' = "counts"
    BY <1>1, <1>3, <1>4, <2>2 DEF NextCount
  <2>5. Depth' = Depth + 1
    BY <1>3, <2>4 DEF Depth
  <2>6. \A l \in 0..(Depth + 1) : l <= top /\ Count(l)' = Size(l)
    BY <1>3, <2>1, <2>4 DEF Count, Depth
  <2>7. Counts'
    <3>1. levelCounts' \in Seq(Nat) /\ Len(levelCounts') >= 1
      BY <1>3, <2>3, <2>4
    <3> QED
      BY <1>1, <2>4, <2>5, <2>6, <3>1 DEF Counts, Size
  <2> QED
    BY <1>1, <1>2, <2>4, <2>7, EarlySteps DEF NextCount, Early
<1>5. CASE ~(Count(Depth) > 1)
  <2>1. levelCounts' = levelCounts /\ stage' = "wanted"
    BY <1>1, <1>5 DEF NextCount
  <2>2. Depth = top
    BY <1>1, <1>3, <1>5 DEF IInv, MerkleInv, Shape
  <2>3. Counts'
    BY <1>1, <1>3, <2>1, <2>2 DEF Counts, Depth, Count, Size
  <2> QED
    BY <1>1, <1>2, <2>1, <2>3, EarlySteps DEF NextCount, Early
<1> QED
  BY <1>4, <1>5

-----------------------------------------------------------------------------
(***************************************************************************)
(* The streams.  What they may use of the tree:                            *)
(***************************************************************************)
LEMMA Tree ==
  ASSUME IInv, stage \notin {"dag", "levels", "counts"}
  PROVE  /\ Depth = top /\ Depth \in Nat /\ nodeCount \in Nat \ {0}
         /\ \A l \in 0..Depth : Size(l) \in Nat \ {0}
         /\ Size(0) = nodeCount /\ Size(Depth) = 1
         /\ \A i \in 0..(nodeCount - 1) : TreeNode(0, i) = Leaf(dag[i])
         /\ \A l \in 0..Depth : Size(l) > 1 => l < Depth
         /\ \A l \in 0..(Depth - 1) : Size(l) > 1 /\ Size(l + 1) = (Size(l) + 1) \div 2
<1>1. /\ Depth = top /\ top \in Nat /\ nodeCount \in Nat \ {0}
      /\ \A l \in 0..top : Size(l) \in Nat \ {0}
      /\ Size(0) = nodeCount /\ Size(top) = 1
      /\ \A i \in 0..(nodeCount - 1) : TreeNode(0, i) = Leaf(dag[i])
      /\ \A l \in 0..(top - 1) : Size(l) > 1 /\ Size(l + 1) = (Size(l) + 1) \div 2
  BY DEF IInv, GenInv, GenTyped, MerkleInv, Shape, Counts
<1>2. \A l \in 0..top : Size(l) > 1 => l < top
  BY <1>1
<1> QED
  BY <1>1, <1>2

LEMMA Pairs ==
  ASSUME IInv, stage \notin {"dag", "levels", "counts"},
         NEW l \in 0..(Depth - 1), NEW k \in Nat
  PROVE  /\ 2 * k + 1 < Size(l) =>
              TreeNode(l + 1, k) = hashPair(TreeNode(l, 2 * k), TreeNode(l, 2 * k + 1))
         /\ 2 * k + 1 = Size(l) =>
              TreeNode(l + 1, k) = hashPair(TreeNode(l, 2 * k), TreeNode(l, 2 * k))
<1>1. Size(l) \in Nat \ {0} /\ Size(l + 1) = (Size(l) + 1) \div 2 /\ Depth = top
  BY Tree
<1>2. 2 * k + 1 <= Size(l) => k \in 0..(Size(l + 1) - 1)
  BY <1>1
<1>3. \A i \in 0..(Size(l + 1) - 1) :
        TreeNode(l + 1, i) =
          hashPair(TreeNode(l, 2 * i),
                   TreeNode(l, IF 2 * i + 1 < Size(l) THEN 2 * i + 1 ELSE 2 * i))
  BY <1>1 DEF IInv, MerkleInv, Shape
<1> QED
  BY <1>1, <1>2, <1>3

LEMMA LateKept ==
  ASSUME IInv, stage \notin {"dag", "levels", "counts"},
         UNCHANGED <<dagVars, levels, top, levelCounts>>, stage' \in Late
  PROVE  /\ GenInv' /\ Shape' /\ Counts' /\ Depth' = Depth /\ Depth \in Nat
         /\ \A l : Size(l)' = Size(l) /\ \A i : TreeNode(l, i)' = TreeNode(l, i)
         /\ nodeCount' = nodeCount /\ top' = top
<1>1. GenInv'
  BY GenKept DEF IInv
<1>2. Shape'
  BY ShapeKept DEF IInv, MerkleInv, Late
<1>3. Counts' /\ Depth' = Depth
  BY DEF IInv, MerkleInv, Counts, Depth, Count, Size, Late
<1> QED
  BY <1>1, <1>2, <1>3, Tree DEF Size, TreeNode, dagVars

LEMMA PrepareProofsPreserves ==
  ASSUME IInv, PrepareProofs
  PROVE  IInv'
<1>1. /\ stage = "wanted" /\ stage' = "leaves"
      /\ UNCHANGED <<dagVars, levels, top, levelCounts, read, at, level, foldVars>>
      /\ nextIndex' = [l \in 0..Depth |-> 0]
      /\ hasPending' = [l \in 0..Depth |-> FALSE]
      /\ pending' = [l \in 0..Depth |-> Nothing]
  BY DEF PrepareProofs
<1>2. /\ GenInv' /\ Shape' /\ Counts' /\ Depth' = Depth /\ Depth \in Nat
      /\ nodeCount' = nodeCount
  BY <1>1, LateKept DEF Late
<1>3. read = 0 /\ at = -1 /\ level = 0 /\ ~hasAcc /\ nodeCount \in Nat
  BY <1>1 DEF IInv, GenInv, GenTyped, MerkleInv, Unused, Early
<1>4. EmitTyped'
  BY <1>1, <1>2, <1>3 DEF EmitTyped
<1>5. Emits'
  <2>1. \A l \in 0..Depth : nextIndex'[l] = 0 /\ ~hasPending'[l]
    BY <1>1
  <2>2. Base' = 0 /\ at' = -1 /\ \A l \in 0..Depth : Held(l)' = 0
    BY <1>1, <1>3 DEF Base, Held
  <2>3. \A l \in 0..(Depth - 1) : l \in 0..Depth /\ l + 1 \in 0..Depth /\ Held(l + 1)' = 0
    BY <1>1, <1>2, <1>3 DEF Held
  <2> QED
    BY <1>1, <1>2, <2>1, <2>2, <2>3 DEF Emits
<1>6. EmitStage'
  BY <1>1, <1>2, <1>3 DEF EmitStage, Held
<1>7. Unused' /\ FoldInv' /\ RootInv' /\ hasAcc' \in BOOLEAN /\ stage' \in Late
  BY <1>1, <1>3 DEF Unused, Early, FoldInv, RootInv, foldVars, Late, IInv, MerkleInv
<1> QED
  BY <1>2, <1>4, <1>5, <1>6, <1>7 DEF IInv, MerkleInv

LEMMA ReadLeafPreserves ==
  ASSUME IInv, ReadLeaf
  PROVE  IInv'
<1>1. /\ stage = "leaves" /\ stage' = "leaves" /\ at = -1 /\ read < nodeCount
      /\ UNCHANGED <<dagVars, levels, top, levelCounts, nextIndex, pending, hasPending>>
      /\ UNCHANGED <<level, foldVars>>
      /\ read' = read + 1 /\ at' = 0 /\ hash' = Leaf(dag[read])
  BY DEF ReadLeaf, treeVars
<1>2. /\ GenInv' /\ Shape' /\ Counts' /\ Depth' = Depth /\ Depth \in Nat
      /\ \A l : Size(l)' = Size(l) /\ \A i : TreeNode(l, i)' = TreeNode(l, i)
      /\ nodeCount' = nodeCount
  BY <1>1, LateKept DEF Late
<1>3. /\ EmitTyped /\ Emits /\ nextIndex[0] = read /\ level = 0 /\ ~hasAcc
      /\ read \in 0..(nodeCount - 1) /\ nodeCount \in Nat \ {0}
      /\ Size(0) = nodeCount /\ TreeNode(0, read) = Leaf(dag[read])
  <2>1. EmitTyped /\ Emits /\ EmitStage /\ level = 0 /\ ~hasAcc
    BY <1>1 DEF IInv, MerkleInv, Unused, Late
  <2>2. nextIndex[0] = read /\ read \in 0..(nodeCount - 1) /\ nodeCount \in Nat \ {0}
    BY <1>1, <2>1, Tree DEF EmitStage, EmitTyped, Held
  <2> QED
    BY <1>1, <2>1, <2>2, Tree
<1>4. EmitTyped'
  BY <1>1, <1>2, <1>3 DEF EmitTyped
<1>5. Emits'
  <2>1. Base = 0 /\ Base' = 0 /\ \A l \in 0..(Depth - 1) : Held(l + 1) = 0 /\ Held(l + 1)' = 0
    BY <1>1, <1>2 DEF Base, Held
  <2> QED
    BY <1>1, <1>2, <1>3, <2>1 DEF Emits
<1>6. EmitStage'
  BY <1>1, <1>2, <1>3 DEF EmitStage, Held
<1>7. Unused' /\ FoldInv' /\ RootInv' /\ hasAcc' \in BOOLEAN /\ stage' \in Late
  BY <1>1, <1>3 DEF Unused, Early, FoldInv, RootInv, foldVars, Late, IInv, MerkleInv
<1> QED
  BY <1>2, <1>4, <1>5, <1>6, <1>7 DEF IInv, MerkleInv

(***************************************************************************)
(* A node is emitted at level at: what holds in both of its cases.         *)
(***************************************************************************)
LEMMA Emitting ==
  ASSUME IInv, at >= 0, Park \/ Combine
  PROVE  /\ stage \in {"leaves", "complete"} /\ stage' = stage
         /\ EmitTyped /\ Emits /\ EmitStage
         /\ at \in Base..Depth /\ Base \in Nat /\ Base' = Base
         /\ at \in 0..Depth
         /\ nextIndex[at] \in 0..(Size(at) - 1) /\ Size(at) \in Nat
         /\ nextIndex' = [nextIndex EXCEPT ![at] = nextIndex[at] + 1]
         /\ UNCHANGED <<dagVars, levels, top, levelCounts, read, level, foldVars>>
<1>1. /\ stage' = stage
      /\ nextIndex' = [nextIndex EXCEPT ![at] = nextIndex[at] + 1]
      /\ UNCHANGED <<dagVars, levels, top, levelCounts, read, level, foldVars>>
  BY DEF Park, Combine, AssignWanted, treeVars
<1>2. stage \in Late
  BY DEF IInv, MerkleInv, Unused, Early
<1>3. EmitTyped /\ Emits /\ EmitStage
  BY <1>2 DEF IInv, MerkleInv
<1>4. stage \in {"leaves", "complete"}
  BY <1>2, <1>3 DEF EmitStage, Late
<1>5. Base \in Nat /\ Base' = Base /\ Depth \in Nat
  BY <1>1, <1>2, <1>3, Tree DEF Base, EmitTyped, Late
<1>6. at \in Base..Depth /\ at \in 0..Depth
  BY <1>3, <1>5 DEF Emits, EmitTyped
<1>7. nextIndex[at] \in 0..(Size(at) - 1) /\ Size(at) \in Nat
  <2>1. nextIndex[at] < Size(at)
    BY <1>3 DEF Emits
  <2>2. nextIndex[at] \in Nat
    BY <1>3, <1>6 DEF EmitTyped
  <2>3. Size(at) \in Nat
    BY <1>2, <1>6, Tree DEF Late
  <2> QED
    BY <2>1, <2>2, <2>3
<1> QED
  BY <1>1, <1>3, <1>4, <1>5, <1>6, <1>7

\* The node leaves its level, for none or for the one above.
LEMMA EmitStageKept ==
  ASSUME IInv, Park \/ Combine
  PROVE  EmitStage'
<1> PICK a : a = at
  OBVIOUS
<1> PICK lv : lv = level
  OBVIOUS
<1>1. /\ stage \in {"leaves", "complete"} /\ stage' = stage
      /\ EmitTyped /\ EmitStage /\ a \in Base..Depth /\ a \in 0..Depth
      /\ nextIndex' = [nextIndex EXCEPT ![a] = nextIndex[a] + 1]
      /\ UNCHANGED <<dagVars, levels, top, levelCounts, read, level, foldVars>>
  BY Emitting DEF Park, Combine
<1>2. at' \in {-1, a + 1}
  BY DEF Park, Combine
<1>3. Depth' = Depth /\ Depth \in Nat /\ nodeCount' = nodeCount
  BY <1>1, LateKept DEF Late
<1>4. CASE stage = "leaves"
  <2>1. /\ nextIndex[0] = read - Held(0) /\ 0 \in 0..Depth
        /\ read \in Int /\ nextIndex[0] \in Nat
    BY <1>1, <1>3, <1>4, Tree DEF EmitStage, EmitTyped
  <2>2. Held(0)' = 0
    BY <1>1, <1>2 DEF Held
  <2>3. nextIndex'[0] = read
    BY <1>1, <2>1 DEF Held, EmitTyped
  <2> QED
    BY <1>1, <1>4, <2>1, <2>2, <2>3 DEF EmitStage
<1>5. CASE stage = "complete"
  <2>1. /\ lv \in 0..Depth /\ nextIndex[lv] = Size(lv) - Held(lv)
        /\ Base = lv /\ nextIndex[lv] \in Nat /\ Size(lv) \in Nat
    BY <1>1, <1>3, <1>5, Tree DEF EmitStage, EmitTyped, Base
  <2>2. Held(lv)' = 0
    BY <1>1, <1>2, <2>1 DEF Held
  <2>3. nextIndex'[lv] = Size(lv)
    BY <1>1, <2>1 DEF Held, EmitTyped
  <2>4. Size(lv)' = Size(lv)
    BY <1>1 DEF Size
  <2>5. level' = lv
    BY <1>1
  <2>6. level' <= Depth' /\ nextIndex'[level'] = Size(level)' - Held(level)'
    BY <1>3, <2>1, <2>2, <2>3, <2>4, <2>5 DEF Size, Held
  <2> QED
    BY <1>1, <1>5, <2>6 DEF EmitStage
<1> QED
  BY <1>1, <1>4, <1>5

LEMMA ParkPreserves ==
  ASSUME IInv, Park
  PROVE  IInv'
<1> PICK a : a = at
  OBVIOUS
<1> PICK n : n = nextIndex[a]
  OBVIOUS
<1>1. /\ stage \in {"leaves", "complete"} /\ stage' = stage
      /\ EmitTyped /\ Emits /\ EmitStage
      /\ a \in Base..Depth /\ Base \in Nat /\ Base' = Base /\ a \in 0..Depth
      /\ n \in 0..(Size(a) - 1) /\ Size(a) \in Nat
      /\ nextIndex' = [nextIndex EXCEPT ![a] = n + 1]
      /\ UNCHANGED <<dagVars, levels, top, levelCounts, read, level, foldVars>>
  BY Emitting DEF Park
<1>2. /\ ~hasPending[a] /\ at' = -1
      /\ pending' = [pending EXCEPT ![a] = hash]
      /\ hasPending' = [hasPending EXCEPT ![a] = TRUE]
  BY DEF Park
<1>3. /\ GenInv' /\ Shape' /\ Counts' /\ Depth' = Depth /\ Depth \in Nat
      /\ \A l : Size(l)' = Size(l) /\ \A i : TreeNode(l, i)' = TreeNode(l, i)
      /\ nodeCount' = nodeCount
  BY <1>1, LateKept DEF Late
<1>4. EmitTyped'
  BY <1>1, <1>2, <1>3 DEF EmitTyped
<1>5. n % 2 = 0 /\ (n + 1) % 2 = 1 /\ (n + 1) \div 2 = n \div 2 /\ hash = TreeNode(a, n)
      /\ (n + 1) - 1 = n
  <2>1. n % 2 # 1 /\ hash = TreeNode(a, n)
    BY <1>1, <1>2 DEF Emits
  <2> QED
    BY <1>1, <2>1
<1>6. Emits'
  <2>1. \A l \in Base..Depth :
          /\ hasPending'[l] <=> nextIndex'[l] % 2 = 1
          /\ hasPending'[l] => pending'[l] = TreeNode(l, nextIndex'[l] - 1)
    <3> SUFFICES ASSUME NEW l \in Base..Depth
                 PROVE  /\ hasPending'[l] <=> nextIndex'[l] % 2 = 1
                        /\ hasPending'[l] => pending'[l] = TreeNode(l, nextIndex'[l] - 1)
      OBVIOUS
    <3>0. l \in 0..Depth
      BY <1>1, <1>3
    <3>1. CASE l = a
      BY <1>1, <1>2, <1>5, <3>0, <3>1 DEF EmitTyped
    <3>2. CASE l # a
      BY <1>1, <1>2, <3>0, <3>2 DEF EmitTyped, Emits
    <3> QED
      BY <3>1, <3>2
  <2>2. ASSUME NEW l \in Base..(Depth - 1)
        PROVE  nextIndex'[l + 1] = nextIndex'[l] \div 2 - Held(l + 1)'
    <3>0. l \in 0..Depth /\ l + 1 \in 0..Depth /\ Held(l + 1)' = 0
          /\ nextIndex[l] \in Nat /\ nextIndex[l + 1] \in Nat
      BY <1>1, <1>2, <1>3 DEF Held, EmitTyped
    <3>1. nextIndex[l + 1] = nextIndex[l] \div 2 - Held(l + 1)
      BY <1>1 DEF Emits
    <3>2. CASE l = a
      <4>1. Held(l + 1) = 0 /\ nextIndex'[l + 1] = nextIndex[l + 1] /\ nextIndex'[l] = n + 1
        BY <1>1, <3>0, <3>2 DEF Held, EmitTyped
      <4> QED
        BY <1>1, <1>5, <3>0, <3>1, <3>2, <4>1
    <3>3. CASE l + 1 = a
      <4>1. Held(l + 1) = 1 /\ nextIndex'[l + 1] = nextIndex[l + 1] + 1
            /\ nextIndex'[l] = nextIndex[l]
        BY <1>1, <3>0, <3>3 DEF Held, EmitTyped
      <4> QED
        BY <3>0, <3>1, <4>1
    <3>4. CASE l # a /\ l + 1 # a
      <4>1. Held(l + 1) = 0 /\ nextIndex'[l + 1] = nextIndex[l + 1]
            /\ nextIndex'[l] = nextIndex[l]
        BY <1>1, <3>0, <3>4 DEF Held, EmitTyped
      <4> QED
        BY <3>0, <3>1, <4>1
    <3> QED
      BY <3>2, <3>3, <3>4
  <2> QED
    BY <1>1, <1>2, <1>3, <2>1, <2>2 DEF Emits
<1>7. EmitStage'
  BY EmitStageKept
<1>8. Unused' /\ FoldInv' /\ RootInv' /\ hasAcc' \in BOOLEAN /\ stage' \in Late
  BY <1>1, <1>3 DEF Unused, Early, FoldInv, RootInv, foldVars, Late, IInv, MerkleInv, TreeNode
<1> QED
  BY <1>3, <1>4, <1>6, <1>7, <1>8 DEF IInv, MerkleInv

LEMMA CombinePreserves ==
  ASSUME IInv, Combine
  PROVE  IInv'
<1> PICK a : a = at
  OBVIOUS
<1> PICK n : n = nextIndex[a]
  OBVIOUS
<1> DEFINE k == n \div 2
<1>1. /\ stage \in {"leaves", "complete"} /\ stage' = stage
      /\ EmitTyped /\ Emits /\ EmitStage
      /\ a \in Base..Depth /\ Base \in Nat /\ Base' = Base /\ a \in 0..Depth
      /\ n \in 0..(Size(a) - 1) /\ Size(a) \in Nat
      /\ nextIndex' = [nextIndex EXCEPT ![a] = n + 1]
      /\ UNCHANGED <<dagVars, levels, top, levelCounts, read, level, foldVars>>
  BY Emitting DEF Combine
<1>2. /\ hasPending[a] /\ at' = a + 1 /\ pending' = pending
      /\ hash' = hashPair(pending[a], hash)
      /\ hasPending' = [hasPending EXCEPT ![a] = FALSE]
  BY DEF Combine
<1>3. /\ GenInv' /\ Shape' /\ Counts' /\ Depth' = Depth /\ Depth \in Nat
      /\ \A l : Size(l)' = Size(l) /\ \A i : TreeNode(l, i)' = TreeNode(l, i)
      /\ nodeCount' = nodeCount
  BY <1>1, LateKept DEF Late
<1>4. n % 2 = 1 /\ hash = TreeNode(a, n) /\ pending[a] = TreeNode(a, n - 1)
  BY <1>1, <1>2 DEF Emits
<1>5. /\ k \in Nat /\ 2 * k = n - 1 /\ 2 * k + 1 = n /\ (n + 1) % 2 = 0
      /\ (n + 1) \div 2 = k + 1 /\ n - 1 \in Nat
  BY <1>1, <1>4
<1>6. a \in 0..(Depth - 1) /\ Size(a + 1) = (Size(a) + 1) \div 2
  <2>1. Size(a) > 1
    BY <1>1, <1>5
  <2>2. a < Depth
    BY <1>1, <2>1, Tree
  <2>3. a \in 0..(Depth - 1)
    BY <1>1, <1>3, <2>2
  <2> QED
    BY <1>1, <2>3, Tree
<1>7. hash' = TreeNode(a + 1, k)
  <2>1. 2 * k + 1 < Size(a)
    BY <1>1, <1>5
  <2> HIDE DEF k
  <2>2. TreeNode(a + 1, k) = hashPair(TreeNode(a, 2 * k), TreeNode(a, 2 * k + 1))
    BY <1>1, <1>5, <1>6, <2>1, Pairs
  <2> QED
    BY <1>2, <1>4, <1>5, <2>2
<1>8. /\ nextIndex[a + 1] = k /\ nextIndex'[a + 1] = k /\ k < Size(a + 1)
      /\ nextIndex'[a] = n + 1 /\ a + 1 \in 0..Depth
  <2>1. a \in Base..(Depth - 1) /\ a + 1 \in 0..Depth /\ Held(a + 1) = 0
    BY <1>1, <1>3, <1>6 DEF Held
  <2>2. nextIndex[a + 1] = n \div 2 - 0
    BY <1>1, <2>1 DEF Emits
  <2>3. nextIndex'[a + 1] = nextIndex[a + 1] /\ nextIndex'[a] = n + 1
    BY <1>1, <2>1 DEF EmitTyped
  <2> QED
    BY <1>1, <1>5, <1>6, <2>1, <2>2, <2>3
<1>9. EmitTyped'
  BY <1>1, <1>2, <1>3, <1>8 DEF EmitTyped
<1>10. Emits'
  <2>1. \A l \in Base..Depth :
          /\ hasPending'[l] <=> nextIndex'[l] % 2 = 1
          /\ hasPending'[l] => pending'[l] = TreeNode(l, nextIndex'[l] - 1)
    <3> SUFFICES ASSUME NEW l \in Base..Depth
                 PROVE  /\ hasPending'[l] <=> nextIndex'[l] % 2 = 1
                        /\ hasPending'[l] => pending'[l] = TreeNode(l, nextIndex'[l] - 1)
      OBVIOUS
    <3>0. l \in 0..Depth
      BY <1>1, <1>3
    <3>1. CASE l = a
      <4>1. ~hasPending'[l] /\ nextIndex'[l] % 2 = 0
        BY <1>1, <1>2, <1>5, <1>8, <3>0, <3>1 DEF EmitTyped
      <4> QED
        BY <4>1
    <3>2. CASE l # a
      BY <1>1, <1>2, <3>0, <3>2 DEF EmitTyped, Emits
    <3> QED
      BY <3>1, <3>2
  <2>2. ASSUME NEW l \in Base..(Depth - 1)
        PROVE  nextIndex'[l + 1] = nextIndex'[l] \div 2 - Held(l + 1)'
    <3>0. l \in 0..Depth /\ l + 1 \in 0..Depth /\ nextIndex[l] \in Nat
          /\ nextIndex[l + 1] \in Nat
      BY <1>1, <1>3 DEF EmitTyped
    <3>1. nextIndex[l + 1] = nextIndex[l] \div 2 - Held(l + 1)
      BY <1>1 DEF Emits
    <3>2. CASE l = a
      <4>1. Held(l + 1)' = 1
        BY <1>2, <3>2 DEF Held
      <4> QED
        BY <1>5, <1>8, <3>2, <4>1
    <3>3. CASE l + 1 = a
      <4>1. /\ Held(l + 1) = 1 /\ nextIndex'[l + 1] = nextIndex[l + 1] + 1
            /\ Held(l + 1)' = 0 /\ nextIndex'[l] = nextIndex[l]
        BY <1>1, <1>2, <3>0, <3>3 DEF Held, EmitTyped
      <4> QED
        BY <3>0, <3>1, <4>1
    <3>4. CASE l # a /\ l + 1 # a
      <4>1. /\ Held(l + 1) = 0 /\ nextIndex'[l + 1] = nextIndex[l + 1]
            /\ Held(l + 1)' = 0 /\ nextIndex'[l] = nextIndex[l]
        BY <1>1, <1>2, <3>0, <3>4 DEF Held, EmitTyped
      <4> QED
        BY <3>0, <3>1, <4>1
    <3> QED
      BY <3>2, <3>3, <3>4
  <2>3. /\ at' >= Base' /\ nextIndex'[at'] < Size(at')
        /\ hash' = TreeNode(at', nextIndex'[at'])
    BY <1>1, <1>2, <1>7, <1>8
  <2>4. Size(at)' = Size(at') /\ TreeNode(at, nextIndex[at])' = TreeNode(at', nextIndex'[at'])
    BY <1>1 DEF Size, TreeNode
  <2> QED
    BY <1>1, <1>3, <2>1, <2>2, <2>3, <2>4 DEF Emits
<1>11. EmitStage'
  BY EmitStageKept
<1>12. Unused' /\ FoldInv' /\ RootInv' /\ hasAcc' \in BOOLEAN /\ stage' \in Late
  BY <1>1, <1>3 DEF Unused, Early, FoldInv, RootInv, foldVars, Late, IInv, MerkleInv, TreeNode
<1> QED
  BY <1>3, <1>9, <1>10, <1>11, <1>12 DEF IInv, MerkleInv

(***************************************************************************)
(* The validator's fold and the miner's completion.                        *)
(***************************************************************************)
LEMMA LeavesReadPreserves ==
  ASSUME IInv, LeavesRead
  PROVE  IInv'
<1>1. /\ stage = "leaves" /\ stage' = "fold" /\ at = -1 /\ read = nodeCount
      /\ UNCHANGED <<dagVars, levels, top, levelCounts, read, emitVars, level, foldVars>>
  BY DEF LeavesRead, treeVars
<1>2. /\ GenInv' /\ Shape' /\ Counts' /\ Depth' = Depth /\ Depth \in Nat
      /\ \A l : Size(l)' = Size(l) /\ \A i : TreeNode(l, i)' = TreeNode(l, i)
      /\ nodeCount' = nodeCount
  BY <1>1, LateKept DEF Late
<1>3. /\ EmitTyped /\ Emits /\ level = 0 /\ ~hasAcc /\ nextIndex[0] = nodeCount
      /\ Size(0) = nodeCount
  <2>1. EmitTyped /\ Emits /\ EmitStage /\ level = 0 /\ ~hasAcc /\ nodeCount \in Nat
    BY <1>1, Tree DEF IInv, MerkleInv, Unused, Late
  <2>2. nextIndex[0] = read - 0
    BY <1>1, <2>1 DEF EmitStage, Held
  <2> QED
    BY <1>1, <2>1, <2>2, Tree
<1>4. EmitTyped' /\ Emits'
  <2>1. Base' = Base /\ \A l : Held(l)' = Held(l)
    BY <1>1 DEF Base, Held, emitVars
  <2>2. EmitTyped'
    BY <1>1, <1>2, <1>3 DEF EmitTyped, emitVars
  <2>3. Emits'
    BY <1>1, <1>3, <2>1 DEF Emits, emitVars, Depth, Size, TreeNode, Base, Held
  <2> QED
    BY <2>2, <2>3
<1>5. FoldInv'
  BY <1>1, <1>2, <1>3 DEF FoldInv, emitVars, foldVars, Size
<1>6. EmitStage' /\ Unused' /\ RootInv' /\ hasAcc' \in BOOLEAN /\ stage' \in Late
  BY <1>1, <1>2, <1>3
     DEF EmitStage, Unused, Early, RootInv, emitVars, foldVars, Late, IInv, MerkleInv
<1> QED
  BY <1>2, <1>4, <1>5, <1>6 DEF IInv, MerkleInv

LEMMA FoldLevelPreserves ==
  ASSUME IInv, FoldLevel
  PROVE  IInv'
<1> PICK v : v = level
  OBVIOUS
<1> PICK c : c = accLevel
  OBVIOUS
<1> PICK s : s = Size(v)
  OBVIOUS
<1> PICK n : n = nextIndex[v]
  OBVIOUS
<1>1. /\ stage = "fold" /\ stage' = "fold" /\ v <= Depth
      /\ UNCHANGED <<dagVars, levels, top, levelCounts, read, emitVars>>
  BY DEF FoldLevel, treeVars
<1>2. /\ GenInv' /\ Shape' /\ Counts' /\ Depth' = Depth /\ Depth \in Nat
      /\ nodeCount' = nodeCount
  BY <1>1, LateKept DEF Late
<1>3. EmitTyped /\ Emits /\ EmitStage /\ FoldInv /\ hasAcc \in BOOLEAN /\ at = -1
  BY <1>1 DEF IInv, MerkleInv, EmitStage, Late
<1>4. /\ v \in 0..Depth /\ n \in Nat /\ s \in Nat \ {0} /\ (v = Depth => s = 1)
      /\ hasPending[v] \in BOOLEAN
  BY <1>1, <1>2, <1>3, Tree DEF EmitTyped
<1>5. /\ hasPending[v] <=> n % 2 = 1
      /\ hasPending[v] => pending[v] = TreeNode(v, n - 1)
  <2>1. Base = 0
    BY <1>1 DEF Base
  <2> QED
    BY <1>3, <1>4, <2>1 DEF Emits
<1>6. v < Depth => /\ v \in 0..(Depth - 1) /\ v + 1 \in 0..Depth
                   /\ s > 1 /\ Size(v + 1) = (s + 1) \div 2
                   /\ nextIndex[v + 1] = n \div 2
                   /\ (v + 1 = Depth => s = 2)
  <2> SUFFICES ASSUME v < Depth
               PROVE  /\ v \in 0..(Depth - 1) /\ v + 1 \in 0..Depth
                      /\ s > 1 /\ Size(v + 1) = (s + 1) \div 2
                      /\ nextIndex[v + 1] = n \div 2
                      /\ (v + 1 = Depth => s = 2)
    OBVIOUS
  <2>1. v \in 0..(Depth - 1) /\ v + 1 \in 0..Depth
    BY <1>2, <1>4
  <2>2. s > 1 /\ Size(v + 1) = (s + 1) \div 2 /\ Size(Depth) = 1
    BY <1>1, <2>1, Tree
  <2>3. nextIndex[v + 1] = n \div 2 - 0
    BY <1>1, <1>3, <1>4, <2>1 DEF Emits, Base, Held
  <2>4. v + 1 = Depth => s = 2
    BY <1>4, <2>2
  <2> QED
    BY <1>4, <2>1, <2>2, <2>3, <2>4
<1>7. /\ ~hasAcc => s = n
      /\ hasAcc => /\ c \in 0..Depth /\ c <= v
                   /\ acc = TreeNode(c, Size(c) - 1)
                   /\ \A m \in c..(v - 1) : m <= Depth => Size(m) % 2 = 1
                   /\ s = n + 1
                   /\ v >= Depth => c = Depth
  BY <1>1, <1>3, <1>4 DEF FoldInv
\* What is new of the fold, in the terms of the old state.
<1>8. /\ level' \in 0..(Depth + 1) /\ hasAcc' \in BOOLEAN
      /\ ~hasAcc' => level' <= Depth /\ Size(level') = nextIndex[level']
      /\ hasAcc' => /\ accLevel' \in 0..Depth /\ accLevel' <= level'
                    /\ acc' = TreeNode(accLevel', Size(accLevel') - 1)
                    /\ \A m \in accLevel'..(level' - 1) : m <= Depth => Size(m) % 2 = 1
                    /\ level' <= Depth => Size(level') = nextIndex[level'] + 1
                    /\ level' >= Depth => accLevel' = Depth
  <2>1. CASE ~hasPending[v] /\ ~hasAcc
    <3>1. level' = v + 1 /\ ~hasAcc' /\ hasAcc' \in BOOLEAN
      BY <1>3, <2>1 DEF FoldLevel, foldVars
    <3>2. s = n /\ n % 2 = 0
      BY <1>4, <1>5, <1>7, <2>1
    <3>3. v < Depth
      BY <1>2, <1>4, <3>2
    <3>4. Size(v + 1) = nextIndex[v + 1]
      BY <1>4, <1>6, <3>2, <3>3
    <3>5. v + 1 \in 0..(Depth + 1) /\ v + 1 <= Depth
      BY <1>2, <1>4, <3>3
    <3> QED
      BY <3>1, <3>4, <3>5
  <2>2. CASE ~hasPending[v] /\ hasAcc
    <3>1. level' = v + 1 /\ hasAcc' = TRUE /\ acc' = acc /\ accLevel' = c
      BY <1>3, <2>2 DEF FoldLevel, foldVars
    <3>2. s = n + 1 /\ n % 2 = 0 /\ s % 2 = 1
      BY <1>4, <1>5, <1>7, <2>2
    <3>3. v < Depth => Size(v + 1) = nextIndex[v + 1] + 1 /\ v + 1 # Depth
      BY <1>4, <1>6, <3>2
    <3>4. \A m \in c..v : m <= Depth => Size(m) % 2 = 1
      <4>1. \A m \in c..v : m = v \/ m \in c..(v - 1)
        BY <1>4, <1>7, <2>2
      <4>2. Size(v) % 2 = 1
        BY <3>2
      <4> QED
        BY <1>7, <2>2, <4>1, <4>2
    <3>5. v + 1 >= Depth => c = Depth
      BY <1>2, <1>4, <1>7, <2>2, <3>3
    <3> QED
      BY <1>2, <1>4, <1>7, <2>2, <3>1, <3>3, <3>4, <3>5
  <2>3. CASE hasPending[v] /\ ~hasAcc
    <3>1. level' = v + 1 /\ hasAcc' = TRUE /\ acc' = pending[v] /\ accLevel' = v
      BY <2>3 DEF FoldLevel
    <3>2. s = n /\ n % 2 = 1
      BY <1>5, <1>7, <2>3
    <3>3. v < Depth => Size(v + 1) = nextIndex[v + 1] + 1 /\ v + 1 # Depth
      BY <1>4, <1>6, <3>2
    <3>4. \A m \in v..((v + 1) - 1) : Size(m) % 2 = 1
      <4>1. \A m \in v..((v + 1) - 1) : m = v
        BY <1>4
      <4> QED
        BY <3>2, <4>1
    <3>5. acc' = TreeNode(v, s - 1)
      BY <1>5, <2>3, <3>1, <3>2
    <3>6. v + 1 >= Depth => v = Depth
      BY <1>2, <1>4, <3>3
    <3>7. v + 1 <= Depth => Size(v + 1) = nextIndex[v + 1] + 1
      BY <1>2, <1>4, <3>3
    <3> QED
      BY <1>2, <1>4, <3>1, <3>4, <3>5, <3>6, <3>7
  <2>4. CASE hasPending[v] /\ hasAcc /\ c < v
    <3>0. hasAcc' = hasAcc
      BY <2>4 DEF FoldLevel, foldVars
    <3>1. level' = v /\ acc' = hashPair(acc, acc) /\ accLevel' = c + 1
      <4>1. c # v
        BY <1>4, <1>7, <2>4
      <4> QED
        BY <2>4, <4>1 DEF FoldLevel, RaiseOnce
    <3>2. c \in 0..(Depth - 1) /\ c + 1 \in 0..Depth /\ v < Depth
      BY <1>2, <1>4, <1>7, <2>4
    <3>3. Size(c) % 2 = 1 /\ Size(c) \in Nat \ {0} /\ Size(c + 1) = (Size(c) + 1) \div 2
      BY <1>1, <1>2, <1>4, <1>7, <2>4, <3>2, Tree
    <3> PICK z : z = Size(c)
      OBVIOUS
    <3> PICK k : k = (z - 1) \div 2
      OBVIOUS
    <3>4. k \in Nat /\ 2 * k = z - 1 /\ 2 * k + 1 = z /\ Size(c + 1) = k + 1
      BY <3>3
    <3>5. TreeNode(c + 1, k) = hashPair(TreeNode(c, 2 * k), TreeNode(c, 2 * k))
      BY <1>1, <3>2, <3>4, Pairs
    <3>6. acc' = TreeNode(c + 1, Size(c + 1) - 1)
      <4>1. Size(c + 1) - 1 = k
        BY <3>4
      <4>2. acc = TreeNode(c, 2 * k)
        BY <1>7, <2>4, <3>4
      <4> QED
        BY <3>1, <3>5, <4>1, <4>2
    <3>7. \A m \in (c + 1)..(v - 1) : m <= Depth => Size(m) % 2 = 1
      BY <1>4, <1>7, <2>4, <3>2
    <3> QED
      BY <1>2, <1>3, <1>4, <1>7, <2>4, <3>0, <3>1, <3>2, <3>6, <3>7
  <2>5. CASE hasPending[v] /\ hasAcc /\ c = v
    <3>0. hasAcc' = hasAcc
      BY <2>5 DEF FoldLevel, foldVars
    <3>1. /\ level' = v + 1 /\ accLevel' = v + 1
          /\ acc' = hashPair(pending[v], acc)
      <4>1. ~(c < v)
        BY <1>4, <2>5
      <4> QED
        BY <2>5, <4>1 DEF FoldLevel
    <3>2. s = n + 1 /\ n % 2 = 1 /\ s % 2 = 0
      BY <1>4, <1>5, <1>7, <2>5
    <3>3. v < Depth
      BY <1>2, <1>4, <3>2
    <3> PICK k : k = n \div 2
      OBVIOUS
    <3>4. /\ k \in Nat /\ 2 * k = n - 1 /\ 2 * k + 1 = n /\ n < s
          /\ Size(v + 1) = k + 1 /\ nextIndex[v + 1] = k /\ s - 1 = n
      <4>1. k \in Nat /\ 2 * k = n - 1 /\ 2 * k + 1 = n /\ n < s /\ s - 1 = n
        BY <1>4, <3>2
      <4>2. (s + 1) \div 2 = k + 1
        BY <1>4, <3>2, <4>1
      <4> QED
        BY <1>6, <3>3, <4>1, <4>2
    <3>5. TreeNode(v + 1, k) = hashPair(TreeNode(v, 2 * k), TreeNode(v, 2 * k + 1))
      BY <1>1, <1>6, <3>3, <3>4, Pairs
    <3>6. acc' = TreeNode(v + 1, Size(v + 1) - 1)
      <4>1. Size(v + 1) - 1 = k
        BY <3>4
      <4>2. acc = TreeNode(v, 2 * k + 1) /\ pending[v] = TreeNode(v, 2 * k)
        BY <1>5, <1>7, <2>5, <3>4
      <4> QED
        BY <3>1, <3>5, <4>1, <4>2
    <3>7. (v + 1)..((v + 1) - 1) = {}
      BY <1>4
    <3> QED
      BY <1>2, <1>3, <1>4, <1>6, <2>5, <3>0, <3>1, <3>3, <3>4, <3>6, <3>7
  <2> QED
    BY <1>4, <1>7, <2>1, <2>2, <2>3, <2>4, <2>5
<1>9. FoldInv'
  BY <1>1, <1>2, <1>8 DEF FoldInv, emitVars, Size, TreeNode
<1>10. EmitTyped' /\ Emits' /\ EmitStage'
  <2>1. Base = 0 /\ Base' = 0
    BY <1>1 DEF Base
  <2>2. EmitTyped'
    BY <1>1, <1>2, <1>3, <1>8 DEF EmitTyped, emitVars
  <2>3. Emits'
    BY <1>1, <1>3, <2>1 DEF Emits, emitVars, Depth, Size, TreeNode, Held
  <2>4. EmitStage'
    BY <1>1, <1>2, <1>3 DEF EmitStage, emitVars
  <2> QED
    BY <2>2, <2>3, <2>4
<1>11. Unused' /\ RootInv' /\ hasAcc' \in BOOLEAN /\ stage' \in Late
  BY <1>1, <1>8 DEF Unused, Early, RootInv, Late
<1> QED
  BY <1>2, <1>9, <1>10, <1>11 DEF IInv, MerkleInv

LEMMA FoldedPreserves ==
  ASSUME IInv, Folded
  PROVE  IInv'
<1>1. /\ stage = "fold" /\ stage' = "complete" /\ level = Depth + 1 /\ level' = 0
      /\ UNCHANGED <<dagVars, levels, top, levelCounts, read, emitVars, foldVars>>
  BY DEF Folded, treeVars
<1>2. /\ GenInv' /\ Shape' /\ Counts' /\ Depth' = Depth /\ Depth \in Nat
      /\ nodeCount' = nodeCount
  BY <1>1, LateKept DEF Late
<1>3. /\ EmitTyped /\ Emits /\ at = -1 /\ nextIndex[0] = nodeCount /\ nodeCount \in Nat
      /\ Size(0) = nodeCount /\ Depth = top /\ Size(Depth) = 1 /\ hasAcc \in BOOLEAN
  BY <1>1, Tree DEF IInv, MerkleInv, EmitStage, Late
<1>4. hasAcc /\ acc = TreeNode(top, 0)
  <2>1. hasAcc
    BY <1>1, <1>2 DEF IInv, MerkleInv, FoldInv
  <2>2. accLevel = Depth /\ acc = TreeNode(accLevel, Size(accLevel) - 1)
    BY <1>1, <1>2, <2>1 DEF IInv, MerkleInv, FoldInv
  <2>3. 1 - 1 = 0
    OBVIOUS
  <2> QED
    BY <1>3, <2>1, <2>2, <2>3
<1>5. RootInv'
  <2>1. hasAcc' /\ acc' = TreeNode(top, 0)'
    BY <1>1, <1>4 DEF TreeNode, foldVars
  <2> QED
    BY <2>1 DEF RootInv
<1>6. EmitTyped' /\ Emits'
  <2>1. Base = 0 /\ Base' = 0
    BY <1>1 DEF Base
  <2>2. EmitTyped'
    BY <1>1, <1>2, <1>3 DEF EmitTyped, emitVars
  <2>3. Emits'
    BY <1>1, <1>3, <2>1 DEF Emits, emitVars, Depth, Size, TreeNode, Held
  <2> QED
    BY <2>2, <2>3
<1>7. EmitStage'
  <2>1. at' = -1 /\ nextIndex' = nextIndex /\ levels' = levels
    BY <1>1, <1>3 DEF emitVars
  <2>2. nextIndex'[level'] = Size(level)' - Held(level)'
    BY <1>1, <1>3, <2>1 DEF Size, Held
  <2> QED
    BY <1>1, <1>2, <2>2 DEF EmitStage
<1>8. Unused' /\ FoldInv' /\ hasAcc' \in BOOLEAN /\ stage' \in Late
  BY <1>1, <1>3 DEF Unused, Early, FoldInv, foldVars, Late
<1> QED
  BY <1>2, <1>5, <1>6, <1>7, <1>8 DEF IInv, MerkleInv

LEMMA CompleteLevelPreserves ==
  ASSUME IInv, CompleteLevel
  PROVE  IInv'
<1> PICK v : v = level
  OBVIOUS
<1> PICK s : s = Size(v)
  OBVIOUS
<1> PICK k : k = s \div 2
  OBVIOUS
<1>1. /\ stage = "complete" /\ stage' = "complete" /\ at = -1 /\ v < Depth /\ level' = v + 1
      /\ UNCHANGED <<dagVars, levels, top, levelCounts, read, nextIndex, pending, foldVars>>
  BY DEF CompleteLevel, treeVars
<1>2. /\ GenInv' /\ Shape' /\ Counts' /\ Depth' = Depth /\ Depth \in Nat
      /\ nodeCount' = nodeCount
  BY <1>1, LateKept DEF Late
<1>3. EmitTyped /\ Emits /\ EmitStage /\ RootInv /\ Base = v /\ Base' = v + 1
  BY <1>1 DEF IInv, MerkleInv, Base, Late
<1>4. v \in 0..(Depth - 1) /\ v \in 0..Depth /\ v + 1 \in 0..Depth /\ v \in Base..Depth
  BY <1>1, <1>2, <1>3 DEF EmitTyped
<1>5. s \in Nat \ {0} /\ Size(v + 1) = (s + 1) \div 2 /\ nextIndex[v] = s
  <2>1. nextIndex[v] = s - 0
    BY <1>1, <1>3, <1>4 DEF EmitStage, Held
  <2>2. s \in Nat \ {0} /\ Size(v + 1) = (s + 1) \div 2
    BY <1>1, <1>4, Tree
  <2> QED
    BY <2>1, <2>2
<1>6. /\ hasPending[v] <=> s % 2 = 1
      /\ hasPending[v] => pending[v] = TreeNode(v, s - 1)
  BY <1>3, <1>4, <1>5 DEF Emits
<1>7. k \in Nat /\ nextIndex[v + 1] = k
  <2>1. v \in Base..(Depth - 1)
    BY <1>3, <1>4
  <2>2. nextIndex[v + 1] = s \div 2 - 0
    BY <1>1, <1>3, <1>4, <1>5, <2>1 DEF Emits, Held
  <2> QED
    BY <1>5, <2>2
\* The node that waits, if there is one, is paired with itself.
<1>8. /\ at' \in {-1, v + 1}
      /\ at' = v + 1 => k < Size(v + 1) /\ hash' = TreeNode(v + 1, k)
      /\ k = Size(v + 1) - Held(v + 1)'
      /\ hasPending' \in [0..Depth -> BOOLEAN]
      /\ \A l \in 0..Depth : l # v => hasPending'[l] = hasPending[l]
  <2>1. CASE hasPending[v]
    <3>1. /\ at' = v + 1 /\ hash' = hashPair(pending[v], pending[v])
          /\ hasPending' = [hasPending EXCEPT ![v] = FALSE]
      BY <2>1 DEF CompleteLevel
    <3>2. 2 * k = s - 1 /\ 2 * k + 1 = s /\ Size(v + 1) = k + 1
      BY <1>5, <1>6, <2>1
    <3>3. TreeNode(v + 1, k) = hashPair(TreeNode(v, 2 * k), TreeNode(v, 2 * k))
      BY <1>1, <1>4, <1>7, <3>2, Pairs
    <3>4. pending[v] = TreeNode(v, 2 * k)
      BY <1>6, <2>1, <3>2
    <3>5. hash' = TreeNode(v + 1, k)
      BY <3>1, <3>3, <3>4
    <3>6. Held(v + 1)' = 1
      BY <3>1 DEF Held
    <3>7. hasPending' \in [0..Depth -> BOOLEAN]
          /\ \A l \in 0..Depth : l # v => hasPending'[l] = hasPending[l]
      BY <1>3, <3>1 DEF EmitTyped
    <3>8. k < Size(v + 1) /\ k = Size(v + 1) - Held(v + 1)'
      BY <1>7, <3>2, <3>6
    <3> QED
      BY <3>1, <3>5, <3>7, <3>8
  <2>2. CASE ~hasPending[v]
    <3>1. at' = -1 /\ hasPending' = hasPending
      BY <1>1, <2>2 DEF CompleteLevel
    <3>2. Held(v + 1)' = 0
      BY <1>4, <3>1 DEF Held
    <3>3. Size(v + 1) = k
      BY <1>5, <1>6, <2>2
    <3> QED
      BY <1>3, <1>4, <1>7, <3>1, <3>2, <3>3 DEF EmitTyped
  <2> QED
    BY <2>1, <2>2
<1>9. EmitTyped'
  BY <1>1, <1>2, <1>3, <1>4, <1>8 DEF EmitTyped
<1>10. Emits'
  <2>1. at' >= 0 => /\ at' >= Base' /\ nextIndex'[at'] < Size(at)'
                    /\ hash' = TreeNode(at, nextIndex[at])'
    <3>1. at' >= 0 => at' = v + 1
      BY <1>8
    <3> QED
      BY <1>1, <1>3, <1>4, <1>7, <1>8, <3>1 DEF Size, TreeNode
  <2>2. ASSUME NEW l \in (v + 1)..Depth
        PROVE  /\ hasPending'[l] <=> nextIndex'[l] % 2 = 1
               /\ hasPending'[l] => pending'[l] = TreeNode(l, nextIndex[l] - 1)'
    <3>1. l \in Base..Depth /\ l \in 0..Depth /\ l # v
      BY <1>2, <1>3, <1>4
    <3> QED
      BY <1>1, <1>3, <1>8, <3>1 DEF Emits, TreeNode
  <2>3. ASSUME NEW l \in (v + 1)..(Depth - 1)
        PROVE  nextIndex'[l + 1] = nextIndex'[l] \div 2 - Held(l + 1)'
    <3>1. l \in Base..(Depth - 1) /\ l + 1 # v + 1 /\ l + 1 # -1
      BY <1>2, <1>3, <1>4
    <3>2. Held(l + 1) = 0 /\ Held(l + 1)' = 0
      BY <1>1, <1>8, <3>1 DEF Held
    <3> QED
      BY <1>1, <1>3, <3>1, <3>2 DEF Emits
  <2> QED
    BY <1>2, <1>3, <2>1, <2>2, <2>3 DEF Emits
<1>11. EmitStage'
  <2>1. nextIndex'[level'] = Size(level)' - Held(level)'
    BY <1>1, <1>7, <1>8 DEF Size, Held
  <2> QED
    BY <1>1, <1>2, <1>4, <2>1 DEF EmitStage
<1>12. Unused' /\ FoldInv' /\ RootInv' /\ hasAcc' \in BOOLEAN /\ stage' \in Late
  BY <1>1, <1>3 DEF Unused, Early, FoldInv, RootInv, foldVars, Late, IInv, MerkleInv, TreeNode
<1> QED
  BY <1>2, <1>9, <1>10, <1>11, <1>12 DEF IInv, MerkleInv

LEMMA CompletedPreserves ==
  ASSUME IInv, Completed
  PROVE  IInv'
<1>1. /\ stage = "complete" /\ stage' = "built" /\ at = -1 /\ level = Depth
      /\ UNCHANGED <<dagVars, levels, top, levelCounts, read, emitVars, level, foldVars>>
  BY DEF Completed, treeVars
<1>2. /\ GenInv' /\ Shape' /\ Counts' /\ Depth' = Depth /\ Depth \in Nat
      /\ nodeCount' = nodeCount
  BY <1>1, LateKept DEF Late
<1>3. EmitTyped /\ Emits /\ EmitStage /\ RootInv /\ hasAcc \in BOOLEAN
  BY <1>1 DEF IInv, MerkleInv, Late
<1>4. EmitTyped' /\ Emits'
  <2>1. Base' = Base
    BY <1>1 DEF Base
  <2>2. EmitTyped'
    BY <1>1, <1>2, <1>3 DEF EmitTyped, emitVars
  <2>3. Emits'
    BY <1>1, <1>3, <2>1 DEF Emits, emitVars, Depth, Size, TreeNode, Held
  <2> QED
    BY <2>2, <2>3
<1>5. EmitStage' /\ RootInv'
  BY <1>1, <1>2, <1>3 DEF EmitStage, RootInv, emitVars, foldVars, Size, Held, TreeNode
<1>6. Unused' /\ FoldInv' /\ hasAcc' \in BOOLEAN /\ stage' \in Late
  BY <1>1, <1>3 DEF Unused, Early, FoldInv, foldVars, Late
<1> QED
  BY <1>2, <1>4, <1>5, <1>6 DEF IInv, MerkleInv

-----------------------------------------------------------------------------
(***************************************************************************)
(* The whole module's steps.                                               *)
(***************************************************************************)
LEMMA InitIInv ==
  ASSUME Init
  PROVE  IInv
<1> PICK n \in 1..MaxCells, asked \in 1..MaxWorkers : GenerationInit(n, asked)
  BY DEF Init
<1>1. /\ nodeCount = n /\ n \in Nat \ {0} /\ workers = asked /\ asked \in Nat \ {0}
      /\ dag = [i \in 0..(n - 1) |-> Blank]
      /\ done = 0 /\ w = 0 /\ next = <<>> /\ until = <<>> /\ generated = FALSE
  BY GenerationAssumption DEF GenerationInit
<1>2. 0..(0 - 1) = {} /\ DOMAIN next = {} /\ DOMAIN until = {}
  BY <1>1
<1>3. GenTyped
  <2>1. dag \in [0..(nodeCount - 1) -> Int]
    BY <1>1 DEF Blank
  <2>2. DOMAIN next = 0..(w - 1) /\ DOMAIN until = 0..(w - 1) /\ w \in 0..workers
    BY <1>1, <1>2
  <2> QED
    BY <1>1, <2>1, <2>2 DEF GenTyped
<1>4. Start(0) = 0
  BY <1>3, ChunkIsPositive DEF Start
<1>5. Chunks /\ Covered /\ Finished
  BY <1>1, <1>2, <1>4 DEF Chunks, Covered, Finished, Cells
<1>6. Writes
  <2>1. Written = {}
    BY <1>1 DEF Written, Cells
  <2>2. Cardinality({}) = 0
    BY FS_EmptySet
  <2> QED
    BY <1>1, <1>2, <2>1, <2>2 DEF Writes
<1>7. /\ stage = "dag" /\ levelCounts = <<nodeCount>> /\ top = 0
      /\ read = 0 /\ at = -1 /\ level = 0 /\ hasAcc = FALSE
  BY DEF Init, MerkleInit
<1>8. MerkleInv
  <2>1. Counts
    BY <1>1, <1>7 DEF Counts
  <2>2. Shape /\ Unused /\ FoldInv /\ RootInv /\ stage \in Early /\ stage \notin Late
    BY <1>7 DEF Shape, Unused, FoldInv, RootInv, Early, Late
  <2> QED
    BY <1>7, <2>1, <2>2 DEF MerkleInv
<1> QED
  BY <1>3, <1>5, <1>6, <1>8 DEF IInv, GenInv

\* The block's steps leave the DAG and its trees alone.
LEMMA Undisturbed ==
  ASSUME IInv, UNCHANGED merkleVars
  PROVE  IInv'
<1>1. GenInv'
  BY GenKept DEF IInv, merkleVars, treeVars
<1>2. MerkleInv'
  <2>1. Shape' /\ Counts' /\ Unused'
    BY DEF IInv, MerkleInv, Shape, Counts, Unused, Size, TreeNode, Leaf, Depth, Count, Early,
           merkleVars, treeVars, dagVars, emitVars, foldVars
  <2>2. (stage \in Late => EmitTyped /\ Emits /\ EmitStage)'
    BY DEF IInv, MerkleInv, EmitTyped, Emits, EmitStage, Base, Held, Size, TreeNode, Depth,
           Late, merkleVars, treeVars, dagVars, emitVars
  <2>3. FoldInv' /\ RootInv' /\ (stage \in Early \cup Late)' /\ hasAcc' \in BOOLEAN
    BY DEF IInv, MerkleInv, FoldInv, RootInv, Size, TreeNode, Depth, Early, Late,
           merkleVars, treeVars, emitVars, foldVars
  <2> QED
    BY <2>1, <2>2, <2>3 DEF MerkleInv
<1> QED
  BY <1>1, <1>2 DEF IInv

LEMMA NextPreserves ==
  ASSUME IInv, [Next]_vars
  PROVE  IInv'
<1>1. CASE GenerationNext /\ UNCHANGED <<levels, top, levelCounts, targets, wanted, stage,
                                         read, emitVars, level, foldVars>>
  BY <1>1, GenerationKeeps
<1>2. CASE MerkleNext
  BY <1>2, LeavesPreserve, NextLevelPreserves, NextCountPreserves, PrepareProofsPreserves,
     ReadLeafPreserves, ParkPreserves, CombinePreserves, LeavesReadPreserves,
     FoldLevelPreserves, FoldedPreserves, CompleteLevelPreserves, CompletedPreserves
     DEF MerkleNext
<1>3. CASE SealBlock \/ Arrives \/ Validate \/ RunVerify
  <2>1. UNCHANGED merkleVars
    BY <1>3 DEF SealBlock, Arrives, Validate, RunVerify
  <2> QED
    BY <2>1, Undisturbed
<1>4. CASE UNCHANGED vars
  BY <1>4, Undisturbed DEF vars
<1> QED
  BY <1>1, <1>2, <1>3, <1>4 DEF Next

(***************************************************************************)
(* What relates the DAG, the tree in memory and the state of the streams   *)
(* holds in every state: the invariant the theorems below rest on.         *)
(***************************************************************************)
THEOREM Invariant == Spec => []IInv
<1>1. Init => IInv
  BY InitIInv
<1>2. IInv /\ [Next]_vars => IInv'
  BY NextPreserves
<1> QED
  BY <1>1, <1>2, PTL DEF Spec

(***************************************************************************)
(* Every cell of a generated DAG is written, once, with the content that   *)
(* every other node computes for it, whatever the numbers of cells and of  *)
(* workers (dag.go:134-171).                                               *)
(***************************************************************************)
THEOREM CellsWrittenOnce == Spec => []EveryCellOnce
<1>1. IInv => EveryCellOnce
  BY OnceEach DEF IInv
<1> QED
  BY <1>1, Invariant, PTL

(***************************************************************************)
(* The validator's streamed root and the root of the miner's multiproof    *)
(* are the root of the tree in memory, whatever the number of cells        *)
(* (validator.go:418-464, merkle.go:277-298, against merkle.go:107-159).   *)
(***************************************************************************)
THEOREM RootsEqual == Spec => []RootsAgree
<1>1. ASSUME IInv
      PROVE  RootsAgree
  <2>1. ASSUME stage = "built"
        PROVE  hasPending[Depth] /\ pending[Depth] = TreeNode(top, 0)
    <3>1. EmitTyped /\ Emits /\ EmitStage /\ at = -1 /\ level = Depth /\ Base = Depth
      BY <1>1, <2>1 DEF IInv, MerkleInv, Late, EmitStage, Base
    <3>2. Depth \in Nat /\ Depth = top /\ Size(Depth) = 1
      BY <1>1, <2>1, Tree
    <3>3. nextIndex[Depth] = 1
      <4>1. nextIndex[Depth] = Size(Depth) - Held(Depth)
        BY <2>1, <3>1 DEF EmitStage
      <4> QED
        BY <3>1, <3>2, <4>1 DEF Held
    <3>4. 1 % 2 = 1 /\ 1 - 1 = 0 /\ Depth \in Base..Depth
      BY <3>1, <3>2
    <3> QED
      BY <3>1, <3>2, <3>3, <3>4 DEF Emits
  <2>2. RootInv
    BY <1>1 DEF IInv, MerkleInv
  <2> QED
    BY <2>1, <2>2 DEF RootsAgree, RootInv, BuildMerkleRoot
<1> QED
  BY <1>1, Invariant, PTL

-----------------------------------------------------------------------------
(***************************************************************************)
(* The validator and the verify command check the block as it arrived, at  *)
(* a time of their own, and keep their verdict: nothing that they look at  *)
(* changes any more.                                                       *)
(***************************************************************************)
VerdictInv ==
  /\ block # NoBlock => stage = "built"
  /\ verdict = "accepted" => HasArrived /\ Accepts
  /\ verdict = "rejected" => HasArrived /\ ~Accepts
  /\ verified = "valid" => HasArrived /\ Verifies
  /\ verified = "invalid" => HasArrived /\ ~Verifies

\* The trees are finished once a block is there.
LEMMA BuiltIsFinal ==
  ASSUME IInv, stage = "built", GenerationNext \/ MerkleNext
  PROVE  FALSE
<1>1. generated /\ at = -1
  BY DEF IInv, MerkleInv, Shape, EmitStage, Late
<1>2. ~MerkleNext
  BY <1>1 DEF MerkleNext, BuildMerkleLeaves, NextLevel, NextCount, PrepareProofs, ReadLeaf,
              Park, Combine, LeavesRead, FoldLevel, Folded, CompleteLevel, Completed
<1>3. ~GenerationNext
  BY <1>1, StillGenerating DEF IInv
<1> QED
  BY <1>2, <1>3

\* The root of a tree is the hash of something.
LEMMA RootIsSomething ==
  ASSUME IInv, stage = "built"
  PROVE  acc # Nothing
<1>1. acc = TreeNode(top, 0)
  BY DEF IInv, MerkleInv, RootInv
<1>2. top \in Nat /\ Size(top) = 1 /\ Size(0) = nodeCount
  BY DEF IInv, MerkleInv, Shape
<1>3. CASE top = 0
  BY <1>1, <1>2, <1>3 DEF IInv, MerkleInv, Shape, Leaf, Nothing
<1>4. CASE top > 0
  <2>1. top - 1 \in 0..(top - 1) /\ (top - 1) + 1 = top /\ 0 \in 0..(Size(top) - 1)
    BY <1>2, <1>4
  <2>2. acc = hashPair(TreeNode(top - 1, 2 * 0),
                       TreeNode(top - 1, IF 2 * 0 + 1 < Size(top - 1) THEN 2 * 0 + 1 ELSE 2 * 0))
    BY <1>1, <2>1 DEF IInv, MerkleInv, Shape
  <2> QED
    BY <2>2 DEF hashPair, Nothing
<1> QED
  BY <1>2, <1>3, <1>4

\* Neither check depends on anything but the block and the DAG.
LEMMA ChecksAreStable ==
  ASSUME UNCHANGED <<nodeCount, acc, block>>
  PROVE  /\ Accepts' <=> Accepts
         /\ Verifies' <=> Verifies
         /\ HasArrived' <=> HasArrived
<1>1. Accepts' <=> Accepts
  BY DEF Accepts, SolutionGiven, RefsResolve, Received, ExpandCompactColossusXSolution,
         VerifyColossusXSolution, OfNodeSize, ExpectedIndex, AuditIndices,
         ColossusXAuditIndices
<1>2. Verifies' <=> Verifies
  BY DEF Verifies, SolutionGiven, RefsResolve, Received, ExpandCompactColossusXSolution,
         VerifyColossusXSolution, OfNodeSize, ExpectedIndex, AuditIndices,
         ColossusXAuditIndices
<1> QED
  BY <1>1, <1>2 DEF HasArrived

LEMMA VerdictKept ==
  ASSUME IInv, VerdictInv, [Next]_vars
  PROVE  VerdictInv'
<1> USE DEF VerdictInv
<1>1. CASE UNCHANGED <<merkleVars, header, block, verdict, verified>>
  BY <1>1, ChecksAreStable DEF merkleVars, treeVars, dagVars, foldVars
<1>2. CASE (GenerationNext \/ MerkleNext) /\ UNCHANGED <<header, block, verdict, verified>>
  <2>1. block = NoBlock
    BY <1>2, BuiltIsFinal
  <2> QED
    BY <1>2, <2>1 DEF HasArrived
<1>3. CASE SealBlock
  <2>1. stage' = "built" /\ ~HasArrived /\ UNCHANGED <<verdict, verified>>
    BY <1>3 DEF SealBlock, HasArrived, merkleVars
  <2> QED
    BY <2>1
<1>4. CASE Arrives
  <2>1. block.form = "compact" /\ UNCHANGED <<stage, verdict, verified>>
    <3>1. block.form = "compact" /\ UNCHANGED <<merkleVars, verdict, verified>>
      BY <1>4, Zenon DEF Arrives
    <3> QED
      BY <3>1 DEF merkleVars
  <2>2. NoBlock.form = "none"
    BY DEF NoBlock
  <2>3. ~HasArrived /\ block # NoBlock
    BY <2>1, <2>2 DEF HasArrived
  <2> QED
    BY <2>1, <2>3
<1>5. CASE Validate
  BY <1>5, ChecksAreStable DEF Validate, merkleVars, treeVars, dagVars, foldVars
<1>6. CASE RunVerify
  <2>1. /\ HasArrived /\ UNCHANGED <<nodeCount, acc, block, stage, verdict>>
        /\ verified' = "valid" => Verifies
        /\ verified' = "invalid" => ~Verifies
    BY <1>6 DEF RunVerify, merkleVars, treeVars, dagVars, foldVars
  <2> QED
    BY <2>1, ChecksAreStable
<1>7. CASE UNCHANGED vars
  BY <1>1, <1>7 DEF vars
<1> QED
  BY <1>2, <1>3, <1>4, <1>5, <1>6, <1>7 DEF Next

-----------------------------------------------------------------------------
(***************************************************************************)
(* Functions defined by recursion on numbers.  Induction is over sets of   *)
(* numbers: a set that has 0, and the successor of each of its members,    *)
(* is Nat.                                                                 *)
(***************************************************************************)
LEMMA SetInduction ==
  ASSUME NEW S \in SUBSET Nat, 0 \in S, \A n \in S : n + 1 \in S
  PROVE  S = Nat
<1> DEFINE R == OpToRel(<, Nat)
           T == Nat \ S
<1> SUFFICES ASSUME T # {} PROVE FALSE
  OBVIOUS
<1>1. IsWellFoundedOn(R, Nat)
  BY NatLessThanWellFounded
<1>2. \A x, y \in Nat : x < y => <<x, y>> \in R
  BY DEF OpToRel
<1> HIDE DEF R
<1>3. PICK m \in T : \A y \in T : <<y, m>> \notin R
  <2>1. T \in SUBSET Nat
    OBVIOUS
  <2> HIDE DEF T
  <2> QED
    BY <1>1, <2>1, WFMin
<1>4. m \in Nat /\ m # 0
  BY <1>3
<1>5. m - 1 \in Nat /\ m - 1 < m /\ (m - 1) + 1 = m
  BY <1>4
<1>6. m - 1 \notin T
  BY <1>2, <1>3, <1>4, <1>5
<1> QED
  BY <1>3, <1>4, <1>5, <1>6

\* What is made of a value by the n-th step.
Steps(A) == [Nat -> [A -> A]]

\* f is defined from a by these steps.
Recursive(f, A, a, step) ==
  f \in [Nat -> A] /\ f[0] = a /\ \A n \in Nat : f[n + 1] = step[n][f[n]]

\* Such a function exists.
LEMMA Recursion ==
  ASSUME NEW A, NEW a \in A, NEW step \in Steps(A)
  PROVE  \E f : Recursive(f, A, a, step)
<1> USE DEF Steps
<1> DEFINE Upto(n) == {g \in [0..n -> A] :
                         g[0] = a /\ \A k \in 0..(n - 1) : g[k + 1] = step[k][g[k]]}
<1>1. ASSUME NEW n \in Nat
      PROVE  Upto(n) # {}
  <2> DEFINE S == {k \in Nat : Upto(k) # {}}
  <2>1. 0 \in S
    <3>1. [k \in 0..0 |-> a] \in Upto(0)
      OBVIOUS
    <3> QED
      BY <3>1
  <2>2. ASSUME NEW k \in S
        PROVE  k + 1 \in S
    <3>1. PICK g \in Upto(k) : TRUE
      OBVIOUS
    <3> DEFINE h == [j \in 0..(k + 1) |-> IF j = k + 1 THEN step[k][g[k]] ELSE g[j]]
    <3>2. k \in Nat /\ g \in [0..k -> A] /\ g[0] = a
          /\ \A j \in 0..(k - 1) : g[j + 1] = step[j][g[j]]
      BY <3>1
    <3>3. h \in [0..(k + 1) -> A] /\ h[0] = a
      <4>1. step[k][g[k]] \in A
        BY <3>2
      <4> QED
        BY <3>2, <4>1
    <3>4. ASSUME NEW j \in 0..((k + 1) - 1)
          PROVE  h[j + 1] = step[j][h[j]]
      <4>1. CASE j = k
        BY <3>2, <4>1
      <4>2. CASE j # k
        <5>1. j \in 0..(k - 1) /\ j + 1 \in 0..k /\ j \in 0..k
          BY <3>2, <4>2
        <5> QED
          BY <3>2, <5>1
      <4> QED
        BY <4>1, <4>2
    <3>5. h \in Upto(k + 1)
      BY <3>3, <3>4
    <3>6. Upto(k + 1) # {} /\ k + 1 \in Nat
      <4> HIDE DEF Upto
      <4> QED
        BY <3>2, <3>5
    <3> QED
      BY <3>6
  <2>3. S \in SUBSET Nat
    OBVIOUS
  <2> HIDE DEF S
  <2>4. S = Nat
    BY <2>1, <2>2, <2>3, SetInduction
  <2> QED
    BY <2>4 DEF S
<1>2. ASSUME NEW n \in Nat, NEW m \in Nat, NEW g \in Upto(n), NEW h \in Upto(m),
             NEW k \in Nat, k <= n, k <= m
      PROVE  g[k] = h[k]
  <2> DEFINE S == {j \in Nat : j <= n /\ j <= m => g[j] = h[j]}
  <2>1. 0 \in S
    OBVIOUS
  <2>2. ASSUME NEW j \in S
        PROVE  j + 1 \in S
    <3> SUFFICES ASSUME j + 1 <= n, j + 1 <= m PROVE g[j + 1] = h[j + 1]
      OBVIOUS
    <3>1. j \in 0..(n - 1) /\ j \in 0..(m - 1) /\ g[j] = h[j]
      OBVIOUS
    <3> QED
      BY <3>1
  <2>3. S \in SUBSET Nat
    OBVIOUS
  <2> HIDE DEF S
  <2>4. S = Nat
    BY <2>1, <2>2, <2>3, SetInduction
  <2> QED
    BY <1>2, <2>4 DEF S
<1> DEFINE G(n) == CHOOSE g : g \in Upto(n)
           f == [n \in Nat |-> G(n)[n]]
<1>3. ASSUME NEW n \in Nat
      PROVE  G(n) \in Upto(n)
  <2>1. \E g : g \in Upto(n)
    BY <1>1
  <2> HIDE DEF Upto
  <2> QED
    BY <2>1
<1>4. ASSUME NEW n \in Nat
      PROVE  /\ G(n) \in [0..n -> A] /\ G(n)[0] = a
             /\ \A k \in 0..(n - 1) : G(n)[k + 1] = step[k][G(n)[k]]
  <2> HIDE DEF G
  <2> QED
    BY <1>3
<1>5. f \in [Nat -> A]
  <2> HIDE DEF G
  <2>1. \A n \in Nat : n \in 0..n
    OBVIOUS
  <2> QED
    BY <1>4, <2>1
<1>6. f[0] = a
  <2> HIDE DEF G
  <2> QED
    BY <1>4
<1>7. ASSUME NEW n \in Nat
      PROVE  f[n + 1] = step[n][f[n]]
  <2> HIDE DEF G, Upto
  <2>1. G(n + 1)[n] = G(n)[n]
    <3>1. n \in Nat /\ n + 1 \in Nat /\ n <= n + 1 /\ n <= n
      OBVIOUS
    <3>2. G(n) \in Upto(n) /\ G(n + 1) \in Upto(n + 1)
      BY <1>3, <3>1
    <3> HIDE DEF f
    <3> QED
      BY <1>2, <3>1, <3>2
  <2>2. n \in 0..((n + 1) - 1) /\ n + 1 \in Nat
    OBVIOUS
  <2>3. G(n + 1)[n + 1] = step[n][G(n + 1)[n]]
    BY <1>4, <2>2
  <2> QED
    BY <2>1, <2>2, <2>3
<1> HIDE DEF f
<1>8. Recursive(f, A, a, step)
  BY <1>5, <1>6, <1>7 DEF Recursive
<1> QED
  BY <1>8

\* The positions above a cell are the halves of those below.
LEMMA Positions ==
  ASSUME NEW i \in Nat
  PROVE  /\ Position(i) \in [Nat -> Nat] /\ Position(i)[0] = i
         /\ \A l \in Nat : Position(i)[l + 1] = Position(i)[l] \div 2
<1> DEFINE half == [l \in Nat |-> [x \in Nat |-> x \div 2]]
           P(p) == p = [l \in Nat |-> IF l = 0 THEN i ELSE p[l - 1] \div 2]
<1>1. half \in Steps(Nat)
  <2>1. \A x \in Nat : x \div 2 \in Nat
    OBVIOUS
  <2> QED
    BY <2>1 DEF Steps
<1>2. PICK f : f \in [Nat -> Nat] /\ f[0] = i /\ \A n \in Nat : f[n + 1] = half[n][f[n]]
  <2> HIDE DEF half
  <2>1. PICK f : Recursive(f, Nat, i, half)
    BY <1>1, Recursion
  <2> QED
    BY <2>1 DEF Recursive
<1>3. P(f)
  <2>1. ASSUME NEW l \in Nat
        PROVE  f[l] = IF l = 0 THEN i ELSE f[l - 1] \div 2
    <3>1. CASE l # 0
      <4>1. l - 1 \in Nat /\ (l - 1) + 1 = l
        BY <3>1
      <4>2. f[l] = half[l - 1][f[l - 1]] /\ f[l - 1] \in Nat
        BY <1>2, <4>1
      <4> QED
        BY <3>1, <4>1, <4>2
    <3> QED
      BY <1>2, <3>1
  <2>2. f = [l \in Nat |-> f[l]]
    BY <1>2
  <2> QED
    BY <2>1, <2>2
<1>4. P(Position(i))
  BY <1>3 DEF Position
<1>5. /\ Position(i)[0] = i
      /\ \A l \in Nat : Position(i)[l + 1] = Position(i)[l] \div 2
  <2>1. \A l \in Nat : l + 1 \in Nat /\ l + 1 # 0 /\ (l + 1) - 1 = l
    OBVIOUS
  <2> QED
    BY <1>4, <2>1
<1>6. \A l \in Nat : Position(i)[l] \in Nat
  <2> DEFINE S == {l \in Nat : Position(i)[l] \in Nat}
  <2>1. 0 \in S /\ \A l \in S : l + 1 \in S
    BY <1>5
  <2>2. S \in SUBSET Nat
    OBVIOUS
  <2> HIDE DEF S
  <2>3. S = Nat
    BY <2>1, <2>2, SetInduction
  <2> QED
    BY <2>3 DEF S
<1>7. Position(i) = [l \in Nat |-> Position(i)[l]]
  <2>1. \A p : P(p) => p = [l \in Nat |-> p[l]]
    OBVIOUS
  <2> QED
    BY <1>4, <2>1
<1> QED
  BY <1>5, <1>6, <1>7

-----------------------------------------------------------------------------
(***************************************************************************)
(* What is hashed: a mix is a sequence of the header, the nonce and nodes, *)
(* and the hashes that choose cells return numbers.                        *)
(***************************************************************************)
Mix == Seq(Header \cup NonceSet \cup {Leaf(c) : c \in Int})

\* The hashes that choose the cells return numbers.
Words ==
  \A r \in Nat, mix \in Mix : Pick(r, mix) \in Nat /\ AuditPick(mix, r) \in Nat

\* What round r of the hash reads.
NextCell(r, mix) == Leaf(CellContent(Pick(r - 1, mix) % nodeCount))

\* The rounds of the hash, one after the other.
LEMMA MixesDefined ==
  ASSUME Words, nodeCount \in Nat \ {0}, NEW h \in Header, NEW n \in NonceSet
  PROVE  /\ Mixes(h, n)[0] = Initial(h, n)
         /\ \A r \in 0..ReadsPerHash : Mixes(h, n)[r] \in Mix
         /\ \A r \in 1..ReadsPerHash :
              Mixes(h, n)[r] = RoundMix(Mixes(h, n)[r - 1], NextCell(r, Mixes(h, n)[r - 1]))
<1> DEFINE step == [r \in Nat |-> [m \in Mix |-> RoundMix(m, NextCell(r + 1, m))]]
           P(x) == x = [r \in 0..ReadsPerHash |->
                          IF r = 0 THEN Initial(h, n)
                          ELSE RoundMix(x[r - 1], Leaf(CellContent(Pick(r - 1, x[r - 1]) % nodeCount)))]
<1>1. Initial(h, n) \in Mix
  BY DEF Initial, Mix
<1>2. ASSUME NEW r \in Nat, NEW m \in Mix
      PROVE  RoundMix(m, NextCell(r + 1, m)) \in Mix
  <2>1. Pick(r, m) \in Nat /\ (r + 1) - 1 = r
    BY DEF Words
  <2>2. NextCell(r + 1, m) \in {Leaf(c) : c \in Int}
    BY <2>1 DEF NextCell, CellContent
  <2> QED
    BY <2>2 DEF RoundMix, Mix
<1>3. step \in Steps(Mix)
  BY <1>2 DEF Steps
<1>4. PICK f : f \in [Nat -> Mix] /\ f[0] = Initial(h, n)
               /\ \A r \in Nat : f[r + 1] = step[r][f[r]]
  <2> HIDE DEF step
  <2>1. PICK f : Recursive(f, Mix, Initial(h, n), step)
    BY <1>1, <1>3, Recursion
  <2> QED
    BY <2>1 DEF Recursive
<1> DEFINE g == [r \in 0..ReadsPerHash |-> f[r]]
<1>5. ASSUME NEW r \in 1..ReadsPerHash
      PROVE  g[r] = RoundMix(g[r - 1], NextCell(r, g[r - 1]))
  <2>1. r - 1 \in Nat /\ (r - 1) + 1 = r /\ r \in 0..ReadsPerHash /\ r - 1 \in 0..ReadsPerHash
    BY SolutionAssumption
  <2>2. f[r] = step[r - 1][f[r - 1]] /\ f[r - 1] \in Mix
    BY <1>4, <2>1
  <2> QED
    BY <2>1, <2>2
<1>6. g[0] = Initial(h, n) /\ \A r \in 0..ReadsPerHash : r \in Nat
  BY <1>4, SolutionAssumption
<1> HIDE DEF step
<1>7. P(g)
  <2>1. \A r \in 0..ReadsPerHash : r # 0 => r \in 1..ReadsPerHash
    BY SolutionAssumption
  <2>2. g = [r \in 0..ReadsPerHash |-> g[r]]
    OBVIOUS
  <2> HIDE DEF g
  <2>3. \A r \in 0..ReadsPerHash :
          g[r] = IF r = 0 THEN Initial(h, n)
                 ELSE RoundMix(g[r - 1], Leaf(CellContent(Pick(r - 1, g[r - 1]) % nodeCount)))
    BY <1>5, <1>6, <2>1 DEF NextCell
  <2> QED
    BY <2>2, <2>3
<1>8. P(Mixes(h, n))
  <2> HIDE DEF g
  <2> QED
    BY <1>7 DEF Mixes
<1>9. /\ Mixes(h, n)[0] = Initial(h, n)
      /\ \A r \in 1..ReadsPerHash :
           Mixes(h, n)[r] = RoundMix(Mixes(h, n)[r - 1], NextCell(r, Mixes(h, n)[r - 1]))
  <2>1. 0 \in 0..ReadsPerHash
        /\ \A r \in 1..ReadsPerHash : r \in 0..ReadsPerHash /\ r # 0
    BY SolutionAssumption
  <2> QED
    BY <1>8, <2>1 DEF NextCell
<1> DEFINE S == {r \in Nat : r <= ReadsPerHash => Mixes(h, n)[r] \in Mix}
<1>10. S = Nat
  <2>1. 0 \in S
    BY <1>1, <1>9
  <2>2. ASSUME NEW r \in S
        PROVE  r + 1 \in S
    <3> SUFFICES ASSUME r + 1 <= ReadsPerHash PROVE Mixes(h, n)[r + 1] \in Mix
      OBVIOUS
    <3>1. r \in Nat /\ r + 1 \in 1..ReadsPerHash /\ (r + 1) - 1 = r /\ Mixes(h, n)[r] \in Mix
      BY SolutionAssumption
    <3> QED
      BY <1>2, <1>9, <3>1
  <2>3. S \in SUBSET Nat
    OBVIOUS
  <2> HIDE DEF S
  <2> QED
    BY <2>1, <2>2, <2>3, SetInduction
<1>11. \A r \in 0..ReadsPerHash : Mixes(h, n)[r] \in Mix
  BY <1>10, SolutionAssumption
<1> QED
  BY <1>9, <1>11

\* The cells that a hash reads, and those that are audited, exist.
LEMMA Indices ==
  ASSUME Words, nodeCount \in Nat \ {0}, NEW h \in Header, NEW n \in NonceSet
  PROVE  /\ \A r \in 1..ReadsPerHash : Accessed(h, n)[r] \in Cells
         /\ MixDigest(h, n) \in Mix
         /\ \A mix \in Mix : \A i \in 1..ColossusXAuditCellCount :
              ColossusXAuditIndices(mix)[i] \in Cells
         /\ Needed(h, n) \subseteq Cells
<1>1. ASSUME NEW x \in Nat
      PROVE  x % nodeCount \in Cells
  BY DEF Cells
<1>2. ASSUME NEW r \in 1..ReadsPerHash
      PROVE  Accessed(h, n)[r] \in Cells
  <2>1. r - 1 \in Nat /\ r - 1 \in 0..ReadsPerHash
    BY SolutionAssumption
  <2>2. Pick(r - 1, Mixes(h, n)[r - 1]) \in Nat
    BY <2>1, MixesDefined DEF Words
  <2> QED
    BY <1>1, <2>2 DEF Accessed
<1>3. MixDigest(h, n) \in Mix
  BY MixesDefined, SolutionAssumption DEF MixDigest
<1>4. ASSUME NEW mix \in Mix, NEW i \in 1..ColossusXAuditCellCount
      PROVE  ColossusXAuditIndices(mix)[i] \in Cells
  <2>1. i - 1 \in Nat
    BY SolutionAssumption
  <2>2. AuditPick(mix, i - 1) \in Nat
    BY <2>1 DEF Words
  <2> QED
    BY <1>1, <2>2 DEF ColossusXAuditIndices
<1>5. Needed(h, n) \subseteq Cells
  <2>1. SeqRange(Accessed(h, n)) \subseteq Cells
    <3>1. Len(Accessed(h, n)) = ReadsPerHash
      BY SolutionAssumption DEF Accessed
    <3> QED
      BY <1>2, <3>1 DEF SeqRange
  <2>2. SeqRange(ColossusXAuditIndices(MixDigest(h, n))) \subseteq Cells
    <3>1. Len(ColossusXAuditIndices(MixDigest(h, n))) = ColossusXAuditCellCount
      BY SolutionAssumption DEF ColossusXAuditIndices
    <3> QED
      BY <1>3, <1>4, <3>1 DEF SeqRange
  <2> QED
    BY <2>1, <2>2 DEF Needed
<1> QED
  BY <1>2, <1>3, <1>4, <1>5

-----------------------------------------------------------------------------
(***************************************************************************)
(* The multiproof.  A wanted node has been filled in when it has been      *)
(* emitted, by number.                                                     *)
(***************************************************************************)
InputInv ==
  /\ header \in Header /\ nonce \in NonceSet
  /\ targets = Needed(header, nonce)
  /\ Solves(MixDigest(header, nonce))

\* A slot is filled once its sibling has been emitted, with the tree's node.
Slots == \A t \in targets : \A l \in 0..(Depth - 1) :
  /\ wanted[t][l] = Sibling(Position(t)[l], Size(l))
  /\ filled[t][l] <=> wanted[t][l] < nextIndex[l]
  /\ filled[t][l] => proofs[t][l] = TreeNode(l, wanted[t][l])

\* In the end all nodes of all levels have been emitted.
WantedInv ==
  /\ stage \in Late => Slots
  /\ stage \in {"complete", "built"} => \A l \in 0..(level - 1) : nextIndex[l] = Size(l)

\* A cell's ancestor on a level is one of the nodes there.
LEMMA PositionFits ==
  ASSUME IInv, stage \notin {"dag", "levels", "counts"}, NEW i \in Cells, NEW l \in 0..Depth
  PROVE  Position(i)[l] \in 0..(Size(l) - 1)
<1>1. i \in Nat /\ Depth \in Nat /\ Size(0) = nodeCount /\ i < nodeCount
  BY Tree DEF Cells
<1> DEFINE S == {k \in Nat : k <= Depth => Position(i)[k] < Size(k)}
<1>2. 0 \in S
  BY <1>1, Positions
<1>3. ASSUME NEW k \in S
      PROVE  k + 1 \in S
  <2> SUFFICES ASSUME k + 1 <= Depth PROVE Position(i)[k + 1] < Size(k + 1)
    OBVIOUS
  <2>1. k \in 0..(Depth - 1) /\ k \in 0..Depth /\ k \in Nat /\ Position(i)[k] < Size(k)
    BY <1>1
  <2>2. Size(k) \in Nat /\ Size(k + 1) = (Size(k) + 1) \div 2
    BY <2>1, Tree
  <2>3. Position(i)[k] \in Nat /\ Position(i)[k + 1] = Position(i)[k] \div 2
    BY <1>1, <2>1, Positions
  <2> QED
    BY <2>1, <2>2, <2>3
<1>4. S \in SUBSET Nat
  OBVIOUS
<1> HIDE DEF S
<1>5. S = Nat
  BY <1>2, <1>3, <1>4, SetInduction
<1>6. l \in Nat /\ l <= Depth /\ Position(i)[l] < Size(l)
  BY <1>1, <1>5 DEF S
<1>7. Position(i)[l] \in Nat /\ Size(l) \in Nat
  BY <1>1, <1>6, Positions, Tree
<1> QED
  BY <1>6, <1>7

\* So is its sibling there.
LEMMA SiblingFits ==
  ASSUME NEW pos \in Nat, NEW count \in Nat, pos < count
  PROVE  Sibling(pos, count) \in 0..(count - 1)
<1>1. Neighbour(pos) \in Nat
  BY DEF Neighbour
<1> QED
  BY <1>1 DEF Sibling

\* Header, nonce and targets never change.
LEMMA InputKept ==
  ASSUME IInv, InputInv, [Next]_vars
  PROVE  InputInv' /\ targets' = targets
<1>1. UNCHANGED <<header, nonce, targets, nodeCount>>
  BY DEF Next, vars, merkleVars, treeVars, dagVars, GenerationNext, StartWorker, WriteCell, Wait,
         MerkleNext, BuildMerkleLeaves, NextLevel, NextCount, PrepareProofs, ReadLeaf, Park,
         Combine, LeavesRead, FoldLevel, Folded, CompleteLevel, Completed, SealBlock, Arrives,
         Validate, RunVerify
<1> QED
  BY <1>1 DEF InputInv, Needed, Accessed, MixDigest, Mixes, ColossusXAuditIndices

\* The wanted cells exist.
LEMMA TargetsAreCells ==
  ASSUME Words, IInv, InputInv
  PROVE  targets \subseteq Cells
BY Indices DEF InputInv, IInv, GenInv, GenTyped

\* Before the first node is emitted nothing is filled.
LEMMA PrepareWants ==
  ASSUME Words, IInv, InputInv, PrepareProofs
  PROVE  WantedInv'
<1>1. /\ stage = "wanted" /\ stage' = "leaves"
      /\ UNCHANGED <<dagVars, levels, top, levelCounts, targets>>
      /\ wanted' = [t \in targets |-> SiblingsOf(t)]
      /\ nextIndex' = [l \in 0..Depth |-> 0]
      /\ filled' = [t \in targets |-> [l \in 0..(Depth - 1) |-> FALSE]]
  BY DEF PrepareProofs
<1>2. /\ Depth' = Depth /\ Depth \in Nat /\ \A l : Size(l)' = Size(l)
      /\ \A l \in 0..Depth : Count(l) = Size(l)
  BY <1>1, LateKept DEF Late, IInv, MerkleInv, Counts
<1>3. ASSUME NEW t \in targets, NEW l \in 0..(Depth - 1)
      PROVE  /\ wanted'[t][l] = Sibling(Position(t)[l], Size(l))
             /\ wanted'[t][l] \in Nat
             /\ ~filled'[t][l] /\ nextIndex'[l] = 0
  <2>1. t \in Cells /\ l \in 0..Depth
    BY <1>2, TargetsAreCells
  <2>2. /\ wanted'[t][l] = Sibling(Position(t)[l], Count(l))
        /\ ~filled'[t][l] /\ nextIndex'[l] = 0
    BY <1>1, <2>1 DEF SiblingsOf
  <2>3. Position(t)[l] \in 0..(Size(l) - 1) /\ Size(l) \in Nat
    BY <1>1, <2>1, PositionFits, Tree
  <2>4. Sibling(Position(t)[l], Size(l)) \in Nat
    BY <2>3, SiblingFits
  <2> QED
    BY <1>2, <2>1, <2>2, <2>4
<1>4. Slots'
  BY <1>1, <1>2, <1>3 DEF Slots
<1> QED
  BY <1>1, <1>4 DEF WantedInv

\* A node is emitted: those who wanted it have it.
LEMMA EmittingFills ==
  ASSUME Words, IInv, InputInv, WantedInv, at >= 0, Park \/ Combine
  PROVE  WantedInv'
<1> PICK a : a = at
  OBVIOUS
<1>1. /\ stage \in {"leaves", "complete"} /\ stage' = stage
      /\ EmitTyped /\ Emits
      /\ a \in Base..Depth /\ Base \in Nat /\ a \in 0..Depth
      /\ nextIndex' = [nextIndex EXCEPT ![a] = nextIndex[a] + 1]
      /\ UNCHANGED <<dagVars, levels, top, levelCounts, level>>
  BY Emitting
<1>2. /\ Depth' = Depth /\ Depth \in Nat
      /\ \A l : Size(l)' = Size(l) /\ \A i : TreeNode(l, i)' = TreeNode(l, i)
  BY <1>1, LateKept DEF Late
<1>3. /\ UNCHANGED <<targets, wanted>>
      /\ proofs' = [t \in targets |-> [l \in 0..(Depth - 1) |->
                      IF WantedHere(t, l) THEN hash ELSE proofs[t][l]]]
      /\ filled' = [t \in targets |-> [l \in 0..(Depth - 1) |->
                      filled[t][l] \/ WantedHere(t, l)]]
  BY DEF Park, Combine, AssignWanted, treeVars
<1>4. Slots
  BY <1>1 DEF WantedInv, Late
<1>5. hash = TreeNode(a, nextIndex[a]) /\ nextIndex \in [0..Depth -> Nat]
  BY <1>1 DEF Emits, EmitTyped
<1>6. ASSUME NEW t \in targets, NEW l \in 0..(Depth - 1)
      PROVE  /\ wanted[t][l] = Sibling(Position(t)[l], Size(l))
             /\ filled'[t][l] <=> wanted[t][l] < nextIndex'[l]
             /\ filled'[t][l] => proofs'[t][l] = TreeNode(l, wanted[t][l])
  <2>1. /\ wanted[t][l] = Sibling(Position(t)[l], Size(l))
        /\ filled[t][l] <=> wanted[t][l] < nextIndex[l]
        /\ filled[t][l] => proofs[t][l] = TreeNode(l, wanted[t][l])
    BY <1>4 DEF Slots
  <2>2. filled'[t][l] <=> filled[t][l] \/ WantedHere(t, l)
    BY <1>3
  <2>3. proofs'[t][l] = IF WantedHere(t, l) THEN hash ELSE proofs[t][l]
    BY <1>3
  <2>4. WantedHere(t, l) <=> l = a /\ wanted[t][l] = nextIndex[a]
    BY DEF WantedHere
  <2>5. wanted[t][l] \in Nat /\ nextIndex[l] \in Nat
    <3>1. t \in Cells /\ l \in 0..Depth
      BY <1>2, TargetsAreCells
    <3>2. Position(t)[l] \in 0..(Size(l) - 1) /\ Size(l) \in Nat
      BY <1>1, <3>1, PositionFits, Tree
    <3>3. Sibling(Position(t)[l], Size(l)) \in Nat
      BY <3>2, SiblingFits
    <3> QED
      BY <1>5, <2>1, <3>1, <3>3
  <2>6. CASE l = a
    <3>1. nextIndex'[l] = nextIndex[l] + 1
      BY <1>1, <1>5, <2>6
    <3>2. wanted[t][l] < nextIndex'[l]
          <=> wanted[t][l] < nextIndex[l] \/ wanted[t][l] = nextIndex[l]
      BY <2>5, <3>1
    <3> QED
      BY <1>5, <2>1, <2>2, <2>3, <2>4, <2>6, <3>2, Zenon
  <2>7. CASE l # a
    <3>1. nextIndex'[l] = nextIndex[l]
      BY <1>1, <1>2, <1>5, <2>7
    <3> QED
      BY <2>1, <2>2, <2>3, <2>4, <2>7, <3>1, Zenon
  <2> QED
    BY <2>6, <2>7
<1>7. Slots'
  BY <1>2, <1>3, <1>6 DEF Slots
<1>8. stage = "complete" => \A l \in 0..(level - 1) : nextIndex'[l] = Size(l)
  <2> SUFFICES ASSUME stage = "complete", NEW l \in 0..(level - 1)
               PROVE  nextIndex'[l] = Size(l)
    OBVIOUS
  <2>1. a >= level /\ nextIndex[l] = Size(l) /\ level \in Nat
    BY <1>1 DEF Base, WantedInv
  <2>2. l # a
    BY <1>1, <2>1
  <2> QED
    BY <1>1, <1>5, <2>1, <2>2
<1> QED
  BY <1>1, <1>2, <1>7, <1>8 DEF WantedInv, Late

\* Every step keeps the slots.
LEMMA WantedKept ==
  ASSUME Words, IInv, InputInv, WantedInv, [Next]_vars
  PROVE  WantedInv'
<1>1. CASE UNCHANGED <<levels, levelCounts, targets, wanted, stage, nextIndex, filled, proofs, level>>
  BY <1>1 DEF WantedInv, Slots, Size, TreeNode, Depth, Late
<1>2. CASE stage' \in Early
  BY <1>2 DEF WantedInv, Early, Late
<1>3. CASE PrepareProofs
  BY <1>3, PrepareWants
<1>4. CASE Park \/ Combine
  BY <1>4, EmittingFills DEF Park, Combine
<1>5. CASE LeavesRead
  <2>1. /\ stage = "leaves" /\ stage' = "fold"
        /\ UNCHANGED <<levels, levelCounts, targets, wanted, nextIndex, filled, proofs>>
    BY <1>5 DEF LeavesRead, treeVars, emitVars
  <2> QED
    BY <2>1 DEF WantedInv, Slots, Size, TreeNode, Depth, Late
<1>6. CASE FoldLevel
  <2>1. /\ stage = "fold" /\ stage' = "fold"
        /\ UNCHANGED <<levels, levelCounts, targets, wanted, nextIndex, filled, proofs>>
    BY <1>6 DEF FoldLevel, treeVars, emitVars
  <2> QED
    BY <2>1 DEF WantedInv, Slots, Size, TreeNode, Depth, Late
<1>7. CASE Folded
  <2>1. /\ stage = "fold" /\ stage' = "complete" /\ level' = 0
        /\ UNCHANGED <<levels, levelCounts, targets, wanted, nextIndex, filled, proofs>>
    BY <1>7 DEF Folded, treeVars, emitVars
  <2>2. 0..(level' - 1) = {}
    BY <2>1
  <2> QED
    BY <2>1, <2>2 DEF WantedInv, Slots, Size, TreeNode, Depth, Late
<1>8. CASE CompleteLevel
  <2>1. /\ stage = "complete" /\ stage' = "complete" /\ level' = level + 1 /\ at = -1
        /\ UNCHANGED <<levels, levelCounts, targets, wanted, nextIndex, filled, proofs>>
    BY <1>8 DEF CompleteLevel, treeVars
  <2>2. level \in Nat /\ nextIndex[level] = Size(level)
    <3>1. EmitTyped /\ EmitStage /\ Depth \in Nat
      BY <2>1, Tree DEF IInv, MerkleInv, Late
    <3>2. level \in Nat /\ level <= Depth /\ Held(level) = 0
      BY <2>1, <3>1 DEF EmitTyped, EmitStage, Held
    <3>3. nextIndex[level] = Size(level) - 0 /\ Size(level) \in Nat
      BY <2>1, <3>1, <3>2, Tree DEF EmitStage
    <3> QED
      BY <3>2, <3>3
  <2>3. \A l \in 0..(level' - 1) : l \in 0..(level - 1) \/ l = level
    BY <2>1, <2>2
  <2>4. \A l \in 0..(level' - 1) : nextIndex[l] = Size(l)
    BY <2>1, <2>2, <2>3 DEF WantedInv
  <2>5. Slots'
    BY <2>1 DEF WantedInv, Slots, Size, TreeNode, Depth, Late
  <2> QED
    BY <2>1, <2>4, <2>5 DEF WantedInv, Size
<1>9. CASE Completed
  <2>1. /\ stage = "complete" /\ stage' = "built"
        /\ UNCHANGED <<levels, levelCounts, targets, wanted, nextIndex, filled, proofs, level>>
    BY <1>9 DEF Completed, treeVars, emitVars
  <2> QED
    BY <2>1 DEF WantedInv, Slots, Size, TreeNode, Depth, Late
<1>10. CASE BuildMerkleLeaves \/ NextLevel \/ NextCount
  BY <1>2, <1>10 DEF BuildMerkleLeaves, NextLevel, NextCount, Early
<1>11. CASE ReadLeaf
  BY <1>1, <1>11 DEF ReadLeaf, treeVars
<1>12. CASE GenerationNext /\ UNCHANGED <<levels, top, levelCounts, targets, wanted, stage,
                                          read, emitVars, level, foldVars>>
  BY <1>1, <1>12 DEF emitVars
<1>13. CASE SealBlock \/ Arrives \/ Validate \/ RunVerify \/ UNCHANGED vars
  BY <1>1, <1>13 DEF SealBlock, Arrives, Validate, RunVerify, vars, merkleVars, treeVars, emitVars
<1> QED
  BY <1>3, <1>4, <1>5, <1>6, <1>7, <1>8, <1>9, <1>10, <1>11, <1>12, <1>13 DEF Next, MerkleNext

\* Complete levels: all that is wanted has been emitted.
LEMMA ProofsAreProofs ==
  ASSUME Words, IInv, InputInv, WantedInv, stage = "built", NEW t \in targets
  PROVE  /\ \A l \in 0..(Depth - 1) : filled[t][l]
         /\ [l \in 1..Depth |-> proofs[t][l - 1]] = Proof(t)
<1>1. level = Depth /\ Depth = top /\ Depth \in Nat /\ Slots
  BY Tree DEF IInv, MerkleInv, EmitStage, WantedInv, Late
<1>2. ASSUME NEW l \in 0..(Depth - 1)
      PROVE  /\ filled[t][l]
             /\ proofs[t][l] = TreeNode(l, Sibling(Position(t)[l], Size(l)))
  <2>1. t \in Cells /\ l \in 0..Depth
    BY <1>1, TargetsAreCells
  <2>2. Position(t)[l] \in 0..(Size(l) - 1) /\ Size(l) \in Nat
    BY <2>1, PositionFits, Tree
  <2>3. Sibling(Position(t)[l], Size(l)) \in 0..(Size(l) - 1)
    BY <2>2, SiblingFits
  <2>4. nextIndex[l] = Size(l)
    BY <1>1 DEF WantedInv
  <2>5. wanted[t][l] < nextIndex[l] /\ wanted[t][l] = Sibling(Position(t)[l], Size(l))
    BY <1>1, <2>2, <2>3, <2>4 DEF Slots
  <2> QED
    BY <1>1, <2>5 DEF Slots
<1>3. \A l \in 1..Depth : l - 1 \in 0..(Depth - 1)
  BY <1>1
<1> QED
  BY <1>1, <1>2, <1>3 DEF Proof

(***************************************************************************)
(* The multiproof that one pass over the cells leaves is complete, and it  *)
(* is that of the tree in memory (merkle.go:287-298 against 45-64).        *)
(***************************************************************************)
THEOREM ProofsEqual ==
  ASSUME Words
  PROVE  Spec => []ProofsAgree
<1>1. Init => InputInv /\ WantedInv
  BY DEF Init, MerkleInit, InputInv, WantedInv, Late
<1>2. IInv /\ InputInv /\ WantedInv /\ [Next]_vars => InputInv' /\ WantedInv'
  BY InputKept, WantedKept
<1>3. IInv /\ InputInv /\ WantedInv => ProofsAgree
  BY ProofsAreProofs DEF ProofsAgree
<1> QED
  BY <1>1, <1>2, <1>3, Invariant, PTL DEF Spec

-----------------------------------------------------------------------------
(***************************************************************************)
(* The verifier's walk up the tree.                                        *)
(***************************************************************************)
IsClimb(f, n, leaf, index, proof) ==
  f = [l \in 0..n |->
         IF l = 0 THEN leaf ELSE Joined(f[l - 1], proof[l], Position(index)[l - 1])]

\* There is always such an f, so Climb is one.
LEMMA ClimbExists ==
  ASSUME NEW leaf, NEW index, NEW proof, NEW n \in Nat
  PROVE  \E f : IsClimb(f, n, leaf, index, proof)
<1> DEFINE Has(k) == \E f : IsClimb(f, k, leaf, index, proof)
           S == {k \in Nat : Has(k)}
<1>1. 0 \in S
  <2> DEFINE f == [l \in 0..0 |-> leaf]
  <2>1. f = [l \in 0..0 |->
               IF l = 0 THEN leaf ELSE Joined(f[l - 1], proof[l], Position(index)[l - 1])]
    OBVIOUS
  <2> HIDE DEF f
  <2>2. Has(0)
    BY <2>1 DEF IsClimb
  <2> HIDE DEF Has
  <2> QED
    BY <2>2
<1>2. ASSUME NEW k \in S
      PROVE  k + 1 \in S
  <2>1. k \in Nat /\ Has(k)
    OBVIOUS
  <2>2. PICK f : IsClimb(f, k, leaf, index, proof)
    BY <2>1
  <2> DEFINE E(x, l) == IF l = 0 THEN leaf ELSE Joined(x[l - 1], proof[l], Position(index)[l - 1])
             g == [l \in 0..(k + 1) |-> IF l = k + 1 THEN E(f, l) ELSE f[l]]
  <2>3. ASSUME NEW l \in 0..(k + 1)
        PROVE  g[l] = E(g, l)
    <3>1. f = [m \in 0..k |-> E(f, m)]
      BY <2>2 DEF IsClimb
    <3>2. CASE l = 0
      <4>1. 0 \in 0..k /\ l # k + 1
        BY <2>1, <3>2
      <4>2. f[l] = leaf
        BY <3>1, <3>2, <4>1
      <4> QED
        BY <3>2, <4>1, <4>2
    <3>3. CASE l # 0
      <4>1. l - 1 \in 0..(k + 1) /\ l - 1 # k + 1 /\ (l # k + 1 => l \in 0..k)
        BY <2>1, <3>3
      <4>2. g[l - 1] = f[l - 1]
        BY <4>1
      <4>3. g[l] = E(f, l)
        <5>1. CASE l = k + 1
          BY <5>1
        <5>2. CASE l # k + 1
          <6>1. f[l] = E(f, l)
            <7> HIDE DEF E, g
            <7> QED
              BY <3>1, <4>1, <5>2
          <6> QED
            BY <5>2, <6>1
        <5> QED
          BY <5>1, <5>2
      <4> HIDE DEF g
      <4> QED
        BY <3>3, <4>2, <4>3
    <3> QED
      BY <3>2, <3>3
  <2>4. g = [l \in 0..(k + 1) |-> E(g, l)]
    <3>1. g = [l \in 0..(k + 1) |-> g[l]]
      OBVIOUS
    <3> HIDE DEF g, E
    <3> QED
      BY <2>3, <3>1
  <2>5. IsClimb(g, k + 1, leaf, index, proof)
    <3> HIDE DEF g
    <3> QED
      BY <2>4 DEF IsClimb
  <2>6. Has(k + 1)
    <3> HIDE DEF g
    <3> QED
      BY <2>5
  <2> HIDE DEF Has
  <2> QED
    BY <2>1, <2>6
<1>3. S \in SUBSET Nat
  OBVIOUS
<1> HIDE DEF S
<1>4. S = Nat
  BY <1>1, <1>2, <1>3, SetInduction
<1> QED
  BY <1>4 DEF S

\* The walk, level by level.
LEMMA Climbing ==
  ASSUME NEW leaf, NEW index, NEW proof, Len(proof) \in Nat
  PROVE  /\ Climb(leaf, index, proof)[0] = leaf
         /\ \A l \in 0..(Len(proof) - 1) :
              Climb(leaf, index, proof)[l + 1] =
                Joined(Climb(leaf, index, proof)[l], proof[l + 1], Position(index)[l])
<1>1. \E f : IsClimb(f, Len(proof), leaf, index, proof)
  BY ClimbExists
<1>2. IsClimb(Climb(leaf, index, proof), Len(proof), leaf, index, proof)
  BY <1>1 DEF Climb, IsClimb
<1> DEFINE c == Climb(leaf, index, proof)
<1>3. c = [l \in 0..Len(proof) |->
             IF l = 0 THEN leaf ELSE Joined(c[l - 1], proof[l], Position(index)[l - 1])]
  BY <1>2 DEF IsClimb
<1>4. /\ 0 \in 0..Len(proof)
      /\ \A l \in 0..(Len(proof) - 1) :
           l + 1 \in 0..Len(proof) /\ l + 1 # 0 /\ (l + 1) - 1 = l
  OBVIOUS
<1> HIDE DEF c
<1>5. c[0] = leaf /\ \A l \in 0..(Len(proof) - 1) :
                       c[l + 1] = Joined(c[l], proof[l + 1], Position(index)[l])
  BY <1>3, <1>4
<1> QED
  BY <1>5 DEF c

\* Two different ways cannot meet: what a proof shows, it shows of one leaf.
LEMMA ClimbsAgree ==
  ASSUME NEW leaf1, NEW leaf2, NEW index, NEW p1, NEW p2,
         Len(p1) \in Nat, Len(p2) = Len(p1),
         Climb(leaf1, index, p1)[Len(p1)] = Climb(leaf2, index, p2)[Len(p2)]
  PROVE  leaf1 = leaf2 /\ \A l \in 1..Len(p1) : p1[l] = p2[l]
<1> DEFINE n == Len(p1)
           a == Climb(leaf1, index, p1)
           b == Climb(leaf2, index, p2)
<1>1. /\ a[0] = leaf1 /\ b[0] = leaf2 /\ a[n] = b[n] /\ n \in Nat
      /\ \A l \in 0..(n - 1) : a[l + 1] = Joined(a[l], p1[l + 1], Position(index)[l])
                               /\ b[l + 1] = Joined(b[l], p2[l + 1], Position(index)[l])
  BY Climbing
<1> HIDE DEF a, b, n
<1>2. ASSUME NEW l \in 0..(n - 1), a[l + 1] = b[l + 1]
      PROVE  a[l] = b[l] /\ p1[l + 1] = p2[l + 1]
  <2>1. \A x1, x2, y1, y2 : hashPair(x1, x2) = hashPair(y1, y2) => x1 = y1 /\ x2 = y2
    BY DEF hashPair
  <2>2. Joined(a[l], p1[l + 1], Position(index)[l]) = Joined(b[l], p2[l + 1], Position(index)[l])
    BY <1>1, <1>2
  <2> QED
    BY <2>1, <2>2 DEF Joined
<1> DEFINE S == {k \in Nat : k <= n => a[n - k] = b[n - k]}
<1>3. 0 \in S
  BY <1>1
<1>4. ASSUME NEW k \in S
      PROVE  k + 1 \in S
  <2> SUFFICES ASSUME k + 1 <= n PROVE a[n - (k + 1)] = b[n - (k + 1)]
    OBVIOUS
  <2>1. n - (k + 1) \in 0..(n - 1) /\ (n - (k + 1)) + 1 = n - k /\ a[n - k] = b[n - k]
    BY <1>1
  <2> QED
    BY <1>2, <2>1
<1>5. S \in SUBSET Nat
  OBVIOUS
<1> HIDE DEF S
<1>6. S = Nat
  BY <1>3, <1>4, <1>5, SetInduction
<1>7. ASSUME NEW l \in 0..n
      PROVE  a[l] = b[l]
  <2>1. n - l \in Nat /\ n - l <= n /\ n - (n - l) = l
    BY <1>1
  <2>2. n - l \in S
    BY <1>6, <2>1
  <2> QED
    BY <2>1, <2>2 DEF S
<1>8. ASSUME NEW l \in 1..n
      PROVE  p1[l] = p2[l]
  <2>1. l - 1 \in 0..(n - 1) /\ (l - 1) + 1 = l /\ l \in 0..n
    BY <1>1
  <2> QED
    BY <1>2, <1>7, <2>1
<1> QED
  BY <1>1, <1>7, <1>8 DEF n

\* Both passes over the DAG are over.
Built ==
  /\ IInv /\ InputInv /\ WantedInv
  /\ stage = "built"

\* The proof of a cell leads from its leaf to the root.
LEMMA ProofLeadsUp ==
  ASSUME Words, Built, NEW t \in targets
  PROVE  VerifyMerkleProof(acc, Leaf(dag[t]), t, Proof(t))
<1> DEFINE c == Climb(Leaf(dag[t]), t, Proof(t))
           S == {l \in Nat : l <= Depth => c[l] = TreeNode(l, Position(t)[l])}
<1>1. /\ IInv /\ stage = "built" /\ Depth = top /\ Depth \in Nat
      /\ t \in Cells /\ t \in Nat /\ t \in 0..(nodeCount - 1)
  BY Tree, TargetsAreCells DEF Built, Cells
<1>2. Len(Proof(t)) = Depth
  BY <1>1 DEF Proof
<1>3. /\ c[0] = Leaf(dag[t])
      /\ \A l \in 0..(Depth - 1) : c[l + 1] = Joined(c[l], Proof(t)[l + 1], Position(t)[l])
  BY <1>1, <1>2, Climbing
<1> HIDE DEF c
<1>4. 0 \in S
  BY <1>1, <1>3, Tree, Positions
<1>5. ASSUME NEW l \in S
      PROVE  l + 1 \in S
  <2> PICK pos : pos = Position(t)[l]
    OBVIOUS
  <2> PICK k : k = pos \div 2
    OBVIOUS
  <2> PICK s : s = Size(l)
    OBVIOUS
  <2> SUFFICES ASSUME l + 1 <= Depth PROVE c[l + 1] = TreeNode(l + 1, Position(t)[l + 1])
    OBVIOUS
  <2>1. /\ l \in 0..(Depth - 1) /\ l \in 0..Depth /\ l + 1 \in 1..top /\ (l + 1) - 1 = l
        /\ l \in Nat /\ c[l] = TreeNode(l, pos)
    BY <1>1
  <2>2. pos \in 0..(s - 1) /\ s \in Nat /\ k \in Nat /\ Position(t)[l + 1] = k
    <3>1. pos \in 0..(s - 1) /\ s \in Nat
      BY <1>1, <2>1, PositionFits, Tree
    <3>2. Position(t)[l + 1] = k
      BY <1>1, <2>1, Positions
    <3> QED
      BY <3>1, <3>2
  <2>3. Proof(t)[l + 1] = TreeNode(l, Sibling(pos, s))
    BY <2>1 DEF Proof
  <2>4. c[l + 1] = Joined(TreeNode(l, pos), TreeNode(l, Sibling(pos, s)), pos)
    BY <1>3, <2>1, <2>3
  <2>5. /\ 2 * k + 1 < s =>
             TreeNode(l + 1, k) = hashPair(TreeNode(l, 2 * k), TreeNode(l, 2 * k + 1))
        /\ 2 * k + 1 = s =>
             TreeNode(l + 1, k) = hashPair(TreeNode(l, 2 * k), TreeNode(l, 2 * k))
    BY <1>1, <2>1, <2>2, Pairs
  <2>6. CASE pos % 2 = 0
    <3>1. pos = 2 * k /\ Neighbour(pos) = 2 * k + 1
      BY <2>2, <2>6 DEF Neighbour
    <3>2. CASE 2 * k + 1 < s
      <4>1. Sibling(pos, s) = 2 * k + 1
        BY <3>1, <3>2 DEF Sibling
      <4> QED
        BY <2>2, <2>4, <2>5, <2>6, <3>1, <3>2, <4>1 DEF Joined
    <3>3. CASE 2 * k + 1 = s
      <4>1. Sibling(pos, s) = 2 * k
        BY <2>2, <3>1, <3>3 DEF Sibling
      <4> QED
        BY <2>2, <2>4, <2>5, <2>6, <3>1, <3>3, <4>1 DEF Joined
    <3> QED
      BY <2>2, <3>1, <3>2, <3>3
  <2>7. CASE pos % 2 # 0
    <3>1. pos = 2 * k + 1 /\ 2 * k + 1 < s /\ Neighbour(pos) = 2 * k
      BY <2>2, <2>7 DEF Neighbour
    <3>2. Sibling(pos, s) = 2 * k
      BY <2>2, <3>1 DEF Sibling
    <3> QED
      BY <2>2, <2>4, <2>5, <2>7, <3>1, <3>2 DEF Joined
  <2> QED
    BY <2>6, <2>7
<1>6. S \in SUBSET Nat
  OBVIOUS
<1> HIDE DEF S
<1>7. S = Nat
  BY <1>4, <1>5, <1>6, SetInduction
<1>8. c[Depth] = TreeNode(Depth, Position(t)[Depth])
  BY <1>1, <1>7 DEF S
<1>9. Position(t)[Depth] = 0
  <2>1. Size(Depth) = 1 /\ Depth \in 0..Depth
    BY <1>1, Tree
  <2>2. Position(t)[Depth] \in 0..(Size(Depth) - 1)
    BY <1>1, <2>1, PositionFits
  <2> QED
    BY <2>1, <2>2
<1>10. acc = TreeNode(top, 0)
  BY <1>1 DEF IInv, MerkleInv, RootInv
<1> QED
  BY <1>1, <1>2, <1>8, <1>9, <1>10 DEF VerifyMerkleProof, c

\* What the bytes of a node can be shown of: the path from them to the root is
\* as long as the tree is high.  Seen from the root, it passes nodes of the tree,
\* and bytes of that size are hashed at the bottom only.
LEMMA ProofReachesDown ==
  ASSUME Built, NEW data, OfNodeSize(data), NEW index, NEW proof, Len(proof) \in Nat,
         VerifyMerkleProof(acc, data, index, proof)
  PROVE  Len(proof) = Depth
<1> DEFINE n == Len(proof)
           c == Climb(data, index, proof)
           IsNode(x, l) == \E k \in 0..(Size(l) - 1) : x = TreeNode(l, k)
           S == {k \in Nat : k <= n /\ k <= Depth => IsNode(c[n - k], Depth - k)}
<1>1. /\ IInv /\ stage = "built" /\ Depth = top /\ Depth \in Nat /\ n \in Nat
      /\ Size(Depth) = 1 /\ Size(0) = nodeCount
      /\ \A i \in 0..(nodeCount - 1) : TreeNode(0, i) = Leaf(dag[i])
  BY Tree DEF Built
<1>2. /\ c[0] = data /\ c[n] = acc
      /\ \A l \in 0..(n - 1) : c[l + 1] = Joined(c[l], proof[l + 1], Position(index)[l])
  BY Climbing DEF VerifyMerkleProof
<1>3. acc = TreeNode(top, 0)
  BY <1>1 DEF IInv, MerkleInv, RootInv
<1> HIDE DEF c, n
<1>4. ASSUME NEW l \in 0..(Depth - 1), NEW x, IsNode(x, l + 1)
      PROVE  \E y, z : x = hashPair(y, z) /\ IsNode(y, l) /\ IsNode(z, l)
  <2> PICK k \in 0..(Size(l + 1) - 1) : x = TreeNode(l + 1, k)
    BY <1>4
  <2> PICK s : s = Size(l)
    OBVIOUS
  <2>1. s \in Nat /\ Size(l + 1) = (s + 1) \div 2 /\ k \in Nat
    BY <1>1, Tree
  <2>2. 2 * k + 1 <= s /\ 2 * k \in 0..(s - 1)
    <3>1. ASSUME NEW x1 \in Nat, NEW x2 \in Nat, x2 <= (x1 + 1) \div 2 - 1
          PROVE  2 * x2 + 1 <= x1
      BY <3>1
    <3>2. k <= (s + 1) \div 2 - 1
      BY <2>1
    <3>3. 2 * k + 1 <= s
      BY <2>1, <3>1, <3>2
    <3> QED
      BY <2>1, <3>3
  <2>3. CASE 2 * k + 1 < s
    <3>1. x = hashPair(TreeNode(l, 2 * k), TreeNode(l, 2 * k + 1))
      BY <1>1, <2>1, <2>3, Pairs
    <3>2. 2 * k + 1 \in 0..(s - 1)
      BY <2>1, <2>3
    <3> QED
      BY <2>2, <3>1, <3>2
  <2>4. CASE 2 * k + 1 = s
    <3>1. x = hashPair(TreeNode(l, 2 * k), TreeNode(l, 2 * k))
      BY <1>1, <2>1, <2>4, Pairs
    <3> QED
      BY <2>2, <3>1
  <2> QED
    BY <2>1, <2>2, <2>3, <2>4
<1>5. 0 \in S
  BY <1>1, <1>2, <1>3
<1>6. ASSUME NEW k \in S
      PROVE  k + 1 \in S
  <2> SUFFICES ASSUME k + 1 <= n, k + 1 <= Depth
               PROVE  IsNode(c[n - (k + 1)], Depth - (k + 1))
    OBVIOUS
  <2> PICK l, m : l = n - (k + 1) /\ m = Depth - (k + 1)
    OBVIOUS
  <2>1. /\ l \in 0..(n - 1) /\ l + 1 = n - k
        /\ m \in 0..(Depth - 1) /\ m + 1 = Depth - k
        /\ IsNode(c[n - k], Depth - k)
    BY <1>1
  <2> HIDE DEF IsNode
  <2>2. IsNode(c[l + 1], m + 1)
    BY <2>1
  <2>3. PICK y, z : c[l + 1] = hashPair(y, z) /\ IsNode(y, m) /\ IsNode(z, m)
    BY <1>4, <2>1, <2>2
  <2>4. \A x1, x2, y1, y2 : hashPair(x1, x2) = hashPair(y1, y2) => x1 = y1 /\ x2 = y2
    BY DEF hashPair
  <2>5. Joined(c[l], proof[l + 1], Position(index)[l]) = hashPair(y, z)
    BY <1>2, <2>1, <2>3
  <2>6. c[l] = y \/ c[l] = z
    BY <2>4, <2>5 DEF Joined
  <2> QED
    BY <2>3, <2>6
<1>7. S \in SUBSET Nat
  OBVIOUS
<1> HIDE DEF S
<1>8. S = Nat
  BY <1>5, <1>6, <1>7, SetInduction
<1>9. ASSUME n < Depth
      PROVE  FALSE
  <2> PICK l : l = Depth - n - 1
    OBVIOUS
  <2>1. n \in S /\ n - n = 0 /\ l \in 0..(Depth - 1) /\ l + 1 = Depth - n
    BY <1>1, <1>8, <1>9
  <2>2. IsNode(c[0], l + 1)
    BY <1>1, <1>9, <2>1 DEF S
  <2> HIDE DEF IsNode
  <2>3. \E y, z : data = hashPair(y, z)
    BY <1>2, <1>4, <2>1, <2>2
  <2> QED
    BY <2>3 DEF hashPair, OfNodeSize
<1>10. ASSUME n > Depth
       PROVE  FALSE
  <2> PICK l : l = n - Depth - 1
    OBVIOUS
  <2>1. Depth \in S /\ Depth - Depth = 0 /\ l \in 0..(n - 1) /\ l + 1 = n - Depth
    BY <1>1, <1>8, <1>10
  <2>2. IsNode(c[l + 1], 0)
    BY <1>1, <1>10, <2>1 DEF S
  <2>3. \E i : c[l + 1] = Leaf(dag[i])
    BY <1>1, <2>2
  <2>4. \E y, z : c[l + 1] = hashPair(y, z)
    BY <1>2, <2>1 DEF Joined
  <2>5. \A x, y, z : Leaf(x) # hashPair(y, z)
    <3> TAKE x, y, z
    <3>1. Len(Leaf(x)) = 1 /\ Len(hashPair(y, z)) = 2
      BY DEF Leaf, hashPair
    <3>2. 1 # 2
      OBVIOUS
    <3> QED
      BY <3>1, <3>2, Zenon
  <2> QED
    BY <2>3, <2>4, <2>5
<1> QED
  BY <1>1, <1>9, <1>10 DEF n

-----------------------------------------------------------------------------
(***************************************************************************)
(* The verifier's mixes, which it makes of the cells it is given, whatever *)
(* their data.                                                             *)
(***************************************************************************)
Mixed(h, s) == Seq({h, s.nonce} \cup {s.mining[r].data : r \in 1..ReadsPerHash})

\* The verifier's rounds, one after the other.
LEMMA MixesGivenDefined ==
  ASSUME NEW h, NEW s
  PROVE  /\ MixesGiven(h, s)[0] = Initial(h, s.nonce)
         /\ \A r \in 0..ReadsPerHash : MixesGiven(h, s)[r] \in Mixed(h, s)
         /\ \A r \in 1..ReadsPerHash :
              MixesGiven(h, s)[r] = RoundMix(MixesGiven(h, s)[r - 1], s.mining[r].data)
<1> DEFINE M == Mixed(h, s)
           data(r) == s.mining[r].data
           step == [r \in Nat |-> [m \in M |->
                      IF r + 1 <= ReadsPerHash THEN RoundMix(m, data(r + 1)) ELSE m]]
           P(x) == x = [r \in 0..ReadsPerHash |->
                          IF r = 0 THEN Initial(h, s.nonce) ELSE RoundMix(x[r - 1], data(r))]
<1>1. Initial(h, s.nonce) \in M
  BY DEF Initial, Mixed
<1>2. ASSUME NEW r \in 1..ReadsPerHash, NEW m \in M
      PROVE  RoundMix(m, data(r)) \in M
  BY DEF RoundMix, Mixed
<1>3. step \in Steps(M)
  <2>1. ASSUME NEW r \in Nat, NEW m \in M
        PROVE  (IF r + 1 <= ReadsPerHash THEN RoundMix(m, data(r + 1)) ELSE m) \in M
    <3>1. r + 1 <= ReadsPerHash => r + 1 \in 1..ReadsPerHash
      BY SolutionAssumption
    <3> HIDE DEF data
    <3> QED
      BY <1>2, <3>1
  <2> HIDE DEF data
  <2> QED
    BY <2>1 DEF Steps
<1>4. PICK f : f \in [Nat -> M] /\ f[0] = Initial(h, s.nonce)
               /\ \A r \in Nat : f[r + 1] = step[r][f[r]]
  <2> HIDE DEF step
  <2>1. PICK f : Recursive(f, M, Initial(h, s.nonce), step)
    BY <1>1, <1>3, Recursion
  <2> QED
    BY <2>1 DEF Recursive
<1> DEFINE g == [r \in 0..ReadsPerHash |-> f[r]]
<1> HIDE DEF data
<1>5. ASSUME NEW r \in 1..ReadsPerHash
      PROVE  g[r] = RoundMix(g[r - 1], data(r))
  <2>1. r - 1 \in Nat /\ (r - 1) + 1 = r /\ r \in 0..ReadsPerHash /\ r - 1 \in 0..ReadsPerHash
        /\ r <= ReadsPerHash
    BY SolutionAssumption
  <2>2. f[r] = step[r - 1][f[r - 1]] /\ f[r - 1] \in M
    BY <1>4, <2>1
  <2> QED
    BY <2>1, <2>2
<1>6. g[0] = Initial(h, s.nonce) /\ \A r \in 0..ReadsPerHash : r # 0 => r \in 1..ReadsPerHash
  BY <1>4, SolutionAssumption
<1> HIDE DEF step
<1>7. P(g)
  <2>1. g = [r \in 0..ReadsPerHash |-> g[r]]
    OBVIOUS
  <2> HIDE DEF g
  <2> QED
    BY <1>5, <1>6, <2>1
<1>8. P(MixesGiven(h, s))
  <2> HIDE DEF g
  <2> QED
    BY <1>7 DEF MixesGiven, data
<1>9. /\ MixesGiven(h, s)[0] = Initial(h, s.nonce)
      /\ \A r \in 1..ReadsPerHash :
           MixesGiven(h, s)[r] = RoundMix(MixesGiven(h, s)[r - 1], data(r))
  <2>1. 0 \in 0..ReadsPerHash
        /\ \A r \in 1..ReadsPerHash : r \in 0..ReadsPerHash /\ r # 0
    BY SolutionAssumption
  <2> QED
    BY <1>8, <2>1
<1> DEFINE S == {r \in Nat : r <= ReadsPerHash => MixesGiven(h, s)[r] \in M}
<1>10. S = Nat
  <2>1. 0 \in S
    BY <1>1, <1>9
  <2>2. ASSUME NEW r \in S
        PROVE  r + 1 \in S
    <3> SUFFICES ASSUME r + 1 <= ReadsPerHash PROVE MixesGiven(h, s)[r + 1] \in M
      OBVIOUS
    <3>1. r \in Nat /\ r + 1 \in 1..ReadsPerHash /\ (r + 1) - 1 = r /\ MixesGiven(h, s)[r] \in M
      BY SolutionAssumption
    <3> QED
      BY <1>2, <1>9, <3>1
  <2>3. S \in SUBSET Nat
    OBVIOUS
  <2> HIDE DEF S
  <2> QED
    BY <2>1, <2>2, <2>3, SetInduction
<1>11. \A r \in 0..ReadsPerHash : MixesGiven(h, s)[r] \in M
  BY <1>10, SolutionAssumption
<1> QED
  BY <1>9, <1>11 DEF data

\* A mix tells what was mixed in.
LEMMA MixTells ==
  ASSUME NEW h, NEW s
  PROVE  LET mix == MixesGiven(h, s)[ReadsPerHash] IN
           /\ Len(mix) = ReadsPerHash + 2
           /\ mix[1] = h /\ mix[2] = s.nonce
           /\ \A r \in 1..ReadsPerHash : mix[r + 2] = s.mining[r].data
<1> DEFINE m(r) == MixesGiven(h, s)[r]
           Told(r) == /\ Len(m(r)) = r + 2
                      /\ m(r)[1] = h /\ m(r)[2] = s.nonce
                      /\ \A k \in 1..r : m(r)[k + 2] = s.mining[k].data
           S == {r \in Nat : r <= ReadsPerHash => Told(r)}
<1>1. /\ m(0) = Initial(h, s.nonce)
      /\ \A r \in 0..ReadsPerHash : m(r) \in Mixed(h, s)
      /\ \A r \in 1..ReadsPerHash : m(r) = RoundMix(m(r - 1), s.mining[r].data)
  BY MixesGivenDefined
<1> HIDE DEF m
<1>2. 0 \in S
  <2>1. Told(0)
    BY <1>1 DEF Initial
  <2> HIDE DEF Told
  <2> QED
    BY <2>1
<1>3. ASSUME NEW r \in S
      PROVE  r + 1 \in S
  <2>1. r \in Nat
    OBVIOUS
  <2>2. ASSUME r + 1 <= ReadsPerHash
        PROVE  Told(r + 1)
    <3>1. r \in 0..ReadsPerHash /\ r + 1 \in 1..ReadsPerHash /\ (r + 1) - 1 = r /\ Told(r)
      <4>1. r <= ReadsPerHash => Told(r)
        BY <1>3
      <4> HIDE DEF Told, S
      <4> QED
        BY <2>1, <2>2, <4>1, SolutionAssumption
    <3>2. m(r) \in Mixed(h, s) /\ m(r + 1) = Append(m(r), s.mining[r + 1].data)
      BY <1>1, <3>1 DEF RoundMix
    <3>3. /\ Len(m(r + 1)) = r + 3
          /\ \A k \in 1..(r + 2) : m(r + 1)[k] = m(r)[k]
          /\ m(r + 1)[r + 3] = s.mining[r + 1].data
      BY <2>1, <3>1, <3>2 DEF Mixed
    <3>4. m(r + 1)[1] = h /\ m(r + 1)[2] = s.nonce
      <4>1. 1 \in 1..(r + 2) /\ 2 \in 1..(r + 2)
        BY <2>1
      <4> QED
        BY <3>1, <3>3, <4>1
    <3>5. ASSUME NEW k \in 1..(r + 1)
          PROVE  m(r + 1)[k + 2] = s.mining[k].data
      <4>1. CASE k = r + 1
        <5>1. k + 2 = r + 3
          BY <2>1, <4>1
        <5> QED
          BY <3>3, <4>1, <5>1
      <4>2. CASE k # r + 1
        <5>1. k \in 1..r /\ k + 2 \in 1..(r + 2)
          BY <2>1, <4>2
        <5> QED
          BY <3>1, <3>3, <5>1
      <4> QED
        BY <4>1, <4>2
    <3> QED
      BY <2>1, <3>3, <3>4, <3>5
  <2> HIDE DEF Told
  <2> QED
    BY <2>1, <2>2
<1>4. S \in SUBSET Nat
  OBVIOUS
<1> HIDE DEF S
<1>5. S = Nat
  BY <1>2, <1>3, <1>4, SetInduction
<1>6. Told(ReadsPerHash)
  <2> HIDE DEF Told
  <2> QED
    BY <1>5, SolutionAssumption DEF S
<1> QED
  BY <1>6 DEF m

-----------------------------------------------------------------------------
(***************************************************************************)
(* The solution that is sealed: its cells are those that the hash names,   *)
(* with what the DAG has there and their proofs in the tree.               *)
(***************************************************************************)
Sealed == BuildColossusXSolutionStreaming

\* A cell of the DAG with its proof.
TrueCell(i) == [index |-> i, data |-> Leaf(dag[i]), proof |-> Proof(i)]

\* The cells that the hash reads, and those to audit.
Read(r) == Accessed(header, nonce)[r]
Audited(i) == ColossusXAuditIndices(MixDigest(header, nonce))[i]

\* Every cell of a generated DAG has its own content.
LEMMA DagIsKnown ==
  ASSUME IInv, stage # "dag", NEW i \in Cells
  PROVE  dag[i] = CellContent(i) /\ dag[i] \in 0..(nodeCount - 1)
<1>1. EveryCellOnce /\ generated
  BY OnceEach DEF IInv, MerkleInv, Shape
<1> QED
  BY <1>1 DEF EveryCellOnce, CellContent, Cells

\* The sealed solution, field by field.
LEMMA SealedCells ==
  ASSUME Words, Built
  PROVE  /\ Sealed.nonce = nonce /\ Sealed.mix = MixDigest(header, nonce)
         /\ Sealed.mining = [r \in 1..ReadsPerHash |-> TrueCell(Read(r))]
         /\ Sealed.audit = [i \in 1..ColossusXAuditCellCount |-> TrueCell(Audited(i))]
         /\ \A r \in 1..ReadsPerHash : Read(r) \in targets
         /\ \A i \in 1..ColossusXAuditCellCount : Audited(i) \in targets
         /\ Sealed = [nonce |-> Sealed.nonce, mix |-> Sealed.mix,
                      mining |-> Sealed.mining, audit |-> Sealed.audit]
<1> DEFINE accessed == Accessed(header, nonce)
           audited == ColossusXAuditIndices(MixDigest(header, nonce))
<1>1. Len(accessed) = ReadsPerHash /\ Len(audited) = ColossusXAuditCellCount
  BY SolutionAssumption DEF Accessed, ColossusXAuditIndices
<1>2. targets = SeqRange(accessed) \cup SeqRange(audited)
  BY DEF Built, InputInv, Needed
<1>3. /\ \A r \in 1..ReadsPerHash : Read(r) \in targets
      /\ \A i \in 1..ColossusXAuditCellCount : Audited(i) \in targets
  BY <1>1, <1>2 DEF SeqRange, Read, Audited
<1>4. ASSUME NEW t \in targets
      PROVE  Cell(t) = TrueCell(t)
  BY ProofsAreProofs DEF Built, Cell, TrueCell
<1>5. /\ Sealed.nonce = nonce /\ Sealed.mix = MixDigest(header, nonce)
      /\ Sealed.mining = [r \in 1..Len(accessed) |-> Cell(accessed[r])]
      /\ Sealed.audit = [i \in 1..Len(audited) |-> Cell(audited[i])]
      /\ Sealed = [nonce |-> Sealed.nonce, mix |-> Sealed.mix,
                   mining |-> Sealed.mining, audit |-> Sealed.audit]
  BY DEF Sealed, BuildColossusXSolutionStreaming
<1> QED
  BY <1>1, <1>3, <1>4, <1>5 DEF Read, Audited

\* What of it goes into the mixes.
LEMMA SealedData ==
  ASSUME Words, Built
  PROVE  Sealed.nonce = nonce /\ \A r \in 1..ReadsPerHash : Sealed.mining[r].data = Leaf(dag[Read(r)])
<1>1. Sealed.nonce = nonce
  BY SealedCells
<1>2. \A i : TrueCell(i).data = Leaf(dag[i])
  BY DEF TrueCell
<1>3. ASSUME NEW r \in 1..ReadsPerHash
      PROVE  Sealed.mining[r] = TrueCell(Read(r))
  BY SealedCells
<1> QED
  BY <1>1, <1>2, <1>3

\* The verifier, given the sealed cells, mixes as the hash did.
LEMMA SealedMixes ==
  ASSUME Words, Built
  PROVE  \A r \in 0..ReadsPerHash : MixesGiven(header, Sealed)[r] = Mixes(header, nonce)[r]
<1> DEFINE g(r) == MixesGiven(header, Sealed)[r]
           m(r) == Mixes(header, nonce)[r]
           S == {r \in Nat : r <= ReadsPerHash => g(r) = m(r)}
<1>1. IInv /\ stage = "built" /\ header \in Header /\ nonce \in NonceSet
      /\ nodeCount \in Nat \ {0}
  BY DEF Built, InputInv, IInv, GenInv, GenTyped
<1>2. ASSUME NEW r \in 1..ReadsPerHash
      PROVE  Sealed.mining[r].data = NextCell(r, m(r - 1))
  <2>1. Read(r) \in targets /\ Sealed.mining[r].data = Leaf(dag[Read(r)])
    BY SealedCells, SealedData
  <2>2. Read(r) \in Cells
    BY <1>1, <2>1, TargetsAreCells DEF Built
  <2>3. Read(r) = Pick(r - 1, m(r - 1)) % nodeCount
    BY DEF Read, Accessed
  <2>4. dag[Read(r)] = CellContent(Read(r))
    BY <1>1, <2>2, DagIsKnown
  <2> QED
    BY <2>1, <2>3, <2>4 DEF NextCell
<1>4. /\ g(0) = Initial(header, nonce)
      /\ \A r \in 1..ReadsPerHash : g(r) = RoundMix(g(r - 1), Sealed.mining[r].data)
  BY MixesGivenDefined, SealedCells
<1>5. /\ m(0) = Initial(header, nonce)
      /\ \A r \in 1..ReadsPerHash : m(r) = RoundMix(m(r - 1), NextCell(r, m(r - 1)))
  BY <1>1, MixesDefined
<1> HIDE DEF g, m
<1>6. 0 \in S
  BY <1>4, <1>5
<1>7. ASSUME NEW r \in S
      PROVE  r + 1 \in S
  <2> SUFFICES ASSUME r + 1 <= ReadsPerHash PROVE g(r + 1) = m(r + 1)
    OBVIOUS
  <2>1. r + 1 \in 1..ReadsPerHash /\ (r + 1) - 1 = r /\ g(r) = m(r)
    BY SolutionAssumption
  <2>2. Sealed.mining[r + 1].data = NextCell(r + 1, m(r))
    BY <1>2, <2>1
  <2> QED
    BY <1>4, <1>5, <2>1, <2>2
<1>8. S \in SUBSET Nat
  OBVIOUS
<1> HIDE DEF S
<1>9. S = Nat
  BY <1>6, <1>7, <1>8, SetInduction
<1>10. \A r \in 0..ReadsPerHash : g(r) = m(r)
  BY <1>9, SolutionAssumption DEF S
<1> QED
  BY <1>10 DEF g, m

\* The sealed solution passes the check.
LEMMA SealedVerifies ==
  ASSUME Words, Built
  PROVE  VerifyColossusXSolution(header, acc, Sealed)
<1> DEFINE mixes == MixesGiven(header, Sealed)
           proved(c) == VerifyMerkleProof(acc, c.data, c.index, c.proof)
<1>1. Len(Sealed.mining) = ReadsPerHash /\ Len(Sealed.audit) = ColossusXAuditCellCount
  BY SealedCells, SolutionAssumption
<1>2. ASSUME NEW t \in targets
      PROVE  proved(TrueCell(t))
  BY ProofLeadsUp DEF TrueCell
<1>3. ASSUME NEW r \in 1..ReadsPerHash
      PROVE  /\ ExpectedIndex(Sealed, mixes[r - 1], r) /\ proved(Sealed.mining[r])
             /\ OfNodeSize(Sealed.mining[r].data)
  <2>1. Read(r) \in targets /\ Sealed.mining[r] = TrueCell(Read(r))
    BY SealedCells
  <2>2. mixes[r - 1] = Mixes(header, nonce)[r - 1]
    <3>1. r - 1 \in 0..ReadsPerHash
      BY SolutionAssumption
    <3> QED
      BY <3>1, SealedMixes
  <2>3. Sealed.mining[r].index = Read(r)
    BY <2>1 DEF TrueCell
  <2>4. Read(r) = Pick(r - 1, Mixes(header, nonce)[r - 1]) % nodeCount
    BY DEF Read, Accessed
  <2>5. proved(Sealed.mining[r])
    <3> HIDE DEF proved
    <3> QED
      BY <1>2, <2>1
  <2>6. OfNodeSize(Sealed.mining[r].data)
    <3>1. Len(Leaf(dag[Read(r)])) = 1
      BY DEF Leaf
    <3> QED
      BY <3>1, SealedData DEF OfNodeSize
  <2> QED
    BY <2>2, <2>3, <2>4, <2>5, <2>6 DEF ExpectedIndex
<1>4. mixes[ReadsPerHash] = MixDigest(header, nonce) /\ Solves(MixDigest(header, nonce))
  <2>1. ReadsPerHash \in 0..ReadsPerHash
    BY SolutionAssumption
  <2> QED
    BY <2>1, SealedMixes DEF MixDigest, Built, InputInv
<1>5. ASSUME NEW i \in 1..ColossusXAuditCellCount
      PROVE  /\ Sealed.audit[i].index = ColossusXAuditIndices(MixDigest(header, nonce))[i]
             /\ proved(Sealed.audit[i])
  <2>1. Audited(i) \in targets /\ Sealed.audit[i] = TrueCell(Audited(i))
    BY SealedCells
  <2>2. Sealed.audit[i].index = Audited(i)
    BY <2>1 DEF TrueCell
  <2>3. proved(Sealed.audit[i])
    <3> HIDE DEF proved
    <3> QED
      BY <1>2, <2>1
  <2> QED
    BY <2>2, <2>3 DEF Audited
<1>6. Sealed.mix = MixDigest(header, nonce)
  BY SealedCells
<1>7. AuditIndices(Sealed, MixDigest(header, nonce))
  BY <1>1, <1>5 DEF AuditIndices
<1> QED
  BY <1>1, <1>3, <1>4, <1>5, <1>6, <1>7 DEF VerifyColossusXSolution

\* A cell as a solution has it, whatever it says.
IsCell(c) ==
  /\ c = [index |-> c.index, data |-> c.data, proof |-> c.proof]
  /\ c.proof = [l \in 1..Len(c.proof) |-> c.proof[l]] /\ Len(c.proof) \in Nat

\* A cell that is shown to be in the tree is that cell, if its data are as long
\* as a cell of the DAG.
LEMMA ProvedIsTrue ==
  ASSUME Words, Built, NEW c, IsCell(c), OfNodeSize(c.data), c.index \in targets,
         VerifyMerkleProof(acc, c.data, c.index, c.proof)
  PROVE  c = TrueCell(c.index)
<1> PICK t \in targets : t = c.index
  OBVIOUS
<1>1. Depth = top /\ Depth \in Nat
  BY Tree DEF Built
<1>2. /\ VerifyMerkleProof(acc, Leaf(dag[t]), t, Proof(t))
      /\ Proof(t) = [l \in 1..Depth |-> Proof(t)[l]] /\ Len(Proof(t)) = Depth
  BY <1>1, ProofLeadsUp DEF Proof
<1>3. Len(c.proof) = Depth
  BY ProofReachesDown DEF IsCell
<1>4. Climb(c.data, t, c.proof)[Len(c.proof)]
        = Climb(Leaf(dag[t]), t, Proof(t))[Len(Proof(t))]
  BY <1>2 DEF VerifyMerkleProof
<1>5. c.data = Leaf(dag[t]) /\ \A l \in 1..Depth : c.proof[l] = Proof(t)[l]
  BY <1>1, <1>2, <1>3, <1>4, ClimbsAgree
<1>6. c.proof = Proof(t)
  BY <1>2, <1>3, <1>5 DEF IsCell
<1> QED
  BY <1>5, <1>6 DEF IsCell, TrueCell

\* What a solution with the sealed mix holds, when it passes the check.  Of an
\* audited cell that has another size only the index is known.
IsSealed(h, s) ==
  /\ h = header /\ s.nonce = nonce /\ s.mix = MixDigest(header, nonce)
  /\ Len(s.mining) = ReadsPerHash /\ Len(s.audit) = ColossusXAuditCellCount
  /\ \A r \in 1..ReadsPerHash : s.mining[r] = TrueCell(Read(r))
  /\ \A i \in 1..ColossusXAuditCellCount :
       /\ s.audit[i].index = Audited(i)
       /\ OfNodeSize(s.audit[i].data) => s.audit[i] = TrueCell(Audited(i))

LEMMA VerifiedIsSealed ==
  ASSUME Words, Built, NEW h, NEW s, s.mix = MixDigest(header, nonce),
         \A r \in 1..Len(s.mining) : IsCell(s.mining[r]),
         \A i \in 1..Len(s.audit) : IsCell(s.audit[i]),
         VerifyColossusXSolution(h, acc, s)
  PROVE  IsSealed(h, s)
<1> DEFINE mixes == MixesGiven(h, s)
           mix == mixes[ReadsPerHash]
           given == MixesGiven(header, Sealed)
           proved(c) == VerifyMerkleProof(acc, c.data, c.index, c.proof)
<1>1. /\ Len(s.mining) = ReadsPerHash
      /\ \A r \in 1..ReadsPerHash :
           /\ ExpectedIndex(s, mixes[r - 1], r)
           /\ OfNodeSize(s.mining[r].data) /\ proved(s.mining[r])
      /\ mix = s.mix
      /\ AuditIndices(s, mix) /\ Len(s.audit) = ColossusXAuditCellCount
      /\ \A i \in 1..Len(s.audit) : proved(s.audit[i])
  BY DEF VerifyColossusXSolution, AuditIndices
<1>2. /\ Sealed.nonce = nonce
      /\ \A r \in 1..ReadsPerHash : Sealed.mining[r].data = Leaf(dag[Read(r)])
  BY SealedData
<1>3. given[ReadsPerHash] = mix
  <2>1. ReadsPerHash \in 0..ReadsPerHash
    BY SolutionAssumption
  <2> QED
    BY <1>1, <2>1, SealedMixes DEF MixDigest
<1>4. /\ h = header /\ s.nonce = nonce
      /\ \A r \in 1..ReadsPerHash : s.mining[r].data = Leaf(dag[Read(r)])
  <2>1. /\ mix[1] = h /\ mix[2] = s.nonce
        /\ \A r \in 1..ReadsPerHash : mix[r + 2] = s.mining[r].data
    BY MixTells
  <2>2. /\ mix[1] = header /\ mix[2] = Sealed.nonce
        /\ \A r \in 1..ReadsPerHash : mix[r + 2] = Sealed.mining[r].data
    <3> HIDE DEF mix
    <3> QED
      BY <1>3, MixTells
  <2> HIDE DEF mix
  <2> QED
    BY <1>2, <2>1, <2>2
<1>5. \A r \in 0..ReadsPerHash : mixes[r] = Mixes(header, nonce)[r]
  <2> DEFINE S == {r \in Nat : r <= ReadsPerHash => mixes[r] = given[r]}
  <2>1. /\ mixes[0] = Initial(header, nonce)
        /\ \A r \in 1..ReadsPerHash : mixes[r] = RoundMix(mixes[r - 1], Leaf(dag[Read(r)]))
    BY <1>4, MixesGivenDefined
  <2>2. /\ given[0] = Initial(header, nonce)
        /\ \A r \in 1..ReadsPerHash : given[r] = RoundMix(given[r - 1], Leaf(dag[Read(r)]))
    BY <1>2, MixesGivenDefined
  <2> HIDE DEF mixes, given
  <2>3. 0 \in S
    BY <2>1, <2>2
  <2>4. ASSUME NEW r \in S
        PROVE  r + 1 \in S
    <3> SUFFICES ASSUME r + 1 <= ReadsPerHash
                 PROVE  mixes[r + 1] = given[r + 1]
      OBVIOUS
    <3>1. r + 1 \in 1..ReadsPerHash /\ (r + 1) - 1 = r /\ mixes[r] = given[r]
      BY SolutionAssumption
    <3> QED
      BY <2>1, <2>2, <3>1
  <2>5. S \in SUBSET Nat
    OBVIOUS
  <2> HIDE DEF S
  <2>6. S = Nat
    BY <2>3, <2>4, <2>5, SetInduction
  <2>7. \A r \in 0..ReadsPerHash : mixes[r] = given[r]
    BY <2>6, SolutionAssumption DEF S
  <2> QED
    BY <2>7, SealedMixes DEF given
<1>6. ASSUME NEW r \in 1..ReadsPerHash
      PROVE  s.mining[r] = TrueCell(Read(r))
  <2>1. r - 1 \in 0..ReadsPerHash
    BY SolutionAssumption
  <2>2. s.mining[r].index = Read(r)
    BY <1>1, <1>5, <2>1 DEF ExpectedIndex, Read, Accessed
  <2>3. Read(r) \in targets
    BY SealedCells
  <2> QED
    BY <1>1, <2>2, <2>3, ProvedIsTrue
<1>7. ASSUME NEW i \in 1..ColossusXAuditCellCount
      PROVE  /\ s.audit[i].index = Audited(i)
             /\ OfNodeSize(s.audit[i].data) => s.audit[i] = TrueCell(Audited(i))
  <2>1. s.audit[i].index = Audited(i)
    BY <1>1 DEF AuditIndices, Audited
  <2>2. Audited(i) \in targets
    BY SealedCells
  <2> QED
    BY <1>1, <2>1, <2>2, ProvedIsTrue
<1> QED
  BY <1>1, <1>4, <1>6, <1>7 DEF IsSealed

-----------------------------------------------------------------------------
(***************************************************************************)
(* The compact form: every sibling is in the pool, and is found there.     *)
(***************************************************************************)
LEMMA PoolHasAll ==
  ASSUME NEW V, NEW sibs \in Seq(V)
  PROVE  /\ Pool(sibs) \in Seq(V)
         /\ \A k \in 1..Len(sibs) : sibs[k] \in SeqRange(Pool(sibs))
<1> DEFINE n == Len(sibs)
           step == [k \in Nat |-> [p \in Seq(V) |->
                      IF k + 1 <= n THEN Pooled(p, sibs[k + 1]) ELSE p]]
           P(x) == x = [k \in 0..n |-> IF k = 0 THEN <<>> ELSE Pooled(x[k - 1], sibs[k])]
<1>1. n \in Nat /\ \A k \in 1..n : sibs[k] \in V
  OBVIOUS
<1>2. ASSUME NEW p \in Seq(V), NEW v \in V
      PROVE  /\ Pooled(p, v) \in Seq(V)
             /\ v \in SeqRange(Pooled(p, v))
             /\ SeqRange(p) \subseteq SeqRange(Pooled(p, v))
  <2>1. CASE v \in SeqRange(p)
    BY <2>1 DEF Pooled
  <2>2. CASE v \notin SeqRange(p)
    <3>1. Pooled(p, v) = Append(p, v) /\ Append(p, v) \in Seq(V)
      BY <2>2 DEF Pooled
    <3>2. /\ Len(p) \in Nat /\ Len(Append(p, v)) = Len(p) + 1
          /\ Append(p, v)[Len(p) + 1] = v
          /\ \A i \in 1..Len(p) : Append(p, v)[i] = p[i]
      OBVIOUS
    <3>3. /\ Len(p) + 1 \in 1..Len(Append(p, v))
          /\ \A i \in 1..Len(p) : i \in 1..Len(Append(p, v))
      BY <3>2
    <3> QED
      BY <3>1, <3>2, <3>3 DEF SeqRange
  <2> QED
    BY <2>1, <2>2
<1> HIDE DEF n
<1>3. step \in Steps(Seq(V))
  <2>1. ASSUME NEW k \in Nat, NEW p \in Seq(V)
        PROVE  (IF k + 1 <= n THEN Pooled(p, sibs[k + 1]) ELSE p) \in Seq(V)
    <3>1. k + 1 <= n => k + 1 \in 1..n
      BY <1>1
    <3> QED
      BY <1>1, <1>2, <3>1
  <2> QED
    BY <2>1 DEF Steps
<1>4. PICK f : f \in [Nat -> Seq(V)] /\ f[0] = <<>> /\ \A k \in Nat : f[k + 1] = step[k][f[k]]
  <2>1. <<>> \in Seq(V)
    OBVIOUS
  <2> HIDE DEF step
  <2>2. PICK f : Recursive(f, Seq(V), <<>>, step)
    BY <1>3, <2>1, Recursion
  <2> QED
    BY <2>2 DEF Recursive
<1> DEFINE g == [k \in 0..n |-> f[k]]
<1>5. ASSUME NEW k \in 1..n
      PROVE  g[k] = Pooled(g[k - 1], sibs[k])
  <2>1. k - 1 \in Nat /\ (k - 1) + 1 = k /\ k \in 0..n /\ k - 1 \in 0..n /\ k <= n
    BY <1>1
  <2>2. f[k] = step[k - 1][f[k - 1]] /\ f[k - 1] \in Seq(V)
    BY <1>4, <2>1
  <2> QED
    BY <2>1, <2>2
<1>6. g[0] = <<>> /\ \A k \in 0..n : k # 0 => k \in 1..n
  BY <1>1, <1>4
<1> HIDE DEF step
<1>7. P(g)
  <2>1. g = [k \in 0..n |-> g[k]]
    OBVIOUS
  <2> HIDE DEF g
  <2> QED
    BY <1>5, <1>6, <2>1
<1>8. P(Pools(sibs))
  <2> HIDE DEF g
  <2> QED
    BY <1>7 DEF Pools, n
<1> DEFINE q(k) == Pools(sibs)[k]
<1>9. q(0) = <<>> /\ \A k \in 1..n : q(k) = Pooled(q(k - 1), sibs[k])
  <2>1. 0 \in 0..n /\ \A k \in 1..n : k \in 0..n /\ k # 0
    BY <1>1
  <2> QED
    BY <1>8, <2>1
<1> DEFINE Has(k) == q(k) \in Seq(V) /\ \A j \in 1..k : sibs[j] \in SeqRange(q(k))
           S == {k \in Nat : k <= n => Has(k)}
<1> HIDE DEF q, g
<1>10. 0 \in S
  <2>1. Has(0)
    <3>1. <<>> \in Seq(V) /\ \A j \in 1..0 : FALSE
      OBVIOUS
    <3> QED
      BY <1>9, <3>1
  <2> HIDE DEF Has
  <2> QED
    BY <2>1
<1>11. ASSUME NEW k \in S
       PROVE  k + 1 \in S
  <2>1. k \in Nat
    OBVIOUS
  <2>2. ASSUME k + 1 <= n
        PROVE  Has(k + 1)
    <3>1. k + 1 \in 1..n /\ (k + 1) - 1 = k /\ Has(k)
      BY <1>1, <2>1, <2>2
    <3>2. q(k + 1) = Pooled(q(k), sibs[k + 1]) /\ sibs[k + 1] \in V /\ q(k) \in Seq(V)
      BY <1>1, <1>9, <3>1
    <3>3. /\ q(k + 1) \in Seq(V) /\ sibs[k + 1] \in SeqRange(q(k + 1))
          /\ SeqRange(q(k)) \subseteq SeqRange(q(k + 1))
      BY <1>2, <3>2
    <3>4. \A j \in 1..(k + 1) : j \in 1..k \/ j = k + 1
      BY <2>1
    <3> QED
      BY <3>1, <3>3, <3>4
  <2> HIDE DEF Has
  <2> QED
    BY <2>1, <2>2
<1>12. S \in SUBSET Nat
  OBVIOUS
<1> HIDE DEF S
<1>13. S = Nat
  BY <1>10, <1>11, <1>12, SetInduction
<1>14. Has(n)
  <2> HIDE DEF Has
  <2> QED
    BY <1>1, <1>13 DEF S
<1> QED
  BY <1>14 DEF Pool, n, q

\* Where it is found there is what was looked for.
LEMMA PlaceFinds ==
  ASSUME NEW V, NEW pool \in Seq(V), NEW sib \in SeqRange(pool)
  PROVE  /\ Place(pool, sib) \in 0..(Len(pool) - 1)
         /\ pool[Place(pool, sib) + 1] = sib
<1> DEFINE p == CHOOSE i \in 1..Len(pool) : pool[i] = sib
<1>1. p \in 1..Len(pool) /\ pool[p] = sib
  BY DEF SeqRange
<1>2. Place(pool, sib) = p - 1 /\ Len(pool) \in Nat
  BY DEF Place
<1> HIDE DEF p
<1> QED
  BY <1>1, <1>2

\* Where the siblings of the j-th cell are among all.
LEMMA Slot ==
  ASSUME NEW d \in Nat \ {0}, NEW n \in Nat, NEW j \in 1..n, NEW l \in 1..d
  PROVE  LET k == (j - 1) * d + l IN
           /\ k \in 1..(n * d)
           /\ ((k - 1) \div d) + 1 = j /\ ((k - 1) % d) + 1 = l
<1> DEFINE m == (j - 1) * d
           k == m + l
<1>1. m \in Nat
  <2>1. \A x, y \in Nat : x * y \in Nat
    OBVIOUS
  <2>2. j - 1 \in Nat
    OBVIOUS
  <2> QED
    BY <2>1, <2>2
<1>2. n * d = m + (n - (j - 1)) * d
  BY Z3
<1>3. (n - (j - 1)) * d >= d
  <2>1. ASSUME NEW x \in Nat \ {0}
        PROVE  x * d >= d
    <3>1. x * d = (x - 1) * d + d
      BY Z3
    <3>2. x - 1 \in Nat /\ (x - 1) * d \in Nat
      BY Z3
    <3> QED
      BY <3>1, <3>2
  <2>2. n - (j - 1) \in Nat \ {0}
    OBVIOUS
  <2> QED
    BY <2>1, <2>2
<1>4. n * d \in Nat /\ (n - (j - 1)) * d \in Int
  BY Z3
<1>5. (k - 1) \div d = j - 1 /\ (k - 1) % d = l - 1
  <2>1. ASSUME NEW x \in Nat, NEW y \in 0..(d - 1)
        PROVE  (x * d + y) \div d = x /\ (x * d + y) % d = y
    BY Z3
  <2>2. j - 1 \in Nat /\ l - 1 \in 0..(d - 1)
    OBVIOUS
  <2>3. ((j - 1) * d + (l - 1)) \div d = j - 1 /\ ((j - 1) * d + (l - 1)) % d = l - 1
    BY <2>1, <2>2
  <2>4. k - 1 = (j - 1) * d + (l - 1)
    BY <1>1
  <2> HIDE DEF k, m
  <2> QED
    BY <2>3, <2>4
<1> HIDE DEF m
<1>6. k \in 1..(n * d)
  BY <1>1, <1>2, <1>3, <1>4
<1>7. ((k - 1) \div d) + 1 = j /\ ((k - 1) % d) + 1 = l
  BY <1>5
<1> QED
  BY <1>6, <1>7 DEF m

\* The siblings of the sealed solution, each of them once.
ThePool == Pool(Siblings(Sealed))

\* A cell of the DAG in the compact form.
RefCell(i) ==
  [index |-> i, data |-> Leaf(dag[i]), refs |-> [l \in 1..Depth |-> Place(ThePool, Proof(i)[l])]]

\* The compact form of the sealed solution.
Reduced == CompactColossusXSolution(Sealed)

\* c is a and then b.
Joins(a, b, c) ==
  /\ Len(c) = Len(a) + Len(b)
  /\ \A j \in 1..Len(a) : c[j] = a[j]
  /\ \A j \in 1..Len(b) : c[Len(a) + j] = b[j]

\* What concatenation does.
LEMMA Joining ==
  ASSUME NEW X, NEW a \in Seq(X), NEW b \in Seq(X)
  PROVE  Joins(a, b, a \o b)
BY DEF Joins

\* Every sibling of every wanted cell is found in the pool.
LEMMA SiblingsPooled ==
  ASSUME Words, Built
  PROVE  /\ Depth \in Nat /\ Len(ThePool) \in Nat
         /\ \A t \in targets, l \in 1..Depth :
              /\ Place(ThePool, Proof(t)[l]) \in 0..(Len(ThePool) - 1)
              /\ ThePool[Place(ThePool, Proof(t)[l]) + 1] = Proof(t)[l]
<1> DEFINE cells == Sealed.mining \o Sealed.audit
           n == ReadsPerHash + ColossusXAuditCellCount
           sibs == Siblings(Sealed)
           V == SeqRange(sibs)
           T == {TrueCell(t) : t \in targets}
<1>1. Depth \in Nat /\ n \in Nat
  BY Tree, SolutionAssumption DEF Built
<1>2. /\ Len(cells) = n
      /\ \A j \in 1..ReadsPerHash : cells[j] = TrueCell(Read(j))
      /\ \A j \in 1..ColossusXAuditCellCount : cells[ReadsPerHash + j] = TrueCell(Audited(j))
  <2>1. Sealed.mining \in Seq(T) /\ Len(Sealed.mining) = ReadsPerHash
        /\ Sealed.audit \in Seq(T) /\ Len(Sealed.audit) = ColossusXAuditCellCount
    <3>1. /\ \A r \in 1..ReadsPerHash : TrueCell(Read(r)) \in T
          /\ \A i \in 1..ColossusXAuditCellCount : TrueCell(Audited(i)) \in T
      BY SealedCells
    <3>2. /\ Sealed.mining = [r \in 1..ReadsPerHash |-> TrueCell(Read(r))]
          /\ Sealed.audit = [i \in 1..ColossusXAuditCellCount |-> TrueCell(Audited(i))]
      BY SealedCells
    <3>3. ReadsPerHash \in Nat /\ ColossusXAuditCellCount \in Nat
      BY SolutionAssumption
    <3> HIDE DEF T
    <3> QED
      BY <3>1, <3>2, <3>3
  <2>2. /\ \A j \in 1..ReadsPerHash : Sealed.mining[j] = TrueCell(Read(j))
        /\ \A j \in 1..ColossusXAuditCellCount : Sealed.audit[j] = TrueCell(Audited(j))
    BY SealedCells
  <2> HIDE DEF T
  <2> PICK a, b : a = Sealed.mining /\ b = Sealed.audit
    OBVIOUS
  <2>3. Joins(a, b, a \o b)
    <3>1. a \in Seq(T) /\ b \in Seq(T)
      BY <2>1
    <3> QED
      BY <3>1, Joining
  <2>4. /\ Len(cells) = Len(Sealed.mining) + Len(Sealed.audit)
        /\ \A j \in 1..Len(Sealed.mining) : cells[j] = Sealed.mining[j]
        /\ \A j \in 1..Len(Sealed.audit) : cells[Len(Sealed.mining) + j] = Sealed.audit[j]
    BY <2>3 DEF Joins
  <2> HIDE DEF cells
  <2> QED
    BY <2>1, <2>2, <2>4
<1>3. ASSUME NEW t \in targets
      PROVE  \E j \in 1..n : cells[j] = TrueCell(t)
  <2>1. t \in SeqRange(Accessed(header, nonce))
             \cup SeqRange(ColossusXAuditIndices(MixDigest(header, nonce)))
    BY DEF Built, InputInv, Needed
  <2>2. /\ Len(Accessed(header, nonce)) = ReadsPerHash
        /\ Len(ColossusXAuditIndices(MixDigest(header, nonce))) = ColossusXAuditCellCount
    BY SolutionAssumption DEF Accessed, ColossusXAuditIndices
  <2>3. CASE \E j \in 1..ReadsPerHash : t = Read(j)
    <3> PICK j \in 1..ReadsPerHash : t = Read(j)
      BY <2>3
    <3>1. j \in 1..n
      BY SolutionAssumption
    <3> HIDE DEF cells, n
    <3> QED
      BY <1>2, <3>1
  <2>4. CASE \E j \in 1..ColossusXAuditCellCount : t = Audited(j)
    <3> PICK j \in 1..ColossusXAuditCellCount : t = Audited(j)
      BY <2>4
    <3>1. ReadsPerHash + j \in 1..n
      BY SolutionAssumption
    <3> HIDE DEF cells, n
    <3> QED
      BY <1>2, <3>1
  <2> QED
    BY <2>1, <2>2, <2>3, <2>4 DEF SeqRange, Read, Audited
<1>4. sibs = [k \in 1..(Len(cells) * Depth) |->
                cells[((k - 1) \div Depth) + 1].proof[((k - 1) % Depth) + 1]]
  BY DEF Siblings
<1>5. n * Depth \in Nat
  <2>1. \A x, y \in Nat : x * y \in Nat
    OBVIOUS
  <2> QED
    BY <1>1, <2>1
<1> HIDE DEF cells, n
<1>6. Len(sibs) = n * Depth /\ sibs \in Seq(V)
  <2> PICK K : K = n * Depth
    OBVIOUS
  <2>1. Len(sibs) = K /\ DOMAIN sibs = 1..K /\ K \in Nat
        /\ sibs = [k \in 1..K |-> sibs[k]]
    BY <1>2, <1>4, <1>5
  <2> HIDE DEF sibs
  <2>2. \A k \in 1..K : sibs[k] \in V
    BY <2>1 DEF SeqRange
  <2> HIDE DEF V
  <2> QED
    BY <2>1, <2>2
<1>7. ASSUME NEW t \in targets, NEW l \in 1..Depth
      PROVE  Proof(t)[l] \in SeqRange(ThePool)
  <2> PICK j \in 1..n : cells[j] = TrueCell(t)
    BY <1>3
  <2> PICK k : k = (j - 1) * Depth + l
    OBVIOUS
  <2>1. Depth \in Nat \ {0}
    BY <1>1
  <2>2. k \in 1..(n * Depth) /\ ((k - 1) \div Depth) + 1 = j /\ ((k - 1) % Depth) + 1 = l
    BY <1>1, <2>1, Slot
  <2>3. sibs[k] = cells[j].proof[l]
    BY <1>2, <1>4, <2>2
  <2>4. sibs[k] = Proof(t)[l]
    BY <2>3 DEF TrueCell
  <2>5. k \in 1..Len(sibs)
    BY <1>6, <2>2
  <2> HIDE DEF sibs, V
  <2> QED
    BY <1>6, <2>4, <2>5, PoolHasAll DEF ThePool, sibs
<1>8. ThePool \in Seq(V)
  BY <1>6, PoolHasAll DEF ThePool
<1>9. Len(ThePool) \in Nat
  BY <1>8
<1> HIDE DEF V
<1> QED
  BY <1>1, <1>7, <1>8, <1>9, PlaceFinds

\* The compact form of the sealed solution.
LEMMA ReducedCells ==
  ASSUME Words, Built
  PROVE  Reduced = [nonce |-> nonce, mix |-> MixDigest(header, nonce), siblings |-> ThePool,
                    mining |-> [r \in 1..ReadsPerHash |-> RefCell(Read(r))],
                    audit |-> [i \in 1..ColossusXAuditCellCount |-> RefCell(Audited(i))]]
<1> DEFINE encoded(c) == [index |-> c.index, data |-> c.data,
                          refs |-> [l \in 1..Len(c.proof) |-> Place(ThePool, c.proof[l])]]
<1>1. ASSUME NEW t
      PROVE  encoded(TrueCell(t)) = RefCell(t)
  <2>1. TrueCell(t).index = t /\ TrueCell(t).data = Leaf(dag[t]) /\ TrueCell(t).proof = Proof(t)
    BY DEF TrueCell
  <2>2. Len(Proof(t)) = Depth
    BY Tree DEF Proof, Built
  <2> QED
    BY <2>1, <2>2 DEF RefCell
<1>2. Reduced = [nonce |-> Sealed.nonce, mix |-> Sealed.mix, siblings |-> ThePool,
                 mining |-> [r \in 1..Len(Sealed.mining) |-> encoded(Sealed.mining[r])],
                 audit |-> [i \in 1..Len(Sealed.audit) |-> encoded(Sealed.audit[i])]]
  BY DEF Reduced, CompactColossusXSolution, ThePool
<1>3. /\ Len(Sealed.mining) = ReadsPerHash /\ Len(Sealed.audit) = ColossusXAuditCellCount
      /\ \A r \in 1..ReadsPerHash : Sealed.mining[r] = TrueCell(Read(r))
      /\ \A i \in 1..ColossusXAuditCellCount : Sealed.audit[i] = TrueCell(Audited(i))
  BY SealedCells, SolutionAssumption
<1>4. Sealed.nonce = nonce /\ Sealed.mix = MixDigest(header, nonce)
  BY SealedCells
<1> HIDE DEF encoded
<1> QED
  BY <1>1, <1>2, <1>3, <1>4

\* Nothing is lost on the way there and back.
LEMMA ReducedExpands ==
  ASSUME Words, Built
  PROVE  RefsResolve(Reduced) /\ ExpandCompactColossusXSolution(Reduced) = Sealed
<1> DEFINE decoded(c) == [index |-> c.index, data |-> c.data,
                          proof |-> [l \in 1..Len(c.refs) |-> ThePool[c.refs[l] + 1]]]
<1>1. ASSUME NEW t \in targets
      PROVE  /\ decoded(RefCell(t)) = TrueCell(t)
             /\ \A l \in 1..Len(RefCell(t).refs) : RefCell(t).refs[l] < Len(ThePool)
  <2>1. /\ RefCell(t).index = t /\ RefCell(t).data = Leaf(dag[t])
        /\ RefCell(t).refs = [l \in 1..Depth |-> Place(ThePool, Proof(t)[l])]
    BY DEF RefCell
  <2>2. Len(RefCell(t).refs) = Depth
    BY <2>1, SiblingsPooled
  <2>3. Proof(t) = [l \in 1..Depth |-> Proof(t)[l]]
    BY Tree DEF Proof, Built
  <2>4. \A l \in 1..Depth : ThePool[RefCell(t).refs[l] + 1] = Proof(t)[l]
                            /\ RefCell(t).refs[l] < Len(ThePool)
    BY <2>1, SiblingsPooled
  <2>5. [l \in 1..Depth |-> ThePool[RefCell(t).refs[l] + 1]] = Proof(t)
    BY <2>3, <2>4
  <2> QED
    BY <2>1, <2>2, <2>4, <2>5 DEF TrueCell
<1>2. /\ Reduced.nonce = nonce /\ Reduced.mix = MixDigest(header, nonce)
      /\ Reduced.siblings = ThePool
      /\ Reduced.mining = [r \in 1..ReadsPerHash |-> RefCell(Read(r))]
      /\ Reduced.audit = [i \in 1..ColossusXAuditCellCount |-> RefCell(Audited(i))]
  BY ReducedCells
<1>3. Len(Reduced.mining) = ReadsPerHash /\ Len(Reduced.audit) = ColossusXAuditCellCount
  BY <1>2, SolutionAssumption
<1>4. /\ \A r \in 1..ReadsPerHash : Read(r) \in targets
      /\ \A i \in 1..ColossusXAuditCellCount : Audited(i) \in targets
  BY SealedCells
<1>5. RefsResolve(Reduced)
  <2> SUFFICES ASSUME NEW c \in SeqRange(Reduced.mining) \cup SeqRange(Reduced.audit)
               PROVE  \A l \in 1..Len(c.refs) : c.refs[l] < Len(Reduced.siblings)
    BY DEF RefsResolve
  <2>1. \E t \in targets : c = RefCell(t)
    <3>1. CASE c \in SeqRange(Reduced.mining)
      <4> PICK r \in 1..ReadsPerHash : c = Reduced.mining[r]
        BY <1>3, <3>1 DEF SeqRange
      <4>1. c = RefCell(Read(r))
        BY <1>2
      <4> QED
        BY <1>4, <4>1
    <3>2. CASE c \in SeqRange(Reduced.audit)
      <4> PICK i \in 1..ColossusXAuditCellCount : c = Reduced.audit[i]
        BY <1>3, <3>2 DEF SeqRange
      <4>1. c = RefCell(Audited(i))
        BY <1>2
      <4> QED
        BY <1>4, <4>1
    <3> QED
      BY <3>1, <3>2
  <2> QED
    BY <1>1, <1>2, <2>1
<1>6. ExpandCompactColossusXSolution(Reduced) =
        [nonce |-> Reduced.nonce, mix |-> Reduced.mix,
         mining |-> [r \in 1..Len(Reduced.mining) |-> decoded(Reduced.mining[r])],
         audit |-> [i \in 1..Len(Reduced.audit) |-> decoded(Reduced.audit[i])]]
  BY <1>2 DEF ExpandCompactColossusXSolution
<1> HIDE DEF decoded
<1>7. /\ [r \in 1..Len(Reduced.mining) |-> decoded(Reduced.mining[r])] = Sealed.mining
      /\ [i \in 1..Len(Reduced.audit) |-> decoded(Reduced.audit[i])] = Sealed.audit
  <2>1. ASSUME NEW r \in 1..ReadsPerHash
        PROVE  decoded(Reduced.mining[r]) = TrueCell(Read(r))
    <3>1. Reduced.mining[r] = RefCell(Read(r))
      BY <1>2
    <3> QED
      BY <1>1, <1>4, <3>1
  <2>2. ASSUME NEW i \in 1..ColossusXAuditCellCount
        PROVE  decoded(Reduced.audit[i]) = TrueCell(Audited(i))
    <3>1. Reduced.audit[i] = RefCell(Audited(i))
      BY <1>2
    <3> QED
      BY <1>1, <1>4, <3>1
  <2> QED
    BY <1>3, <2>1, <2>2, SealedCells
<1> QED
  BY <1>2, <1>5, <1>6, <1>7, SealedCells

-----------------------------------------------------------------------------
(***************************************************************************)
(* What arrives, and what is accepted of it.                               *)
(***************************************************************************)
ArrivalInv ==
  \/ block = NoBlock
  \/ /\ block = [header |-> block.header, nonce |-> block.nonce, root |-> block.root,
                 transactions |-> block.transactions, form |-> block.form, body |-> block.body]
     /\ block.form \in {"none", "compact", "full", "arrived"}
     /\ block.form = "compact" =>
          block.header = header /\ block.root = acc /\ block.body = Reduced
     /\ block.form = "full" =>
          block.header = header /\ block.root = acc /\ block.body = Sealed
     /\ block.form = "arrived" => block.body \in ChangedBody(Reduced) \cup {Reduced}

\* The sealed solution does not change.
LEMMA SealedStays ==
  ASSUME UNCHANGED <<merkleVars, header, nonce>>
  PROVE  /\ Sealed' = Sealed /\ Reduced' = Reduced
         /\ ChangedBody(Reduced)' = ChangedBody(Reduced)
<1>1. UNCHANGED <<nodeCount, dag, levels, top, levelCounts, proofs>>
  BY DEF merkleVars, treeVars, dagVars, emitVars
<1>2. Sealed' = Sealed
  BY <1>1 DEF Sealed, BuildColossusXSolutionStreaming, Cell, Depth, Accessed, MixDigest, Mixes,
              ColossusXAuditIndices
<1>3. Reduced' = Reduced
  BY <1>1, <1>2 DEF Reduced, CompactColossusXSolution, Siblings, Depth
<1>4. ChangedBody(Reduced)' = ChangedBody(Reduced)
  BY <1>1, <1>3 DEF ChangedBody, ChangedCells, ChangedCell, ChangedRefs, TreeNode, Size
<1> QED
  BY <1>2, <1>3, <1>4

\* Every step keeps ArrivalInv.
LEMMA ArrivalKept ==
  ASSUME IInv, VerdictInv, ArrivalInv, [Next]_vars
  PROVE  ArrivalInv'
<1>1. CASE UNCHANGED <<merkleVars, header, nonce, block>>
  <2>1. UNCHANGED acc
    BY <1>1 DEF merkleVars, foldVars
  <2> QED
    BY <1>1, <2>1, SealedStays DEF ArrivalInv, NoBlock
<1>2. CASE (GenerationNext \/ MerkleNext) /\ UNCHANGED block
  <2>1. block = NoBlock
    BY <1>2, BuiltIsFinal DEF VerdictInv
  <2> QED
    BY <1>2, <2>1 DEF ArrivalInv, NoBlock
<1>3. CASE SealBlock
  <2>1. /\ block' = [header |-> header, nonce |-> nonce, root |-> acc, transactions |-> "none",
                     form |-> "compact", body |-> Reduced]
        /\ UNCHANGED <<merkleVars, header, nonce>>
    BY <1>3 DEF SealBlock, Reduced, Sealed
  <2>2. acc' = acc
    BY <2>1 DEF merkleVars, foldVars
  <2> QED
    BY <2>1, <2>2, SealedStays DEF ArrivalInv
<1>4. CASE Arrives
  <2> PICK n, t : n = block.nonce /\ t = block.transactions
    OBVIOUS
  <2> PICK bodies : bodies = ChangedBody(Reduced) \cup {Reduced}
    OBVIOUS
  <2>1. /\ block = [header |-> header, nonce |-> n, root |-> acc, transactions |-> t,
                    form |-> "compact", body |-> Reduced]
        /\ UNCHANGED <<merkleVars, header, nonce>>
    <3>1. block.form = "compact" /\ UNCHANGED <<merkleVars, header, nonce>>
      BY <1>4 DEF Arrives
    <3> QED
      BY <3>1 DEF ArrivalInv, NoBlock
  <2>2. acc' = acc
    BY <2>1 DEF merkleVars, foldVars
  <2> DEFINE Good(x) ==
        /\ x = [header |-> x.header, nonce |-> x.nonce, root |-> x.root,
                transactions |-> x.transactions, form |-> x.form, body |-> x.body]
        /\ \/ x.form = "none"
           \/ x.form = "full" /\ x.header = header /\ x.root = acc /\ x.body = Sealed
           \/ x.form = "arrived" /\ x.body \in bodies
  <2> DEFINE sent(form) == [header |-> header, nonce |-> n, root |-> acc, transactions |-> t,
                            form |-> form, body |-> Reduced]
  <2>3. Good(block')
    <3>1. Reduced \in bodies
      OBVIOUS
    <3>2. \A form : Sent(form) = sent(form)
      BY <2>1 DEF Sent
    <3>3. \/ \E b \in bodies : block' = [sent("arrived") EXCEPT !.body = b]
          \/ block' = [sent("full") EXCEPT !.body = Sealed]
          \/ block' = [sent("none") EXCEPT !.body = Nothing]
          \/ \E root : block' = [sent("arrived") EXCEPT !.root = root]
          \/ \E h : block' = [sent("arrived") EXCEPT !.header = h]
          \/ block' = [sent("arrived") EXCEPT !.nonce = @ + 1]
          \/ block' = [sent("arrived") EXCEPT !.transactions = "some"]
      <4>1. block.body = Reduced
        BY <2>1
      <4> HIDE DEF sent
      <4> QED
        BY <1>4, <3>2, <4>1 DEF Arrives, Sealed
    <3> QED
      BY <3>1, <3>3
  <2>4. Sealed' = Sealed /\ (ChangedBody(Reduced) \cup {Reduced})' = bodies
    BY <2>1, SealedStays
  <2> QED
    BY <2>1, <2>2, <2>3, <2>4 DEF ArrivalInv
<1>5. CASE Validate \/ RunVerify \/ UNCHANGED vars
  BY <1>1, <1>5 DEF Validate, RunVerify, vars
<1> QED
  BY <1>2, <1>3, <1>4, <1>5 DEF Next

\* What is sealed passes both checks.
LEMMA SealedPasses ==
  ASSUME Words, Built, AsSealed
  PROVE  Accepts /\ Verifies
<1>1. VerifyColossusXSolution(header, acc, Sealed)
  BY SealedVerifies
<1>2. RefsResolve(Reduced) /\ ExpandCompactColossusXSolution(Reduced) = Sealed
  BY ReducedExpands
<1>3. SolutionGiven /\ Received = Sealed /\ block.root = acc /\ block.header = header
  BY <1>2 DEF AsSealed, SolutionGiven, Received, Sealed, Reduced
<1>4. acc # Nothing
  BY RootIsSomething DEF Built
<1> QED
  BY <1>1, <1>3, <1>4 DEF Accepts, Verifies

(***************************************************************************)
(* A sealed block, in either form, passes every node's validation and the  *)
(* solution's check of the verify command: the sealed cells lead the       *)
(* verifier through the miner's mixes, their proofs lead to the root, and  *)
(* the compact form loses nothing, whatever cells the hashes name          *)
(* (validator.go:307-317, 349-377, main.go:394-415).                       *)
(***************************************************************************)
THEOREM SealedAccepted ==
  ASSUME Words
  PROVE  Spec => []SealedIsAccepted
<1>1. Init => VerdictInv /\ InputInv /\ WantedInv
  BY DEF Init, MerkleInit, VerdictInv, InputInv, WantedInv, Late
<1>2. IInv /\ VerdictInv /\ InputInv /\ WantedInv /\ [Next]_vars
      => VerdictInv' /\ InputInv' /\ WantedInv'
  BY VerdictKept, InputKept, WantedKept
<1>3. IInv /\ VerdictInv /\ InputInv /\ WantedInv => SealedIsAccepted
  BY SealedPasses DEF SealedIsAccepted, VerdictInv, HasArrived, Built
<1> QED
  BY <1>1, <1>2, <1>3, Invariant, PTL DEF Spec

-----------------------------------------------------------------------------
(***************************************************************************)
(* Whatever one field of a compact solution becomes, it has the form of a  *)
(* compact solution still, and so it can be expanded.                      *)
(***************************************************************************)
IsRefCell(c) ==
  /\ c = [index |-> c.index, data |-> c.data, refs |-> c.refs]
  /\ c.refs \in Seq(Nat)

AreRefCells(cells) ==
  /\ Len(cells) \in Nat /\ cells = [i \in 1..Len(cells) |-> cells[i]]
  /\ \A i \in 1..Len(cells) : IsRefCell(cells[i])

\* A changed cell is still a cell.
LEMMA CellChanged ==
  ASSUME top \in Nat, NEW pool, Len(pool) \in Nat,
         NEW c, IsRefCell(c), NEW d \in ChangedCell(c, pool)
  PROVE  IsRefCell(d)
<1> PICK i, x, refs : i = c.index /\ x = c.data /\ refs = c.refs
  OBVIOUS
<1>1. c = [index |-> i, data |-> x, refs |-> refs] /\ refs \in Seq(Nat) /\ Len(refs) \in Nat
  BY DEF IsRefCell
<1>2. ASSUME NEW m \in ChangedRefs(refs, pool)
      PROVE  m \in Seq(Nat)
  <2> DEFINE one == {[refs EXCEPT ![l] = r] : l \in 1..Len(refs), r \in 0..Len(pool)}
             more == {Append(refs, r) : r \in 0..Len(pool)}
             less == IF refs = <<>> THEN {} ELSE {Tail(refs)}
  <2>1. CASE m \in one
    <3> PICK l \in 1..Len(refs), r \in 0..Len(pool) : m = [refs EXCEPT ![l] = r]
      BY <2>1
    <3> QED
      BY <1>1
  <2>2. CASE m \in more
    <3> PICK r \in 0..Len(pool) : m = Append(refs, r)
      BY <2>2
    <3> QED
      BY <1>1
  <2>3. CASE m \in less
    <3>1. refs # <<>> /\ m = Tail(refs)
      BY <2>3
    <3> QED
      BY <1>1, <3>1
  <2>4. m \in one \cup more \cup less
    BY <1>2 DEF ChangedRefs
  <2> HIDE DEF one, more, less
  <2> QED
    BY <2>1, <2>2, <2>3, <2>4
<1>3. ASSUME NEW l \in 1..top
      PROVE  SubSeq(refs, l + 1, Len(refs)) \in Seq(Nat)
  BY <1>1
<1> DEFINE leaves == {Leaf(nodeCount), hashPair(Leaf(nodeCount), Leaf(nodeCount))}
           datas == {[c EXCEPT !.data = y] : y \in leaves}
           others == {[c EXCEPT !.refs = m] : m \in ChangedRefs(c.refs, pool)}
           nodes(l) == {[index |-> c.index, data |-> TreeNode(l, k),
                         refs |-> SubSeq(c.refs, l + 1, Len(c.refs))] :
                          k \in 0..(Size(l) - 1)}
<1>4. CASE d \in datas
  <2> PICK y : d = [c EXCEPT !.data = y]
    BY <1>4
  <2> QED
    BY <1>1 DEF IsRefCell
<1>5. CASE d = [c EXCEPT !.index = @ + 1]
  BY <1>1, <1>5 DEF IsRefCell
<1>6. CASE d \in others
  <2> PICK m \in ChangedRefs(refs, pool) : d = [c EXCEPT !.refs = m]
    BY <1>6
  <2>1. m \in Seq(Nat)
    BY <1>2
  <2> QED
    BY <1>1, <2>1 DEF IsRefCell
<1>7. CASE \E l \in 1..top : d \in nodes(l)
  <2> PICK l \in 1..top : d \in nodes(l)
    BY <1>7
  <2> PICK k : d = [index |-> i, data |-> TreeNode(l, k), refs |-> SubSeq(refs, l + 1, Len(refs))]
    OBVIOUS
  <2> QED
    BY <1>3 DEF IsRefCell
<1>8. d \in datas \cup {[c EXCEPT !.index = @ + 1]} \cup others \cup UNION {nodes(l) : l \in 1..top}
  BY DEF ChangedCell
<1> HIDE DEF datas, others, nodes
<1> QED
  BY <1>4, <1>5, <1>6, <1>7, <1>8

\* With one changed or one less they are still cells.
LEMMA CellsChanged ==
  ASSUME top \in Nat, NEW pool, Len(pool) \in Nat,
         NEW cells, AreRefCells(cells), NEW m \in ChangedCells(cells, pool)
  PROVE  AreRefCells(m)
<1> PICK n : n = Len(cells)
  OBVIOUS
<1>1. n \in Nat /\ cells = [i \in 1..n |-> cells[i]] /\ \A i \in 1..n : IsRefCell(cells[i])
  BY DEF AreRefCells
<1>2. CASE m = SubSeq(cells, 1, n - 1)
  <2> DEFINE V == {cells[i] : i \in 1..n}
  <2>1. cells \in Seq(V)
    BY <1>1
  <2>2. /\ Len(m) \in Nat /\ Len(m) <= n /\ m = [i \in 1..Len(m) |-> m[i]]
        /\ \A i \in 1..Len(m) : m[i] = cells[i]
    BY <1>1, <1>2, <2>1
  <2> HIDE DEF V
  <2>3. ASSUME NEW i \in 1..Len(m)
        PROVE  IsRefCell(m[i])
    <3>1. i \in 1..n
      BY <1>1, <2>2
    <3> QED
      BY <1>1, <2>2, <3>1
  <2> QED
    BY <2>2, <2>3 DEF AreRefCells
<1>3. CASE \E i \in 1..n : \E d \in ChangedCell(cells[i], pool) : m = [cells EXCEPT ![i] = d]
  <2> PICK i \in 1..n : \E d \in ChangedCell(cells[i], pool) : m = [cells EXCEPT ![i] = d]
    BY <1>3
  <2> PICK d \in ChangedCell(cells[i], pool) : m = [cells EXCEPT ![i] = d]
    OBVIOUS
  <2>1. IsRefCell(d)
    BY <1>1, CellChanged
  <2>2. /\ m = [j \in 1..n |-> m[j]] /\ Len(m) = n
        /\ \A j \in 1..n : m[j] = IF j = i THEN d ELSE cells[j]
    BY <1>1
  <2> QED
    BY <1>1, <2>1, <2>2 DEF AreRefCells
<1> QED
  BY <1>2, <1>3 DEF ChangedCells

\* What arrives has the form of a compact solution.
LEMMA BodyShape ==
  ASSUME Words, Built, NEW b \in ChangedBody(Reduced) \cup {Reduced}
  PROVE  /\ b.mix \in {MixDigest(header, nonce),
                       Append(MixDigest(header, nonce), Leaf(nodeCount))}
         /\ AreRefCells(b.mining) /\ AreRefCells(b.audit)
<1>1. top \in Nat /\ Depth \in Nat /\ Len(ThePool) \in Nat
  BY Tree, SiblingsPooled DEF Built
<1>2. ASSUME NEW t \in targets
      PROVE  IsRefCell(RefCell(t))
  <2> DEFINE refs == [l \in 1..Depth |-> Place(ThePool, Proof(t)[l])]
  <2>1. \A l \in 1..Depth : Place(ThePool, Proof(t)[l]) \in Nat
    BY <1>1, SiblingsPooled
  <2>2. refs \in Seq(Nat)
    BY <1>1, <2>1
  <2>3. RefCell(t) = [index |-> t, data |-> Leaf(dag[t]), refs |-> refs]
    BY DEF RefCell
  <2> HIDE DEF refs
  <2> QED
    BY <2>2, <2>3 DEF IsRefCell
<1> DEFINE mining == [r \in 1..ReadsPerHash |-> RefCell(Read(r))]
           audit == [i \in 1..ColossusXAuditCellCount |-> RefCell(Audited(i))]
<1>3. AreRefCells(mining) /\ AreRefCells(audit)
  <2>1. /\ \A r \in 1..ReadsPerHash : IsRefCell(RefCell(Read(r)))
        /\ \A i \in 1..ColossusXAuditCellCount : IsRefCell(RefCell(Audited(i)))
    BY <1>2, SealedCells
  <2> QED
    BY <2>1, SolutionAssumption DEF AreRefCells
<1>4. Reduced = [nonce |-> nonce, mix |-> MixDigest(header, nonce), siblings |-> ThePool,
                 mining |-> mining, audit |-> audit]
  BY ReducedCells
<1> HIDE DEF mining, audit
<1>5. CASE b = Reduced
  BY <1>3, <1>4, <1>5
<1>6. CASE b = [Reduced EXCEPT !.nonce = @ + 1]
  BY <1>3, <1>4, <1>6
<1>7. CASE b = [Reduced EXCEPT !.mix = Append(@, Leaf(nodeCount))]
  BY <1>3, <1>4, <1>7
<1>8. CASE \E m \in ChangedCells(mining, ThePool) : b = [Reduced EXCEPT !.mining = m]
  <2> PICK m \in ChangedCells(mining, ThePool) : b = [Reduced EXCEPT !.mining = m]
    BY <1>8
  <2>1. AreRefCells(m)
    BY <1>1, <1>3, CellsChanged
  <2> QED
    BY <1>3, <1>4, <2>1
<1>9. CASE \E a \in ChangedCells(audit, ThePool) : b = [Reduced EXCEPT !.audit = a]
  <2> PICK a \in ChangedCells(audit, ThePool) : b = [Reduced EXCEPT !.audit = a]
    BY <1>9
  <2>1. AreRefCells(a)
    BY <1>1, <1>3, CellsChanged
  <2> QED
    BY <1>3, <1>4, <2>1
<1>10. CASE \E i \in 1..Len(ThePool) : b = [Reduced EXCEPT !.siblings[i] = Leaf(nodeCount)]
  BY <1>3, <1>4, <1>10
<1>11. Reduced.mining = mining /\ Reduced.audit = audit /\ Reduced.siblings = ThePool
  BY <1>4
<1> QED
  BY <1>5, <1>6, <1>7, <1>8, <1>9, <1>10, <1>11 DEF ChangedBody

\* What the compact form of a body holds, when it is expanded.
LEMMA Expands ==
  ASSUME Words, Built, NEW b \in ChangedBody(Reduced) \cup {Reduced},
         NEW s, s = ExpandCompactColossusXSolution(b)
  PROVE  /\ s.mix \in {MixDigest(header, nonce),
                       Append(MixDigest(header, nonce), Leaf(nodeCount))}
         /\ s.mining = [r \in 1..Len(s.mining) |-> s.mining[r]]
         /\ \A r \in 1..Len(s.mining) : IsCell(s.mining[r])
         /\ \A i \in 1..Len(s.audit) : IsCell(s.audit[i])
<1> DEFINE decoded(c) == [index |-> c.index, data |-> c.data,
                          proof |-> [l \in 1..Len(c.refs) |-> b.siblings[c.refs[l] + 1]]]
<1>1. /\ b.mix \in {MixDigest(header, nonce), Append(MixDigest(header, nonce), Leaf(nodeCount))}
      /\ AreRefCells(b.mining) /\ AreRefCells(b.audit)
  BY BodyShape
<1>2. s = [nonce |-> b.nonce, mix |-> b.mix,
           mining |-> [r \in 1..Len(b.mining) |-> decoded(b.mining[r])],
           audit |-> [i \in 1..Len(b.audit) |-> decoded(b.audit[i])]]
  BY DEF ExpandCompactColossusXSolution
<1>3. ASSUME NEW c, IsRefCell(c)
      PROVE  IsCell(decoded(c))
  <2>1. Len(c.refs) \in Nat
    BY <1>3 DEF IsRefCell
  <2> DEFINE p == [l \in 1..Len(c.refs) |-> b.siblings[c.refs[l] + 1]]
  <2>2. decoded(c) = [index |-> c.index, data |-> c.data, proof |-> p]
    OBVIOUS
  <2>3. p = [l \in 1..Len(p) |-> p[l]] /\ Len(p) \in Nat
    BY <2>1
  <2> HIDE DEF p, decoded
  <2> QED
    BY <2>2, <2>3 DEF IsCell
<1> HIDE DEF decoded
<1>4. /\ Len(s.mining) = Len(b.mining)
      /\ s.mining = [r \in 1..Len(b.mining) |-> decoded(b.mining[r])]
      /\ Len(s.audit) = Len(b.audit)
      /\ s.audit = [i \in 1..Len(b.audit) |-> decoded(b.audit[i])]
      /\ s.mix = b.mix
  BY <1>1, <1>2 DEF AreRefCells
<1>5. \A r \in 1..Len(s.mining) : IsCell(s.mining[r])
  BY <1>1, <1>3, <1>4 DEF AreRefCells
<1>6. \A i \in 1..Len(s.audit) : IsCell(s.audit[i])
  BY <1>1, <1>3, <1>4 DEF AreRefCells
<1> QED
  BY <1>1, <1>4, <1>5, <1>6

\* A body that passes the check expands to what was sealed, so far as it is bound.
LEMMA ExpandedIsSealed ==
  ASSUME Words, Built, NEW b \in ChangedBody(Reduced) \cup {Reduced},
         NEW s, s = ExpandCompactColossusXSolution(b), NEW h,
         VerifyColossusXSolution(h, acc, s)
  PROVE  IsSealed(h, s) /\ s.mining = Sealed.mining
<1>1. /\ s.mix \in {MixDigest(header, nonce),
                    Append(MixDigest(header, nonce), Leaf(nodeCount))}
      /\ s.mining = [r \in 1..Len(s.mining) |-> s.mining[r]]
      /\ \A r \in 1..Len(s.mining) : IsCell(s.mining[r])
      /\ \A i \in 1..Len(s.audit) : IsCell(s.audit[i])
  BY Expands
<1>2. Len(s.mining) = ReadsPerHash /\ MixesGiven(h, s)[ReadsPerHash] = s.mix
  BY DEF VerifyColossusXSolution
<1>3. s.mix = MixDigest(header, nonce)
  <2>1. Len(s.mix) = ReadsPerHash + 2
    BY <1>2, MixTells
  <2>2. Len(MixDigest(header, nonce)) = ReadsPerHash + 2
    <3>1. ReadsPerHash \in 0..ReadsPerHash
      BY SolutionAssumption
    <3>2. MixesGiven(header, Sealed)[ReadsPerHash] = MixDigest(header, nonce)
      BY <3>1, SealedMixes DEF MixDigest
    <3>3. Len(MixesGiven(header, Sealed)[ReadsPerHash]) = ReadsPerHash + 2
      BY MixTells
    <3> QED
      BY <3>2, <3>3
  <2>3. MixDigest(header, nonce) \in Mix
    BY Indices DEF Built, InputInv, IInv, GenInv, GenTyped
  <2>4. ASSUME NEW m \in Mix, NEW x
        PROVE  Len(Append(m, x)) = Len(m) + 1
    BY DEF Mix
  <2> QED
    BY <1>1, <2>1, <2>2, <2>3, <2>4, SolutionAssumption
<1>4. IsSealed(h, s)
  BY <1>1, <1>3, VerifiedIsSealed
<1>5. Sealed.mining = [r \in 1..ReadsPerHash |-> TrueCell(Read(r))]
  BY SealedCells
<1> QED
  BY <1>1, <1>2, <1>4, <1>5 DEF IsSealed

\* A block that passes the check, against the DAG's root, is what was sealed, so
\* far as it is bound.
LEMMA CheckedMatches ==
  ASSUME Words, Built, ArrivalInv, HasArrived, SolutionGiven,
         VerifyColossusXSolution(block.header, acc, Received)
  PROVE  /\ block.header = header
         /\ Received.nonce = Sealed.nonce /\ Received.mix = Sealed.mix
         /\ Received.mining = Sealed.mining
         /\ Len(Received.audit) = Len(Sealed.audit)
         /\ \A i \in 1..Len(Sealed.audit) :
              /\ Received.audit[i].index = Sealed.audit[i].index
              /\ OfNodeSize(Received.audit[i].data) => Received.audit[i] = Sealed.audit[i]
<1>1. CASE block.form = "full"
  <2>1. block.header = header /\ Received = Sealed
    BY <1>1 DEF ArrivalInv, HasArrived, Received
  <2> QED
    BY <2>1
<1>2. CASE block.form = "arrived"
  <2>1. block.body \in ChangedBody(Reduced) \cup {Reduced}
    BY <1>2 DEF ArrivalInv, HasArrived
  <2>2. Received = ExpandCompactColossusXSolution(block.body)
    BY <1>2 DEF Received
  <2>3. IsSealed(block.header, Received) /\ Received.mining = Sealed.mining
    BY <2>1, <2>2, ExpandedIsSealed
  <2>4. /\ Sealed.nonce = nonce /\ Sealed.mix = MixDigest(header, nonce)
        /\ Len(Sealed.audit) = ColossusXAuditCellCount
        /\ \A i \in 1..ColossusXAuditCellCount : Sealed.audit[i] = TrueCell(Audited(i))
    BY SealedCells, SolutionAssumption
  <2>5. \A i : TrueCell(i).index = i
    BY DEF TrueCell
  <2> QED
    BY <2>3, <2>4, <2>5 DEF IsSealed
<1> QED
  BY <1>1, <1>2 DEF SolutionGiven

(***************************************************************************)
(* What the check of a solution binds: a block that has passed it, in the  *)
(* validator or in the verify command against the DAG's root, has the      *)
(* header and the root of the one that was sealed, and its solution the    *)
(* nonce, the mix, the cells read and the audited cells that have a node's *)
(* size, with their proofs.  The mix binds header, nonce and cells read;   *)
(* the root binds the cells that are as long as a leaf, whatever the       *)
(* length of the proof that they bring.  Nothing is claimed of the         *)
(* header's own nonce, of the transactions, and of audited cells of        *)
(* another size, which the check does not bind (colossusx_solution.go:     *)
(* 148-196, validator.go:349-391, types.go:87-101).                        *)
(***************************************************************************)
THEOREM AcceptedSealed ==
  ASSUME Words
  PROVE  Spec => []AcceptedIsSealed
<1>1. Init => VerdictInv /\ InputInv /\ WantedInv /\ ArrivalInv
  BY DEF Init, MerkleInit, VerdictInv, InputInv, WantedInv, Late, ArrivalInv
<1>2. IInv /\ VerdictInv /\ InputInv /\ WantedInv /\ ArrivalInv /\ [Next]_vars
      => VerdictInv' /\ InputInv' /\ WantedInv' /\ ArrivalInv'
  BY VerdictKept, InputKept, WantedKept, ArrivalKept
<1>3. IInv /\ VerdictInv /\ InputInv /\ WantedInv /\ ArrivalInv => AcceptedIsSealed
  <2> SUFFICES ASSUME IInv, VerdictInv, InputInv, WantedInv, ArrivalInv, Checked
               PROVE  AcceptedIsSealed
    BY DEF AcceptedIsSealed
  <2>1. /\ HasArrived /\ SolutionGiven /\ block.root = acc
        /\ VerifyColossusXSolution(block.header, acc, Received)
    BY DEF Checked, VerdictInv, Accepts, Verifies
  <2>2. Built
    BY <2>1 DEF Built, VerdictInv, HasArrived
  <2> QED
    BY <2>1, <2>2, CheckedMatches DEF AcceptedIsSealed, Sealed
<1> QED
  BY <1>1, <1>2, <1>3, Invariant, PTL DEF Spec
=============================================================================
