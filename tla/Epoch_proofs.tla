---------------------------- MODULE Epoch_proofs ----------------------------
(***************************************************************************)
(* Proofs about the epochs of a chain, for any width of the integers, any  *)
(* sizes that Spec.Validate lets through and any length of epoch and of    *)
(* grace window: the size of an epoch's DAG never overflows, is a number   *)
(* of whole nodes and never shrinks, and a chain that the validator let    *)
(* grow never goes back.                                                   *)
(***************************************************************************)
EXTENDS Epoch, SequenceTheorems, TLAPS

-----------------------------------------------------------------------------
(***************************************************************************)
(* Whole numbers of nodes.                                                 *)
(***************************************************************************)
\* n bytes are a whole number of nodes.
Whole(n) == \E q \in Nat : n = q * NodeSize

\* No remainder means a whole number of nodes, and the other way round.
LEMMA WholeIsNoRemainder ==
  ASSUME NEW n \in Nat
  PROVE  Whole(n) <=> (n % NodeSize) = 0
<1>1. NodeSize \in Nat /\ NodeSize > 0
  BY Validate
<1>2. n = (n \div NodeSize) * NodeSize + (n % NodeSize) /\ n \div NodeSize \in Nat
  BY <1>1
<1>3. ASSUME (n % NodeSize) = 0 PROVE Whole(n)
  <2> DEFINE q == n \div NodeSize
  <2>1. q \in Nat /\ n = q * NodeSize
    BY <1>1, <1>2, <1>3
  <2> QED BY <2>1 DEF Whole
<1>4. ASSUME NEW q \in Nat, n = q * NodeSize PROVE (n % NodeSize) = 0
  BY <1>1, <1>4
<1> QED BY <1>3, <1>4 DEF Whole

\* The two sizes of a valid spec.
LEMMA Sizes0 ==
  /\ initialDAGSize \in 1 .. MaxUint /\ Whole(initialDAGSize)
  /\ growthDAGSizePerEpoch \in 1 .. MaxUint /\ Whole(growthDAGSizePerEpoch)
  /\ MaxUint \in Nat /\ NodeSize \in Nat /\ NodeSize > 0
<1>1. initialDAGSize \in 1 .. MaxUint /\ growthDAGSizePerEpoch \in 1 .. MaxUint
  BY Validate DEF initialDAGSize, growthDAGSizePerEpoch
<1> QED BY <1>1, WholeIsNoRemainder, Validate

\* Steps of whole nodes lead to whole nodes.
LEMMA WholeSum ==
  ASSUME NEW a \in Nat, NEW b \in Nat, NEW k \in Nat, Whole(a), Whole(b)
  PROVE  Whole(a + k * b)
<1>1. PICK p \in Nat : a = p * NodeSize
  BY DEF Whole
<1>2. PICK q \in Nat : b = q * NodeSize
  BY DEF Whole
<1>3. NodeSize \in Nat
  BY Validate
<1>4. p + k * q \in Nat
  OBVIOUS
<1>5. k * b = (k * q) * NodeSize
  BY <1>2, <1>3
<1>6. (p + k * q) * NodeSize = p * NodeSize + (k * q) * NodeSize
  BY <1>3
<1> QED BY <1>1, <1>4, <1>5, <1>6 DEF Whole

\* The largest size is whole, and no whole size is larger.
LEMMA Largest ==
  /\ LargestSize \in 0 .. MaxUint /\ Whole(LargestSize)
  /\ \A n \in 0 .. MaxUint : Whole(n) => n <= LargestSize
<1>1. MaxUint \in Nat /\ NodeSize \in Nat /\ NodeSize > 0
  BY Sizes0
<1> DEFINE top == MaxUint \div NodeSize
<1>2. top \in Nat /\ MaxUint = top * NodeSize + (MaxUint % NodeSize)
      /\ MaxUint % NodeSize \in 0 .. NodeSize - 1
  BY <1>1
<1>3. LargestSize = top * NodeSize /\ top * NodeSize \in Nat
  BY <1>1, <1>2 DEF LargestSize
<1>4. ASSUME NEW q \in Nat, q * NodeSize <= MaxUint PROVE q <= top
  <2>1. SUFFICES ASSUME q >= top + 1 PROVE FALSE
    BY <1>2
  <2>2. (q - top - 1) * NodeSize >= 0
    BY <1>1, <1>2, <2>1
  <2>3. (q - top - 1) * NodeSize = q * NodeSize - top * NodeSize - NodeSize
    BY <1>1, <1>2
  <2> QED BY <1>1, <1>2, <1>3, <1>4, <2>2, <2>3
<1>5. ASSUME NEW q \in Nat, q <= top PROVE q * NodeSize <= top * NodeSize
  <2>1. (top - q) * NodeSize >= 0
    BY <1>1, <1>2, <1>5
  <2>2. (top - q) * NodeSize = top * NodeSize - q * NodeSize
    BY <1>1, <1>2
  <2> QED BY <1>1, <1>3, <2>1, <2>2
<1> HIDE DEF top
<1>6. \A n \in 0 .. MaxUint : Whole(n) => n <= LargestSize
  BY <1>3, <1>4, <1>5 DEF Whole
<1> QED BY <1>1, <1>2, <1>3, <1>6 DEF Whole

-----------------------------------------------------------------------------
(***************************************************************************)
(* The size of an epoch's DAG.                                             *)
(***************************************************************************)
LastGrowth == (MaxUint - initialDAGSize) \div growthDAGSizePerEpoch

\* Up to the last epoch of growth nothing wraps.
LEMMA NoOverflow ==
  ASSUME NEW e \in Nat, e <= LastGrowth
  PROVE  /\ e * growthDAGSizePerEpoch \in Nat
         /\ initialDAGSize + e * growthDAGSizePerEpoch <= MaxUint
<1> DEFINE room == MaxUint - initialDAGSize
           g == growthDAGSizePerEpoch
<1>1. room \in Nat /\ g \in Nat /\ g > 0 /\ initialDAGSize \in Nat /\ MaxUint \in Nat
  BY Sizes0
<1>2. LastGrowth \in Nat /\ LastGrowth * g <= room
  <2> HIDE DEF room, g
  <2>1. room \div g \in Nat /\ (room \div g) * g <= room
    BY <1>1
  <2> QED BY <2>1 DEF LastGrowth, room, g
<1>3. (LastGrowth - e) * g >= 0 /\ (LastGrowth - e) * g = LastGrowth * g - e * g
  BY <1>1, <1>2
<1>4. e * g \in Nat /\ LastGrowth * g \in Nat
  BY <1>1, <1>2
<1>5. e * g <= room
  BY <1>1, <1>2, <1>3, <1>4
<1> QED BY <1>1, <1>4, <1>5

\* What DAGSizeForEpoch computes: the sum, or the largest size.
LEMMA SizeIs ==
  ASSUME NEW e \in Nat
  PROVE  DAGSizeForEpoch(e) = IF e > 0 /\ e > LastGrowth THEN LargestSize
                              ELSE initialDAGSize + e * growthDAGSizePerEpoch
<1>1. MaxUint \in Nat /\ initialDAGSize \in Nat /\ growthDAGSizePerEpoch \in Nat
  BY Sizes0
<1>2. CASE e = 0
  BY <1>1, <1>2 DEF DAGSizeForEpoch
<1>3. CASE e > 0 /\ e > LastGrowth
  BY <1>3 DEF DAGSizeForEpoch, LastGrowth
<1>4. CASE e > 0 /\ ~(e > LastGrowth)
  <2>0. LastGrowth \in Int
    <3>1. MaxUint - initialDAGSize \in Nat /\ growthDAGSizePerEpoch > 0
      BY <1>1, Sizes0
    <3> QED BY <1>1, <3>1 DEF LastGrowth
  <2>1. e * growthDAGSizePerEpoch \in Nat
        /\ initialDAGSize + e * growthDAGSizePerEpoch <= MaxUint
    BY <1>4, <2>0, NoOverflow
  <2>2. \A n \in 0 .. MaxUint : Wrap(n) = n
    BY <1>1 DEF Wrap
  <2>3. DAGSizeForEpoch(e)
          = Wrap(initialDAGSize + Wrap(e * growthDAGSizePerEpoch))
    BY <1>4 DEF DAGSizeForEpoch, LastGrowth
  <2> HIDE DEF Wrap
  <2>4. Wrap(e * growthDAGSizePerEpoch) = e * growthDAGSizePerEpoch
    BY <1>1, <2>1, <2>2
  <2>5. Wrap(initialDAGSize + e * growthDAGSizePerEpoch)
          = initialDAGSize + e * growthDAGSizePerEpoch
    BY <1>1, <2>1, <2>2
  <2> QED BY <1>4, <2>3, <2>4, <2>5
<1> QED BY <1>2, <1>3, <1>4

\* The DAG of every epoch is a positive number of whole nodes and fits.
LEMMA SizeFits ==
  ASSUME NEW e \in Nat
  PROVE  DAGSizeForEpoch(e) \in 1 .. MaxUint /\ Whole(DAGSizeForEpoch(e))
<1>1. initialDAGSize \in 1 .. MaxUint /\ growthDAGSizePerEpoch \in Nat
      /\ MaxUint \in Nat /\ LastGrowth \in Int
      /\ Whole(initialDAGSize) /\ Whole(growthDAGSizePerEpoch)
  <2>1. MaxUint - initialDAGSize \in Nat /\ growthDAGSizePerEpoch \in Nat
        /\ growthDAGSizePerEpoch > 0
    BY Sizes0
  <2> QED BY <2>1, Sizes0 DEF LastGrowth
<1>2. CASE e > 0 /\ e > LastGrowth
  <2>1. initialDAGSize <= LargestSize
    BY <1>1, Largest
  <2> QED BY <1>1, <1>2, <2>1, SizeIs, Largest
<1>3. CASE e > 0 /\ e <= LastGrowth
  <2>1. /\ e * growthDAGSizePerEpoch \in Nat
        /\ initialDAGSize + e * growthDAGSizePerEpoch <= MaxUint
    BY <1>3, NoOverflow
  <2>2. Whole(initialDAGSize + e * growthDAGSizePerEpoch)
    BY <1>1, WholeSum
  <2>3. DAGSizeForEpoch(e) = initialDAGSize + e * growthDAGSizePerEpoch
    BY <1>1, <1>3, SizeIs
  <2> QED BY <1>1, <2>1, <2>2, <2>3
<1>4. CASE e = 0
  <2>1. DAGSizeForEpoch(e) = initialDAGSize
    BY <1>4 DEF DAGSizeForEpoch
  <2> QED BY <1>1, <2>1
<1> QED BY <1>1, <1>2, <1>3, <1>4

\* The DAG never shrinks from one epoch to a later one.
LEMMA SizeGrows ==
  ASSUME NEW e \in Nat, NEW f \in Nat, e <= f
  PROVE  DAGSizeForEpoch(e) <= DAGSizeForEpoch(f)
<1>1. growthDAGSizePerEpoch \in Nat /\ initialDAGSize \in Nat
  BY Sizes0
<1>2. CASE f > 0 /\ f > LastGrowth
  <2>1. DAGSizeForEpoch(e) <= LargestSize
    BY SizeFits, Largest
  <2> QED BY <1>2, <2>1, SizeIs
<1>3. CASE ~(f > 0 /\ f > LastGrowth)
  <2>1. ~(e > 0 /\ e > LastGrowth)
    <3>1. LastGrowth \in Int
      <4>1. MaxUint - initialDAGSize \in Nat /\ growthDAGSizePerEpoch > 0
        BY Sizes0
      <4> QED BY <1>1, <4>1 DEF LastGrowth
    <3> QED BY <1>3, <3>1
  <2>2. (f - e) * growthDAGSizePerEpoch >= 0
        /\ (f - e) * growthDAGSizePerEpoch
             = f * growthDAGSizePerEpoch - e * growthDAGSizePerEpoch
    BY <1>1
  <2>3. e * growthDAGSizePerEpoch \in Nat /\ f * growthDAGSizePerEpoch \in Nat
    BY <1>1
  <2>4. /\ DAGSizeForEpoch(e) = initialDAGSize + e * growthDAGSizePerEpoch
        /\ DAGSizeForEpoch(f) = initialDAGSize + f * growthDAGSizePerEpoch
    BY <1>3, <2>1, SizeIs
  <2> QED BY <1>1, <2>2, <2>3, <2>4
<1> QED BY <1>2, <1>3

-----------------------------------------------------------------------------
(***************************************************************************)
(* The chain.  All that is known of an earlier block is that it was        *)
(* accepted at its height.                                                 *)
(***************************************************************************)
Typed == chain \in Seq([size : Int, seed : [epoch : Int, genesis : {GenesisHash}]])

Accepted ==
  /\ Typed /\ chain # <<>>
  /\ \A h \in Heights : validateEpochParameters(At(h), h)

\* The epoch of an earlier height is no later one.
LEMMA EpochGrows ==
  ASSUME NEW h \in Nat, NEW k \in Nat, h <= k
  PROVE  /\ EpochOf(h) \in Nat
         /\ EpochOf(h) <= EpochOf(k)
<1>1. EpochBlocks \in Nat /\ EpochBlocks > 0
  BY Validate
<1> DEFINE e == h \div EpochBlocks
           f == k \div EpochBlocks
<1>2. /\ e \in Nat /\ f \in Nat
      /\ h >= e * EpochBlocks
      /\ k < f * EpochBlocks + EpochBlocks
  BY <1>1
<1> HIDE DEF e, f
<1>3. CASE e > f
  <2>1. (e - f - 1) * EpochBlocks >= 0
    BY <1>1, <1>2, <1>3
  <2>2. (e - f - 1) * EpochBlocks = e * EpochBlocks - f * EpochBlocks - EpochBlocks
    BY <1>1, <1>2
  <2>3. e * EpochBlocks \in Nat /\ f * EpochBlocks \in Nat
    BY <1>1, <1>2
  <2> QED BY <1>1, <1>2, <2>1, <2>2, <2>3
<1>4. CASE e <= f
  BY <1>2, <1>4 DEF EpochOf, e, f
<1> QED BY <1>2, <1>3, <1>4

\* One epoch earlier is one epoch length lower.
LEMMA EpochBefore ==
  ASSUME NEW h \in Nat, h >= EpochBlocks
  PROVE  /\ h - EpochBlocks \in Nat
         /\ EpochOf(h - EpochBlocks) = EpochOf(h) - 1
<1>1. EpochBlocks \in Nat /\ EpochBlocks > 0
  BY Validate
<1> DEFINE e == h \div EpochBlocks
           f == (h - EpochBlocks) \div EpochBlocks
<1>2. /\ e \in Nat /\ f \in Nat
      /\ e * EpochBlocks <= h /\ h < e * EpochBlocks + EpochBlocks
      /\ f * EpochBlocks + EpochBlocks <= h
      /\ h < f * EpochBlocks + EpochBlocks + EpochBlocks
  BY <1>1
<1> HIDE DEF e, f
<1>3. e * EpochBlocks \in Nat /\ f * EpochBlocks \in Nat
  BY <1>1, <1>2
<1>4. CASE e > f + 1
  <2>1. (e - f - 2) * EpochBlocks >= 0
    BY <1>1, <1>2, <1>4
  <2>2. (e - f - 2) * EpochBlocks
          = e * EpochBlocks - f * EpochBlocks - EpochBlocks - EpochBlocks
    BY <1>1, <1>2
  <2> QED BY <1>1, <1>2, <1>3, <2>1, <2>2
<1>5. CASE e < f + 1
  <2>1. (f - e) * EpochBlocks >= 0
    BY <1>1, <1>2, <1>5
  <2>2. (f - e) * EpochBlocks = f * EpochBlocks - e * EpochBlocks
    BY <1>1, <1>2
  <2> QED BY <1>1, <1>2, <1>3, <2>1, <2>2
<1>6. CASE e = f + 1
  BY <1>1, <1>2, <1>6 DEF EpochOf, e, f
<1> QED BY <1>2, <1>4, <1>5, <1>6

\* What an accepted header names: the DAG of its epoch or, in the window,
\* that of the epoch before.
LEMMA AcceptedNames ==
  ASSUME NEW h \in Nat, NEW header, validateEpochParameters(header, h)
  PROVE  \E e \in Nat :
           /\ header = Header(DAGSizeForEpoch(e), [epoch |-> e, genesis |-> GenesisHash])
           /\ \/ e = EpochOf(h)
              \/ e = EpochOf(h) - 1 /\ InGrace(h)
<1>1. CASE header = DAGOf(h)
  BY <1>1, EpochGrows DEF DAGOf, DAGSizeForHeight, EpochSeedForHeight
<1>2. CASE InGrace(h) /\ header = DAGOf(h - EpochBlocks)
  <2>1. h - EpochBlocks \in Nat /\ EpochOf(h - EpochBlocks) = EpochOf(h) - 1
    BY <1>2, EpochBefore DEF InGrace
  <2>2. EpochOf(h - EpochBlocks) \in Nat
    BY <2>1, EpochGrows
  <2> QED BY <1>2, <2>1, <2>2 DEF DAGOf, DAGSizeForHeight, EpochSeedForHeight
<1> QED BY <1>1, <1>2 DEF validateEpochParameters

\* The same of a block of the chain.
LEMMA BlockNames ==
  ASSUME Accepted, NEW h \in Heights
  PROVE  /\ h \in Nat
         /\ At(h).seed.epoch \in Nat
         /\ At(h).seed.genesis = GenesisHash
         /\ At(h).size = DAGSizeForEpoch(At(h).seed.epoch)
         /\ \/ At(h).seed.epoch = EpochOf(h)
            \/ At(h).seed.epoch = EpochOf(h) - 1 /\ InGrace(h)
<1>1. h \in Nat
  BY DEF Heights
<1>2. validateEpochParameters(At(h), h)
  BY DEF Accepted
<1> QED BY <1>1, <1>2, AcceptedNames DEF Header

LEMMA AcceptedInit == Init => Accepted
<1> SUFFICES ASSUME Init PROVE Accepted
  OBVIOUS
<1>1. EpochOf(0) \in Nat /\ DAGSizeForEpoch(EpochOf(0)) \in Int
  BY EpochGrows, SizeFits, Sizes0
<1>2. chain \in Seq([size : Int, seed : [epoch : Int, genesis : {GenesisHash}]])
  BY <1>1 DEF Init, Genesis, DAGOf, Header, DAGSizeForHeight, EpochSeedForHeight
<1>3. validateEpochParameters(At(0), 0) /\ Heights = {0} /\ chain # <<>>
  BY DEF Init, Genesis, At, Heights, validateEpochParameters
<1> QED BY <1>2, <1>3 DEF Accepted, Typed

LEMMA AcceptedNext == Accepted /\ [Next]_vars => Accepted'
<1> SUFFICES ASSUME Accepted, Next PROVE Accepted'
  BY DEF vars, Accepted, Typed, Heights, At
<1> DEFINE Field == [size : Int, seed : [epoch : Int, genesis : {GenesisHash}]]
<1>1. ASSUME NEW header, validateEpochParameters(header, NextHeight),
             chain' = Append(chain, header)
      PROVE  Accepted'
  <2>1. chain \in Seq(Field) /\ Len(chain) \in Nat
    BY DEF Accepted, Typed
  <2>2. header \in Field
    <3>1. NextHeight \in Nat
      BY <2>1 DEF NextHeight
    <3>2. PICK e \in Nat : header = Header(DAGSizeForEpoch(e), [epoch |-> e, genesis |-> GenesisHash])
      BY <1>1, <3>1, AcceptedNames
    <3>3. DAGSizeForEpoch(e) \in Int
      BY SizeFits, Sizes0
    <3> QED BY <3>2, <3>3 DEF Header
  <2>3. /\ chain' \in Seq(Field) /\ chain' # <<>>
        /\ Len(chain') = Len(chain) + 1
        /\ chain'[Len(chain) + 1] = header
        /\ \A h \in Heights : chain'[h + 1] = chain[h + 1]
    BY <1>1, <2>1, <2>2 DEF Heights
  <2>4. ASSUME NEW h \in Heights' PROVE validateEpochParameters(chain'[h + 1], h)
    <3>1. CASE h \in Heights
      BY <2>3, <3>1 DEF Accepted, At
    <3>2. CASE h = Len(chain)
      BY <1>1, <2>3, <3>2 DEF NextHeight
    <3> QED BY <2>1, <2>3, <3>1, <3>2 DEF Heights
  <2> QED BY <2>3, <2>4 DEF Accepted, Typed, At
<1>2. CASE Mine
  BY <1>1, <1>2 DEF Mine
<1>3. ASSUME NEW size, NEW seed, Receive(size, seed) PROVE Accepted'
  BY <1>1, <1>3 DEF Receive
<1>4. CASE AtBound
  BY <1>4 DEF AtBound, vars, Accepted, Typed, Heights, At
<1> QED BY <1>2, <1>3, <1>4 DEF Next

LEMMA AlwaysAccepted == Spec => []Accepted
BY AcceptedInit, AcceptedNext, PTL DEF Spec

\* Every size in the chain fits a uint64 and is a number of whole nodes
\* (spec.go, DAGSizeForEpoch and its saturation).
THEOREM Typing == Spec => []TypeOK
<1>1. Accepted => TypeOK
  <2> SUFFICES ASSUME Accepted PROVE TypeOK
    OBVIOUS
  <2>1. ASSUME NEW h \in Heights
        PROVE  /\ At(h).size \in 1 .. MaxUint /\ (At(h).size % NodeSize) = 0
               /\ At(h).seed.epoch \in Nat /\ At(h).seed.genesis = GenesisHash
    <3>1. At(h).size \in 1 .. MaxUint /\ Whole(At(h).size)
      BY BlockNames, SizeFits
    <3> QED BY <3>1, BlockNames, WholeIsNoRemainder
  <2> DEFINE Wide == [size : Int, seed : [epoch : Int, genesis : {GenesisHash}]]
             Narrow == [size : 1 .. MaxUint,
                        seed : [epoch : Nat, genesis : {GenesisHash}]]
  <2>2. chain \in Seq(Wide)
    BY DEF Accepted, Typed
  <2>3. ASSUME NEW i \in 1 .. Len(chain) PROVE chain[i] \in Narrow
    <3>1. i - 1 \in Heights /\ At(i - 1) = chain[i]
      <4>1. Len(chain) \in Nat
        BY <2>2, LenProperties
      <4> QED BY <4>1 DEF Heights, At
    <3>2. chain[i] \in Wide
      <4> HIDE DEF Wide
      <4> QED BY <2>2, ElementOfSeq
    <3> QED BY <2>1, <3>1, <3>2
  <2> HIDE DEF Wide, Narrow
  <2>4. Len(chain) \in Nat /\ chain \in [1 .. Len(chain) -> Narrow]
    BY <2>2, <2>3, LenProperties
  <2>5. chain \in Seq(Narrow)
    BY <2>4, SeqDef
  <2> QED BY <2>1, <2>5 DEF TypeOK, Narrow
<1> QED BY <1>1, AlwaysAccepted, PTL

\* "After 64 blocks, only the new epoch's DAG is valid", and no window of a
\* later epoch reaches back past it (validator.go, validateEpochParameters).
THEOREM Final == Spec => []SwitchoverIsFinal
<1>1. Accepted => SwitchoverIsFinal
  <2> SUFFICES ASSUME Accepted, NEW h \in Heights, NEW k \in Heights,
                      h <= k, (h % EpochBlocks) >= Grace
               PROVE  At(k).seed.epoch >= EpochOf(h)
    BY DEF SwitchoverIsFinal
  <2>1. /\ h \in Nat /\ k \in Nat
        /\ EpochOf(h) \in Nat /\ EpochOf(k) \in Nat /\ EpochOf(h) <= EpochOf(k)
    BY BlockNames, EpochGrows
  <2>2. CASE At(k).seed.epoch = EpochOf(k)
    BY <2>1, <2>2
  <2>3. CASE At(k).seed.epoch = EpochOf(k) - 1 /\ InGrace(k)
    <3>1. EpochOf(h) # EpochOf(k)
      <4>1. EpochBlocks \in Nat /\ EpochBlocks > 0 /\ Grace \in Nat
        BY Validate, EpochAssumption
      <4>2. h = (h \div EpochBlocks) * EpochBlocks + (h % EpochBlocks)
        BY <2>1, <4>1
      <4>3. k = (k \div EpochBlocks) * EpochBlocks + (k % EpochBlocks)
        BY <2>1, <4>1
      <4>4. (k % EpochBlocks) < Grace
        BY <2>3 DEF InGrace
      <4>5. (h % EpochBlocks) \in Nat /\ (k % EpochBlocks) \in Nat
        BY <2>1, <4>1
      <4>6. CASE EpochOf(h) = EpochOf(k)
        <5> DEFINE base == (k \div EpochBlocks) * EpochBlocks
        <5>1. h = base + (h % EpochBlocks) /\ k = base + (k % EpochBlocks)
          BY <4>2, <4>3, <4>6 DEF EpochOf
        <5>2. base \in Nat
          BY <2>1, <4>1
        <5> HIDE DEF base
        <5> QED BY <2>1, <4>1, <4>4, <4>5, <5>1, <5>2
      <4> QED BY <4>6
    <3> QED BY <2>1, <2>3, <3>1
  <2> QED BY <2>2, <2>3, BlockNames
<1> QED BY <1>1, AlwaysAccepted, PTL

\* A block of a later epoch never has a smaller DAG than one of an earlier
\* epoch (spec.go, DAGSizeForEpoch; validator.go, validateEpochParameters).
THEOREM Growing == Spec => []NeverShrinks
<1>1. Accepted => NeverShrinks
  <2> SUFFICES ASSUME Accepted, NEW h \in Heights, NEW k \in Heights,
                      EpochOf(h) < EpochOf(k)
               PROVE  At(h).size <= At(k).size
    BY DEF NeverShrinks
  <2>1. EpochOf(h) \in Nat /\ EpochOf(k) \in Nat
    BY BlockNames, EpochGrows
  <2>2. At(h).seed.epoch <= At(k).seed.epoch
    BY <2>1, BlockNames
  <2> QED BY <2>2, BlockNames, SizeGrows
<1> QED BY <1>1, AlwaysAccepted, PTL

\* The size and the seed of a block name one DAG (validateEpochParameters).
THEOREM Single == Spec => []OneDAG
<1>1. Accepted => OneDAG
  BY BlockNames DEF OneDAG
<1> QED BY <1>1, AlwaysAccepted, PTL
=============================================================================
