------------------------- MODULE HeaviestChain_proofs -------------------------
(***************************************************************************)
(* What HeaviestChain promises, for every set of blocks: chain work is     *)
(* well defined, and the best block is the accepted block of the most of   *)
(* it.                                                                     *)
(***************************************************************************)
EXTENDS HeaviestChain, WellFoundedInduction, TLAPS

(***************************************************************************)
(* Who follows parents comes to an end: the hash of a block is taken over  *)
(* the hash of its parent (types.go, HeaderHash), so a cycle of parents    *)
(* would be a cycle of hashes.                                             *)
(***************************************************************************)
Ages(age) ==
  /\ age \in [Block -> Nat]
  /\ \A b \in Block : Parent[b] # NoBlock => age[Parent[b]] < age[b]

Acyclic == \E age \in [Block -> Nat] : Ages(age)

\* f is chain work on S, a set that has the parents of its members.
WorkOver(f, b) ==
  CalcBlockWork(Target[b]) + (IF Parent[b] = NoBlock THEN 0 ELSE f[Parent[b]])

IsChainWork(f, S) == \A b \in S : f[b] = WorkOver(f, b)

Ancestral(S) == S \subseteq Block /\ \A b \in S : Parent[b] # NoBlock => Parent[b] \in S

-----------------------------------------------------------------------------
\* The least number principle.
LEMMA Least ==
  ASSUME NEW S \in SUBSET Nat, S # {}
  PROVE  \E m \in S : \A k \in S : m <= k
<1> DEFINE R == OpToRel(<, Nat)
<1>1. IsWellFoundedOn(R, Nat)
  BY NatLessThanWellFounded
<1>2. \A x, y \in Nat : x < y => <<x, y>> \in R
  BY DEF OpToRel
<1> HIDE DEF R
<1>3. PICK m \in S : \A y \in S : <<y, m>> \notin R
  BY <1>1, WFMin
<1>4. ASSUME NEW k \in S
      PROVE  m <= k
  <2>1. m \in Nat /\ k \in Nat
    OBVIOUS
  <2>2. ~(k < m)
    BY <1>2, <1>3, <2>1
  <2> QED
    BY <2>1, <2>2
<1> QED
  BY <1>4

\* The work of one block is a natural number.
LEMMA BlockWorkIsNat ==
  ASSUME NEW b \in Block
  PROVE  CalcBlockWork(Target[b]) \in Nat
BY BlockAssumption DEF CalcBlockWork

\* Two functions that are chain work agree where both are.
LEMMA WorkUnique ==
  ASSUME Acyclic, NEW S, NEW T, Ancestral(S), Ancestral(T),
         NEW f, NEW g, IsChainWork(f, S), IsChainWork(g, T),
         NEW b \in S, b \in T
  PROVE  f[b] = g[b]
<1>1. PICK age \in [Block -> Nat] : Ages(age)
  BY DEF Acyclic
<1> DEFINE Differ == {c \in S \cap T : f[c] # g[c]}
           D == {age[c] : c \in Differ}
<1> SUFFICES ASSUME f[b] # g[b] PROVE FALSE
  OBVIOUS
<1>2. D \in SUBSET Nat /\ D # {}
  BY <1>1 DEF Ancestral
<1>3. PICK m \in D : \A k \in D : m <= k
  BY <1>2, Least
<1>4. PICK c \in Differ : age[c] = m
  BY <1>3
<1>5. c \in Block /\ c \in S /\ c \in T /\ f[c] # g[c]
  BY <1>4 DEF Ancestral
<1>6. CASE Parent[c] = NoBlock
  BY <1>5, <1>6 DEF IsChainWork, WorkOver
<1>7. CASE Parent[c] # NoBlock
  <2>1. Parent[c] \in S /\ Parent[c] \in T /\ Parent[c] \in Block
    BY <1>5, <1>7 DEF Ancestral
  <2>2. age[Parent[c]] < age[c] /\ age[Parent[c]] \in Nat /\ age[c] \in Nat
    BY <1>1, <1>5, <1>7, <2>1 DEF Ages
  <2>3. Parent[c] \notin Differ
    BY <1>3, <1>4, <2>2
  <2>4. f[Parent[c]] = g[Parent[c]]
    BY <2>1, <2>3
  <2> QED
    BY <1>5, <1>7, <2>4 DEF IsChainWork, WorkOver
<1> QED
  BY <1>6, <1>7

\* Chain work of the blocks of a bounded age.
Under(age, n) == {b \in Block : age[b] < n}

LEMMA WorkUnder ==
  ASSUME NEW age \in [Block -> Nat], Ages(age), NEW n \in Nat
  PROVE  \E f \in [Under(age, n) -> Nat] : IsChainWork(f, Under(age, n))
<1> DEFINE Has(k) == \E f \in [Under(age, k) -> Nat] : IsChainWork(f, Under(age, k))
           Lack == {k \in Nat : ~Has(k)}
<1> SUFFICES ASSUME ~Has(n) PROVE FALSE
  OBVIOUS
<1>1. PICK m \in Lack : \A k \in Lack : m <= k
  <2>1. Lack \in SUBSET Nat /\ Lack # {}
    OBVIOUS
  <2> HIDE DEF Lack
  <2> QED
    BY <2>1, Least
<1>2. CASE m = 0
  <2>1. Under(age, 0) = {}
    <3>1. \A b \in Block : ~(age[b] < 0)
      OBVIOUS
    <3> QED
      BY <3>1 DEF Under
  <2>2. [b \in {} |-> 0] \in [{} -> Nat] /\ IsChainWork([b \in {} |-> 0], {})
    BY DEF IsChainWork
  <2>3. Has(0)
    BY <2>1, <2>2
  <2> QED
    BY <1>1, <1>2, <2>3
<1>3. CASE m # 0
  <2>1. m \in Nat /\ m - 1 \in Nat /\ ~(m <= m - 1)
    BY <1>3
  <2>2. Has(m - 1)
    BY <1>1, <2>1
  <2>3. PICK g \in [Under(age, m - 1) -> Nat] : IsChainWork(g, Under(age, m - 1))
    BY <2>2
  <2> DEFINE h == [b \in Under(age, m) |-> WorkOver(g, b)]
  <2>4. ASSUME NEW b \in Under(age, m), Parent[b] # NoBlock
        PROVE  Parent[b] \in Under(age, m - 1) /\ Parent[b] \in Under(age, m)
    <3>1. b \in Block /\ Parent[b] \in Block
      BY <2>4, BlockAssumption DEF Under, BlockOrNone
    <3>2. age[Parent[b]] < age[b] /\ age[b] < m /\ age[b] \in Nat /\ age[Parent[b]] \in Nat
      BY <2>4, <3>1 DEF Ages, Under
    <3>3. age[Parent[b]] < m - 1 /\ age[Parent[b]] < m
      BY <2>1, <3>2
    <3> QED
      BY <3>1, <3>3 DEF Under
  <2>5. h \in [Under(age, m) -> Nat]
    <3>1. ASSUME NEW b \in Under(age, m)
          PROVE  WorkOver(g, b) \in Nat
      <4>1. CalcBlockWork(Target[b]) \in Nat
        BY BlockWorkIsNat DEF Under
      <4>2. Parent[b] # NoBlock => g[Parent[b]] \in Nat
        BY <2>3, <2>4
      <4> QED
        BY <4>1, <4>2 DEF WorkOver
    <3> QED
      BY <3>1
  <2>6. ASSUME NEW b \in Under(age, m)
        PROVE  h[b] = WorkOver(h, b)
    <3>1. CASE Parent[b] = NoBlock
      BY <3>1 DEF WorkOver
    <3>2. CASE Parent[b] # NoBlock
      <4>1. h[Parent[b]] = g[Parent[b]]
        BY <2>3, <2>4, <3>2 DEF IsChainWork
      <4> QED
        BY <3>2, <4>1 DEF WorkOver
    <3> QED
      BY <3>1, <3>2
  <2>7. Has(m)
    <3>1. IsChainWork(h, Under(age, m))
      BY <2>6 DEF IsChainWork
    <3> QED
      BY <2>5, <3>1
  <2> QED
    BY <1>1, <2>7
<1> QED
  BY <1>2, <1>3

\* The recursive definition defines.
LEMMA ChainWorkDefined ==
  ASSUME Acyclic
  PROVE  ChainWork \in [Block -> Nat] /\ IsChainWork(ChainWork, Block)
<1>1. PICK age \in [Block -> Nat] : Ages(age)
  BY DEF Acyclic
<1> DEFINE U(n) == Under(age, n)
           G(n) == CHOOSE f : f \in [U(n) -> Nat] /\ IsChainWork(f, U(n))
           w == [b \in Block |-> G(age[b] + 1)[b]]
<1>2. ASSUME NEW n \in Nat
      PROVE  G(n) \in [U(n) -> Nat] /\ IsChainWork(G(n), U(n)) /\ Ancestral(U(n))
  <2>1. \E f : f \in [U(n) -> Nat] /\ IsChainWork(f, U(n))
    BY <1>1, WorkUnder
  <2>2. Ancestral(U(n))
    BY <1>1, BlockAssumption DEF Ancestral, Under, Ages, BlockOrNone
  <2> QED
    BY <2>1, <2>2
<1>3. ASSUME NEW b \in Block
      PROVE  age[b] + 1 \in Nat /\ b \in U(age[b] + 1)
  BY DEF Under
<1> HIDE DEF U, G
<1>4. w \in [Block -> Nat]
  BY <1>2, <1>3
<1>5. ASSUME NEW b \in Block
      PROVE  w[b] = WorkOver(w, b)
  <2>1. w[b] = G(age[b] + 1)[b] /\ G(age[b] + 1)[b] = WorkOver(G(age[b] + 1), b)
    BY <1>2, <1>3 DEF IsChainWork
  <2>2. CASE Parent[b] = NoBlock
    BY <2>1, <2>2 DEF WorkOver
  <2>3. CASE Parent[b] # NoBlock
    <3>1. Parent[b] \in Block /\ Parent[b] \in U(age[b] + 1)
      BY <1>2, <1>3, <2>3, BlockAssumption DEF Ancestral, BlockOrNone
    <3>2. G(age[b] + 1)[Parent[b]] = G(age[Parent[b]] + 1)[Parent[b]]
      BY <1>2, <1>3, <3>1, WorkUnique
    <3> QED
      BY <2>1, <2>3, <3>1, <3>2 DEF WorkOver
  <2> QED
    BY <2>2, <2>3
<1>6. w = [b \in Block |->
             CalcBlockWork(Target[b]) + (IF Parent[b] = NoBlock THEN 0 ELSE w[Parent[b]])]
  BY <1>5 DEF WorkOver
<1> HIDE DEF w
<1>7. ChainWork = [b \in Block |->
         CalcBlockWork(Target[b])
         + (IF Parent[b] = NoBlock THEN 0 ELSE ChainWork[Parent[b]])]
  BY <1>6 DEF ChainWork
<1>8. IsChainWork(ChainWork, Block)
  BY <1>7 DEF IsChainWork, WorkOver
<1>9. \A b \in Block : ChainWork[b] = w[b]
  <2>1. Ancestral(Block) /\ IsChainWork(w, Block)
    BY <1>5, BlockAssumption DEF Ancestral, IsChainWork, BlockOrNone
  <2> QED
    BY <1>8, <2>1, WorkUnique
<1> QED
  BY <1>4, <1>7, <1>8, <1>9

-----------------------------------------------------------------------------
\* Better is a strict order of the blocks.
LEMMA BetterOrder ==
  ASSUME Acyclic, NEW a \in Block, NEW b \in Block, NEW c \in Block
  PROVE  /\ ~Better(a, a)
         /\ Better(a, b) => ~Better(b, a)
         /\ ~Better(a, b) /\ ~Better(b, c) => ~Better(a, c)
         /\ ~Better(a, b) /\ a # b => Better(b, a)
<1>1. /\ ChainWork[a] \in Nat /\ ChainWork[b] \in Nat /\ ChainWork[c] \in Nat
      /\ Rank[a] \in Nat /\ Rank[b] \in Nat /\ Rank[c] \in Nat
      /\ a # b => Rank[a] # Rank[b]
  BY ChainWorkDefined, BlockAssumption
<1> QED
  BY <1>1 DEF Better

(***************************************************************************)
(* The best block is the accepted block of the most work, and its chain    *)
(* is accepted with it.                                                    *)
(***************************************************************************)
BestOfAccepted ==
  /\ accepted \subseteq Block
  /\ IF accepted = {} THEN best = NoBlock
     ELSE best \in accepted /\ \A a \in accepted : ~Better(a, best)
  /\ \A a \in accepted : Parent[a] # NoBlock => Parent[a] \in accepted

(***************************************************************************)
(* Comparing each block with the tip alone, when it is accepted, finds the *)
(* heaviest of all accepted blocks, in whatever order they come            *)
(* (validator.go, SelectBestChainByTotalWork).                             *)
(***************************************************************************)
THEOREM FindsTheBest ==
  ASSUME Acyclic
  PROVE  Spec => []BestOfAccepted
<1>1. Init => BestOfAccepted
  BY DEF Init, BestOfAccepted
<1>2. ASSUME BestOfAccepted, NEW b \in Block, Insert(b)
      PROVE  BestOfAccepted'
  <2>1. accepted' = accepted \cup {b} /\ accepted' \subseteq Block /\ accepted' # {}
    BY <1>2 DEF Insert, BestOfAccepted
  <2>2. \A a \in accepted' : Parent[a] # NoBlock => Parent[a] \in accepted'
    BY <1>2, <2>1 DEF Insert, BestOfAccepted
  <2>3. CASE best = NoBlock
    <3>1. accepted' = {b} /\ best' = b
      BY <1>2, <2>1, <2>3, BlockAssumption DEF Insert, BestOfAccepted
    <3> QED
      BY <2>1, <2>2, <3>1, BetterOrder DEF BestOfAccepted
  <2>4. CASE best # NoBlock
    <3>1. best \in accepted /\ best \in Block /\ \A a \in accepted : ~Better(a, best)
      BY <1>2, <2>4 DEF BestOfAccepted
    <3>2. CASE Better(b, best)
      <4>1. best' = b /\ ~Better(best, b)
        BY <1>2, <3>1, <3>2, BetterOrder DEF Insert
      <4>2. \A a \in accepted' : ~Better(a, b)
        BY <2>1, <3>1, <4>1, BetterOrder
      <4> QED
        BY <2>1, <2>2, <4>1, <4>2 DEF BestOfAccepted, Better
    <3>3. CASE ~Better(b, best)
      <4>1. best' = best
        BY <1>2, <2>4, <3>3 DEF Insert
      <4> QED
        BY <2>1, <2>2, <3>1, <3>3, <4>1 DEF BestOfAccepted, Better
    <3> QED
      BY <3>2, <3>3
  <2> QED
    BY <2>3, <2>4
<1>3. BestOfAccepted /\ [Next]_<<accepted, best>> => BestOfAccepted'
  BY <1>2 DEF Next, BestOfAccepted, Better
<1> QED
  BY <1>1, <1>3, PTL DEF Spec
=============================================================================
