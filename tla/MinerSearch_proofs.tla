------------------------- MODULE MinerSearch_proofs -------------------------
(***************************************************************************)
(* Proofs about Miner.Mine for any number of workers and any size of the   *)
(* nonce space: its types; that the workers' shares of the nonces cover    *)
(* the range and do not overlap, so that no nonce is hashed twice; that    *)
(* the reported count of hashes is nearly exact; and that Mine implements  *)
(* the contract Search when its backend does not fail.                     *)
(***************************************************************************)
EXTENDS MinerSearchRefinement, FiniteSetTheorems, TLAPS

-----------------------------------------------------------------------------
(***************************************************************************)
(* The shares of the workers.                                              *)
(***************************************************************************)
Share(w) == {start + w + k * Workers : k \in Nat}

\* Every distance from the first nonce belongs to some worker.
LEMMA Residue ==
  ASSUME NEW n \in Nat
  PROVE  \E w \in Worker : \E k \in Nat : n = w + k * Workers
<1> DEFINE w == n % Workers
           k == n \div Workers
<1>1. Workers \in Nat /\ Workers > 0
  BY MinerAssumption
<1>2. w \in Worker /\ k \in Nat
  BY <1>1 DEF Worker
<1>3. n = w + k * Workers
  BY <1>1
<1> QED BY <1>2, <1>3

\* A product of naturals with a larger factor is larger by the other one.
LEMMA Multiples ==
  ASSUME NEW j \in Nat, NEW k \in Nat, j < k
  PROVE  j * Workers + Workers <= k * Workers
<1>1. k - j - 1 \in Nat /\ Workers \in Nat
  BY MinerAssumption
<1>2. (k - j - 1) * Workers >= 0
  BY <1>1
<1>3. (k - j - 1) * Workers = k * Workers - j * Workers - Workers
  BY <1>1
<1>4. j * Workers \in Int /\ k * Workers \in Int
  BY <1>1
<1> QED BY <1>1, <1>2, <1>3, <1>4

\* Two workers have no nonce in common.
LEMMA SharesDisjoint ==
  ASSUME NEW v \in Worker, NEW w \in Worker, v # w, start \in Nat
  PROVE  Share(v) \cap Share(w) = {}
<1> SUFFICES ASSUME NEW j \in Nat, NEW k \in Nat,
                    start + v + j * Workers = start + w + k * Workers
             PROVE  FALSE
  BY DEF Share
<1>1. Workers \in Nat /\ v \in 0 .. Workers - 1 /\ w \in 0 .. Workers - 1
  BY MinerAssumption DEF Worker
<1>2. j * Workers \in Nat /\ k * Workers \in Nat
  BY <1>1
<1>3. CASE j < k
  BY <1>1, <1>2, <1>3, Multiples
<1>4. CASE k < j
  BY <1>1, <1>2, <1>4, Multiples
<1>5. CASE j = k
  BY <1>1, <1>2, <1>5
<1> QED BY <1>3, <1>4, <1>5

\* Between a nonce of a worker and its next one there is none of its own.
LEMMA ShareStep ==
  ASSUME NEW w \in Worker, NEW m \in Share(w), start \in Nat
  PROVE  /\ m + Workers \in Share(w)
         /\ \A n \in Share(w) : n < m + Workers => n <= m
<1>1. Workers \in Nat /\ w \in Nat
  BY MinerAssumption DEF Worker
<1>2. PICK k \in Nat : m = start + w + k * Workers
  BY DEF Share
<1>3. (k + 1) * Workers = k * Workers + Workers /\ k * Workers \in Nat
  BY <1>1
<1>4. m + Workers = start + w + (k + 1) * Workers
  BY <1>1, <1>2, <1>3
<1>5. m + Workers \in Share(w)
  BY <1>4 DEF Share
<1>6. ASSUME NEW n \in Share(w), n < m + Workers
      PROVE  n <= m
  <2>1. PICK j \in Nat : n = start + w + j * Workers
    BY DEF Share
  <2>2. j * Workers \in Nat
    BY <1>1
  <2>3. CASE j <= k
    <3>1. CASE j < k
      BY <3>1, <1>1, <1>2, <1>3, <2>1, <2>2, Multiples
    <3>2. CASE j = k
      BY <3>2, <1>2, <1>3, <2>1, <1>1
    <3> QED BY <2>3, <3>1, <3>2
  <2>4. CASE k < j
    BY <2>4, <1>1, <1>2, <1>3, <1>6, <2>1, <2>2, Multiples
  <2> QED BY <2>3, <2>4
<1> QED BY <1>5, <1>6

-----------------------------------------------------------------------------
(***************************************************************************)
(* Types.                                                                  *)
(***************************************************************************)
\* A next nonce that exists is a nonce.
LEMMA FitsNonce ==
  ASSUME NEW n \in Nonce, NEW delta \in Nat, Fits(n, delta)
  PROVE  n + delta \in Nonce
BY MinerAssumption DEF Fits, Nonce

\* Advancing a worker keeps the types of its variables.
LEMMA AdvanceTypes ==
  ASSUME TypeOK, NEW w \in Worker, NEW delta \in Nat, Advance(w, delta)
  PROVE  /\ pc' \in [Worker -> Statement]
         /\ nonce' \in [Worker -> Nonce]
<1>1. nonce[w] \in Nonce
  BY DEF TypeOK
<1>2. (IF Fits(nonce[w], delta) THEN nonce[w] + delta ELSE nonce[w]) \in Nonce
  BY <1>1, FitsNonce
<1>3. nonce' \in [Worker -> Nonce]
  BY <1>2 DEF TypeOK, Advance
<1>4. pc' \in [Worker -> Statement]
  BY DEF TypeOK, Advance, GoTo, Statement
<1> QED BY <1>3, <1>4

LEMMA TypeInit == Init => TypeOK
<1> SUFFICES ASSUME Init PROVE TypeOK
  OBVIOUS
<1>1. channel \in Seq(Nonce)
  BY DEF Init
<1>2. 0 \in Nonce /\ 0 \in Nat
  BY MinerAssumption DEF Nonce
<1> QED BY <1>1, <1>2 DEF Init, TypeOK, Statement, NoAnswer

LEMMA TypeNext == TypeOK /\ [Next]_vars => TypeOK'
<1> SUFFICES ASSUME TypeOK, [Next]_vars PROVE TypeOK'
  OBVIOUS
<1> USE DEF TypeOK
<1>1. ASSUME NEW w \in Worker, WorkerStep(w) PROVE TypeOK'
  <2> Worker \subseteq Nat
    BY MinerAssumption DEF Worker
  <2>1. CASE Begin(w)
    <3>1. w \in Nat
      OBVIOUS
    <3>2. pc' \in [Worker -> Statement] /\ nonce' \in [Worker -> Nonce]
      BY <2>1, <3>1, AdvanceTypes DEF Begin
    <3> QED BY <2>1, <3>2 DEF Begin, callVars, mainVars
  <2>2. CASE Check(w)
    BY <2>2 DEF Check, GoTo, Statement, callVars, workVars, mainVars
  <2>3. CASE Hash(w)
    <3>1. Digest(nonce[w]) \subseteq BOOLEAN
      BY DEF Digest
    <3>2. PICK m \in Digest(nonce[w]) : meets' = [meets EXCEPT ![w] = m]
      BY <2>3 DEF Hash
    <3>3. meets' \in [Worker -> BOOLEAN]
      BY <3>1, <3>2
    <3>4. tried' \in [Worker -> SUBSET Nonce]
      BY <2>3 DEF Hash
    <3>5. pc' \in [Worker -> Statement]
      BY <2>3 DEF Hash, GoTo, Statement
    <3> QED BY <2>3, <3>3, <3>4, <3>5 DEF Hash, callVars, mainVars
  <2>4. CASE Count(w)
    <3>1. CASE meets[w]
      BY <2>4, <3>1 DEF Count, GoTo, Statement, callVars, mainVars
    <3>2. CASE ~meets[w]
      <4>1. Stride \in Nat
        BY MinerAssumption DEF Stride
      <4>2. pc' \in [Worker -> Statement] /\ nonce' \in [Worker -> Nonce]
        BY <2>4, <3>2, <4>1, AdvanceTypes DEF Count
      <4> QED BY <2>4, <4>2 DEF Count, callVars, mainVars
    <3> QED BY <3>1, <3>2
  <2>5. CASE Claim(w)
    BY <2>5 DEF Claim, GoTo, Statement, callVars, workVars, mainVars
  <2>6. CASE Send(w)
    <3>1. channel' \in Seq(Nonce)
      BY <2>6 DEF Send
    <3> QED BY <2>6, <3>1 DEF Send, GoTo, Statement, callVars, workVars, mainVars
  <2>7. CASE Cancel(w)
    BY <2>7 DEF Cancel, GoTo, Statement, callVars, workVars, mainVars
  <2> QED BY <1>1, <2>1, <2>2, <2>3, <2>4, <2>5, <2>6, <2>7 DEF WorkerStep
<1>2. CASE Close
  BY <1>2 DEF Close, callVars, workVars, mainVars
<1>3. CASE Receive
  <2>1. Head(channel) \in Nonce /\ Tail(channel) \in Seq(Nonce)
    BY <1>3 DEF Receive
  <2> QED BY <1>3, <2>1 DEF Receive, callVars, workVars
<1>4. CASE ReturnFound
  BY <1>4 DEF ReturnFound, FoundAt, callVars, workVars
<1>5. CASE ReturnNotFound
  <2>1. 0 \in Nonce
    BY MinerAssumption DEF Nonce
  <2> QED BY <1>5, <2>1 DEF ReturnNotFound, NoneFound, callVars, workVars
<1>6. CASE UNCHANGED vars
  BY <1>6 DEF vars, callVars, workVars, mainVars
<1> QED
  BY <1>1, <1>2, <1>3, <1>4, <1>5, <1>6 DEF Next, MainStep, Terminated

\* Mine's variables keep their types (colossusx/miner.go, nonce.go): in
\* particular no nonce passes the largest one.
THEOREM Typing == Spec => []TypeOK
BY TypeInit, TypeNext, PTL DEF Spec

-----------------------------------------------------------------------------
(***************************************************************************)
(* No nonce is hashed twice.  The hashed nonces of a worker lie in its     *)
(* share and before the nonce that it tries next.                          *)
(***************************************************************************)
Counting == {w \in Worker : At(w, "count")}
Tried == UNION {tried[w] : w \in Worker}

Progress ==
  \A w \in Worker :
    /\ pc[w] = "start" => nonce[w] = start /\ tried[w] = {}
    /\ tried[w] \subseteq Share(w)
    /\ pc[w] \in {"check", "hash", "count"} => nonce[w] \in Share(w)
    /\ pc[w] \in {"check", "hash"} => \A n \in tried[w] : n < nonce[w]
    /\ pc[w] = "count" => \A n \in tried[w] : n <= nonce[w]

Ledger == totalHashes + Cardinality(Counting) = Cardinality(Tried)

\* Workers and nonces are finitely many.
LEMMA Finite == TypeOK => IsFiniteSet(Counting) /\ IsFiniteSet(Tried)
<1> SUFFICES ASSUME TypeOK PROVE IsFiniteSet(Counting) /\ IsFiniteSet(Tried)
  OBVIOUS
<1>1. IsFiniteSet(Worker) /\ IsFiniteSet(Nonce)
  BY MinerAssumption, FS_Interval DEF Worker, Nonce
<1>2. Counting \subseteq Worker /\ Tried \subseteq Nonce
  BY DEF Counting, Tried, TypeOK
<1> QED BY <1>1, <1>2, FS_Subset

\* The shares are fixed by the arguments of the call.
LEMMA ShareUnchanged ==
  ASSUME UNCHANGED callVars, NEW w \in Worker
  PROVE  Share(w)' = Share(w)
BY DEF Share, callVars

LEMMA ProgressInit == Init => Progress
<1> SUFFICES ASSUME Init PROVE Progress
  OBVIOUS
<1> QED BY DEF Init, Progress

LEMMA ProgressNext == TypeOK /\ Progress /\ [Next]_vars => Progress'
<1> SUFFICES ASSUME TypeOK, Progress, [Next]_vars PROVE Progress'
  OBVIOUS
<1>1. start \in Nat /\ Worker \subseteq Nat /\ Nonce \subseteq Nat
  BY MinerAssumption DEF TypeOK, Nonce, Worker
<1>2. UNCHANGED callVars
  BY DEF Next, WorkerStep, Begin, Check, Hash, Count, Claim, Send, Cancel,
         Close, MainStep, Receive, ReturnFound, ReturnNotFound, Terminated, vars
<1>3. \A v \in Worker : Share(v)' = Share(v)
  BY <1>2, ShareUnchanged
<1>4. CASE UNCHANGED <<pc, workVars>>
  BY <1>2, <1>3, <1>4 DEF Progress, workVars, callVars
<1>5. ASSUME NEW w \in Worker, WorkerStep(w) PROVE Progress'
  <2>1. CASE Begin(w)
    <3>1. w \in Nat /\ nonce[w] = start /\ tried[w] = {}
      BY <1>1, <2>1 DEF Begin, At, Progress
    <3>2. start + w \in Share(w)
      <4>1. start + w = start + w + 0 * Workers
        BY <1>1, <3>1, MinerAssumption
      <4> QED BY <4>1 DEF Share
    <3>3. /\ UNCHANGED tried
          /\ pc' = [pc EXCEPT ![w] = pc'[w]]
          /\ nonce' = [nonce EXCEPT ![w] = nonce'[w]]
          /\ \/ pc'[w] = "check" /\ nonce'[w] = start + w
             \/ pc'[w] = "done"
      BY <2>1, <3>1 DEF Begin, Advance, GoTo, TypeOK
    <3> QED BY <1>2, <1>3, <3>1, <3>2, <3>3 DEF Progress, TypeOK, callVars
  <2>2. CASE Check(w)
    BY <1>2, <1>3, <2>2 DEF Check, At, GoTo, Progress, TypeOK, callVars, workVars
  <2>3. CASE Hash(w)
    <3>1. /\ pc[w] = "hash" /\ UNCHANGED nonce
          /\ pc' = [pc EXCEPT ![w] = "count"]
          /\ tried' = [tried EXCEPT ![w] = @ \cup {nonce[w]}]
      BY <2>3 DEF Hash, At, GoTo
    <3>2. nonce[w] \in Share(w) /\ \A n \in tried[w] : n < nonce[w]
      BY <3>1 DEF Progress
    <3>3. nonce[w] \in Nat /\ \A n \in tried[w] : n \in Nat
      BY <1>1 DEF TypeOK
    <3>4. ASSUME NEW v \in Worker, v # w
          PROVE  pc'[v] = pc[v] /\ tried'[v] = tried[v] /\ nonce'[v] = nonce[v]
      BY <3>1, <3>4 DEF TypeOK
    <3>5. /\ pc'[w] = "count" /\ nonce'[w] = nonce[w]
          /\ tried'[w] = tried[w] \cup {nonce[w]}
      BY <3>1 DEF TypeOK
    <3>6. /\ tried'[w] \subseteq Share(w)
          /\ \A n \in tried'[w] : n <= nonce'[w]
      BY <3>2, <3>3, <3>5 DEF Progress
    <3> QED BY <1>2, <1>3, <3>2, <3>4, <3>5, <3>6 DEF Progress, callVars
  <2>4. CASE Count(w)
    <3>1. /\ pc[w] = "count" /\ UNCHANGED tried
          /\ pc' = [pc EXCEPT ![w] = pc'[w]]
          /\ nonce' = [nonce EXCEPT ![w] = nonce'[w]]
          /\ \/ pc'[w] = "check" /\ nonce'[w] = nonce[w] + Workers
             \/ pc'[w] \in {"claim", "done"}
      BY <2>4 DEF Count, Advance, Stride, At, GoTo, TypeOK
    <3>2. nonce[w] \in Share(w) /\ \A n \in tried[w] : n <= nonce[w]
      BY <3>1 DEF Progress
    <3>3. nonce[w] + Workers \in Share(w)
      BY <1>1, <3>2, ShareStep
    <3>4. \A n \in tried[w] : n < nonce[w] + Workers
      <4>1. nonce[w] \in Nat /\ \A n \in tried[w] : n \in Nat
        BY <1>1 DEF TypeOK
      <4> QED BY <3>2, <4>1, MinerAssumption
    <3>5. ASSUME NEW v \in Worker, v # w
          PROVE  pc'[v] = pc[v] /\ tried'[v] = tried[v] /\ nonce'[v] = nonce[v]
      BY <3>1, <3>5 DEF TypeOK
    <3> QED BY <1>2, <1>3, <3>1, <3>3, <3>4, <3>5 DEF Progress, callVars
  <2>5. CASE Claim(w)
    BY <1>2, <1>3, <2>5 DEF Claim, GoTo, Progress, TypeOK, callVars, workVars
  <2>6. CASE Send(w)
    BY <1>2, <1>3, <2>6 DEF Send, GoTo, Progress, TypeOK, callVars, workVars
  <2>7. CASE Cancel(w)
    BY <1>2, <1>3, <2>7 DEF Cancel, GoTo, Progress, TypeOK, callVars, workVars
  <2> QED BY <1>5, <2>1, <2>2, <2>3, <2>4, <2>5, <2>6, <2>7 DEF WorkerStep
<1> QED
  BY <1>4, <1>5 DEF Next, MainStep, Close, Receive, ReturnFound, ReturnNotFound,
                    Terminated, vars

LEMMA LedgerInit == Init => Ledger
<1> SUFFICES ASSUME Init PROVE Ledger
  OBVIOUS
<1>1. Counting = {} /\ Tried = {}
  BY DEF Init, Counting, Tried, At
<1> QED BY <1>1, FS_EmptySet DEF Init, Ledger

\* A step that neither hashes nor counts leaves the ledger as it is.
LEMMA LedgerKept ==
  ASSUME TypeOK, Ledger, UNCHANGED <<totalHashes, tried>>,
         \A w \in Worker : (pc'[w] = "count") <=> (pc[w] = "count")
  PROVE  Ledger'
<1>1. Counting' = Counting
  BY DEF Counting, At
<1>2. Tried' = Tried
  BY DEF Tried
<1> QED BY <1>1, <1>2 DEF Ledger

LEMMA LedgerNext == TypeOK /\ Progress /\ Ledger /\ [Next]_vars => Ledger'
<1> SUFFICES ASSUME TypeOK, Progress, Ledger, [Next]_vars PROVE Ledger'
  OBVIOUS
<1>1. IsFiniteSet(Counting) /\ IsFiniteSet(Tried)
  BY Finite
<1>2. CASE UNCHANGED <<pc, workVars>>
  BY <1>2, LedgerKept DEF workVars
<1>3. ASSUME NEW w \in Worker, WorkerStep(w) PROVE Ledger'
  <2>1. CASE Begin(w) \/ Check(w) \/ Claim(w) \/ Send(w) \/ Cancel(w)
    <3>1. UNCHANGED <<totalHashes, tried>>
      BY <2>1 DEF Begin, Check, Claim, Send, Cancel, workVars
    <3>2. pc[w] # "count" /\ pc'[w] # "count"
      BY <2>1 DEF Begin, Advance, Check, Claim, Send, Cancel, At, GoTo, TypeOK
    <3>3. \A v \in Worker : v # w => pc'[v] = pc[v]
      BY <2>1 DEF Begin, Advance, Check, Claim, Send, Cancel, GoTo, TypeOK
    <3> QED BY <3>1, <3>2, <3>3, LedgerKept
  <2>2. CASE Hash(w)
    <3>1. /\ pc[w] = "hash" /\ UNCHANGED totalHashes
          /\ pc' = [pc EXCEPT ![w] = "count"]
          /\ tried' = [tried EXCEPT ![w] = @ \cup {nonce[w]}]
      BY <2>2 DEF Hash, At, GoTo
    <3>2. nonce[w] \notin Tried
      <4>1. nonce[w] \in Share(w) /\ nonce[w] \notin tried[w]
        <5>1. nonce[w] \in Nat
          BY MinerAssumption DEF TypeOK, Nonce
        <5> QED BY <3>1, <5>1 DEF Progress
      <4>2. ASSUME NEW v \in Worker, v # w PROVE nonce[w] \notin tried[v]
        <5>1. start \in Nat
          BY MinerAssumption DEF TypeOK, Nonce
        <5>2. Share(v) \cap Share(w) = {}
          BY <4>2, <5>1, SharesDisjoint
        <5> QED BY <4>1, <5>2 DEF Progress
      <4> QED BY <4>1, <4>2 DEF Tried
    <3>3. Counting' = Counting \cup {w} /\ w \notin Counting
      BY <3>1 DEF Counting, At, TypeOK
    <3>4. Tried' = Tried \cup {nonce[w]}
      BY <3>1 DEF Tried, TypeOK
    <3>5. /\ Cardinality(Counting') = Cardinality(Counting) + 1
          /\ Cardinality(Tried') = Cardinality(Tried) + 1
      BY <1>1, <3>2, <3>3, <3>4, FS_AddElement
    <3>6. totalHashes \in Nat /\ Cardinality(Counting) \in Nat
      BY <1>1, FS_CardinalityType DEF TypeOK
    <3> QED BY <3>1, <3>5, <3>6 DEF Ledger
  <2>3. CASE Count(w)
    <3>1. /\ pc[w] = "count" /\ UNCHANGED tried
          /\ totalHashes' = totalHashes + 1
          /\ pc'[w] # "count"
          /\ \A v \in Worker : v # w => pc'[v] = pc[v]
      BY <2>3 DEF Count, Advance, At, GoTo, TypeOK
    <3>2. Counting' = Counting \ {w} /\ w \in Counting /\ Tried' = Tried
      BY <3>1 DEF Counting, Tried, At
    <3>3. Cardinality(Counting') = Cardinality(Counting) - 1
      BY <1>1, <3>2, FS_RemoveElement
    <3>4. totalHashes \in Nat /\ Cardinality(Counting) \in Nat
      BY <1>1, FS_CardinalityType DEF TypeOK
    <3> QED BY <3>1, <3>2, <3>3, <3>4 DEF Ledger
  <2> QED BY <1>3, <2>1, <2>2, <2>3 DEF WorkerStep
<1> QED
  BY <1>2, <1>3 DEF Next, MainStep, Close, Receive, ReturnFound, ReturnNotFound,
                    Terminated, vars

\* No two workers of Mine, and no worker twice, hash the same nonce, and
\* totalHashes counts each (miner.go, the workers' loop and AddUint64).
THEOREM NonceOnce == Spec => []EachNonceOnce
<1>1. Init => TypeOK /\ Progress /\ Ledger
  BY TypeInit, ProgressInit, LedgerInit
<1>2. TypeOK /\ Progress /\ Ledger /\ [Next]_vars
        => (TypeOK /\ Progress /\ Ledger)'
  BY TypeNext, ProgressNext, LedgerNext
<1>3. Ledger => EachNonceOnce
  BY DEF Ledger, EachNonceOnce, Counting, Tried
<1> QED BY <1>1, <1>2, <1>3, PTL DEF Spec

-----------------------------------------------------------------------------
(***************************************************************************)
(* The reported count.  Once a nonce is found no worker begins a hash: the *)
(* workers that still hash are others than the finder, and each adds one.  *)
(***************************************************************************)
Active == {w \in Worker : pc[w] \in {"hash", "count"}}

\* A worker that found a nonce has counted its hash and hashes no more.
Finder ==
  /\ \A w \in Worker : pc[w] \in {"claim", "send", "cancel"} => totalHashes >= 1
  /\ found => totalHashes >= 1 /\ \E w \in Worker : w \notin Active
  /\ \A w \in Worker : pc[w] \in {"send", "cancel"} => found
  /\ channel # <<>> \/ main = "count" \/ answer.ok => found

Exactness ==
  answer.ok => /\ hashes >= 1
               /\ totalHashes + Cardinality(Active) <= hashes + Workers - 1

\* At most all the workers but one hash when one does not.
LEMMA ActiveBound ==
  /\ IsFiniteSet(Active) /\ Cardinality(Active) \in Nat
  /\ (\E w \in Worker : w \notin Active) => Cardinality(Active) <= Workers - 1
<1>1. IsFiniteSet(Worker) /\ Cardinality(Worker) = Workers
  <2>1. 0 \in Int /\ Workers - 1 \in Int /\ ~(0 > Workers - 1)
    BY MinerAssumption
  <2> QED BY <2>1, MinerAssumption, FS_Interval DEF Worker
<1>2. Active \subseteq Worker
  BY DEF Active
<1>3. IsFiniteSet(Active) /\ Cardinality(Active) <= Cardinality(Worker)
      /\ (Cardinality(Worker) = Cardinality(Active) => Worker = Active)
  BY <1>1, <1>2, FS_Subset
<1>4. Cardinality(Active) \in Nat
  BY <1>3, FS_CardinalityType
<1> QED BY <1>1, <1>3, <1>4, MinerAssumption

LEMMA FinderInit == Init => Finder
<1> SUFFICES ASSUME Init PROVE Finder
  OBVIOUS
<1> QED BY DEF Init, Finder, NoAnswer

LEMMA FinderNext == TypeOK /\ Finder /\ [Next]_vars => Finder'
<1> SUFFICES ASSUME TypeOK, Finder, [Next]_vars PROVE Finder'
  OBVIOUS
<1> USE DEF Finder
<1>1. ASSUME NEW w \in Worker, WorkerStep(w) PROVE Finder'
  <2>0. totalHashes \in Nat
    BY DEF TypeOK
  <2>1. CASE Begin(w)
    BY <2>1 DEF Begin, Advance, At, GoTo, Active, TypeOK, mainVars
  <2>2. CASE Check(w)
    BY <2>2 DEF Check, Stopped, At, GoTo, Active, TypeOK, mainVars, workVars
  <2>3. CASE Hash(w)
    BY <2>3 DEF Hash, At, GoTo, Active, TypeOK, mainVars
  <2>4. CASE Count(w)
    <3>1. /\ pc' = [pc EXCEPT ![w] = pc'[w]] /\ pc[w] = "count"
          /\ pc'[w] \in {"claim", "check", "done"}
          /\ totalHashes' = totalHashes + 1
          /\ UNCHANGED <<found, channel, mainVars>>
      BY <2>4 DEF Count, Advance, At, GoTo, TypeOK
    <3> QED BY <2>0, <3>1 DEF Active, TypeOK, mainVars
  <2>5. CASE Claim(w)
    <3>1. /\ pc' = [pc EXCEPT ![w] = pc'[w]] /\ pc[w] = "claim"
          /\ pc'[w] \in {"send", "done"} /\ found'
          /\ UNCHANGED <<totalHashes, channel, mainVars>>
      BY <2>5 DEF Claim, At, GoTo, TypeOK, workVars
    <3>2. totalHashes' >= 1
      BY <3>1
    <3>3. \A v \in Worker : v # w => pc'[v] = pc[v]
      BY <3>1 DEF TypeOK
    <3>4. w \notin Active'
      BY <3>1 DEF Active
    <3> QED BY <3>1, <3>2, <3>3, <3>4
  <2>6. CASE Send(w)
    BY <2>6 DEF Send, At, GoTo, Active, TypeOK, mainVars, workVars
  <2>7. CASE Cancel(w)
    BY <2>7 DEF Cancel, At, GoTo, Active, TypeOK, mainVars, workVars
  <2> QED BY <1>1, <2>1, <2>2, <2>3, <2>4, <2>5, <2>6, <2>7 DEF WorkerStep
<1>2. CASE Close
  BY <1>2 DEF Close, Active, workVars, mainVars
<1>3. CASE Receive
  BY <1>3 DEF Receive, Active, workVars
<1>4. CASE ReturnFound
  BY <1>4 DEF ReturnFound, FoundAt, Active, workVars
<1>5. CASE ReturnNotFound
  BY <1>5 DEF ReturnNotFound, NoneFound, Active, workVars
<1>6. CASE UNCHANGED vars
  BY <1>6 DEF vars, Active, workVars, mainVars
<1> QED
  BY <1>1, <1>2, <1>3, <1>4, <1>5, <1>6 DEF Next, MainStep, Terminated

LEMMA ExactnessNext == TypeOK /\ Finder /\ Exactness /\ [Next]_vars => Exactness'
<1> SUFFICES ASSUME TypeOK, Finder, Exactness, [Next]_vars, answer'.ok
             PROVE  /\ hashes' >= 1
                    /\ totalHashes' + Cardinality(Active') <= hashes' + Workers - 1
  BY DEF Exactness
<1>0. /\ totalHashes \in Nat /\ hashes \in Nat /\ Workers \in Nat
      /\ IsFiniteSet(Active) /\ Cardinality(Active) \in Nat
  BY ActiveBound, MinerAssumption DEF TypeOK
<1>1. ASSUME NEW w \in Worker, WorkerStep(w)
      PROVE  /\ hashes' >= 1
             /\ totalHashes' + Cardinality(Active') <= hashes' + Workers - 1
  <2>1. answer.ok /\ hashes' = hashes
    BY <1>1 DEF WorkerStep, Begin, Check, Hash, Count, Claim, Send, Cancel, mainVars
  <2>2. found
    BY <2>1 DEF Finder
  <2>3. CASE Count(w)
    <3>1. /\ pc[w] = "count" /\ pc'[w] \notin {"hash", "count"}
          /\ totalHashes' = totalHashes + 1
          /\ \A v \in Worker : v # w => pc'[v] = pc[v]
      BY <2>3 DEF Count, Advance, At, GoTo, TypeOK
    <3>2. Active' = Active \ {w} /\ w \in Active
      BY <3>1 DEF Active
    <3>3. Cardinality(Active') = Cardinality(Active) - 1
      BY <1>0, <3>2, FS_RemoveElement
    <3> QED BY <1>0, <2>1, <3>1, <3>3 DEF Exactness
  <2>4. CASE ~Count(w)
    <3>1. totalHashes' = totalHashes
      BY <1>1, <2>4 DEF WorkerStep, Begin, Check, Hash, Claim, Send, Cancel, workVars
    <3>2. (pc'[w] \in {"hash", "count"}) <=> (pc[w] \in {"hash", "count"})
      BY <1>1, <2>2, <2>4 DEF WorkerStep, Begin, Advance, Check, Stopped, Hash, Claim,
                              Send, Cancel, At, GoTo, TypeOK
    <3>3. \A v \in Worker : v # w => pc'[v] = pc[v]
      BY <1>1, <2>4 DEF WorkerStep, Begin, Advance, Check, Hash, Claim, Send,
                        Cancel, GoTo, TypeOK
    <3>4. Active' = Active
      BY <3>2, <3>3 DEF Active
    <3> QED BY <2>1, <3>1, <3>4 DEF Exactness
  <2> QED BY <2>3, <2>4
<1>2. CASE ReturnFound
  <2>1. found /\ hashes' = totalHashes /\ totalHashes' = totalHashes
        /\ Active' = Active
    BY <1>2 DEF ReturnFound, Finder, Active, workVars
  <2>2. Cardinality(Active) <= Workers - 1 /\ totalHashes >= 1
    BY <2>1, ActiveBound DEF Finder
  <2> QED BY <1>0, <2>1, <2>2
<1>3. CASE ReturnNotFound
  BY <1>3 DEF ReturnNotFound, NoneFound
<1>4. CASE Close \/ Receive \/ UNCHANGED vars
  <2>1. UNCHANGED <<answer, hashes, totalHashes, pc>>
    BY <1>4 DEF Close, Receive, vars, workVars, mainVars
  <2>2. Active' = Active
    BY <2>1 DEF Active
  <2> QED BY <2>1, <2>2 DEF Exactness
<1> QED BY <1>1, <1>2, <1>3, <1>4 DEF Next, MainStep, Terminated

\* The number of hashes that Mine reports with a nonce is at least one and
\* misses at most one hash of each worker other than the finder (miner.go,
\* totalHashes.Load after the receive).
THEOREM HashesReported == Spec => []HashesNearlyExact
<1>1. Init => TypeOK /\ Finder /\ Exactness
  BY TypeInit, FinderInit DEF Init, Exactness, NoAnswer
<1>2. TypeOK /\ Finder /\ Exactness /\ [Next]_vars => (TypeOK /\ Finder /\ Exactness)'
  BY TypeNext, FinderNext, ExactnessNext
<1>3. TypeOK /\ Exactness => HashesNearlyExact
  <2> SUFFICES ASSUME TypeOK, Exactness, answer.ok
               PROVE  hashes >= 1 /\ totalHashes - hashes <= Workers - 1
    BY DEF HashesNearlyExact
  <2>1. totalHashes \in Nat /\ hashes \in Nat /\ Workers \in Nat
        /\ Cardinality(Active) \in Nat
    BY ActiveBound, MinerAssumption DEF TypeOK
  <2> QED BY <2>1 DEF Exactness
<1> QED BY <1>1, <1>2, <1>3, PTL DEF Spec

-----------------------------------------------------------------------------
(***************************************************************************)
(* With a backend that does not fail, Mine implements Search.  Three facts *)
(* are needed: what is found, sent and received is good; whoever stops     *)
(* without anything found has passed no good nonce of its share; and what  *)
(* was found is on its way to the caller.                                  *)
(***************************************************************************)
Good(n) == n \in solving /\ Contract!InRange(n)

OnlyGood ==
  /\ \A w \in Worker :
       /\ pc[w] \in {"hash", "count"} => Contract!InRange(nonce[w])
       /\ pc[w] = "count" => meets[w] = (nonce[w] \in solving)
       /\ pc[w] \in {"claim", "send"} => Good(nonce[w])
  /\ \A i \in 1 .. Len(channel) : Good(channel[i])
  /\ main = "count" => Good(message)

NonePassed ==
  \A w \in Worker : \A n \in Share(w) :
    Good(n) => /\ pc[w] \in {"check", "hash", "count"} => n >= nonce[w]
               /\ pc[w] = "done" => found

OnItsWay ==
  /\ \A w \in Worker : pc[w] \in {"send", "cancel"} => found
  /\ closed => \A w \in Worker : pc[w] = "done"
  /\ cancelled => found \/ closed
  /\ found /\ main = "wait" /\ channel = <<>> => \E w \in Worker : pc[w] = "send"
  /\ main # "returned" => answer = NoAnswer

\* The first nonce of a worker's share.
LEMMA ShareFloor ==
  ASSUME NEW w \in Worker, NEW n \in Share(w), start \in Nat
  PROVE  n \in Nat /\ n >= start + w
<1>1. PICK k \in Nat : n = start + w + k * Workers
  BY DEF Share
<1>2. k * Workers \in Nat /\ w \in Nat
  BY MinerAssumption DEF Worker
<1> QED BY <1>1, <1>2

\* Every nonce from the first one on is in the share of some worker.
LEMMA ShareCovers ==
  ASSUME start \in Nat, NEW n \in Nat, n >= start
  PROVE  \E w \in Worker : n \in Share(w)
<1>1. n - start \in Nat
  OBVIOUS
<1>2. PICK w \in Worker, k \in Nat : n - start = w + k * Workers
  BY <1>1, Residue
<1>3. w \in Nat /\ k * Workers \in Nat
  BY MinerAssumption DEF Worker
<1>4. n = start + w + k * Workers
  BY <1>2, <1>3
<1> QED BY <1>4 DEF Share

\* What is good depends only on the arguments of the call.
LEMMA GoodUnchanged ==
  ASSUME UNCHANGED callVars, NEW n
  PROVE  /\ Good(n)' <=> Good(n)
         /\ Contract!InRange(n)' <=> Contract!InRange(n)
BY DEF Good, Contract!InRange, Contract!Nonce, callVars

LEMMA SearchInit == Init => OnlyGood /\ NonePassed /\ OnItsWay
<1> SUFFICES ASSUME Init PROVE OnlyGood /\ NonePassed /\ OnItsWay
  OBVIOUS
<1> QED BY DEF Init, OnlyGood, NonePassed, OnItsWay, NoAnswer

LEMMA CallUnchanged == [Next]_vars => UNCHANGED callVars
BY DEF Next, WorkerStep, Begin, Check, Hash, Count, Claim, Send, Cancel,
       Close, MainStep, Receive, ReturnFound, ReturnNotFound, Terminated, vars

LEMMA OnlyGoodNext ==
  ~CanFail /\ TypeOK /\ Progress /\ OnlyGood /\ [Next]_vars => OnlyGood'
<1> SUFFICES ASSUME ~CanFail, TypeOK, Progress, OnlyGood, [Next]_vars PROVE OnlyGood'
  OBVIOUS
<1>0. UNCHANGED callVars
  BY CallUnchanged
<1>1. \A n : (Good(n)' <=> Good(n)) /\ (Contract!InRange(n)' <=> Contract!InRange(n))
  BY <1>0, GoodUnchanged
<1>2. solving' = solving
  BY <1>0 DEF callVars
<1> DEFINE OfWorker(w) ==
       /\ pc[w] \in {"hash", "count"} => Contract!InRange(nonce[w])
       /\ pc[w] = "count" => meets[w] = (nonce[w] \in solving)
       /\ pc[w] \in {"claim", "send"} => Good(nonce[w])
<1>3. \A w \in Worker : OfWorker(w)
  BY DEF OnlyGood
<1>4. ASSUME NEW w \in Worker, pc'[w] = pc[w], nonce'[w] = nonce[w], meets'[w] = meets[w]
      PROVE  OfWorker(w)'
  BY <1>1, <1>2, <1>3, <1>4
<1>5. ASSUME NEW w \in Worker, WorkerStep(w) PROVE OnlyGood'
  <2>1. ASSUME NEW v \in Worker, v # w PROVE OfWorker(v)'
    <3>1. pc'[v] = pc[v] /\ nonce'[v] = nonce[v] /\ meets'[v] = meets[v]
      BY <1>5, <2>1 DEF WorkerStep, Begin, Advance, Check, Hash, Count, Claim, Send,
                        Cancel, GoTo, TypeOK, workVars
    <3> QED BY <3>1, <1>4
  <2>2. main' = main /\ message' = message
    BY <1>5 DEF WorkerStep, Begin, Check, Hash, Count, Claim, Send, Cancel, mainVars
  <2>3. OfWorker(w)'
    <3>1. CASE Begin(w) \/ Cancel(w)
      BY <3>1 DEF Begin, Advance, Cancel, GoTo, TypeOK
    <3>2. CASE Check(w)
      <4>1. CASE pc'[w] = "hash"
        <5>1. pc[w] = "check" /\ ~Exhausted(nonce[w]) /\ nonce' = nonce
          BY <3>2, <4>1 DEF Check, At, GoTo, TypeOK, workVars
        <5>2. start \in Nat /\ limit \in Nat /\ nonce[w] \in Nonce /\ nonce[w] \in Nat
          BY MinerAssumption DEF TypeOK, Nonce
        <5>3. nonce[w] >= start
          <6>1. nonce[w] \in Share(w)
            BY <5>1 DEF Progress
          <6> QED BY <5>2, <6>1, ShareFloor, MinerAssumption DEF Worker
        <5>4. Contract!InRange(nonce[w])
          BY <5>1, <5>2, <5>3 DEF Exhausted, Contract!InRange, Contract!Nonce, Nonce
        <5> QED BY <1>1, <4>1, <5>1, <5>4
      <4>2. CASE pc'[w] # "hash"
        BY <3>2, <4>2 DEF Check, GoTo, TypeOK
      <4> QED BY <4>1, <4>2
    <3>3. CASE Hash(w)
      <4>1. pc[w] = "hash" /\ pc'[w] = "count" /\ nonce' = nonce
        BY <3>3 DEF Hash, At, GoTo, TypeOK
      <4>2. meets'[w] = (nonce[w] \in solving)
        BY <3>3 DEF Hash, Digest, TypeOK
      <4> QED BY <1>1, <1>2, <1>3, <4>1, <4>2
    <3>4. CASE Count(w)
      <4>1. CASE meets[w]
        <5>1. pc[w] = "count" /\ pc'[w] = "claim" /\ nonce' = nonce
          BY <3>4, <4>1 DEF Count, At, GoTo, TypeOK
        <5>2. Good(nonce[w])
          BY <1>3, <4>1, <5>1 DEF Good
        <5> QED BY <1>1, <5>1, <5>2
      <4>2. CASE ~meets[w]
        BY <3>4, <4>2 DEF Count, Advance, GoTo, TypeOK
      <4> QED BY <4>1, <4>2
    <3>5. CASE Claim(w)
      <4>1. pc[w] = "claim" /\ pc'[w] \in {"send", "done"} /\ nonce' = nonce
        BY <3>5 DEF Claim, At, GoTo, TypeOK, workVars
      <4> QED BY <1>1, <1>3, <4>1
    <3>6. CASE Send(w)
      BY <3>6 DEF Send, GoTo, TypeOK
    <3> QED BY <1>5, <3>1, <3>2, <3>3, <3>4, <3>5, <3>6 DEF WorkerStep
  <2>4. \A i \in 1 .. Len(channel') : Good(channel'[i])
    <3>1. CASE Send(w)
      <4>1. channel' = Append(channel, nonce[w]) /\ Good(nonce[w])
        BY <1>3, <3>1 DEF Send, At
      <4>2. channel \in Seq(Nonce)
        BY DEF TypeOK
      <4> QED BY <4>1, <4>2 DEF OnlyGood
    <3>2. CASE ~Send(w)
      <4>1. channel' = channel
        BY <1>5, <3>2 DEF WorkerStep, Begin, Check, Hash, Count, Claim, Cancel
      <4> QED BY <4>1 DEF OnlyGood
    <3> QED BY <3>1, <3>2
  <2>5. \A v \in Worker : OfWorker(v)'
    BY <2>1, <2>3
  <2>6. (\A i \in 1 .. Len(channel) : Good(channel[i]))'
    BY <1>1, <2>4
  <2>7. (main = "count" => Good(message))'
    BY <1>1, <2>2 DEF OnlyGood
  <2> QED BY <2>5, <2>6, <2>7 DEF OnlyGood
<1>6. CASE UNCHANGED <<pc, workVars>> /\ ~Receive /\ UNCHANGED <<channel, message>>
           /\ (main' = "count" => main = "count")
  <2>1. \A w \in Worker : OfWorker(w)'
    BY <1>4, <1>6 DEF workVars
  <2> QED BY <1>1, <1>6, <2>1 DEF OnlyGood
<1>7. CASE Receive
  <2>1. \A w \in Worker : OfWorker(w)'
    BY <1>4, <1>7 DEF Receive, workVars
  <2>2. channel \in Seq(Nonce) /\ channel # <<>>
    BY <1>7 DEF Receive, TypeOK
  <2>3. Good(Head(channel)) /\ \A i \in 1 .. Len(Tail(channel)) : Good(Tail(channel)[i])
    BY <2>2 DEF OnlyGood
  <2>4. message' = Head(channel) /\ channel' = Tail(channel)
    BY <1>7 DEF Receive
  <2> QED BY <1>1, <2>1, <2>3, <2>4 DEF OnlyGood
<1>8. CASE Close \/ ReturnFound \/ ReturnNotFound \/ UNCHANGED vars
  <2>1. UNCHANGED <<pc, workVars>> /\ UNCHANGED <<channel, message>>
        /\ (main' = "count" => main = "count")
    BY <1>8 DEF Close, ReturnFound, ReturnNotFound, vars, mainVars
  <2> QED BY <1>6, <1>7, <2>1
<1> QED BY <1>5, <1>7, <1>8 DEF Next, MainStep, Terminated

LEMMA OnItsWayNext == TypeOK /\ Finder /\ OnItsWay /\ [Next]_vars => OnItsWay'
<1> SUFFICES ASSUME TypeOK, Finder, OnItsWay, [Next]_vars PROVE OnItsWay'
  OBVIOUS
<1> USE DEF OnItsWay
<1>1. ASSUME NEW w \in Worker, WorkerStep(w) PROVE OnItsWay'
  <2>0. ~closed
    BY <1>1 DEF WorkerStep, Begin, Check, Hash, Count, Claim, Send, Cancel, At
  <2>1. CASE Begin(w) \/ Hash(w) \/ Count(w)
    <3>1. /\ pc[w] \in {"start", "hash", "count"}
          /\ pc'[w] \in {"check", "done", "count", "claim"}
          /\ \A v \in Worker : v # w => pc'[v] = pc[v]
          /\ UNCHANGED <<found, cancelled, channel, closed, mainVars>>
      BY <2>1 DEF Begin, Hash, Count, Advance, At, GoTo, TypeOK
    <3> QED BY <2>0, <3>1 DEF mainVars
  <2>2. CASE Check(w)
    <3>1. /\ pc[w] = "check" /\ pc'[w] \in {"hash", "done"}
          /\ \A v \in Worker : v # w => pc'[v] = pc[v]
          /\ UNCHANGED <<found, cancelled, channel, closed, mainVars>>
      BY <2>2 DEF Check, At, GoTo, TypeOK
    <3> QED BY <2>0, <3>1 DEF mainVars
  <2>3. CASE Claim(w)
    <3>1. /\ pc[w] = "claim" /\ pc'[w] = (IF found THEN "done" ELSE "send")
          /\ \A v \in Worker : v # w => pc'[v] = pc[v]
          /\ found'
          /\ UNCHANGED <<cancelled, channel, closed, mainVars>>
      BY <2>3 DEF Claim, At, GoTo, TypeOK
    <3> QED BY <2>0, <3>1 DEF mainVars
  <2>4. CASE Send(w)
    <3>1. /\ pc[w] = "send" /\ pc'[w] = "cancel"
          /\ \A v \in Worker : v # w => pc'[v] = pc[v]
          /\ channel' = Append(channel, nonce[w])
          /\ UNCHANGED <<found, cancelled, closed, mainVars>>
      BY <2>4 DEF Send, At, GoTo, TypeOK
    <3>2. channel' # <<>>
      BY <3>1 DEF TypeOK
    <3> QED BY <2>0, <3>1, <3>2 DEF mainVars
  <2>5. CASE Cancel(w)
    <3>1. /\ pc[w] = "cancel" /\ pc'[w] = "done"
          /\ \A v \in Worker : v # w => pc'[v] = pc[v]
          /\ UNCHANGED <<found, channel, closed, mainVars>>
      BY <2>5 DEF Cancel, At, GoTo, TypeOK
    <3> QED BY <2>0, <3>1 DEF mainVars
  <2> QED BY <1>1, <2>1, <2>2, <2>3, <2>4, <2>5 DEF WorkerStep
<1>2. CASE Close
  BY <1>2 DEF Close, At, mainVars
<1>3. CASE Receive
  BY <1>3 DEF Receive
<1>4. CASE ReturnFound
  BY <1>4 DEF ReturnFound, Finder
<1>5. CASE ReturnNotFound
  BY <1>5 DEF ReturnNotFound
<1>6. CASE UNCHANGED vars
  BY <1>6 DEF vars, mainVars
<1> QED
  BY <1>1, <1>2, <1>3, <1>4, <1>5, <1>6 DEF Next, MainStep, Terminated

LEMMA NonePassedNext ==
  /\ ~CanFail /\ TypeOK /\ Progress /\ OnlyGood /\ NonePassed /\ OnItsWay
  /\ [Next]_vars
  => NonePassed'
<1> SUFFICES ASSUME ~CanFail, TypeOK, Progress, OnlyGood, NonePassed, OnItsWay,
                    [Next]_vars
             PROVE  NonePassed'
  OBVIOUS
<1>0. UNCHANGED callVars
  BY CallUnchanged
<1>1. /\ \A n : Good(n)' <=> Good(n)
      /\ \A w \in Worker : Share(w)' = Share(w)
  BY <1>0, GoodUnchanged, ShareUnchanged
<1>2. start \in Nat /\ limit \in Nat /\ MaxNonce \in Nat /\ Workers \in Nat
      /\ \A w \in Worker : w \in Nat /\ nonce[w] \in Nat
  BY MinerAssumption DEF TypeOK, Nonce, Worker
<1>3. SUFFICES ASSUME NEW w \in Worker, NEW n \in Share(w), Good(n)
               PROVE  /\ pc'[w] \in {"check", "hash", "count"} => n >= nonce'[w]
                      /\ pc'[w] = "done" => found'
  BY <1>1 DEF NonePassed
<1>4. n \in Nat /\ n >= start + w /\ n <= MaxNonce /\ (limit = 0 \/ n < start + limit)
  BY <1>2, <1>3, ShareFloor DEF Good, Contract!InRange, Contract!Nonce
<1>5. /\ pc[w] \in {"check", "hash", "count"} => n >= nonce[w]
      /\ pc[w] = "done" => found
  BY <1>3 DEF NonePassed
<1>6. CASE pc'[w] = pc[w] /\ nonce'[w] = nonce[w]
  <2>1. found => found'
    BY DEF Next, WorkerStep, Begin, Check, Hash, Count, Claim, Send, Cancel,
           Close, MainStep, Receive, ReturnFound, ReturnNotFound, Terminated, vars
  <2> QED BY <1>5, <1>6, <2>1
<1>7. ASSUME WorkerStep(w)
      PROVE  /\ pc'[w] \in {"check", "hash", "count"} => n >= nonce'[w]
             /\ pc'[w] = "done" => found'
  <2>1. CASE Begin(w)
    <3>1. nonce[w] = start
      BY <2>1 DEF Begin, At, Progress
    <3>2. Fits(start, w)
      BY <1>2, <1>4 DEF Fits
    <3>3. pc'[w] = "check" /\ nonce'[w] = start + w
      BY <2>1, <3>1, <3>2 DEF Begin, Advance, GoTo, TypeOK
    <3> QED BY <1>4, <3>3
  <2>2. CASE Check(w)
    <3>1. pc[w] = "check" /\ nonce' = nonce /\ found' = found
          /\ pc'[w] = (IF Stopped \/ Exhausted(nonce[w]) THEN "done" ELSE "hash")
      BY <2>2 DEF Check, At, GoTo, TypeOK, workVars
    <3>2. n >= nonce[w]
      BY <1>5, <3>1
    <3>3. ~Exhausted(nonce[w])
      BY <1>2, <1>4, <3>2 DEF Exhausted
    <3>4. Stopped => found
      BY <3>1 DEF Stopped, OnItsWay
    <3> QED BY <3>1, <3>2, <3>3, <3>4
  <2>3. CASE Hash(w)
    BY <1>5, <2>3 DEF Hash, At, GoTo, TypeOK
  <2>4. CASE Count(w)
    <3>1. pc[w] = "count" /\ n >= nonce[w]
      BY <1>5, <2>4 DEF Count, At
    <3>2. CASE meets[w]
      BY <2>4, <3>2 DEF Count, GoTo, TypeOK
    <3>3. CASE ~meets[w]
      <4>1. nonce[w] \notin solving
        BY <3>1, <3>3 DEF OnlyGood
      <4>2. n # nonce[w]
        BY <1>3, <4>1 DEF Good
      <4>3. nonce[w] \in Share(w)
        BY <3>1 DEF Progress
      <4>4. n >= nonce[w] + Workers
        BY <1>2, <1>4, <3>1, <4>2, <4>3, ShareStep
      <4>5. Fits(nonce[w], Stride)
        BY <1>2, <1>4, <4>4 DEF Fits, Stride
      <4>6. pc'[w] = "check" /\ nonce'[w] = nonce[w] + Workers
        BY <2>4, <3>3, <4>5 DEF Count, Advance, Stride, GoTo, TypeOK
      <4> QED BY <4>4, <4>6
    <3> QED BY <3>2, <3>3
  <2>5. CASE Claim(w) \/ Send(w)
    BY <2>5 DEF Claim, Send, GoTo, TypeOK
  <2>6. CASE Cancel(w)
    <3>1. found /\ found' = found /\ pc'[w] = "done"
      BY <2>6 DEF Cancel, At, GoTo, TypeOK, OnItsWay
    <3> QED BY <3>1
  <2> QED BY <1>7, <2>1, <2>2, <2>3, <2>4, <2>5, <2>6 DEF WorkerStep
<1>8. ASSUME NEW v \in Worker, v # w, WorkerStep(v)
      PROVE  pc'[w] = pc[w] /\ nonce'[w] = nonce[w]
  BY <1>8 DEF WorkerStep, Begin, Advance, Check, Hash, Count, Claim, Send,
              Cancel, GoTo, TypeOK, workVars
<1>9. CASE Close \/ MainStep \/ UNCHANGED vars
  <2>1. UNCHANGED <<pc, nonce>>
    BY <1>9 DEF Close, MainStep, Receive, ReturnFound, ReturnNotFound, vars, workVars
  <2> QED BY <1>6, <2>1
<1> QED BY <1>6, <1>7, <1>8, <1>9 DEF Next, Terminated

\* Every step of Mine is a step of its contract or leaves the answer alone.
LEMMA SearchStep ==
  /\ TypeOK /\ OnlyGood /\ NonePassed /\ OnItsWay /\ [Next]_vars
  => [Contract!Answer]_Contract!vars
<1> SUFFICES ASSUME TypeOK, OnlyGood, NonePassed, OnItsWay, [Next]_vars
             PROVE  [Contract!Answer]_Contract!vars
  OBVIOUS
<1>0. UNCHANGED <<start, limit, solving>>
  BY CallUnchanged DEF callVars
<1>1. CASE UNCHANGED answer
  BY <1>0, <1>1 DEF Contract!vars
<1>2. CASE ReturnFound
  <2>1. answer = NoAnswer /\ answer' = FoundAt(message) /\ Good(message)
    BY <1>2 DEF ReturnFound, OnItsWay, OnlyGood
  <2> QED BY <1>0, <2>1
          DEF Contract!Answer, Contract!NoAnswer, Contract!FoundAt, NoAnswer,
              FoundAt, Good
<1>3. CASE ReturnNotFound
  <2>1. answer = NoAnswer /\ answer' = NoneFound
    BY <1>3 DEF ReturnNotFound, OnItsWay
  <2>2. ~found /\ \A w \in Worker : pc[w] = "done"
    BY <1>3 DEF ReturnNotFound, OnItsWay
  <2>3. ASSUME NEW n \in solving, Contract!InRange(n) PROVE FALSE
    <3>1. start \in Nat /\ n \in Nat /\ n >= start
      BY <2>3, MinerAssumption DEF TypeOK, Nonce, Contract!InRange
    <3>2. PICK w \in Worker : n \in Share(w)
      BY <3>1, ShareCovers
    <3>3. Good(n)
      BY <2>3 DEF Good
    <3> QED BY <2>2, <3>2, <3>3 DEF NonePassed
  <2> QED BY <1>0, <2>1, <2>3
          DEF Contract!Answer, Contract!NoAnswer, Contract!NoneFound, NoAnswer,
              NoneFound
<1>4. CASE (\E w \in Worker : WorkerStep(w)) \/ Close \/ Receive \/ UNCHANGED vars
  <2>1. UNCHANGED answer
    BY <1>4 DEF WorkerStep, Begin, Check, Hash, Count, Claim, Send, Cancel,
                Close, Receive, vars, mainVars
  <2> QED BY <1>1, <2>1
<1> QED BY <1>2, <1>3, <1>4 DEF Next, MainStep, Terminated

\* Mine implements its contract when its backend does not fail: a nonce that
\* it reports is one of the range that meets the target, and it reports that
\* there is none only when the whole range holds none (miner.go, Mine;
\* nonce.go, AddUint64).
THEOREM Implements == ~CanFail => (Spec => ImplementsSearch)
<1> SUFFICES ASSUME ~CanFail PROVE Spec => ImplementsSearch
  OBVIOUS
<1> DEFINE Inv == TypeOK /\ Progress /\ Finder /\ OnlyGood /\ NonePassed /\ OnItsWay
<1>1. Init => Inv /\ Contract!Init
  <2>1. Init => Contract!Init
    BY DEF Init, NoAnswer, Nonce, Contract!Init, Contract!NoAnswer, Contract!Nonce
  <2> QED BY <2>1, TypeInit, ProgressInit, FinderInit, SearchInit
<1>2. Inv /\ [Next]_vars => Inv'
  BY TypeNext, ProgressNext, FinderNext, OnlyGoodNext, NonePassedNext, OnItsWayNext
<1>3. Inv /\ [Next]_vars => [Contract!Answer]_Contract!vars
  BY SearchStep
<1> HIDE DEF Inv
<1> QED BY <1>1, <1>2, <1>3, PTL DEF Spec, ImplementsSearch, Contract!Spec
=============================================================================
