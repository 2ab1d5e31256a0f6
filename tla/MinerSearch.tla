----------------------------- MODULE MinerSearch -----------------------------
(***************************************************************************)
(* Miner.Mine (colossusx/miner.go): goroutines that search interleaved     *)
(* nonces and a caller that waits for the first to be found.  They share   *)
(* the atomics found and totalHashes, a context and a channel of capacity  *)
(* one.  Mine returns without waiting for its workers.                     *)
(*                                                                         *)
(* The backend is one without HashBatch: every caller in the repository    *)
(* wraps it in a struct that embeds only HashBackend, which hides the      *)
(* batch method, so mineBatch is not reached.                              *)
(***************************************************************************)
EXTENDS Integers, Sequences, FiniteSets

CONSTANTS
  MaxNonce,     \* ^uint64(0)
  Workers,      \* how many goroutines search; NewMiner makes it positive
  CanFail       \* whether the backend's Hash may fail, as a device's may

ASSUME MinerAssumption ==
  MaxNonce \in Nat /\ Workers \in Nat \ {0} /\ CanFail \in BOOLEAN

Worker == 0 .. Workers - 1
Nonce == 0 .. MaxNonce

VARIABLES
  start, limit, \* the arguments startNonce and maxNonces
  solving,      \* the nonces whose hash is at most the target
  pc,           \* the statement each worker is at
  nonce,        \* the nonce each worker tries next, or is trying
  meets,        \* whether the digest each worker holds is at most the target
  found, cancelled, totalHashes,
  channel,      \* what resultCh holds
  closed,       \* whether resultCh is closed
  main,         \* the statement Mine itself is at
  message,      \* the nonce that Mine has received
  answer,       \* what Mine returned
  hashes,       \* MineResult.Hashes
  tried         \* history: the nonces that each worker has hashed

callVars == <<start, limit, solving>>
workVars == <<nonce, meets, tried, totalHashes>>
mainVars == <<main, message, answer, hashes>>
vars == <<callVars, pc, workVars, found, cancelled, channel, closed, mainVars>>

NoAnswer == [given |-> FALSE, ok |-> FALSE, nonce |-> 0]
FoundAt(n) == [given |-> TRUE, ok |-> TRUE, nonce |-> n]
NoneFound == [given |-> TRUE, ok |-> FALSE, nonce |-> 0]

Init ==
  /\ start \in Nonce
  /\ limit \in Nonce
  /\ solving \in SUBSET Nonce
  /\ pc = [w \in Worker |-> "start"]
  /\ nonce = [w \in Worker |-> start]
  /\ meets = [w \in Worker |-> FALSE]
  /\ found = FALSE /\ cancelled = FALSE /\ closed = FALSE
  /\ channel = <<>>
  /\ main = "wait"
  /\ message = start
  /\ answer = NoAnswer
  /\ totalHashes = 0 /\ hashes = 0
  /\ tried = [w \in Worker |-> {}]

-----------------------------------------------------------------------------
At(w, here) == pc[w] = here
GoTo(w, there) == pc' = [pc EXCEPT ![w] = there]

\* Mutant: the addition wraps.
AlwaysFits(n, delta) == TRUE

\* AddUint64: there is no nonce beyond the largest one.
Fits(n, delta) == MaxNonce - n >= delta

\* Worker w goes on to the nonce delta further, or stops if there is none.
Advance(w, delta) ==
  /\ nonce' = [nonce EXCEPT ![w] = IF Fits(@, delta) THEN @ + delta ELSE @]
  /\ GoTo(w, IF Fits(nonce[w], delta) THEN "check" ELSE "done")

\* Mutant: the workers' nonces overlap.
NextNonce == 1

\* How far apart the nonces of one worker are.
Stride == Workers

Begin(w) ==
  /\ At(w, "start")
  /\ Advance(w, w)
  /\ UNCHANGED <<callVars, meets, tried, totalHashes, found, cancelled,
                 channel, closed, mainVars>>

\* Mutant: the last nonce of the range is left out.
ExhaustedEarly(n) == limit > 0 /\ n - start >= limit - 1

\* The nonces asked for have all been tried, as far as w has to try them.
Exhausted(n) == limit > 0 /\ n - start >= limit

\* Mutant: a worker does not look whether the search is over.
NeverStopped == FALSE

Stopped == cancelled \/ found

Check(w) ==
  /\ At(w, "check")
  /\ GoTo(w, IF Stopped \/ Exhausted(nonce[w]) THEN "done" ELSE "hash")
  /\ UNCHANGED <<callVars, workVars, found, cancelled, channel, closed, mainVars>>

\* A backend that fails has no error to return here: it returns the digest of
\* zeros, which is at most any target.
Digest(n) == {n \in solving} \cup (IF CanFail THEN {TRUE} ELSE {})

Hash(w) ==
  /\ At(w, "hash")
  /\ \E m \in Digest(nonce[w]) : meets' = [meets EXCEPT ![w] = m]
  /\ tried' = [tried EXCEPT ![w] = @ \cup {nonce[w]}]
  /\ GoTo(w, "count")
  /\ UNCHANGED <<callVars, nonce, totalHashes, found, cancelled, channel, closed,
                 mainVars>>

\* totalHashes.Add, the comparison with the target and the next nonce.
Count(w) ==
  /\ At(w, "count")
  /\ totalHashes' = totalHashes + 1
  /\ IF meets[w]
     THEN GoTo(w, "claim") /\ UNCHANGED nonce
     ELSE Advance(w, Stride)
  /\ UNCHANGED <<callVars, meets, tried, found, cancelled, channel, closed,
                 mainVars>>

\* Mutant: found is stored, not compared and swapped.
ClaimAnyway(w) ==
  /\ At(w, "claim")
  /\ found' = TRUE
  /\ GoTo(w, "send")
  /\ UNCHANGED <<callVars, workVars, cancelled, channel, closed, mainVars>>

\* found.CompareAndSwap: only one worker wins.
Claim(w) ==
  /\ At(w, "claim")
  /\ found' = TRUE
  /\ GoTo(w, IF found THEN "done" ELSE "send")
  /\ UNCHANGED <<callVars, workVars, cancelled, channel, closed, mainVars>>

Send(w) ==
  /\ At(w, "send")
  /\ Len(channel) < 1
  /\ channel' = Append(channel, nonce[w])
  /\ GoTo(w, "cancel")
  /\ UNCHANGED <<callVars, workVars, found, cancelled, closed, mainVars>>

Cancel(w) ==
  /\ At(w, "cancel")
  /\ cancelled' = TRUE
  /\ GoTo(w, "done")
  /\ UNCHANGED <<callVars, workVars, found, channel, closed, mainVars>>

WorkerStep(w) ==
  \/ Begin(w) \/ Check(w) \/ Hash(w) \/ Count(w)
  \/ Claim(w) \/ Send(w) \/ Cancel(w)

\* wg.Wait, then close(resultCh).
Close ==
  /\ \A w \in Worker : At(w, "done")
  /\ ~closed
  /\ closed' = TRUE
  /\ UNCHANGED <<callVars, pc, workVars, found, cancelled, channel, mainVars>>

-----------------------------------------------------------------------------
Receive ==
  /\ main = "wait" /\ channel # <<>>
  /\ message' = Head(channel)
  /\ channel' = Tail(channel)
  /\ main' = "count"
  /\ UNCHANGED <<callVars, pc, workVars, found, cancelled, closed, answer, hashes>>

\* The deferred cancel runs when Mine returns.
ReturnFound ==
  /\ main = "count"
  /\ hashes' = totalHashes
  /\ answer' = FoundAt(message)
  /\ main' = "returned"
  /\ cancelled' = TRUE
  /\ UNCHANGED <<callVars, pc, workVars, found, channel, closed, message>>

ReturnNotFound ==
  /\ main = "wait" /\ channel = <<>> /\ closed
  /\ answer' = NoneFound
  /\ main' = "returned"
  /\ cancelled' = TRUE
  /\ UNCHANGED <<callVars, pc, workVars, found, channel, closed, message, hashes>>

MainStep == Receive \/ ReturnFound \/ ReturnNotFound

\* Nothing is left to do: Mine has returned and its goroutines have ended.
Terminated ==
  /\ main = "returned" /\ closed
  /\ UNCHANGED vars

Next == (\E w \in Worker : WorkerStep(w)) \/ Close \/ MainStep \/ Terminated

Spec == Init /\ [][Next]_vars

\* Goroutines are scheduled preemptively, and no statement above waits for
\* anything but what its guard names.
FairSpec ==
  /\ Spec
  /\ \A w \in Worker : WF_vars(WorkerStep(w))
  /\ WF_vars(Close)
  /\ WF_vars(MainStep)

-----------------------------------------------------------------------------
Statement == {"start", "check", "hash", "count", "claim", "send", "cancel", "done"}

\* The types of Mine's variables (colossusx/miner.go).
TypeOK ==
  /\ start \in Nonce /\ limit \in Nonce /\ solving \subseteq Nonce
  /\ pc \in [Worker -> Statement]
  /\ nonce \in [Worker -> Nonce]
  /\ meets \in [Worker -> BOOLEAN]
  /\ found \in BOOLEAN /\ cancelled \in BOOLEAN /\ closed \in BOOLEAN
  /\ totalHashes \in Nat /\ hashes \in Nat
  /\ channel \in Seq(Nonce)
  /\ main \in {"wait", "count", "returned"}
  /\ message \in Nonce
  /\ answer \in [given : BOOLEAN, ok : BOOLEAN, nonce : Nonce]
  /\ tried \in [Worker -> SUBSET Nonce]

\* No two workers, and no worker twice, spend a hash on the same nonce, and
\* totalHashes misses none but those that are just being added to it.
EachNonceOnce ==
  totalHashes + Cardinality({w \in Worker : At(w, "count")})
    = Cardinality(UNION {tried[w] : w \in Worker})

\* The MineResult.Hashes that Mine reports counts the hash that was found,
\* and what its workers still add after that is at most one hash each for
\* the others: the hash rate printed from it is off by no more.
HashesNearlyExact ==
  answer.ok => /\ hashes >= 1
               /\ totalHashes - hashes <= Workers - 1

\* Mine returns and all its goroutines end, whatever finds what first: none
\* is left behind in a send to a channel that nobody reads any more.
SearchEnds == <>(main = "returned" /\ closed)

=============================================================================
