------------------------------- MODULE Search -------------------------------
(***************************************************************************)
(* What Miner.Mine promises its caller: one answer, which is a nonce of    *)
(* the range asked for whose hash meets the target or, only when no nonce  *)
(* of that range does, that there is none.                                 *)
(***************************************************************************)
EXTENDS Integers

CONSTANT MaxNonce       \* ^uint64(0)

VARIABLES
  start,        \* the first nonce to try
  limit,        \* how many nonces to try; 0 is no limit
  solving,      \* the nonces whose hash meets the target
  answer        \* the result given to the caller

vars == <<start, limit, solving, answer>>

Nonce == 0 .. MaxNonce

\* The nonces a call asks about: no nonce follows the largest one.
InRange(n) == n \in Nonce /\ n >= start /\ (limit = 0 \/ n < start + limit)

NoAnswer == [given |-> FALSE, ok |-> FALSE, nonce |-> 0]
FoundAt(n) == [given |-> TRUE, ok |-> TRUE, nonce |-> n]
NoneFound == [given |-> TRUE, ok |-> FALSE, nonce |-> 0]

Init ==
  /\ start \in Nonce
  /\ limit \in Nonce
  /\ solving \in SUBSET Nonce
  /\ answer = NoAnswer

Answer ==
  /\ answer = NoAnswer
  /\ \/ \E n \in solving : InRange(n) /\ answer' = FoundAt(n)
     \/ (\A n \in solving : ~InRange(n)) /\ answer' = NoneFound
  /\ UNCHANGED <<start, limit, solving>>

Spec == Init /\ [][Answer]_vars

=============================================================================
