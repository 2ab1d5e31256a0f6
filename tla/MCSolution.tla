----------------------------- MODULE MCSolution -----------------------------
(***************************************************************************)
(* An instance of Solution for TLC: hashes that depend on all that was     *)
(* mixed in, by its sum.                                                   *)
(***************************************************************************)
EXTENDS Solution, TLC

\* A header and a nonce, and then nodes.
Word(mix, i) == IF i <= 2 THEN mix[i] ELSE mix[i][1]

Total(mix) ==
  LET sum[i \in 0..Len(mix)] == IF i = 0 THEN 0 ELSE sum[i - 1] + i * Word(mix, i)
  IN  sum[Len(mix)]

PickBySum(round, mix) == Total(mix) + 3 * round
AuditBySum(mix, i) == 2 * Total(mix) + 5 * i
Even(mix) == Total(mix) % 2 = 0
=============================================================================
