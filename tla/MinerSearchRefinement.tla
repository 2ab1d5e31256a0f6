------------------------ MODULE MinerSearchRefinement ------------------------
(***************************************************************************)
(* Miner.Mine with its concurrent workers answers as Search does, when the *)
(* backend does not fail.                                                  *)
(***************************************************************************)
EXTENDS MinerSearch

Contract == INSTANCE Search

\* Mine's answer is given once; a nonce that it reports is in the range and
\* meets the target; it reports none only when the range holds none, however
\* its workers raced and wherever the range runs into the largest nonce.
ImplementsSearch == Contract!Spec
=============================================================================
