------------------------------ MODULE MCDaemon ------------------------------
(***************************************************************************)
(* An instance of Daemon for TLC: two epochs whose DAGs have one size, as  *)
(* they have when growth has saturated.                                    *)
(***************************************************************************)
EXTENDS Daemon, TLC

Epochs == {[seed |-> s, size |-> 1] : s \in {"seed0", "seed1"}}
Symmetry == Permutations(Readers)
=============================================================================
