---------------------------- MODULE MCMvPipeline ----------------------------
(* MvPipeline on small instances. *)
EXTENDS MvPipeline, TLC

Symmetry == Permutations(Replica)
=============================================================================
