------------------------- MODULE MCCompactionLease --------------------------
(* CompactionLease on small instances. *)
EXTENDS CompactionLease, TLC

Symmetry == Permutations(Worker) \cup Permutations(Txn)
=============================================================================
