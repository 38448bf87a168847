---------------------------- MODULE MCDiskCache ----------------------------
(* A small object that is cached whole and a large one of two chunks, under *)
(* budgets that hold the large object and nothing else, or a little more.  *)
EXTENDS DiskCache

MCSizeOf == [o \in Object |-> IF o = "small" THEN 1 ELSE 3]
MCRanges == {<<>>, <<1, 3>>}

(* The calls are interchangeable: only invariants are checked. *)
Calls == Permutations(Task)
=============================================================================
