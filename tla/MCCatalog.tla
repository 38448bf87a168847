----------------------------- MODULE MCCatalog ------------------------------
(***************************************************************************)
(* Small instances of Catalog.  Offsets 0..2 of lane l1 and 0..1 of lane l2 *)
(* reach the catalog in flushes whose boundaries disagree, as they do after *)
(* a restart; one intent carries no offsets (a materialized-view ADD).      *)
(***************************************************************************)
EXTENDS Catalog, TLC, FiniteSets

CONSTANTS l1, l2, Loaded

R(a, b) == [first |-> a, last |-> b]

\* Intents: "f01" covers offsets 0..1 of l1, "f12" 1..2, "both" 0 of each
\* lane and "both1" 1 of each; "mv" and "old" cover none, and the commit row
\* of "old" predates fingerprints.
MCRanges ==
    [f01  |-> (l1 :> R(0, 1) @@ l2 :> NoRange),
     f12  |-> (l1 :> R(1, 2) @@ l2 :> NoRange),
     both |-> (l1 :> R(0, 0) @@ l2 :> R(0, 0)),
     both1 |-> (l1 :> R(1, 1) @@ l2 :> R(1, 1)),
     mv   |-> (l1 :> NoRange @@ l2 :> NoRange),
     old  |-> (l1 :> NoRange @@ l2 :> NoRange)]

MCRows ==
    [f01  |-> {<<l1, 0>>, <<l1, 1>>},
     f12  |-> {<<l1, 1>>, <<l1, 2>>},
     both |-> {<<l1, 0>>, <<l2, 0>>},
     both1 |-> {<<l1, 1>>, <<l2, 1>>},
     mv   |-> {<<"mv", 0>>},
     old  |-> {<<"old", 0>>}]

MCRow == UNION {MCRows[a] : a \in DOMAIN MCRows}
MCAddRange == [a \in Adds |-> MCRanges[a]]
MCAddRows == [a \in Adds |-> MCRows[a]]
MCVictim == {<<l1, 0>>}
MCLegacy == {[domain |-> "ingest", parts |-> {}, add |-> "old"]}
Symmetry == Permutations(Attempt \ Loaded) \cup Permutations(Reader)

(***************************************************************************)
(* A catalog that already holds the flush "f01", committed by the attempt   *)
(* in Loaded: rewrites of a live part are reached without spending an       *)
(* attempt on loading it.                                                   *)
(***************************************************************************)
MCInit ==
    /\ pc = [s \in Attempt |-> IF s \in Loaded THEN "done" ELSE "idle"]
    /\ op = [s \in Attempt |-> IF s \in Loaded THEN AddOp("f01") ELSE NoOp]
    /\ id = [s \in Attempt |-> IF s \in Loaded THEN 1 ELSE 0]
    /\ locked = [s \in Attempt |-> {}]
    /\ moved = [s \in Attempt |-> {}]
    /\ reply = [s \in Attempt |->
                  IF s \in Loaded THEN [tag |-> "committed", by |-> s] ELSE NoReply]
    /\ lookup = [s \in Attempt |-> "none"]
    /\ seq = Cardinality(Loaded)
    /\ landed = Loaded
    /\ deleted = [p \in Attempt |-> Nobody]
    /\ next = [l \in Lane |-> IF l = l1 /\ Loaded # {} THEN 2 ELSE 0]
    /\ rpc = [r \in Reader |-> "idle"]
    /\ head = [r \in Reader |-> 0]
    /\ after = [r \in Reader |-> 0]
    /\ event = [r \in Reader |-> 0]
    /\ cursor = NoCursor
    /\ settled = {}

MCSpec == MCInit /\ [][Next]_vars
=============================================================================
