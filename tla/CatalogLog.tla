----------------------------- MODULE CatalogLog -----------------------------
(***************************************************************************)
(* What the catalog promises its clients, with no transactions, statements  *)
(* or locks in sight: every commit takes effect at one instant, against the *)
(* state of that instant, and a feed head, once shown to a reader, closes   *)
(* the prefix below it for good.                                            *)
(***************************************************************************)
EXTENDS CatalogTypes

CONSTANT Reader

VARIABLES
    log,        \* attempt -> [id, op], for the attempts that committed
    deleted,    \* part -> the attempt that tombstoned it, or Nobody
    next,       \* lane -> next_offset of its ingest_offsets row (0: no row)
    head        \* reader -> the last feed head shown to it

vars == <<log, deleted, next, head>>

Committed == DOMAIN log

Live == {p \in Committed : log[p].op.rows # {} /\ deleted[p] = Nobody}

Init ==
    /\ log = [s \in {} |-> 0]
    /\ deleted = [p \in Attempt |-> Nobody]
    /\ next = [l \in Lane |-> 0]
    /\ head = [r \in Reader |-> 0]

(***************************************************************************)
(* The conditions an ADD, REPLACE or DELETE must meet at its instant.       *)
(***************************************************************************)
Admissible(o, i) ==
    /\ \A t \in Committed : log[t].id # i
    /\ \A r \in Reader : head[r] < i
    /\ o.key # NoKey => \A t \in Committed : log[t].op.key # o.key
    /\ o.old \subseteq Live
    /\ \A l \in Lane : o.offs[l] # NoRange => next[l] <= o.offs[l].first

Append(s, i, o) ==
    /\ s \notin Committed
    /\ Admissible(o, i)
    /\ log' = [t \in Committed \cup {s} |->
                  IF t = s THEN [id |-> i, op |-> o] ELSE log[t]]
    /\ deleted' = [p \in Attempt |-> IF p \in o.old THEN s ELSE deleted[p]]
    /\ next' = [l \in Lane |->
                  IF o.offs[l] = NoRange THEN next[l] ELSE o.offs[l].last + 1]
    /\ UNCHANGED head

\* A reader learns the highest committed id.
Observe(r) ==
    \E h \in {0} \cup {log[t].id : t \in Committed} :
        /\ \A t \in Committed : log[t].id <= h
        /\ head' = [head EXCEPT ![r] = h]
        /\ UNCHANGED <<log, deleted, next>>

\* Which entry is appended is read off the next state, so that TLC can check
\* an implementation's step against this relation without enumerating Nat.
Next ==
    \/ \E s \in Attempt :
          /\ s \in DOMAIN log'
          /\ log'[s].id \in Nat
          /\ log'[s].op \in Op
          /\ Append(s, log'[s].id, log'[s].op)
    \/ \E r \in Reader : Observe(r)

Spec == Init /\ [][Next]_vars
=============================================================================
