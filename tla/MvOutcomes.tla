----------------------------- MODULE MvOutcomes -----------------------------
(***************************************************************************)
(* What a materialized view promises of one pipeline: from the feed head at *)
(* which it was first selected, every source ADD gets exactly one outcome,  *)
(* in feed order, and an outcome never changes.                             *)
(***************************************************************************)
EXTENDS Naturals

CONSTANTS MaxCommit, Outcome, NoOutcome

VARIABLES
    head, kind,     \* the source feed: commits 1..head and their kinds
    since,          \* the head at first selection, once there is one
    outcome         \* outcome[c]: what was published for source commit c

vars == <<head, kind, since, outcome>>

Unselected == MaxCommit + 1

\* The ADD commits the pipeline answers for, up to c.
Due(c) == {b \in 1..MaxCommit : since < b /\ b <= c /\ b <= head /\ kind[b] = "add"}

Init ==
    /\ head = 0 /\ kind = [c \in 1..MaxCommit |-> "none"]
    /\ since = Unselected
    /\ outcome = [c \in 1..MaxCommit |-> NoOutcome]

Append(k) ==
    /\ head < MaxCommit
    /\ head' = head + 1
    /\ kind' = [kind EXCEPT ![head + 1] = k]
    /\ UNCHANGED <<since, outcome>>

Select ==
    /\ since = Unselected
    /\ since' = head
    /\ UNCHANGED <<head, kind, outcome>>

\* The first ADD without an outcome gets one.
Publish(c, o) ==
    /\ c \in Due(c) /\ outcome[c] = NoOutcome
    /\ \A b \in Due(c) \ {c} : outcome[b] # NoOutcome
    /\ outcome' = [outcome EXCEPT ![c] = o]
    /\ UNCHANGED <<head, kind, since>>

Next ==
    \/ \E k \in {"add", "replace"} : Append(k)
    \/ Select
    \/ \E c \in 1..MaxCommit, o \in Outcome : Publish(c, o)

Spec == Init /\ [][Next]_vars
=============================================================================
