------------------------------ MODULE MCLadder ------------------------------
(* Small instance of Ladder for TLC. *)
EXTENDS Ladder

\* Two L0 files, the first of two tenants, the second of one.  The compactors
\* are alike and one fault is allowed, so it is enough that c1 may have it.
MCKeys == <<{1, 2}, {1}>>
=============================================================================
