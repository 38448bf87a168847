------------------------- MODULE MCObjectLifecycle --------------------------
(* ObjectLifecycle on a small instance; its cfg gives the bounds. *)
EXTENDS ObjectLifecycle
=============================================================================
