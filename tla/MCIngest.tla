------------------------------ MODULE MCIngest ------------------------------
(* Ingest on small instances. *)
EXTENDS Ingest, TLC

Msg(p, o, k, t) == [part |-> p, off |-> o, kind |-> k, ts |-> t]

\* One process with two routes.
TwoRoutes == {<<"w", "r">>, <<"w", "q">>}

Topics == [p \in Partition |-> IF p = "b" THEN "q" ELSE "r"]

\* Two days; poison first; a gap (a compacted topic); a row, and a row that
\* cannot be encoded, that the clock makes too old; a topic without messages.
Mixed == {Msg("a", 0, "poison", 0), Msg("a", 1, "row", 1), Msg("a", 3, "row", 0),
          Msg("a", 4, "odd", 0)}

\* The first day has two L0 parts already.
TwoParts ==
    {[route |-> "r", day |-> 0, rows |-> {}, level |-> 0,
      op |-> [NoRanges EXCEPT !["b"] = [first |-> o, last |-> o]]] : o \in {0, 1}}
=============================================================================
