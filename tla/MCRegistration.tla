--------------------------- MODULE MCRegistration ---------------------------
(* Three processes.  All create the same two tables, in opposite orders and *)
(* with different schemas and placements.  Two define pipelines that would *)
(* close a cycle, the third redefines one of them.                         *)
EXTENDS Registration

T(name, schema, place, ns) == [name |-> name, schema |-> schema, place |-> place, ns |-> ns]
P(name, src, tgt, sql) == [name |-> name, src |-> src, tgt |-> tgt, sql |-> sql]

MCConfig ==
  [h \in Host |->
     CASE h = "h1" -> [tables |-> <<T("a", "s1", "separated", <<1, 2>>), T("b", "s1", "packed", <<>>)>>,
                       pipelines |-> <<P("ab", "a", "b", "q1")>>]
       [] h = "h2" -> [tables |-> <<T("b", "s1", "packed", <<>>), T("a", "s2", "packed", <<1, 2>>)>>,
                       pipelines |-> <<P("ba", "b", "a", "q1")>>]
       [] h = "h3" -> [tables |-> <<T("b", "s1", "packed", <<>>)>>,
                       pipelines |-> <<P("ab", "a", "b", "q2")>>]]
=============================================================================
