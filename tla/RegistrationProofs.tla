------------------------ MODULE RegistrationProofs -------------------------
(***************************************************************************)
(* Registration, for any number of processes and any configurations: the   *)
(* pipelines stay acyclic, a process that is up finds its configuration in *)
(* the catalog, and what exists is never altered.                          *)
(*                                                                         *)
(* The argument: only the holder of the advisory lock is between looking a *)
(* pipeline up and inserting it (Critical), so what the cycle query saw is *)
(* still true at the insert (Checked), and an edge whose source cannot be  *)
(* reached from its target closes no cycle (AddedEdge).  The catalog only  *)
(* grows, so what a process has walked past stays registered (Progress).   *)
(* Only the creator of a table is about to place it (Placing).             *)
(***************************************************************************)
EXTENDS Registration, TLAPS

Critical == \A h \in Host : pc[h] \in {"name", "graph", "insert"} => lock = h

Checked ==
  \A h \in Host : pc[h] = "insert" =>
    PipelineOf(h).src \notin Reachable(PipelineOf(h).tgt, pipelines)

TableDone(h, i) ==
  /\ Registered(Tables(h)[i].name)
  /\ \A j \in DOMAIN Tables(h)[i].ns : <<Tables(h)[i].ns[j], Tables(h)[i].name>> \in logical

(* What process h has applied of the table it is on. *)
TableBegun(h) ==
  /\ Registered(TableOf(h).name)
  /\ \A j \in DOMAIN TableOf(h).ns :
       \/ <<TableOf(h).ns[j], TableOf(h).name>> \in logical
       \/ \E k \in DOMAIN left[h] : left[h][k] = TableOf(h).ns[j]

Progress(h) ==
  /\ pc[h] \in TablePhase => \A i \in DOMAIN Tables(h) : i < at[h] => TableDone(h, i)
  /\ pc[h] \in {"place", "namespace", "logical"} => TableBegun(h)
  /\ pc[h] = "logical" => left[h] # <<>>
  /\ pc[h] \in PipelinePhase \cup {"up"} => \A i \in DOMAIN Tables(h) : TableDone(h, i)
  /\ pc[h] \in PipelinePhase =>
       \A i \in DOMAIN Pipelines(h) : i < at[h] => Pipelines(h)[i] \in pipelines
  /\ pc[h] = "up" => \A i \in DOMAIN Pipelines(h) : Pipelines(h)[i] \in pipelines

Walked == \A h \in Host : Progress(h)

UniqueNames == \A r, q \in hypertables : r.name = q.name => r = q

Placing ==
  \A h \in Host : pc[h] = "place" =>
    /\ \A r \in hypertables : r.name = TableOf(h).name => r.place = Packed
    /\ \A g \in Host \ {h} : pc[g] = "place" => TableOf(g).name # TableOf(h).name

RegistrationInv ==
  TypeOK /\ Critical /\ Checked /\ PipelinesAcyclic /\ Walked /\ UniqueNames /\ Placing

-----------------------------------------------------------------------------
(* The pipeline graph. *)

(* Reachable is a set of tables that holds its start and is closed. *)
LEMMA ReachableClosed ==
  ASSUME NEW t \in Table, NEW P \in SUBSET PipelineDef
  PROVE  /\ Reachable(t, P) \in SUBSET Table /\ t \in Reachable(t, P)
         /\ ClosedUnder(Reachable(t, P), P)
<1>1. \A p \in P : p.src \in Table /\ p.tgt \in Table
  BY Zenon DEF PipelineDef
<1>2. ASSUME NEW p \in P, p.src \in Reachable(t, P) PROVE p.tgt \in Reachable(t, P)
  <2>1. ASSUME NEW S \in SUBSET Table, t \in S, ClosedUnder(S, P) PROVE p.tgt \in S
    BY <1>2, <2>1, Zenon DEF Reachable, ClosedUnder
  <2> QED BY <1>1, <2>1, Zenon DEF Reachable
<1> QED BY <1>2, Zenon DEF Reachable, ClosedUnder

(* ... and the least one. *)
LEMMA ReachableLeast ==
  ASSUME NEW t, NEW P, NEW S \in SUBSET Table, t \in S, ClosedUnder(S, P)
  PROVE  Reachable(t, P) \subseteq S
BY Zenon DEF Reachable

(* The check of ensure_pipeline suffices: an edge whose source its target   *)
(* does not reach closes no cycle.                                         *)
LEMMA AddedEdge ==
  ASSUME NEW P \in SUBSET PipelineDef, NEW d \in PipelineDef,
         \A p \in P : p.src \notin Reachable(p.tgt, P),
         d.src \notin Reachable(d.tgt, P)
  PROVE  \A p \in P \cup {d} : p.src \notin Reachable(p.tgt, P \cup {d})
<1> DEFINE Q == P \cup {d}
<1>1. \A p \in Q : p.src \in Table /\ p.tgt \in Table
  BY Zenon DEF PipelineDef
<1>2. ClosedUnder(Reachable(d.tgt, P), Q)
  BY <1>1, ReachableClosed, Zenon DEF ClosedUnder
<1>3. d.src \notin Reachable(d.tgt, Q)
  BY <1>1, <1>2, ReachableClosed, ReachableLeast, Zenon
<1>4. ASSUME NEW p \in P PROVE p.src \notin Reachable(p.tgt, Q)
  <2> DEFINE B == Reachable(p.tgt, P)
             C == Reachable(d.tgt, P)
  <2>1. /\ B \in SUBSET Table /\ C \in SUBSET Table /\ p.tgt \in B /\ d.tgt \in C
        /\ ClosedUnder(B, P) /\ ClosedUnder(C, P)
    BY <1>1, ReachableClosed, Zenon
  <2>2. CASE d.src \notin B
    <3>1. ClosedUnder(B, Q) BY <2>1, <2>2, Zenon DEF ClosedUnder
    <3> QED BY <2>1, <3>1, ReachableLeast, Zenon
  <2>3. CASE d.src \in B
    <3>1. ClosedUnder(B \cup C, Q) BY <2>1, Zenon DEF ClosedUnder
    <3>2. p.src \notin C
      <4> SUFFICES ASSUME p.src \in C PROVE FALSE BY Zenon
      <4>1. p.tgt \in C BY <2>1, Zenon DEF ClosedUnder
      <4>2. B \subseteq C BY <2>1, <4>1, ReachableLeast, Zenon
      <4> QED BY <2>3, <4>2, Zenon
    <3>3. Reachable(p.tgt, Q) \subseteq B \cup C
      <4>1. B \cup C \in SUBSET Table /\ p.tgt \in B \cup C BY <2>1, Zenon
      <4>2. \A S \in SUBSET Table :
              p.tgt \in S /\ ClosedUnder(S, Q) => Reachable(p.tgt, Q) \subseteq S
        BY ReachableLeast, Zenon
      <4> HIDE DEF B, C, Q
      <4> QED BY <3>1, <4>1, <4>2, Zenon
    <3> QED BY <3>2, <3>3, Zenon
  <2> QED BY <2>2, <2>3, Zenon
<1> QED BY <1>3, <1>4, Zenon

-----------------------------------------------------------------------------
(* What the configurations hold. *)
LEMMA ConfigTyped ==
  ASSUME NEW h \in Host
  PROVE  /\ Tables(h) \in Seq(TableDef) /\ Pipelines(h) \in Seq(PipelineDef)
         /\ Len(Tables(h)) \in Nat /\ DOMAIN Tables(h) = 1..Len(Tables(h))
         /\ Len(Pipelines(h)) \in Nat /\ DOMAIN Pipelines(h) = 1..Len(Pipelines(h))
         /\ \A i \in 1..Len(Tables(h)) :
              /\ Tables(h)[i].name \in Table /\ Tables(h)[i].schema \in Schema
              /\ Tables(h)[i].place \in Place /\ Tables(h)[i].ns \in Seq(Namespace)
         /\ \A i \in 1..Len(Pipelines(h)) : Pipelines(h)[i] \in PipelineDef
<1>1. Tables(h) \in Seq(TableDef) /\ Pipelines(h) \in Seq(PipelineDef)
  BY RegistrationAssumption, Zenon DEF Tables, Pipelines
<1>2. /\ Len(Tables(h)) \in Nat /\ DOMAIN Tables(h) = 1..Len(Tables(h))
      /\ Len(Pipelines(h)) \in Nat /\ DOMAIN Pipelines(h) = 1..Len(Pipelines(h))
  BY <1>1
<1>3. \A i \in 1..Len(Tables(h)) : Tables(h)[i] \in TableDef BY <1>1
<1>4. \A i \in 1..Len(Pipelines(h)) : Pipelines(h)[i] \in PipelineDef BY <1>1
<1>5. \A t \in TableDef : /\ t.name \in Table /\ t.schema \in Schema
                          /\ t.place \in Place /\ t.ns \in Seq(Namespace)
  BY Zenon DEF TableDef
<1> QED BY <1>1, <1>2, <1>3, <1>4, <1>5, Zenon

-----------------------------------------------------------------------------
(* One step of a process. *)

Step(h) == HostStep(h) \/ LoseConnection(h) \/ Kill(h)

Labels == {"down", "up", "failed"} \cup TablePhase \cup PipelinePhase

Within(h) ==
  /\ pc[h] \in TablePhase => at[h] <= Len(Tables(h))
  /\ pc[h] \in PipelinePhase => at[h] <= Len(Pipelines(h))

ProcTypeOK ==
  /\ pc \in [Host -> Labels] /\ at \in [Host -> Nat \ {0}]
  /\ \A h \in Host : Within(h)
  /\ left \in [Host -> Seq(Namespace)]

(* A step of process h leaves the others where they are. *)
Local(h) ==
  \A g \in Host \ {h} : pc'[g] = pc[g] /\ at'[g] = at[g] /\ left'[g] = left[g]

(* Where FromTable and FromPipeline lead. *)
LEMMA FromTableLeads ==
  ASSUME TypeOK, NEW h \in Host, NEW i \in Nat \ {0}, FromTable(h, i)
  PROVE  /\ pc' \in [Host -> Labels] /\ at' \in [Host -> Nat \ {0}]
         /\ \A g \in Host \ {h} : pc'[g] = pc[g] /\ at'[g] = at[g]
         /\ Within(h)'
         /\ \/ pc'[h] = "table" /\ at'[h] = i /\ i <= Len(Tables(h))
            \/ pc'[h] = "up" /\ i > Len(Tables(h)) /\ Pipelines(h) = <<>>
            \/ pc'[h] = "endpoints" /\ at'[h] = 1 /\ i > Len(Tables(h))
<1>1. pc \in [Host -> Labels] /\ at \in [Host -> Nat \ {0}]
  BY Zenon DEF TypeOK, Labels
<1>2. Len(Tables(h)) \in Nat /\ Len(Pipelines(h)) \in Nat /\ Pipelines(h) \in Seq(PipelineDef)
  BY ConfigTyped, Zenon
<1>3. Pipelines(h) # <<>> => 1 <= Len(Pipelines(h)) BY <1>2
<1>4. CASE i <= Len(Tables(h))
  BY <1>1, <1>2, <1>4, Zenon
  DEF FromTable, Goto, Labels, Within, TablePhase, PipelinePhase, Tables, Pipelines
<1>5. CASE ~(i <= Len(Tables(h)))
  BY <1>1, <1>2, <1>3, <1>5
  DEF FromTable, Goto, Labels, Within, TablePhase, PipelinePhase, Tables, Pipelines
<1> QED BY <1>4, <1>5, Zenon

\* Where the walk over the pipelines stands after its i-th step.
LEMMA FromPipelineLeads ==
  ASSUME TypeOK, NEW h \in Host, NEW i \in Nat \ {0}, FromPipeline(h, i)
  PROVE  /\ pc' \in [Host -> Labels] /\ at' \in [Host -> Nat \ {0}]
         /\ \A g \in Host \ {h} : pc'[g] = pc[g] /\ at'[g] = at[g]
         /\ Within(h)'
         /\ \/ pc'[h] = "endpoints" /\ at'[h] = i /\ i <= Len(Pipelines(h))
            \/ pc'[h] = "up" /\ i > Len(Pipelines(h))
<1>1. pc \in [Host -> Labels] /\ at \in [Host -> Nat \ {0}]
  BY Zenon DEF TypeOK, Labels
<1>2. Len(Pipelines(h)) \in Nat
  BY ConfigTyped, Zenon
<1>3. CASE i <= Len(Pipelines(h))
  BY <1>1, <1>2, <1>3, Zenon
  DEF FromPipeline, Goto, Labels, Within, TablePhase, PipelinePhase, Pipelines
<1>4. CASE ~(i <= Len(Pipelines(h)))
  BY <1>1, <1>2, <1>4
  DEF FromPipeline, Goto, Labels, Within, TablePhase, PipelinePhase, Pipelines
<1> QED BY <1>3, <1>4, Zenon

(* The processes stay typed, and only one of them moves. *)
LEMMA ProcStep ==
  ASSUME TypeOK, Walked, NEW h \in Host, Step(h)
  PROVE  ProcTypeOK' /\ Local(h)
<1>1. /\ pc \in [Host -> Labels] /\ at \in [Host -> Nat \ {0}]
      /\ left \in [Host -> Seq(Namespace)] /\ \A g \in Host : Within(g)
  BY Zenon DEF TypeOK, Labels, Within
<1>2. SUFFICES /\ pc' \in [Host -> Labels] /\ at' \in [Host -> Nat \ {0}]
               /\ left' \in [Host -> Seq(Namespace)]
               /\ Within(h)' /\ Local(h)
  BY <1>1, ZenonT(30) DEF ProcTypeOK, Local, Within, Tables, Pipelines
<1>3. ASSUME NEW l \in Labels, Goto(h, l), UNCHANGED at,
             l \in TablePhase => pc[h] \in TablePhase,
             l \in PipelinePhase => pc[h] \in PipelinePhase
      PROVE  /\ pc' \in [Host -> Labels] /\ at' \in [Host -> Nat \ {0}]
             /\ Within(h)' /\ pc'[h] = l
             /\ \A g \in Host \ {h} : pc'[g] = pc[g] /\ at'[g] = at[g]
  <2>1. pc' \in [Host -> Labels] /\ pc'[h] = l /\ at' = at
        /\ \A g \in Host \ {h} : pc'[g] = pc[g]
    BY <1>1, <1>3, Zenon DEF Goto
  <2>2. Within(h)' BY <1>1, <1>3, <2>1, Zenon DEF Within, Tables, Pipelines
  <2> QED BY <1>1, <2>1, <2>2, Zenon
<1>4. ASSUME NEW s \in Seq(Namespace), left' = [left EXCEPT ![h] = s]
      PROVE  left' \in [Host -> Seq(Namespace)] /\ \A g \in Host \ {h} : left'[g] = left[g]
  BY <1>1, <1>4, Zenon
<1>5. ASSUME UNCHANGED left
      PROVE  left' \in [Host -> Seq(Namespace)] /\ \A g \in Host \ {h} : left'[g] = left[g]
  BY <1>1, <1>5, Zenon
<1>6. pc[h] \in TablePhase => TableOf(h).ns \in Seq(Namespace)
  <2>1. pc[h] \in TablePhase => at[h] \in 1..Len(Tables(h))
    BY <1>1, ConfigTyped DEF Within
  <2> QED BY <2>1, ConfigTyped, Zenon DEF TableOf
<1>7. CASE Start(h)
  <2>1. FromTable(h, 1) /\ UNCHANGED left BY <1>7, Zenon DEF Start
  <2> QED BY <2>1, <1>5, FromTableLeads DEF Local
<1>8. CASE GetHypertable(h)
  <2>0. pc[h] = "table" /\ pc[h] \in TablePhase /\ UNCHANGED at
    BY <1>8, Zenon DEF GetHypertable, TablePhase
  <2>1. CASE Registered(TableOf(h).name)
    <3>1. Goto(h, "namespace") /\ left' = [left EXCEPT ![h] = TableOf(h).ns]
      BY <1>8, <2>1, Zenon DEF GetHypertable
    <3> QED BY <1>3, <1>4, <1>6, <2>0, <3>1, ZenonT(30)
               DEF Local, Labels, TablePhase, PipelinePhase
  <2>2. CASE ~Registered(TableOf(h).name)
    <3>1. Goto(h, "create") /\ UNCHANGED left
      BY <1>8, <2>2, Zenon DEF GetHypertable
    <3> QED BY <1>3, <1>5, <2>0, <3>1, Zenon DEF Local, Labels, TablePhase, PipelinePhase
  <2> QED BY <2>1, <2>2, Zenon
<1>9. ASSUME Refuse(h)
      PROVE  /\ pc' \in [Host -> Labels] /\ at' \in [Host -> Nat \ {0}]
             /\ left' \in [Host -> Seq(Namespace)] /\ Within(h)' /\ Local(h)
  <2>1. Goto(h, "failed") /\ UNCHANGED at /\ UNCHANGED left BY <1>9, Zenon DEF Refuse
  <2> QED BY <1>3, <1>5, <2>1, Zenon DEF Local, Labels, TablePhase, PipelinePhase
<1>10. CASE CreateHypertable(h)
  <2>0. pc[h] \in TablePhase BY <1>10, Zenon DEF CreateHypertable, TablePhase
  <2>1. CASE Refuse(h) BY <1>9, <2>1, Zenon
  <2>2. CASE ~Refuse(h)
    <3>1. /\ left' = [left EXCEPT ![h] = TableOf(h).ns] /\ UNCHANGED at
          /\ Goto(h, "namespace") \/ Goto(h, "place")
      BY <1>10, <2>2, Zenon DEF CreateHypertable
    <3> QED BY <1>3, <1>4, <1>6, <2>0, <3>1, ZenonT(30)
               DEF Local, Labels, TablePhase, PipelinePhase
  <2> QED BY <2>1, <2>2, Zenon
<1>11. CASE SetPlacement(h)
  <2>1. pc[h] \in TablePhase /\ Goto(h, "namespace") /\ UNCHANGED at /\ UNCHANGED left
    BY <1>11, Zenon DEF SetPlacement, TablePhase
  <2> QED BY <1>3, <1>5, <2>1, Zenon DEF Local, Labels, TablePhase, PipelinePhase
<1>12. CASE GetLogicalTable(h)
  <2>0. pc[h] \in TablePhase BY <1>12, Zenon DEF GetLogicalTable, TablePhase
  <2>1. CASE FromTable(h, at[h] + 1) /\ UNCHANGED left
    <3>1. at[h] + 1 \in Nat \ {0} BY <1>1
    <3> QED BY <1>5, <2>1, <3>1, FromTableLeads, Zenon DEF Local
  <2>2. CASE left[h] # <<>> /\ UNCHANGED at /\ UNCHANGED pc /\ left' = [left EXCEPT ![h] = Tail(@)]
    <3>1. Tail(left[h]) \in Seq(Namespace) BY <1>1, <2>2
    <3>2. Within(h)' BY <1>1, <2>2, Zenon DEF Within, Tables, Pipelines
    <3> QED BY <1>1, <1>4, <2>2, <3>1, <3>2, Zenon DEF Local
  <2>3. CASE Goto(h, "logical") /\ UNCHANGED left /\ UNCHANGED at
    BY <1>3, <1>5, <2>0, <2>3, Zenon DEF Local, Labels, TablePhase, PipelinePhase
  <2> QED BY <1>12, <2>1, <2>2, <2>3, Zenon DEF GetLogicalTable
<1>13. CASE CreateLogicalTable(h)
  <2>0. pc[h] \in TablePhase BY <1>13, Zenon DEF CreateLogicalTable, TablePhase
  <2>1. CASE Refuse(h) BY <1>9, <2>1, Zenon
  <2>2. CASE ~Refuse(h)
    <3>1. left' = [left EXCEPT ![h] = Tail(@)] /\ UNCHANGED at /\ Goto(h, "namespace")
      BY <1>13, <2>2, Zenon DEF CreateLogicalTable
    <3>2. left[h] # <<>> BY <1>13, Zenon DEF CreateLogicalTable, Walked, Progress
    <3>3. Tail(left[h]) \in Seq(Namespace) BY <1>1, <3>2
    <3> QED BY <1>3, <1>4, <2>0, <3>1, <3>3, ZenonT(30)
               DEF Local, Labels, TablePhase, PipelinePhase
  <2> QED BY <2>1, <2>2, Zenon
<1>14. CASE GetEndpoints(h)
  <2>0. pc[h] \in PipelinePhase BY <1>14, Zenon DEF GetEndpoints, PipelinePhase
  <2>1. CASE Refuse(h) BY <1>9, <2>1, Zenon
  <2>2. CASE ~Refuse(h)
    <3>1. Goto(h, "lock") /\ UNCHANGED at /\ UNCHANGED left
      BY <1>14, <2>2, Zenon DEF GetEndpoints
    <3> QED BY <1>3, <1>5, <2>0, <3>1, Zenon DEF Local, Labels, TablePhase, PipelinePhase
  <2> QED BY <2>1, <2>2, Zenon
<1>15. CASE Lock(h)
  <2>1. pc[h] \in PipelinePhase /\ Goto(h, "name") /\ UNCHANGED at /\ UNCHANGED left
    BY <1>15, Zenon DEF Lock, PipelinePhase
  <2> QED BY <1>3, <1>5, <2>1, Zenon DEF Local, Labels, TablePhase, PipelinePhase
<1>16. CASE FindByName(h)
  <2>0. pc[h] \in PipelinePhase BY <1>16, Zenon DEF FindByName, PipelinePhase
  <2>1. CASE Refuse(h) BY <1>9, <2>1, Zenon
  <2>2. CASE Goto(h, "graph") /\ UNCHANGED at /\ UNCHANGED left
    BY <1>3, <1>5, <2>0, <2>2, Zenon DEF Local, Labels, TablePhase, PipelinePhase
  <2>3. CASE FromPipeline(h, at[h] + 1) /\ UNCHANGED left
    <3>1. at[h] + 1 \in Nat \ {0} BY <1>1
    <3> QED BY <1>5, <2>3, <3>1, FromPipelineLeads, Zenon DEF Local
  <2> QED BY <1>16, <2>1, <2>2, <2>3, Zenon DEF FindByName
<1>17. CASE CheckGraph(h)
  <2>0. pc[h] \in PipelinePhase BY <1>17, Zenon DEF CheckGraph, PipelinePhase
  <2>1. CASE Refuse(h) BY <1>9, <2>1, Zenon
  <2>2. CASE ~Refuse(h)
    <3>1. Goto(h, "insert") /\ UNCHANGED at /\ UNCHANGED left
      BY <1>17, <2>2, Zenon DEF CheckGraph
    <3> QED BY <1>3, <1>5, <2>0, <3>1, Zenon DEF Local, Labels, TablePhase, PipelinePhase
  <2> QED BY <2>1, <2>2, Zenon
<1>18. CASE InsertPipeline(h)
  <2>1. at[h] + 1 \in Nat \ {0} BY <1>1
  <2>2. FromPipeline(h, at[h] + 1) /\ UNCHANGED left BY <1>18, Zenon DEF InsertPipeline
  <2> QED BY <1>5, <2>1, <2>2, FromPipelineLeads, Zenon DEF Local
<1>19. CASE LoseConnection(h)
  <2>1. (FromTable(h, 1) \/ FromPipeline(h, 1)) /\ UNCHANGED left
    BY <1>19, Zenon DEF LoseConnection
  <2> QED BY <1>5, <2>1, FromTableLeads, FromPipelineLeads DEF Local
<1>20. CASE Kill(h)
  <2>1. Goto(h, "down") /\ UNCHANGED at /\ UNCHANGED left BY <1>20, Zenon DEF Kill
  <2> QED BY <1>3, <1>5, <2>1, Zenon DEF Local, Labels, TablePhase, PipelinePhase
<1> QED
  BY <1>7, <1>8, <1>10, <1>11, <1>12, <1>13, <1>14, <1>15, <1>16, <1>17, <1>18, <1>19,
     <1>20, Zenon
  DEF Step, HostStep

-----------------------------------------------------------------------------
(* What a step does to the catalog. *)

(* Hypertables are untouched, or one is created, or one is placed. *)
LEMMA TableRows ==
  ASSUME NEW h \in Host, Step(h)
  PROVE  \/ UNCHANGED hypertables
         \/ CreateHypertable(h) /\ pc[h] = "create" /\ ~Registered(TableOf(h).name)
            /\ hypertables' = hypertables \cup
                 {[name |-> TableOf(h).name, schema |-> TableOf(h).schema, place |-> Packed]}
         \/ SetPlacement(h)
BY Zenon
DEF Step, HostStep, Start, GetHypertable, CreateHypertable, GetLogicalTable, CreateLogicalTable,
    GetEndpoints, Lock, FindByName, CheckGraph, InsertPipeline, LoseConnection, Kill

(* A logical table is added, and a pipeline only by its checked insert. *)
LEMMA OtherRows ==
  ASSUME NEW h \in Host, Step(h)
  PROVE  /\ \/ UNCHANGED logical
            \/ CreateLogicalTable(h) /\ logical' = logical \cup {<<Head(left[h]), TableOf(h).name>>}
         /\ \/ UNCHANGED pipelines
            \/ pc[h] = "insert" /\ pipelines' = pipelines \cup {PipelineOf(h)}
<1>1. \/ UNCHANGED logical
      \/ CreateLogicalTable(h) /\ logical' = logical \cup {<<Head(left[h]), TableOf(h).name>>}
  BY Zenon
  DEF Step, HostStep, Start, GetHypertable, CreateHypertable, SetPlacement, GetLogicalTable,
      CreateLogicalTable, GetEndpoints, Lock, FindByName, CheckGraph, InsertPipeline,
      LoseConnection, Kill
<1>2. \/ UNCHANGED pipelines
      \/ pc[h] = "insert" /\ pipelines' = pipelines \cup {PipelineOf(h)}
  BY Zenon
  DEF Step, HostStep, Start, GetHypertable, CreateHypertable, SetPlacement, GetLogicalTable,
      CreateLogicalTable, GetEndpoints, Lock, FindByName, CheckGraph, InsertPipeline,
      LoseConnection, Kill
<1> QED BY <1>1, <1>2, Zenon

(* Every step keeps the type invariant. *)
LEMMA TypeKept ==
  ASSUME TypeOK, Walked, NEW h \in Host, Step(h)
  PROVE  TypeOK'
<1>1. ProcTypeOK' BY ProcStep, Zenon
<1>2. /\ pc[h] \in TablePhase => at[h] \in DOMAIN Tables(h)
      /\ pc[h] \in PipelinePhase => at[h] \in DOMAIN Pipelines(h)
  BY ConfigTyped DEF TypeOK
<1>3. hypertables' \subseteq [name : Table, schema : Schema, place : Place]
  <2>0. hypertables \subseteq [name : Table, schema : Schema, place : Place] BY Zenon DEF TypeOK
  <2>1. CASE UNCHANGED hypertables BY <2>0, <2>1, Zenon
  <2>2. CASE /\ pc[h] = "create"
             /\ hypertables' = hypertables \cup
                 {[name |-> TableOf(h).name, schema |-> TableOf(h).schema, place |-> Packed]}
    <3>1. at[h] \in DOMAIN Tables(h) BY <1>2, <2>2, Zenon DEF TablePhase
    <3>2. TableOf(h).name \in Table /\ TableOf(h).schema \in Schema
      BY <3>1, ConfigTyped, Zenon DEF TableOf
    <3> QED BY <2>0, <2>2, <3>2, RegistrationAssumption
  <2>3. CASE SetPlacement(h)
    <3>1. at[h] \in DOMAIN Tables(h) BY <1>2, <2>3, Zenon DEF TablePhase, SetPlacement
    <3>2. TableOf(h).place \in Place BY <3>1, ConfigTyped, Zenon DEF TableOf
    <3>3. \A r \in hypertables : Placed(r, h) \in [name : Table, schema : Schema, place : Place]
      BY <2>0, <3>2, Zenon DEF Placed
    <3> QED BY <2>3, <3>3, Zenon DEF SetPlacement
  <2> QED BY <2>1, <2>2, <2>3, TableRows, Zenon
<1>4. logical' \subseteq Namespace \X Table
  <2>0. logical \subseteq Namespace \X Table BY Zenon DEF TypeOK
  <2>1. CASE /\ CreateLogicalTable(h)
             /\ logical' = logical \cup {<<Head(left[h]), TableOf(h).name>>}
    <3>1. at[h] \in DOMAIN Tables(h) BY <1>2, <2>1, Zenon DEF TablePhase, CreateLogicalTable
    <3>2. TableOf(h).name \in Table BY <3>1, ConfigTyped, Zenon DEF TableOf
    <3>3. left[h] # <<>> BY <2>1, Zenon DEF CreateLogicalTable, Walked, Progress
    <3>4. Head(left[h]) \in Namespace BY <3>3 DEF TypeOK
    <3> QED BY <2>0, <2>1, <3>2, <3>4
  <2> QED BY <2>0, <2>1, OtherRows, Zenon
<1>5. pipelines' \subseteq PipelineDef
  <2>0. pipelines \subseteq PipelineDef BY Zenon DEF TypeOK
  <2>1. CASE pc[h] = "insert" /\ pipelines' = pipelines \cup {PipelineOf(h)}
    <3>1. at[h] \in DOMAIN Pipelines(h) BY <1>2, <2>1, Zenon DEF PipelinePhase
    <3>2. PipelineOf(h) \in PipelineDef BY <3>1, ConfigTyped, Zenon DEF PipelineOf
    <3> QED BY <2>0, <2>1, <3>2, Zenon
  <2> QED BY <2>0, <2>1, OtherRows, Zenon
<1>6. lock' \in Host \cup {Nobody}
  <2>1. lock' \in {lock, Nobody, h}
    BY Zenon
    DEF Step, HostStep, Start, GetHypertable, CreateHypertable, SetPlacement, GetLogicalTable,
        CreateLogicalTable, GetEndpoints, Lock, FindByName, CheckGraph, InsertPipeline,
        LoseConnection, Kill, Refuse, Unlocked
  <2> QED BY <2>1, Zenon DEF TypeOK
<1>7. faults' \in 0..MaxFault
  <2>1. UNCHANGED faults \/ (faults < MaxFault /\ faults' = faults + 1)
    BY Zenon
    DEF Step, HostStep, Start, GetHypertable, CreateHypertable, SetPlacement, GetLogicalTable,
        CreateLogicalTable, GetEndpoints, Lock, FindByName, CheckGraph, InsertPipeline,
        LoseConnection, Kill
  <2> QED BY <2>1, RegistrationAssumption DEF TypeOK
<1> QED
  BY <1>1, <1>3, <1>4, <1>5, <1>6, <1>7, Zenon DEF TypeOK, ProcTypeOK, Within, Labels

(* The catalog only grows. *)
Grown ==
  /\ \A t \in Table : Registered(t) => Registered(t)'
  /\ logical \subseteq logical' /\ pipelines \subseteq pipelines'

\* A bootstrap only adds rows, or changes a row's placement.
LEMMA CatalogGrows ==
  ASSUME TypeOK, NEW h \in Host, Step(h)
  PROVE  Grown
<1>1. ASSUME NEW t \in Table, Registered(t) PROVE Registered(t)'
  <2>1. PICK r \in hypertables : r.name = t BY <1>1, Zenon DEF Registered
  <2>2. CASE hypertables \subseteq hypertables' BY <2>1, <2>2, Zenon DEF Registered
  <2>3. CASE SetPlacement(h)
    <3>1. Placed(r, h) \in hypertables' BY <2>3, Zenon DEF SetPlacement
    <3>2. Placed(r, h).name = t BY <2>1, Zenon DEF Placed, TypeOK
    <3> QED BY <3>1, <3>2, Zenon DEF Registered
  <2> QED BY <2>2, <2>3, TableRows, Zenon
<1> QED BY <1>1, OtherRows, Zenon DEF Grown

(* The lock: only its holder is between the name lookup and the insert. *)
LEMMA CriticalKept ==
  ASSUME TypeOK, Walked, Critical, NEW h \in Host, Step(h)
  PROVE  Critical'
<1>1. Local(h) BY ProcStep, Zenon
<1>2. /\ lock' = lock \/ (pc[h] = "lock" /\ lock = Nobody /\ lock' = h)
         \/ lock' = Unlocked(h) \/ (pc[h] \in {"name", "insert"} /\ lock' = Nobody)
      /\ pc'[h] \in {"name", "graph", "insert"} => lock' = h
  <2>0. pc \in [Host -> Labels] BY Zenon DEF TypeOK, Labels
  <2>1. ASSUME Refuse(h) PROVE lock' = Unlocked(h) /\ pc'[h] = "failed"
    BY <2>0, <2>1, Zenon DEF Refuse, Goto
  <2>2. CASE Start(h)
    BY <2>2, FromTableLeads DEF Start
  <2>3. CASE GetHypertable(h) BY <2>0, <2>3, Zenon DEF GetHypertable, Goto
  <2>4. CASE CreateHypertable(h) BY <2>0, <2>1, <2>4, Zenon DEF CreateHypertable, Goto
  <2>5. CASE SetPlacement(h) BY <2>0, <2>5, Zenon DEF SetPlacement, Goto
  <2>6. CASE GetLogicalTable(h)
    <3>1. at[h] + 1 \in Nat \ {0} BY DEF TypeOK
    <3>2. pc[h] = "namespace" /\ UNCHANGED lock BY <2>6, Zenon DEF GetLogicalTable
    <3>3. FromTable(h, at[h] + 1) \/ UNCHANGED pc \/ Goto(h, "logical")
      BY <2>6, Zenon DEF GetLogicalTable
    <3>4. pc'[h] \in {"table", "up", "endpoints", "namespace", "logical"}
      BY <2>0, <3>1, <3>2, <3>3, FromTableLeads, Zenon DEF Goto
    <3> QED BY <3>2, <3>4, Zenon
  <2>7. CASE CreateLogicalTable(h) BY <2>0, <2>1, <2>7, Zenon DEF CreateLogicalTable, Goto
  <2>8. CASE GetEndpoints(h) BY <2>0, <2>1, <2>8, Zenon DEF GetEndpoints, Goto
  <2>9. CASE Lock(h) BY <2>0, <2>9, Zenon DEF Lock, LockFree, Goto
  <2>10. CASE FindByName(h)
    <3>1. at[h] + 1 \in Nat \ {0} BY DEF TypeOK
    <3>2. pc[h] = "name" /\ lock = h BY <2>10, Zenon DEF FindByName, Critical
    <3>3. \/ Goto(h, "graph") /\ UNCHANGED lock
          \/ FromPipeline(h, at[h] + 1) /\ lock' = Nobody
          \/ Refuse(h)
      BY <2>10, Zenon DEF FindByName
    <3> QED BY <2>0, <2>1, <3>1, <3>2, <3>3, FromPipelineLeads, Zenon DEF Goto
  <2>11. CASE CheckGraph(h)
    <3>1. pc[h] = "graph" /\ lock = h BY <2>11, Zenon DEF CheckGraph, Critical
    <3>2. \/ Goto(h, "insert") /\ UNCHANGED lock
          \/ Refuse(h)
      BY <2>11, Zenon DEF CheckGraph
    <3> QED BY <2>0, <2>1, <3>1, <3>2, Zenon DEF Goto
  <2>12. CASE InsertPipeline(h)
    <3>1. at[h] + 1 \in Nat \ {0} BY DEF TypeOK
    <3> QED BY <2>12, <3>1, FromPipelineLeads, Zenon DEF InsertPipeline
  <2>13. CASE LoseConnection(h)
    <3>1. (FromTable(h, 1) \/ FromPipeline(h, 1)) /\ lock' = Unlocked(h)
      BY <2>13, Zenon DEF LoseConnection
    <3> QED BY <3>1, FromTableLeads, FromPipelineLeads
  <2>14. CASE Kill(h) BY <2>0, <2>14, Zenon DEF Kill, Goto
  <2> QED
    BY <2>2, <2>3, <2>4, <2>5, <2>6, <2>7, <2>8, <2>9, <2>10, <2>11, <2>12, <2>13, <2>14, Zenon
    DEF Step, HostStep
<1>3. ASSUME NEW g \in Host \ {h}, pc'[g] \in {"name", "graph", "insert"} PROVE lock' = g
  <2>1. pc[g] \in {"name", "graph", "insert"} BY <1>1, <1>3, Zenon DEF Local
  <2>2. lock = g BY <2>1, Zenon DEF Critical
  <2>3. pc[h] \notin {"name", "graph", "insert"} BY <2>2, Zenon DEF Critical
  <2> QED BY <1>2, <2>2, <2>3, RegistrationAssumption, Zenon DEF Unlocked
<1> QED BY <1>2, <1>3, Zenon DEF Critical

(* Only the cycle query leads to the insert, only creation to a placement. *)
LEMMA Arrows ==
  ASSUME TypeOK, NEW h \in Host, Step(h)
  PROVE  /\ pc'[h] = "insert" => CheckGraph(h)
         /\ pc'[h] = "place" => CreateHypertable(h)
<1>0. pc \in [Host -> Labels] /\ at[h] + 1 \in Nat \ {0} BY DEF TypeOK, Labels
<1>1. ASSUME NEW l, Goto(h, l) PROVE pc'[h] = l BY <1>0, <1>1, Zenon DEF Goto
<1>2. ASSUME NEW i \in Nat \ {0}, FromTable(h, i) \/ FromPipeline(h, i)
      PROVE  pc'[h] \in {"table", "up", "endpoints"}
  BY <1>2, FromTableLeads, FromPipelineLeads, Zenon
<1>3. CASE Start(h) \/ LoseConnection(h)
  <2>1. FromTable(h, 1) \/ FromPipeline(h, 1) BY <1>3, Zenon DEF Start, LoseConnection
  <2> QED BY <1>2, <2>1
<1>4. CASE GetHypertable(h)
  BY <1>1, <1>4, Zenon DEF GetHypertable
<1>5. CASE SetPlacement(h) \/ Lock(h) \/ Kill(h)
  BY <1>1, <1>5, Zenon DEF SetPlacement, Lock, Kill
<1>6. CASE GetLogicalTable(h)
  <2>1. \/ FromTable(h, at[h] + 1)
        \/ UNCHANGED pc /\ pc[h] = "namespace"
        \/ Goto(h, "logical")
    BY <1>6, Zenon DEF GetLogicalTable
  <2> QED BY <1>0, <1>1, <1>2, <2>1, Zenon
<1>7. CASE CreateLogicalTable(h) BY <1>1, <1>7, Zenon DEF CreateLogicalTable, Refuse
<1>8. CASE GetEndpoints(h) BY <1>1, <1>8, Zenon DEF GetEndpoints, Refuse
<1>9. CASE FindByName(h) \/ InsertPipeline(h)
  <2>1. Goto(h, "graph") \/ Goto(h, "failed") \/ FromPipeline(h, at[h] + 1)
    BY <1>9, Zenon DEF FindByName, InsertPipeline, Refuse
  <2> QED BY <1>0, <1>1, <1>2, <2>1, Zenon
<1>10. CASE CreateHypertable(h)
  <2>1. pc'[h] \in {"failed", "namespace", "place"}
    BY <1>1, <1>10, Zenon DEF CreateHypertable, Refuse
  <2> QED BY <1>10, <2>1, Zenon
<1>11. CASE CheckGraph(h)
  <2>1. pc'[h] \in {"failed", "insert"} BY <1>1, <1>11, Zenon DEF CheckGraph, Refuse
  <2> QED BY <1>11, <2>1, Zenon
<1> QED
  BY <1>3, <1>4, <1>5, <1>6, <1>7, <1>8, <1>9, <1>10, <1>11, Zenon DEF Step, HostStep

(* What the cycle query saw is still true at the insert ... *)
LEMMA CheckedKept ==
  ASSUME TypeOK, Walked, Critical, Checked, NEW h \in Host, Step(h)
  PROVE  Checked'
<1>1. Local(h) BY ProcStep, Zenon
<1>2. ASSUME NEW g \in Host \ {h}, pc'[g] = "insert"
      PROVE  (PipelineOf(g).src \notin Reachable(PipelineOf(g).tgt, pipelines))'
  <2>1. pc[g] = "insert" /\ at'[g] = at[g] BY <1>1, <1>2, Zenon DEF Local
  <2>2. lock = g BY <2>1, Zenon DEF Critical
  <2>3. pc[h] # "insert" BY <2>2, Zenon DEF Critical
  <2>4. pipelines' = pipelines BY <2>3, OtherRows, Zenon
  <2>5. PipelineOf(g)' = PipelineOf(g) BY <2>1, Zenon DEF PipelineOf, Pipelines
  <2>6. PipelineOf(g).src \notin Reachable(PipelineOf(g).tgt, pipelines) BY <2>1, Zenon DEF Checked
  <2> QED BY <2>4, <2>5, <2>6, Zenon
<1>3. ASSUME pc'[h] = "insert"
      PROVE  (PipelineOf(h).src \notin Reachable(PipelineOf(h).tgt, pipelines))'
  <2>1. CheckGraph(h) BY <1>3, Arrows, Zenon
  <2>2. ~Refuse(h)
    <3> SUFFICES ASSUME Refuse(h) PROVE FALSE BY Zenon
    <3> QED BY <1>3, Zenon DEF Refuse, Goto, TypeOK
  <2>3. /\ PipelineOf(h).src \notin Reachable(PipelineOf(h).tgt, pipelines)
        /\ UNCHANGED at /\ UNCHANGED pipelines
    BY <2>1, <2>2, Zenon DEF CheckGraph
  <2>4. PipelineOf(h)' = PipelineOf(h) BY <2>3, Zenon DEF PipelineOf, Pipelines
  <2> QED BY <2>3, <2>4, Zenon
<1> QED BY <1>2, <1>3, Zenon DEF Checked

(* ... so no insert closes a cycle. *)
LEMMA AcyclicKept ==
  ASSUME TypeOK, Checked, PipelinesAcyclic, NEW h \in Host, Step(h)
  PROVE  PipelinesAcyclic'
<1>1. CASE UNCHANGED pipelines BY <1>1, Zenon DEF PipelinesAcyclic
<1>2. CASE pc[h] = "insert" /\ pipelines' = pipelines \cup {PipelineOf(h)}
  <2>1. at[h] \in 1..Len(Pipelines(h))
    BY <1>2, ConfigTyped DEF TypeOK, PipelinePhase
  <2>2. PipelineOf(h) \in PipelineDef BY <2>1, ConfigTyped, Zenon DEF PipelineOf
  <2>3. pipelines \in SUBSET PipelineDef BY Zenon DEF TypeOK
  <2>4. PipelineOf(h).src \notin Reachable(PipelineOf(h).tgt, pipelines) BY <1>2, Zenon DEF Checked
  <2> QED BY <1>2, <2>2, <2>3, <2>4, AddedEdge, ZenonT(30) DEF PipelinesAcyclic
<1> QED BY <1>1, <1>2, OtherRows, Zenon

-----------------------------------------------------------------------------
(* Names stay unique, and a table is placed by the process that created it. *)
LEMMA NamesKept ==
  ASSUME TypeOK, Walked, UniqueNames, Placing, NEW h \in Host, Step(h)
  PROVE  UniqueNames' /\ Placing'
<1>1. Local(h) BY ProcStep, Zenon
<1>2. hypertables \subseteq [name : Table, schema : Schema, place : Place] BY Zenon DEF TypeOK
<1>3. ASSUME NEW g \in Host, at'[g] = at[g] PROVE TableOf(g)' = TableOf(g)
  BY <1>3, Zenon DEF TableOf, Tables
<1>4. UniqueNames'
  <2>1. CASE UNCHANGED hypertables BY <2>1, Zenon DEF UniqueNames
  <2>2. CASE /\ ~Registered(TableOf(h).name)
             /\ hypertables' = hypertables \cup
                  {[name |-> TableOf(h).name, schema |-> TableOf(h).schema, place |-> Packed]}
    BY <2>2 DEF UniqueNames, Registered
  <2>3. CASE SetPlacement(h)
    <3>1. \A r \in hypertables : Placed(r, h).name = r.name BY <1>2, Zenon DEF Placed
    <3> QED BY <2>3, <3>1 DEF SetPlacement, UniqueNames
  <2> QED BY <2>1, <2>2, <2>3, TableRows, Zenon
<1>5. ASSUME NEW g \in Host, pc'[g] = "place"
      PROVE  \A r \in hypertables' : r.name = TableOf(g)'.name => r.place = Packed
  <2>1. CASE g = h
    <3>1. CreateHypertable(h) BY <1>5, <2>1, Arrows, Zenon
    <3>2. ~Refuse(h)
      <4> SUFFICES ASSUME Refuse(h) PROVE FALSE BY Zenon
      <4> QED BY <1>5, <2>1, Zenon DEF Refuse, Goto, TypeOK
    <3>3. /\ ~Registered(TableOf(h).name) /\ UNCHANGED at
          /\ hypertables' = hypertables \cup
               {[name |-> TableOf(h).name, schema |-> TableOf(h).schema, place |-> Packed]}
      BY <3>1, <3>2, Zenon DEF CreateHypertable
    <3> QED BY <1>3, <2>1, <3>3 DEF Registered
  <2>2. CASE g # h
    <3>1. pc[g] = "place" /\ at'[g] = at[g] BY <1>1, <1>5, <2>2, Zenon DEF Local
    <3>2. \A r \in hypertables : r.name = TableOf(g).name => r.place = Packed
      BY <3>1, Zenon DEF Placing
    <3>3. TableOf(g)' = TableOf(g) BY <1>3, <3>1, Zenon
    <3>4. CASE UNCHANGED hypertables BY <3>2, <3>3, <3>4, Zenon
    <3>5. CASE hypertables' = hypertables \cup
                 {[name |-> TableOf(h).name, schema |-> TableOf(h).schema, place |-> Packed]}
      BY <3>2, <3>3, <3>5
    <3>6. CASE SetPlacement(h)
      <4>1. TableOf(g).name # TableOf(h).name
        BY <2>2, <3>1, <3>6, Zenon DEF Placing, SetPlacement
      <4>2. \A r \in hypertables :
              /\ Placed(r, h).name = r.name
              /\ r.name # TableOf(h).name => Placed(r, h).place = r.place
        BY <1>2, Zenon DEF Placed
      <4> QED BY <3>2, <3>3, <3>6, <4>1, <4>2, SMTT(30) DEF SetPlacement
    <3> QED BY <3>4, <3>5, <3>6, TableRows, Zenon
  <2> QED BY <2>1, <2>2, Zenon
<1>6. ASSUME NEW f \in Host, NEW g \in Host \ {f}, pc'[f] = "place", pc'[g] = "place"
      PROVE  TableOf(g)'.name # TableOf(f)'.name
  <2>1. ASSUME NEW g2 \in Host \ {h}, pc'[g2] = "place", pc'[h] = "place"
        PROVE  TableOf(g2)'.name # TableOf(h)'.name
    <3>1. CreateHypertable(h) BY <2>1, Arrows, Zenon
    <3>2. ~Refuse(h)
      <4> SUFFICES ASSUME Refuse(h) PROVE FALSE BY Zenon
      <4> QED BY <2>1, Zenon DEF Refuse, Goto, TypeOK
    <3>3. ~Registered(TableOf(h).name) /\ UNCHANGED at
      BY <3>1, <3>2, Zenon DEF CreateHypertable
    <3>4. pc[g2] = "place" BY <1>1, <2>1, Zenon DEF Local
    <3>5. Registered(TableOf(g2).name) BY <3>4, Zenon DEF Walked, Progress, TableBegun
    <3> QED BY <1>3, <3>3, <3>5, Zenon
  <2>2. CASE f # h /\ g # h
    <3>1. pc[f] = "place" /\ pc[g] = "place" /\ at'[f] = at[f] /\ at'[g] = at[g]
      BY <1>1, <1>6, <2>2, Zenon DEF Local
    <3> QED BY <1>3, <3>1, Zenon DEF Placing
  <2> QED BY <1>6, <2>1, <2>2, Zenon
<1> QED BY <1>4, <1>5, <1>6, Zenon DEF Placing

-----------------------------------------------------------------------------
(* What a process has walked past stays registered. *)

\* A table that is registered with its namespaces stays so.
LEMMA DoneKept ==
  ASSUME Grown, NEW h \in Host, NEW i \in DOMAIN Tables(h), TableDone(h, i)
  PROVE  TableDone(h, i)'
<1>1. Tables(h)[i].name \in Table BY ConfigTyped, Zenon
<1> QED BY <1>1, Zenon DEF TableDone, Grown, Tables

\* A table whose registration began stays begun.
LEMMA BegunKept ==
  ASSUME Grown, NEW h \in Host, at[h] \in DOMAIN Tables(h), TableBegun(h),
         at'[h] = at[h], left'[h] = left[h]
  PROVE  TableBegun(h)'
<1>1. TableOf(h).name \in Table BY ConfigTyped, Zenon DEF TableOf
<1>2. TableOf(h)' = TableOf(h) BY Zenon DEF TableOf, Tables
<1> QED BY <1>1, <1>2, Zenon DEF TableBegun, Grown

\* A host keeps its place while another one takes a step.
LEMMA OthersProgress ==
  ASSUME TypeOK, Grown, NEW g \in Host, Progress(g),
         pc'[g] = pc[g], at'[g] = at[g], left'[g] = left[g]
  PROVE  Progress(g)'
<1>1. pc[g] \in TablePhase => at[g] \in DOMAIN Tables(g) BY ConfigTyped, SMTT(30) DEF TypeOK
<1>2. Tables(g)' = Tables(g) /\ Pipelines(g)' = Pipelines(g) BY Zenon DEF Tables, Pipelines
<1>3. pc[g] \in TablePhase => \A i \in DOMAIN Tables(g) : i < at'[g] => TableDone(g, i)'
  BY DoneKept, Zenon DEF Progress
<1>4. pc[g] \in {"place", "namespace", "logical"} => TableBegun(g)'
  BY <1>1, BegunKept, Zenon DEF Progress, TablePhase
<1>5. pc[g] \in PipelinePhase \cup {"up"} => \A i \in DOMAIN Tables(g) : TableDone(g, i)'
  BY DoneKept, Zenon DEF Progress
<1>6. /\ pc[g] \in PipelinePhase =>
           \A i \in DOMAIN Pipelines(g) : i < at'[g] => Pipelines(g)[i] \in pipelines'
      /\ pc[g] = "up" => \A i \in DOMAIN Pipelines(g) : Pipelines(g)[i] \in pipelines'
  BY Zenon DEF Progress, Grown
<1>7. pc'[g] = "logical" => left'[g] # <<>> BY Zenon DEF Progress
<1> QED BY <1>2, <1>3, <1>4, <1>5, <1>6, <1>7, Zenon DEF Progress

(* A process at the start of a table, of a pipeline, or done with all. *)
LEMMA AtTable ==
  ASSUME TypeOK, Grown, NEW h \in Host, NEW i \in Nat \ {0}, FromTable(h, i),
         \A j \in DOMAIN Tables(h) : j < i => TableDone(h, j)
  PROVE  Progress(h)'
<1>1. Tables(h)' = Tables(h) /\ Pipelines(h)' = Pipelines(h) BY Zenon DEF Tables, Pipelines
<1>2. \A j \in DOMAIN Tables(h) : j < i => TableDone(h, j)' BY DoneKept, Zenon
<1>3. DOMAIN Tables(h) = 1..Len(Tables(h)) /\ Len(Tables(h)) \in Nat BY ConfigTyped, Zenon
<1>4. CASE pc'[h] = "table" /\ at'[h] = i
  BY <1>1, <1>2, <1>4, Zenon DEF Progress, TablePhase, PipelinePhase
<1>5. CASE pc'[h] = "up" /\ i > Len(Tables(h)) /\ Pipelines(h) = <<>>
  <2>1. \A j \in DOMAIN Tables(h) : TableDone(h, j)' BY <1>2, <1>3, <1>5
  <2>2. DOMAIN Pipelines(h) = {} BY <1>5
  <2> QED BY <1>1, <1>5, <2>1, <2>2, Zenon DEF Progress, TablePhase, PipelinePhase
<1>6. CASE pc'[h] = "endpoints" /\ at'[h] = 1 /\ i > Len(Tables(h))
  <2>1. \A j \in DOMAIN Tables(h) : TableDone(h, j)' BY <1>2, <1>3, <1>6
  <2>2. \A j \in DOMAIN Pipelines(h) : ~(j < 1) BY ConfigTyped
  <2> QED BY <1>1, <1>6, <2>1, <2>2, Zenon DEF Progress, TablePhase, PipelinePhase
<1> QED BY <1>4, <1>5, <1>6, FromTableLeads, Zenon

\* With every table done, a host may go on to pipeline i.
LEMMA AtPipeline ==
  ASSUME TypeOK, Grown, NEW h \in Host, NEW i \in Nat \ {0}, FromPipeline(h, i),
         \A j \in DOMAIN Tables(h) : TableDone(h, j),
         \A j \in DOMAIN Pipelines(h) : j < i => Pipelines(h)[j] \in pipelines'
  PROVE  Progress(h)'
<1>1. Tables(h)' = Tables(h) /\ Pipelines(h)' = Pipelines(h) BY Zenon DEF Tables, Pipelines
<1>2. \A j \in DOMAIN Tables(h) : TableDone(h, j)' BY DoneKept, Zenon
<1>3. DOMAIN Pipelines(h) = 1..Len(Pipelines(h)) /\ Len(Pipelines(h)) \in Nat BY ConfigTyped, Zenon
<1>4. CASE pc'[h] = "endpoints" /\ at'[h] = i
  BY <1>1, <1>2, <1>4, Zenon DEF Progress, TablePhase, PipelinePhase
<1>5. CASE pc'[h] = "up" /\ i > Len(Pipelines(h))
  BY <1>1, <1>2, <1>3, <1>5 DEF Progress, TablePhase, PipelinePhase
<1> QED BY <1>4, <1>5, FromPipelineLeads, Zenon

(* A process that ended claims nothing; one that moves on within a phase   *)
(* keeps what it has walked past.                                          *)
LEMMA Ended ==
  ASSUME NEW h \in Host, pc'[h] \in {"failed", "down"}
  PROVE  Progress(h)'
BY Zenon DEF Progress, TablePhase, PipelinePhase

\* A step inside the table phase, or inside the pipeline phase.
LEMMA Onward ==
  ASSUME Grown, NEW h \in Host, Progress(h), at'[h] = at[h],
         \/ pc[h] \in TablePhase /\ pc'[h] \in TablePhase
         \/ pc[h] \in PipelinePhase /\ pc'[h] \in PipelinePhase,
         pc'[h] \in {"place", "namespace", "logical"} => TableBegun(h)',
         pc'[h] = "logical" => left'[h] # <<>>
  PROVE  Progress(h)'
<1>1. Tables(h)' = Tables(h) /\ Pipelines(h)' = Pipelines(h) BY Zenon DEF Tables, Pipelines
<1>2. TablePhase \cap (PipelinePhase \cup {"up"}) = {} /\ "up" \notin PipelinePhase
  BY Zenon DEF TablePhase, PipelinePhase
<1>3. pc'[h] \in TablePhase => \A i \in DOMAIN Tables(h) : i < at'[h] => TableDone(h, i)'
  BY <1>2, DoneKept, Zenon DEF Progress
<1>4. pc'[h] \in PipelinePhase =>
        /\ \A i \in DOMAIN Tables(h) : TableDone(h, i)'
        /\ \A i \in DOMAIN Pipelines(h) : i < at'[h] => Pipelines(h)[i] \in pipelines'
  BY <1>2, DoneKept, Zenon DEF Progress, Grown
<1> QED BY <1>1, <1>2, <1>3, <1>4, Zenon DEF Progress

\* Each step of the bootstrap leaves behind what it has walked past.
LEMMA WalkedKept ==
  ASSUME TypeOK, Walked, NEW h \in Host, Step(h)
  PROVE  Walked'
<1>1. Local(h) /\ Grown BY ProcStep, CatalogGrows, Zenon
<1>2. SUFFICES Progress(h)'
  BY <1>1, OthersProgress, Zenon DEF Walked, Local
<1>3. /\ pc \in [Host -> Labels] /\ at[h] \in Nat \ {0} /\ at[h] + 1 \in Nat \ {0}
      /\ left \in [Host -> Seq(Namespace)]
  BY DEF TypeOK, Labels
<1>4. pc[h] \in TablePhase => at[h] \in DOMAIN Tables(h) BY ConfigTyped DEF TypeOK
<1>5. Progress(h) BY Zenon DEF Walked
<1>6. ASSUME NEW l, Goto(h, l) PROVE pc'[h] = l BY <1>3, <1>6, Zenon DEF Goto
<1>7. ASSUME Refuse(h) PROVE Progress(h)' BY <1>6, <1>7, Ended, Zenon DEF Refuse
<1>8. ASSUME UNCHANGED at PROVE TableOf(h)' = TableOf(h) BY <1>8, Zenon DEF TableOf, Tables
<1>9. CASE Start(h)
  <2>1. \A j \in DOMAIN Tables(h) : ~(j < 1) BY ConfigTyped
  <2>2. FromTable(h, 1) BY <1>9, Zenon DEF Start
  <2> QED BY <1>1, <2>1, <2>2, AtTable
<1>10. CASE GetHypertable(h)
  <2>0. pc[h] = "table" /\ at' = at /\ hypertables' = hypertables BY <1>10, Zenon DEF GetHypertable
  <2>1. CASE Registered(TableOf(h).name)
    <3>1. pc'[h] = "namespace" /\ left'[h] = TableOf(h).ns
      BY <1>3, <1>6, <1>10, <2>1, Zenon DEF GetHypertable
    <3>2. TableBegun(h)' BY <1>8, <2>0, <2>1, <3>1, Zenon DEF TableBegun, Registered
    <3> QED BY <1>1, <1>5, <2>0, <3>1, <3>2, Onward, Zenon DEF TablePhase
  <2>2. CASE ~Registered(TableOf(h).name)
    <3>1. pc'[h] = "create" BY <1>6, <1>10, <2>2, Zenon DEF GetHypertable
    <3> QED BY <1>1, <1>5, <2>0, <3>1, Onward, Zenon DEF TablePhase
  <2> QED BY <2>1, <2>2, Zenon
<1>11. CASE CreateHypertable(h)
  <2>1. CASE Refuse(h) BY <1>7, <2>1, Zenon
  <2>2. CASE ~Refuse(h)
    <3>1. /\ pc[h] = "create" /\ UNCHANGED at /\ left' = [left EXCEPT ![h] = TableOf(h).ns]
          /\ hypertables' = hypertables \cup
               {[name |-> TableOf(h).name, schema |-> TableOf(h).schema, place |-> Packed]}
          /\ Goto(h, "namespace") \/ Goto(h, "place")
      BY <1>11, <2>2, ZenonT(30) DEF CreateHypertable
    <3>2. pc'[h] \in {"namespace", "place"} /\ left'[h] = TableOf(h).ns BY <1>3, <1>6, <3>1, Zenon
    <3>3. TableBegun(h)'
      <4>0. TableOf(h)' = TableOf(h) BY <1>8, <3>1, Zenon
      <4>1. Registered(TableOf(h).name)'
        <5> DEFINE row ==
              [name |-> TableOf(h).name, schema |-> TableOf(h).schema, place |-> Packed]
        <5>1. row.name = TableOf(h).name BY Zenon
        <5>2. row \in hypertables' BY <3>1, ZenonT(30)
        <5> HIDE DEF row
        <5> QED BY <4>0, <5>1, <5>2, Zenon DEF Registered
      <4> QED BY <1>8, <3>1, <3>2, <4>1, Zenon DEF TableBegun
    <3> QED BY <1>1, <1>5, <3>1, <3>2, <3>3, Onward, Zenon DEF TablePhase
  <2> QED BY <2>1, <2>2, Zenon
<1>12. CASE SetPlacement(h)
  <2>1. pc[h] = "place" /\ pc'[h] = "namespace" /\ at' = at /\ left' = left
    BY <1>6, <1>12, Zenon DEF SetPlacement
  <2>2. TableBegun(h)' BY <1>1, <1>4, <1>5, <2>1, BegunKept, Zenon DEF Progress, TablePhase
  <2> QED BY <1>1, <1>5, <2>1, <2>2, Onward, Zenon DEF TablePhase
<1>13. CASE GetLogicalTable(h)
  <2>0. pc[h] = "namespace" /\ pc[h] \in TablePhase /\ TableBegun(h)
    BY <1>5, <1>13, Zenon DEF GetLogicalTable, Progress, TablePhase
  <2>1. CASE left[h] = <<>>
    <3>1. FromTable(h, at[h] + 1) BY <1>13, <2>1, Zenon DEF GetLogicalTable
    <3>2. TableDone(h, at[h])
      BY <2>0, <2>1 DEF TableBegun, TableDone, TableOf
    <3>3. \A j \in DOMAIN Tables(h) : j < at[h] + 1 => TableDone(h, j)
      BY <1>3, <1>5, <2>0, <3>2, ConfigTyped DEF Progress
    <3> QED BY <1>1, <1>3, <3>1, <3>3, AtTable, Zenon
  <2>2. CASE left[h] # <<>> /\ <<Head(left[h]), TableOf(h).name>> \in logical
    <3>1. /\ left' = [left EXCEPT ![h] = Tail(@)] /\ UNCHANGED pc
          /\ UNCHANGED at /\ UNCHANGED hypertables /\ UNCHANGED logical
      BY <1>13, <2>2, Zenon DEF GetLogicalTable
    <3>2. left'[h] = Tail(left[h]) /\ left[h] \in Seq(Namespace) BY <1>3, <3>1, Zenon
    <3>3. \A k \in DOMAIN left[h] : k = 1 \/ (k - 1 \in DOMAIN left'[h] /\ left'[h][k - 1] = left[h][k])
      BY <2>2, <3>2
    <3>4. Head(left[h]) = left[h][1] BY <2>2, <3>2
    <3>5. TableBegun(h)'
      <4>1. TableOf(h)' = TableOf(h) BY <1>8, <3>1, Zenon
      <4>2. Registered(TableOf(h).name)' BY <2>0, <3>1, <4>1, Zenon DEF TableBegun, Registered
      <4>3. ASSUME NEW j \in DOMAIN TableOf(h).ns
            PROVE  \/ <<TableOf(h).ns[j], TableOf(h).name>> \in logical'
                   \/ \E k \in DOMAIN left'[h] : left'[h][k] = TableOf(h).ns[j]
        <5>1. CASE <<TableOf(h).ns[j], TableOf(h).name>> \in logical BY <3>1, <5>1, Zenon
        <5>2. ASSUME NEW k \in DOMAIN left[h], left[h][k] = TableOf(h).ns[j]
              PROVE  \/ <<TableOf(h).ns[j], TableOf(h).name>> \in logical'
                     \/ \E m \in DOMAIN left'[h] : left'[h][m] = TableOf(h).ns[j]
          BY <2>2, <3>1, <3>3, <3>4, <5>2, ZenonT(30)
        <5> QED BY <2>0, <5>1, <5>2, Zenon DEF TableBegun
      <4> QED BY <4>1, <4>2, <4>3, Zenon DEF TableBegun
    <3> QED BY <1>1, <1>5, <2>0, <3>1, <3>5, Onward, Zenon
  <2>3. CASE left[h] # <<>> /\ <<Head(left[h]), TableOf(h).name>> \notin logical
    <3>1. Goto(h, "logical") /\ UNCHANGED left /\ UNCHANGED at
      BY <1>13, <2>3, Zenon DEF GetLogicalTable
    <3>2. pc'[h] = "logical" BY <1>6, <3>1, Zenon
    <3>3. TableBegun(h)' BY <1>1, <1>4, <2>0, <3>1, BegunKept, Zenon
    <3> QED BY <1>1, <1>5, <2>0, <2>3, <3>1, <3>2, <3>3, Onward, Zenon DEF TablePhase
  <2> QED BY <2>1, <2>2, <2>3, Zenon
<1>14. CASE CreateLogicalTable(h)
  <2>0. pc[h] = "logical" /\ pc[h] \in TablePhase /\ TableBegun(h) /\ left[h] # <<>>
    BY <1>5, <1>14, Zenon DEF CreateLogicalTable, Progress, TablePhase
  <2>1. CASE Refuse(h) BY <1>7, <2>1, Zenon
  <2>2. CASE ~Refuse(h)
    <3>1. /\ logical' = logical \cup {<<Head(left[h]), TableOf(h).name>>}
          /\ left' = [left EXCEPT ![h] = Tail(@)] /\ UNCHANGED at /\ UNCHANGED hypertables
          /\ Goto(h, "namespace")
      BY <1>14, <2>2, Zenon DEF CreateLogicalTable
    <3>2. pc'[h] = "namespace" /\ left'[h] = Tail(left[h]) /\ left[h] \in Seq(Namespace)
      BY <1>3, <1>6, <3>1, Zenon
    <3>3. \A k \in DOMAIN left[h] : k = 1 \/ (k - 1 \in DOMAIN left'[h] /\ left'[h][k - 1] = left[h][k])
      BY <2>0, <3>2
    <3>4. Head(left[h]) = left[h][1] BY <2>0, <3>2
    <3>5. TableBegun(h)'
      <4>1. TableOf(h)' = TableOf(h) BY <1>8, <3>1, Zenon
      <4>2. Registered(TableOf(h).name)' BY <2>0, <3>1, <4>1, Zenon DEF TableBegun, Registered
      <4>3. ASSUME NEW j \in DOMAIN TableOf(h).ns
            PROVE  \/ <<TableOf(h).ns[j], TableOf(h).name>> \in logical'
                   \/ \E k \in DOMAIN left'[h] : left'[h][k] = TableOf(h).ns[j]
        <5>1. CASE <<TableOf(h).ns[j], TableOf(h).name>> \in logical BY <3>1, <5>1, Zenon
        <5>2. ASSUME NEW k \in DOMAIN left[h], left[h][k] = TableOf(h).ns[j]
              PROVE  \/ <<TableOf(h).ns[j], TableOf(h).name>> \in logical'
                     \/ \E m \in DOMAIN left'[h] : left'[h][m] = TableOf(h).ns[j]
          BY <3>1, <3>3, <3>4, <5>2, ZenonT(30)
        <5> QED BY <2>0, <5>1, <5>2, Zenon DEF TableBegun
      <4> QED BY <4>1, <4>2, <4>3, Zenon DEF TableBegun
    <3> QED BY <1>1, <1>5, <2>0, <3>1, <3>2, <3>5, Onward, Zenon DEF TablePhase
  <2> QED BY <2>1, <2>2, Zenon
<1>15. CASE GetEndpoints(h) \/ Lock(h) \/ CheckGraph(h)
  <2>0. pc[h] \in PipelinePhase
    BY <1>15, Zenon DEF GetEndpoints, Lock, CheckGraph, PipelinePhase
  <2>1. CASE Refuse(h) BY <1>7, <2>1, Zenon
  <2>2. CASE ~Refuse(h)
    <3>1. (Goto(h, "lock") \/ Goto(h, "name") \/ Goto(h, "insert")) /\ UNCHANGED at
      BY <1>15, <2>2, Zenon DEF GetEndpoints, Lock, CheckGraph
    <3>2. pc'[h] \in {"lock", "name", "insert"} BY <1>6, <3>1, Zenon
    <3> QED BY <1>1, <1>5, <2>0, <3>1, <3>2, Onward, Zenon DEF PipelinePhase
  <2> QED BY <2>1, <2>2, Zenon
<1>16. CASE FindByName(h)
  <2>0. pc[h] \in PipelinePhase BY <1>16, Zenon DEF FindByName, PipelinePhase
  <2>1. CASE Refuse(h) BY <1>7, <2>1, Zenon
  <2>2. CASE Goto(h, "graph") /\ UNCHANGED at
    <3>1. pc'[h] = "graph" BY <1>6, <2>2, Zenon
    <3> QED BY <1>1, <1>5, <2>0, <2>2, <3>1, Onward, Zenon DEF PipelinePhase
  <2>3. CASE /\ \E q \in pipelines : q.name = PipelineOf(h).name
             /\ SameDefinition(h) /\ FromPipeline(h, at[h] + 1)
    <3>1. PipelineOf(h) \in pipelines BY <2>3, Zenon DEF SameDefinition
    <3>2. \A j \in DOMAIN Pipelines(h) : j < at[h] + 1 => Pipelines(h)[j] \in pipelines'
      BY <1>1, <1>3, <1>5, <2>0, <3>1, ConfigTyped, SMTT(30) DEF Progress, PipelineOf, Grown
    <3>3. \A j \in DOMAIN Tables(h) : TableDone(h, j) BY <1>5, <2>0, Zenon DEF Progress
    <3> QED BY <1>1, <1>3, <2>3, <3>2, <3>3, AtPipeline, Zenon
  <2> QED BY <1>16, <2>1, <2>2, <2>3, Zenon DEF FindByName
<1>17. CASE InsertPipeline(h)
  <2>0. pc[h] \in PipelinePhase /\ FromPipeline(h, at[h] + 1) /\ PipelineOf(h) \in pipelines'
    BY <1>17, ZenonT(30) DEF InsertPipeline, PipelinePhase
  <2>1. \A j \in DOMAIN Pipelines(h) : j < at[h] + 1 => Pipelines(h)[j] \in pipelines'
    BY <1>1, <1>3, <1>5, <2>0, ConfigTyped, SMTT(30) DEF Progress, PipelineOf, Grown
  <2>2. \A j \in DOMAIN Tables(h) : TableDone(h, j) BY <1>5, <2>0, Zenon DEF Progress
  <2> QED BY <1>1, <1>3, <2>0, <2>1, <2>2, AtPipeline, Zenon
<1>18. CASE LoseConnection(h)
  <2>1. CASE pc[h] \in TablePhase
    <3>1. \A j \in DOMAIN Tables(h) : ~(j < 1) BY ConfigTyped
    <3>2. FromTable(h, 1) BY <1>18, <2>1, Zenon DEF LoseConnection
    <3> QED BY <1>1, <3>1, <3>2, AtTable
  <2>2. CASE pc[h] \notin TablePhase
    <3>1. \A j \in DOMAIN Pipelines(h) : ~(j < 1) BY ConfigTyped
    <3>2. FromPipeline(h, 1) /\ pc[h] \in PipelinePhase
      BY <1>18, <2>2, Zenon DEF LoseConnection
    <3>3. \A j \in DOMAIN Tables(h) : TableDone(h, j) BY <1>5, <3>2, Zenon DEF Progress
    <3> QED BY <1>1, <3>1, <3>2, <3>3, AtPipeline
  <2> QED BY <2>1, <2>2, Zenon
<1>19. CASE Kill(h) BY <1>6, <1>19, Ended, Zenon DEF Kill
<1> QED
  BY <1>9, <1>10, <1>11, <1>12, <1>13, <1>14, <1>15, <1>16, <1>17, <1>18, <1>19, Zenon
  DEF Step, HostStep

-----------------------------------------------------------------------------
(* The invariant of registration: what the lock protects holds together     *)
(* with what each process has walked past, at every state.                 *)
THEOREM Registering == Spec => []RegistrationInv
<1>1. Init => RegistrationInv
  <2> SUFFICES ASSUME Init PROVE RegistrationInv BY Zenon
  <2>1. TypeOK
    BY RegistrationAssumption DEF Init, TypeOK, TablePhase, PipelinePhase
  <2>2. Walked BY ZenonT(30) DEF Init, Walked, Progress, TablePhase, PipelinePhase
  <2> QED BY <2>1, <2>2, Zenon
          DEF Init, RegistrationInv, Critical, Checked, PipelinesAcyclic, UniqueNames, Placing
<1>2. RegistrationInv /\ [Next]_vars => RegistrationInv'
  <2> SUFFICES ASSUME RegistrationInv, [Next]_vars PROVE RegistrationInv' BY Zenon
  <2>1. CASE Next
    <3>1. PICK h \in Host : Step(h) BY <2>1, Zenon DEF Next, Step
    <3> QED
      BY <3>1, TypeKept, CriticalKept, CheckedKept, AcyclicKept, WalkedKept, NamesKept, Zenon
      DEF RegistrationInv
  <2>2. CASE UNCHANGED vars
    <3>1. Walked'
      <4> SUFFICES ASSUME NEW h \in Host PROVE Progress(h)' BY Zenon DEF Walked
      <4>1. Grown BY <2>2, Zenon DEF vars, Grown, Registered
      <4> QED BY <2>2, <4>1, OthersProgress, Zenon DEF vars, RegistrationInv, Walked
    <3>2. TypeOK' BY <2>2, Zenon DEF vars, RegistrationInv, TypeOK, Tables, Pipelines
    <3>3. Critical' /\ PipelinesAcyclic' /\ UniqueNames'
      BY <2>2, Zenon DEF vars, RegistrationInv, Critical, PipelinesAcyclic, UniqueNames
    <3>4. Checked' BY <2>2, Zenon DEF vars, RegistrationInv, Checked, PipelineOf, Pipelines
    <3>5. Placing' BY <2>2, Zenon DEF vars, RegistrationInv, Placing, TableOf, Tables
    <3> QED BY <3>1, <3>2, <3>3, <3>4, <3>5, Zenon DEF RegistrationInv
  <2> QED BY <2>1, <2>2, Zenon
<1> QED BY <1>1, <1>2, PTL DEF Spec

(* No configurations, however many processes start together, make           *)
(* ensure_pipeline register a cycle of pipelines.                          *)
THEOREM NoPipelineCycle == Spec => []PipelinesAcyclic
BY Registering, PTL DEF RegistrationInv

(* A process that is up finds its whole configuration in the catalog. *)
THEOREM UpIsRegistered == Spec => []UpMeansRegistered
<1>1. RegistrationInv => UpMeansRegistered
  BY Zenon DEF RegistrationInv, Walked, Progress, TableDone, UpMeansRegistered
<1> QED BY <1>1, Registering, PTL

(* The catalog a fleet registers together is sound for each of its hosts. *)
THEOREM SoundCatalog == Spec => []CatalogSound
BY NoPipelineCycle, UpIsRegistered, PTL DEF CatalogSound

(* Start-up creates what is missing and alters nothing that exists. *)
THEOREM NothingAltered == Spec => NeverAltered
<1> DEFINE Kept ==
      /\ logical \subseteq logical' /\ pipelines \subseteq pipelines'
      /\ \A r \in hypertables : \E q \in hypertables' :
           /\ q.name = r.name /\ q.schema = r.schema
           /\ r.place # Packed => q.place = r.place
      /\ \A r, q \in hypertables' : r.name = q.name => r = q
<1>1. RegistrationInv /\ RegistrationInv' /\ [Next]_vars => [Kept]_vars
  <2> SUFFICES ASSUME RegistrationInv, RegistrationInv', Next PROVE Kept BY Zenon
  <2>1. PICK h \in Host : Step(h) BY Zenon DEF Next, Step
  <2>2. Grown BY <2>1, CatalogGrows, Zenon DEF RegistrationInv
  <2>3. \A r, q \in hypertables' : r.name = q.name => r = q
    BY Zenon DEF RegistrationInv, UniqueNames
  <2>4. ASSUME NEW r \in hypertables
        PROVE  \E q \in hypertables' :
                 /\ q.name = r.name /\ q.schema = r.schema
                 /\ r.place # Packed => q.place = r.place
    <3>1. CASE hypertables \subseteq hypertables' BY <3>1, Zenon
    <3>2. CASE SetPlacement(h)
      <4>1. r \in [name : Table, schema : Schema, place : Place]
        BY Zenon DEF RegistrationInv, TypeOK
      <4>2. r.name = TableOf(h).name => r.place = Packed
        BY <3>2, Zenon DEF SetPlacement, RegistrationInv, Placing
      <4>3. /\ Placed(r, h).name = r.name /\ Placed(r, h).schema = r.schema
            /\ r.place # Packed => Placed(r, h).place = r.place
        BY <4>1, <4>2, Zenon DEF Placed
      <4>4. Placed(r, h) \in hypertables' BY <3>2, Zenon DEF SetPlacement
      <4> QED BY <4>3, <4>4, Zenon
    <3> QED BY <2>1, <3>1, <3>2, TableRows, Zenon
  <2> QED BY <2>2, <2>3, <2>4, Zenon DEF Grown
<1> QED BY <1>1, Registering, PTL DEF Spec, NeverAltered
=============================================================================
