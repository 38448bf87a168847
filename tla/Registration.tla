---------------------------- MODULE Registration ----------------------------
(***************************************************************************)
(* Start-up registration: every ukield process applies the tables and then *)
(* the pipelines of its configuration to the shared catalog (ukield        *)
(* bootstrap.rs), through create_hypertable, set_placement,                *)
(* create_logical_table (tables.rs) and ensure_pipeline (pipelines.rs).    *)
(*                                                                         *)
(* Processes start together, with configurations that may disagree.  A     *)
(* step is one catalog statement; the statements of ensure_pipeline run in *)
(* one READ COMMITTED transaction under a global advisory lock.  A lost    *)
(* connection sends the process back to the start of the phase             *)
(* (with_catalog_recovery), a permanent error ends it, and the deployment  *)
(* starts it again.                                                        *)
(***************************************************************************)
EXTENDS Naturals, Sequences

CONSTANTS
  Host,      \* processes
  Table,     \* hypertable names
  Schema, Namespace, PipelineName, Sql,
  Place,     \* placements; Packed is what a row is created with
  Packed,
  Config,    \* Host -> [tables : Seq(TableDef), pipelines : Seq(PipelineDef)]
  Nobody,    \* holder of the free advisory lock
  MaxFault   \* bound: connections lost and processes killed

TableDef == [name : Table, schema : Schema, place : Place, ns : Seq(Namespace)]
PipelineDef == [name : PipelineName, src : Table, tgt : Table, sql : Sql]

ASSUME RegistrationAssumption ==
  /\ Config \in [Host -> [tables : Seq(TableDef), pipelines : Seq(PipelineDef)]]
  /\ Packed \in Place
  /\ Nobody \notin Host
  /\ MaxFault \in Nat

VARIABLES
  hypertables,  \* rows [name, schema, place]
  logical,      \* rows <<namespace, name>>
  pipelines,    \* rows of PipelineDef
  lock,         \* pg_advisory_xact_lock(20123, 8)
  pc,           \* the statement each process is about to run
  at,           \* the table or pipeline of its configuration it is on
  left,         \* the namespaces of that table still to look at
  faults

vars == <<hypertables, logical, pipelines, lock, pc, at, left, faults>>
Catalog == <<hypertables, logical, pipelines>>

Init ==
  /\ hypertables = {} /\ logical = {} /\ pipelines = {}
  /\ lock = Nobody
  /\ pc = [h \in Host |-> "down"]
  /\ at = [h \in Host |-> 1]
  /\ left = [h \in Host |-> <<>>]
  /\ faults = 0

Tables(h) == Config[h].tables
Pipelines(h) == Config[h].pipelines
TableOf(h) == Tables(h)[at[h]]
PipelineOf(h) == Pipelines(h)[at[h]]
Registered(t) == \E r \in hypertables : r.name = t

Goto(h, label) == pc' = [pc EXCEPT ![h] = label]
Unlocked(h) == IF lock = h THEN Nobody ELSE lock

(* Faulty variant: the failed transaction is left open. *)
RefuseLocked(h) == Goto(h, "failed") /\ UNCHANGED <<lock, at, left>>

(* A permanent error: the process reports it and ends. *)
Refuse(h) == Goto(h, "failed") /\ lock' = Unlocked(h) /\ UNCHANGED <<at, left>>

(* The next thing to apply, from table i or pipeline i on. *)
FromTable(h, i) ==
  /\ at' = [at EXCEPT ![h] = IF i <= Len(Tables(h)) THEN i ELSE 1]
  /\ Goto(h, IF i <= Len(Tables(h)) THEN "table"
             ELSE IF Pipelines(h) = <<>> THEN "up" ELSE "endpoints")

FromPipeline(h, i) ==
  /\ at' = [at EXCEPT ![h] = IF i <= Len(Pipelines(h)) THEN i ELSE 1]
  /\ Goto(h, IF i <= Len(Pipelines(h)) THEN "endpoints" ELSE "up")

-----------------------------------------------------------------------------
(* The process starts, or is started again after it ended. *)
Start(h) ==
  /\ pc[h] \in {"down", "failed"}
  /\ FromTable(h, 1)
  /\ UNCHANGED <<hypertables, logical, pipelines, lock, left, faults>>

(***************************************************************************)
(* apply, one table: look the hypertable up; a table that exists is never  *)
(* altered, whatever the configuration says.                               *)
(***************************************************************************)
GetHypertable(h) ==
  /\ pc[h] = "table"
  /\ IF Registered(TableOf(h).name)
     THEN Goto(h, "namespace") /\ left' = [left EXCEPT ![h] = TableOf(h).ns]
     ELSE Goto(h, "create") /\ UNCHANGED left
  /\ UNCHANGED <<hypertables, logical, pipelines, lock, at, faults>>

(* The insert loses against another process's with a unique violation. *)
CreateHypertable(h) ==
  /\ pc[h] = "create"
  /\ IF Registered(TableOf(h).name)
     THEN Refuse(h) /\ UNCHANGED hypertables
     ELSE /\ hypertables' = hypertables \cup
               {[name |-> TableOf(h).name, schema |-> TableOf(h).schema, place |-> Packed]}
          /\ left' = [left EXCEPT ![h] = TableOf(h).ns]
          /\ Goto(h, IF TableOf(h).place = Packed THEN "namespace" ELSE "place")
          /\ UNCHANGED <<lock, at>>
  /\ UNCHANGED <<logical, pipelines, faults>>

Placed(r, h) == [r EXCEPT !.place = IF r.name = TableOf(h).name THEN TableOf(h).place ELSE @]

SetPlacement(h) ==
  /\ pc[h] = "place"
  /\ hypertables' = {Placed(r, h) : r \in hypertables}
  /\ Goto(h, "namespace")
  /\ UNCHANGED <<logical, pipelines, lock, at, left, faults>>

(* The namespaces of the table: look each up, create what is missing. *)
GetLogicalTable(h) ==
  /\ pc[h] = "namespace"
  /\ \/ /\ left[h] = <<>>
        /\ FromTable(h, at[h] + 1)
        /\ UNCHANGED left
     \/ /\ left[h] # <<>>
        /\ IF <<Head(left[h]), TableOf(h).name>> \in logical
           THEN left' = [left EXCEPT ![h] = Tail(@)] /\ UNCHANGED pc
           ELSE Goto(h, "logical") /\ UNCHANGED left
        /\ UNCHANGED at
  /\ UNCHANGED <<hypertables, logical, pipelines, lock, faults>>

CreateLogicalTable(h) ==
  /\ pc[h] = "logical"
  /\ LET row == <<Head(left[h]), TableOf(h).name>>
     IN IF row \in logical
        THEN Refuse(h) /\ UNCHANGED logical
        ELSE /\ logical' = logical \cup {row}
             /\ left' = [left EXCEPT ![h] = Tail(@)]
             /\ Goto(h, "namespace")
             /\ UNCHANGED <<lock, at>>
  /\ UNCHANGED <<hypertables, pipelines, faults>>

-----------------------------------------------------------------------------
(***************************************************************************)
(* apply_pipelines, one pipeline: both endpoints must exist; then          *)
(* ensure_pipeline takes the lock for the rest of its transaction.         *)
(***************************************************************************)
GetEndpoints(h) ==
  /\ pc[h] = "endpoints"
  /\ IF Registered(PipelineOf(h).src) /\ Registered(PipelineOf(h).tgt)
     THEN Goto(h, "lock") /\ UNCHANGED <<lock, at, left>>
     ELSE Refuse(h)
  /\ UNCHANGED <<hypertables, logical, pipelines, faults>>

(* Faulty variant: no advisory lock. *)
LockIgnored(h) == TRUE

LockFree(h) == lock = Nobody

Lock(h) ==
  /\ pc[h] = "lock"
  /\ LockFree(h)
  /\ lock' = h
  /\ Goto(h, "name")
  /\ UNCHANGED <<hypertables, logical, pipelines, at, left, faults>>

(* A pipeline of this name must be exactly this pipeline. *)
SameDefinition(h) ==
  \A p \in pipelines : p.name = PipelineOf(h).name => p = PipelineOf(h)

FindByName(h) ==
  /\ pc[h] = "name"
  /\ \/ /\ \A p \in pipelines : p.name # PipelineOf(h).name
        /\ Goto(h, "graph")
        /\ UNCHANGED <<lock, at, left>>
     \/ /\ \E p \in pipelines : p.name = PipelineOf(h).name
        /\ SameDefinition(h)
        /\ lock' = Nobody
        /\ FromPipeline(h, at[h] + 1)
        /\ UNCHANGED left
     \/ ~SameDefinition(h) /\ Refuse(h)
  /\ UNCHANGED <<hypertables, logical, pipelines, faults>>

(* The recursive query: the least set that holds t and every target of a   *)
(* pipeline whose source it holds.                                         *)
ClosedUnder(S, P) == \A p \in P : p.src \in S => p.tgt \in S
Reachable(t, P) == {x \in Table : \A S \in SUBSET Table : t \in S /\ ClosedUnder(S, P) => x \in S}

CheckGraph(h) ==
  /\ pc[h] = "graph"
  /\ IF /\ Registered(PipelineOf(h).src) /\ Registered(PipelineOf(h).tgt)
        /\ PipelineOf(h).src \notin Reachable(PipelineOf(h).tgt, pipelines)
     THEN Goto(h, "insert") /\ UNCHANGED <<lock, at, left>>
     ELSE Refuse(h)
  /\ UNCHANGED <<hypertables, logical, pipelines, faults>>

(* The insert and the commit that makes it visible and frees the lock. *)
InsertPipeline(h) ==
  /\ pc[h] = "insert"
  /\ pipelines' = pipelines \cup {PipelineOf(h)}
  /\ lock' = Nobody
  /\ FromPipeline(h, at[h] + 1)
  /\ UNCHANGED <<hypertables, logical, left, faults>>

-----------------------------------------------------------------------------
TablePhase == {"table", "create", "place", "namespace", "logical"}
PipelinePhase == {"endpoints", "lock", "name", "graph", "insert"}

(* A statement fails with its connection: the transaction rolls back, or   *)
(* only the answer to its commit is lost, and the phase is applied again   *)
(* from its first table or pipeline.                                       *)
LoseConnection(h) ==
  /\ pc[h] \in TablePhase \cup PipelinePhase
  /\ faults < MaxFault
  /\ faults' = faults + 1
  /\ lock' = Unlocked(h)
  /\ IF pc[h] \in TablePhase THEN FromTable(h, 1) ELSE FromPipeline(h, 1)
  /\ \/ UNCHANGED pipelines
     \/ pc[h] = "insert" /\ pipelines' = pipelines \cup {PipelineOf(h)}
  /\ UNCHANGED <<hypertables, logical, left>>

Kill(h) ==
  /\ pc[h] # "down"
  /\ faults < MaxFault
  /\ faults' = faults + 1
  /\ lock' = Unlocked(h)
  /\ Goto(h, "down")
  /\ UNCHANGED <<hypertables, logical, pipelines, at, left>>

HostStep(h) ==
  \/ Start(h)
  \/ GetHypertable(h) \/ CreateHypertable(h) \/ SetPlacement(h)
  \/ GetLogicalTable(h) \/ CreateLogicalTable(h)
  \/ GetEndpoints(h) \/ Lock(h) \/ FindByName(h) \/ CheckGraph(h) \/ InsertPipeline(h)

Next == \E h \in Host : HostStep(h) \/ LoseConnection(h) \/ Kill(h)

Spec == Init /\ [][Next]_vars

(* Every process runs and is started again when it ends.  Waiting for the  *)
(* advisory lock is a queue in PostgreSQL, so a waiter is not passed over  *)
(* for ever.                                                               *)
Fairness == \A h \in Host : WF_vars(HostStep(h)) /\ SF_vars(Lock(h))
FairSpec == Spec /\ Fairness

-----------------------------------------------------------------------------
TypeOK ==
  /\ hypertables \subseteq [name : Table, schema : Schema, place : Place]
  /\ logical \subseteq Namespace \X Table
  /\ pipelines \subseteq PipelineDef
  /\ lock \in Host \cup {Nobody}
  /\ pc \in [Host -> {"down", "up", "failed"} \cup TablePhase \cup PipelinePhase]
  /\ at \in [Host -> Nat \ {0}]
  /\ \A h \in Host :
       /\ pc[h] \in TablePhase => at[h] <= Len(Tables(h))
       /\ pc[h] \in PipelinePhase => at[h] <= Len(Pipelines(h))
  /\ left \in [Host -> Seq(Namespace)]
  /\ faults \in 0..MaxFault

(* Whatever configurations start together, the pipelines never close a     *)
(* cycle: the lock keeps the cycle query of ensure_pipeline true until its *)
(* insert commits.                                                         *)
PipelinesAcyclic ==
  \A p \in pipelines : p.src \notin Reachable(p.tgt, pipelines)

(* A process that is up finds in the catalog every table and namespace of   *)
(* its configuration, and each of its pipelines exactly as it defines it,  *)
(* although another process may have registered them.                      *)
UpMeansRegistered ==
  \A h \in Host : pc[h] = "up" =>
    /\ \A i \in DOMAIN Tables(h) :
         /\ Registered(Tables(h)[i].name)
         /\ \A j \in DOMAIN Tables(h)[i].ns :
              <<Tables(h)[i].ns[j], Tables(h)[i].name>> \in logical
    /\ \A i \in DOMAIN Pipelines(h) : Pipelines(h)[i] \in pipelines

(* Both: the catalog that the hosts of a fleet register together is sound   *)
(* for each of them (bootstrap, ensure_pipeline).                           *)
CatalogSound == PipelinesAcyclic /\ UpMeansRegistered

(* "Creates what is missing; never mutates what exists" (bootstrap.rs:2):  *)
(* rows are never removed, a definition never changes, and a placement is  *)
(* given at most once, to a table that was created packed.                 *)
NeverAltered ==
  [][/\ logical \subseteq logical' /\ pipelines \subseteq pipelines'
     /\ \A r \in hypertables : \E q \in hypertables' :
          /\ q.name = r.name /\ q.schema = r.schema
          /\ r.place # Packed => q.place = r.place
     /\ \A r, q \in hypertables' : r.name = q.name => r = q]_vars

(* Every process settles: it comes up and stays up, or what it is refused   *)
(* for is in the catalog for good, another definition under a name of its  *)
(* own or a path that its pipeline would close.  A lost race for a table   *)
(* only costs a restart.                                                   *)
Contradicted(h) ==
  \E i \in DOMAIN Pipelines(h) :
    LET d == Pipelines(h)[i]
    IN \/ \E p \in pipelines : p.name = d.name /\ p # d
       \/ d \notin pipelines /\ d.src \in Reachable(d.tgt, pipelines)
EveryHostSettles == \A h \in Host : <>[](pc[h] = "up" \/ Contradicted(h))
=============================================================================
