-------------------------- MODULE SupervisorProofs --------------------------
(***************************************************************************)
(* Readiness and reconciliation of Supervisor, for any set of roles and    *)
(* any number of outages and broken connections.                           *)
(***************************************************************************)
EXTENDS Supervisor, TLAPS

\* run_with_catalog has not spawned the roles yet.
Starting == {"step", "probe", "answered", "refused", "sleep"}

\* A role's entry in the registry is healthy only while the worker it runs
\* now has reloaded; what the supervisor does not know of is asked first.
RoleOK(r) ==
    /\ pc[r] # "working" => state[r] # "healthy"
    /\ state[r] = "healthy" => loaded[r]
    /\ pc[r] \in {"idle", "working"} => doubt[r] = "none"
    /\ pc["boot"] \in Starting => pc[r] = "idle"

SupervisorInv ==
    /\ TypeOK
    /\ pc["boot"] \in Starting \cup {"join", "gone"}
    /\ pc["boot"] \in Starting => step < Steps
    /\ \A r \in Worker : RoleOK(r)

-----------------------------------------------------------------------------
States == {"starting", "healthy", "degraded", "reconciling", "failed", "stopped"}
Labels == {"step", "idle", "working", "serving", "probe", "answered", "refused", "sleep",
           "lookup", "join"} \cup Ended

\* Everything but the world and the tables of the tasks.
RestTyped ==
    /\ token \in BOOLEAN /\ cause \subseteq {"signal", "permanent"}
    /\ catalog \in {"healthy", "unavailable"} /\ step \in 0..Steps
    /\ result \in {"running", "ok", "error"}

WorldTyped == up \in BOOLEAN /\ outages \in 0..MaxOutage /\ blips \in 0..MaxBlip

TablesTyped ==
    /\ state \in [Role -> States] /\ pc \in [Task -> Labels]
    /\ loaded \in [Worker -> BOOLEAN] /\ doubt \in [Worker -> Doubt]

\* The type invariant by actor, in the parts the steps change.
LEMMA Typed == TypeOK <=> WorldTyped /\ RestTyped /\ TablesTyped
  BY Zenon DEF TypeOK, WorldTyped, RestTyped, TablesTyped, States, Labels

\* A call that answers or fails keeps the counters within their bounds.
LEMMA CallTyped ==
    ASSUME WorldTyped, CallAnswers \/ CallFails
    PROVE  WorldTyped'
  BY SupervisorAssumption DEF WorldTyped, CallAnswers, CallFails, world

\* What transition() does to the registry.
LEMMA Transitions ==
    ASSUME TablesTyped, NEW r \in Role, NEW to \in States, Transition(r, to)
    PROVE  /\ state' \in [Role -> States]
           /\ \A q \in Role \ {r} : state'[q] = state[q]
           /\ state'[r] = to \/ (state'[r] = state[r] /\ state[r] # "healthy")
  BY Zenon DEF TablesTyped, Transition

\* Only the role r moves, and it is in order afterwards.
LEMMA OnlyRole ==
    ASSUME SupervisorInv, NEW r \in Worker, NEW label \in Labels,
           Goto(r, label) \/ (UNCHANGED pc /\ label = pc[r]),
           state' \in [Role -> States], \A q \in Role \ {r} : state'[q] = state[q],
           loaded' \in [Worker -> BOOLEAN], \A q \in Worker \ {r} : loaded'[q] = loaded[q],
           doubt' \in [Worker -> Doubt], \A q \in Worker \ {r} : doubt'[q] = doubt[q],
           WorldTyped', RestTyped', UNCHANGED step,
           pc[r] # "idle", label # "idle",
           label # "working" => state'[r] # "healthy",
           state'[r] = "healthy" => loaded'[r],
           label = "working" => doubt'[r] = "none"
    PROVE  SupervisorInv'
<1>1. TablesTyped /\ r # "boot" /\ r \in Task /\ "boot" \in Task
  BY Typed, SupervisorAssumption, Zenon DEF SupervisorInv, Task, Waiter
<1>2. /\ pc' \in [Task -> Labels] /\ pc'[r] = label
      /\ \A t \in Task \ {r} : pc'[t] = pc[t]
  BY <1>1, Zenon DEF Goto, TablesTyped
<1>3. TypeOK'
  BY <1>2, Typed, Zenon DEF TablesTyped, TypeOK, WorldTyped, RestTyped, States, Labels
<1>4. pc'["boot"] = pc["boot"] /\ pc["boot"] \notin Starting
  BY <1>1, <1>2, Zenon DEF SupervisorInv, RoleOK
<1>5. ASSUME NEW q \in Worker PROVE RoleOK(q)'
  <2>1. CASE q = r
    BY <1>2, <1>4, <2>1, Zenon DEF RoleOK
  <2>2. CASE q # r
    <3>1. /\ q \in Task /\ q \in Role /\ pc'[q] = pc[q] /\ state'[q] = state[q]
          /\ loaded'[q] = loaded[q] /\ doubt'[q] = doubt[q]
      BY <1>2, <2>2, Zenon DEF Task, Waiter, Role
    <3> QED
      BY <1>4, <3>1, Zenon DEF SupervisorInv, RoleOK
  <2> QED
    BY <2>1, <2>2, Zenon
<1> QED
  BY <1>3, <1>4, <1>5, Zenon DEF SupervisorInv

\* Every step of a supervised role keeps the roles in order.
LEMMA RoleStep ==
    ASSUME SupervisorInv, NEW r \in Worker,
           Supervise(r) \/ Work(r) \/ Permanent(r)
    PROVE  SupervisorInv'
<1>a. /\ TablesTyped /\ WorldTyped /\ RestTyped /\ RoleOK(r)
      /\ r \in Role /\ r # "boot" /\ pc[r] \in Labels /\ state[r] \in States
  BY Typed, SupervisorAssumption, Zenon DEF SupervisorInv, Role, TablesTyped, Task, Waiter
<1>b. {"probe", "answered", "refused", "sleep", "lookup", "working", "stopped", "failed"}
        \subseteq Labels /\ {"reconciling", "stopped", "healthy", "degraded", "failed"} \subseteq States
  BY Zenon DEF Labels, Ended, States
<1> DEFINE Same == UNCHANGED <<state, loaded, doubt>>
           Steady == UNCHANGED <<token, cause, step, result>>
           Unmoved == UNCHANGED <<up, outages, blips>>
<1>c. ASSUME Steady, UNCHANGED catalog \/ catalog' \in {"healthy", "unavailable"} PROVE RestTyped'
  BY <1>a, <1>c, Zenon DEF RestTyped
<1>d. ASSUME UNCHANGED <<token, catalog, step, result>>, cause' = cause \cup {"permanent"}
      PROVE  RestTyped'
  BY <1>a, <1>d, Zenon DEF RestTyped
<1>e. ASSUME CallAnswers \/ CallFails \/ Unmoved PROVE WorldTyped'
  BY <1>a, <1>e, CallTyped, Zenon DEF WorldTyped
<1>f. ASSUME Same
      PROVE  /\ state' \in [Role -> States] /\ \A q \in Role \ {r} : state'[q] = state[q]
             /\ loaded' \in [Worker -> BOOLEAN] /\ \A q \in Worker \ {r} : loaded'[q] = loaded[q]
             /\ doubt' \in [Worker -> Doubt] /\ \A q \in Worker \ {r} : doubt'[q] = doubt[q]
             /\ state'[r] = state[r] /\ loaded'[r] = loaded[r] /\ doubt'[r] = doubt[r]
  BY <1>a, <1>f, Zenon DEF TablesTyped
<1>1. CASE Probe(r) \/ Refused(r) \/ Sleep(r) \/ LookupFails(r)
  <2>1. /\ pc[r] \in {"probe", "refused", "sleep", "lookup"}
        /\ Goto(r, "answered") \/ Goto(r, "refused") \/ Goto(r, "sleep") \/ Goto(r, "probe")
        /\ Same /\ Steady /\ (UNCHANGED catalog \/ catalog' = "unavailable")
        /\ CallAnswers \/ CallFails \/ Unmoved
    BY <1>1, Zenon DEF Probe, Refused, Sleep, LookupFails, world
  <2>2. RestTyped' /\ WorldTyped'
    BY <1>c, <1>e, <2>1, Zenon
  <2>3. ASSUME NEW label \in {"answered", "refused", "sleep", "probe"}, Goto(r, label)
        PROVE  SupervisorInv'
    <3>1. state[r] # "healthy"
      BY <1>a, <2>1, Zenon DEF RoleOK
    <3> QED
      BY <1>b, <1>f, <2>1, <2>2, <2>3, <3>1, OnlyRole, ZenonT(30)
  <2> QED
    BY <2>1, <2>3, Zenon
<1>2. CASE Answered(r)
  <2>1. /\ pc[r] = "answered" /\ catalog' = "healthy" /\ Transition(r, "reconciling")
        /\ Goto(r, IF doubt[r] # "none" THEN "lookup" ELSE "working")
        /\ loaded' = [loaded EXCEPT ![r] = FALSE] /\ Steady /\ Unmoved /\ UNCHANGED doubt
    BY <1>2, <1>a, Zenon DEF Answered, world
  <2>2. RestTyped' /\ WorldTyped'
    BY <1>c, <1>e, <2>1, Zenon
  <2>3. /\ state' \in [Role -> States] /\ \A q \in Role \ {r} : state'[q] = state[q]
        /\ state'[r] # "healthy"
    BY <1>a, <1>b, <2>1, Transitions, Zenon
  <2>4. /\ loaded' \in [Worker -> BOOLEAN] /\ \A q \in Worker \ {r} : loaded'[q] = loaded[q]
        /\ doubt' \in [Worker -> Doubt] /\ \A q \in Worker : doubt'[q] = doubt[q]
    BY <1>a, <2>1, Zenon DEF TablesTyped
  <2> DEFINE label == IF doubt[r] # "none" THEN "lookup" ELSE "working"
  <2>5. label \in Labels /\ label # "idle" /\ (label = "working" => doubt'[r] = "none") /\ Goto(r, label)
    BY <1>b, <2>1, <2>4, Zenon
  <2> HIDE DEF label
  <2> QED
    BY <2>1, <2>2, <2>3, <2>4, <2>5, OnlyRole, ZenonT(30)
<1>3. CASE WaitStops(r) \/ Finish(r)
  <2>1. /\ pc[r] \in {"probe", "sleep", "working"} /\ Transition(r, "stopped") /\ Goto(r, "stopped")
        /\ Steady /\ Unmoved /\ UNCHANGED <<catalog, loaded, doubt>>
    BY <1>3, <1>a, Zenon DEF WaitStops, Finish, world
  <2>2. RestTyped' /\ WorldTyped'
    BY <1>c, <1>e, <2>1, Zenon
  <2>3. /\ state' \in [Role -> States] /\ \A q \in Role \ {r} : state'[q] = state[q]
        /\ state'[r] # "healthy"
    BY <1>a, <1>b, <2>1, Transitions, Zenon
  <2> QED
    BY <1>a, <1>b, <2>1, <2>2, <2>3, OnlyRole, Zenon DEF TablesTyped
<1>4. CASE Reconciled(r)
  <2>1. /\ pc[r] = "lookup" /\ CallAnswers /\ doubt' = [doubt EXCEPT ![r] = "none"]
        /\ Goto(r, "working") /\ Steady /\ UNCHANGED <<catalog, state, loaded>>
    BY <1>4, Zenon DEF Reconciled
  <2>2. RestTyped' /\ WorldTyped'
    BY <1>c, <1>e, <2>1, Zenon
  <2>3. /\ doubt' \in [Worker -> Doubt] /\ doubt'[r] = "none"
        /\ \A q \in Worker \ {r} : doubt'[q] = doubt[q]
    BY <1>a, <2>1, Zenon DEF TablesTyped, Doubt
  <2>4. state[r] # "healthy"
    BY <1>a, <2>1, Zenon DEF RoleOK
  <2> QED
    BY <1>a, <1>b, <2>1, <2>2, <2>3, <2>4, OnlyRole, Zenon DEF TablesTyped
<1>5. CASE Collides(r) \/ Permanent(r)
  <2>1. /\ pc[r] \in {"lookup", "working"} /\ Transition(r, "failed") /\ Goto(r, "failed")
        /\ CallAnswers \/ Unmoved
        /\ UNCHANGED <<token, catalog, step, result>> /\ cause' = cause \cup {"permanent"}
        /\ UNCHANGED <<loaded, doubt>>
    BY <1>5, Zenon DEF Collides, Permanent, world
  <2>2. RestTyped' /\ WorldTyped'
    BY <1>d, <1>e, <2>1, Zenon
  <2>3. /\ state' \in [Role -> States] /\ \A q \in Role \ {r} : state'[q] = state[q]
        /\ state'[r] # "healthy"
    BY <1>a, <1>b, <2>1, Transitions, Zenon
  <2> QED
    BY <1>a, <1>b, <2>1, <2>2, <2>3, OnlyRole, Zenon DEF TablesTyped
<1>6. CASE Reload(r)
  <2>1. /\ pc[r] = "working" /\ CallAnswers /\ loaded' = [loaded EXCEPT ![r] = TRUE]
        /\ Transition(r, "healthy") /\ Steady /\ UNCHANGED <<catalog, pc, doubt>>
    BY <1>6, Zenon DEF Reload
  <2>2. RestTyped' /\ WorldTyped'
    BY <1>c, <1>e, <2>1, Zenon
  <2>3. /\ state' \in [Role -> States] /\ \A q \in Role \ {r} : state'[q] = state[q]
    BY <1>a, <1>b, <2>1, Transitions, Zenon
  <2>4. /\ loaded' \in [Worker -> BOOLEAN] /\ \A q \in Worker \ {r} : loaded'[q] = loaded[q]
        /\ loaded'[r]
    BY <1>a, <2>1, Zenon DEF TablesTyped
  <2>5. doubt[r] = "none"
    BY <1>a, <2>1, Zenon DEF RoleOK
  <2> QED
    BY <1>a, <1>b, <2>1, <2>2, <2>3, <2>4, <2>5, OnlyRole, ZenonT(30) DEF TablesTyped
<1>7. ASSUME NEW d \in Doubt, Degrade(r, d) PROVE SupervisorInv'
  <2>1. /\ pc[r] = "working" /\ CallFails /\ doubt' = [doubt EXCEPT ![r] = d]
        /\ Transition(r, "degraded") /\ Goto(r, "probe") /\ Steady /\ UNCHANGED <<catalog, loaded>>
    BY <1>7, Zenon DEF Degrade
  <2>2. RestTyped' /\ WorldTyped'
    BY <1>c, <1>e, <2>1, Zenon
  <2>3. /\ state' \in [Role -> States] /\ \A q \in Role \ {r} : state'[q] = state[q]
        /\ state'[r] # "healthy"
    BY <1>a, <1>b, <2>1, Transitions, Zenon
  <2>4. doubt' \in [Worker -> Doubt] /\ \A q \in Worker \ {r} : doubt'[q] = doubt[q]
    BY <1>a, <2>1, Zenon DEF TablesTyped
  <2> QED
    BY <1>a, <1>b, <2>1, <2>2, <2>3, <2>4, OnlyRole, ZenonT(30) DEF TablesTyped
<1> QED
  BY <1>1, <1>2, <1>3, <1>4, <1>5, <1>6, <1>7, Zenon DEF Supervise, Wait, Work

\* Steps of run_with_catalog, of the server and of the world.
LEMMA ProcessStep ==
    ASSUME SupervisorInv,
           Outage \/ Restore \/ Signal \/ Boot \/ BootFails \/ ServerStops
    PROVE  SupervisorInv'
<1>a. /\ TablesTyped /\ WorldTyped /\ RestTyped
      /\ "boot" \in Task /\ "query" \in Task /\ Worker \subseteq Task
      /\ "boot" \notin Worker /\ "query" \notin Worker
      /\ pc["boot"] \in Starting \cup {"join", "gone"}
      /\ pc["boot"] \in Starting => step < Steps
      /\ \A r \in Worker : RoleOK(r)
  BY Typed, SupervisorAssumption, Zenon DEF SupervisorInv, Task, Waiter
<1> DEFINE Same == UNCHANGED <<state, loaded, doubt>>
<1>b. ASSUME Same, pc' \in [Task -> Labels], WorldTyped', RestTyped' PROVE TypeOK'
  BY <1>a, <1>b, Zenon DEF TypeOK, TablesTyped, WorldTyped, RestTyped, States, Labels
<1>c. ASSUME Same, UNCHANGED pc, WorldTyped', RestTyped', UNCHANGED step PROVE SupervisorInv'
  BY <1>a, <1>b, <1>c, Zenon DEF SupervisorInv, RoleOK, TablesTyped
<1>d. ASSUME CallAnswers \/ CallFails \/ UNCHANGED <<up, outages, blips>> PROVE WorldTyped'
  BY <1>a, <1>d, CallTyped, Zenon DEF WorldTyped
<1>e. ASSUME Same, WorldTyped', RestTyped', UNCHANGED step, pc["boot"] \in Starting,
             NEW label \in Starting, Goto("boot", label)
      PROVE  SupervisorInv'
  <2>1. pc' \in [Task -> Labels] /\ pc'["boot"] = label /\ \A r \in Worker : pc'[r] = pc[r]
    BY <1>a, <1>e, Zenon DEF TablesTyped, Goto, Labels, Starting
  <2> QED
    BY <1>a, <1>b, <1>e, <2>1, Zenon DEF SupervisorInv, RoleOK
<1>f. ASSUME Same, WorldTyped', RestTyped', UNCHANGED step, pc' = [t \in Task |-> "gone"],
             \A r \in Worker : state[r] # "healthy"
      PROVE  SupervisorInv'
  <2>1. pc' \in [Task -> Labels] /\ \A t \in Task : pc'[t] = "gone"
    BY <1>f, Zenon DEF Labels, Ended
  <2>2. TypeOK'
    BY <1>b, <1>f, <2>1, Zenon
  <2>3. \A r \in Worker : RoleOK(r)'
    BY <1>a, <1>f, <2>1, Zenon DEF RoleOK, Starting
  <2> QED
    BY <1>a, <2>1, <2>2, <2>3, Zenon DEF SupervisorInv, Starting
<1>g. ASSUME pc["boot"] \in Starting PROVE \A r \in Worker : pc[r] = "idle" /\ state[r] # "healthy"
  BY <1>a, <1>g, ZenonT(30) DEF RoleOK
<1>1. CASE Outage \/ Restore \/ Signal
  <2>1. Same /\ UNCHANGED <<pc, step>>
    BY <1>1, Zenon DEF Outage, Restore, Signal
  <2>2. WorldTyped'
    <3>1. up' \in BOOLEAN
      BY <1>1, <1>a, Zenon DEF Outage, Restore, Signal, WorldTyped
    <3>2. outages' \in 0..MaxOutage /\ blips' \in 0..MaxBlip
      BY <1>1, <1>a, SupervisorAssumption DEF Outage, Restore, Signal, WorldTyped
    <3> QED
      BY <3>1, <3>2, Zenon DEF WorldTyped
  <2>3. RestTyped'
    BY <1>1, <1>a, ZenonT(30) DEF Outage, Restore, Signal, RestTyped
  <2> QED
    BY <1>c, <2>1, <2>2, <2>3, Zenon
<1>2. CASE Probe("boot") \/ Refused("boot") \/ Sleep("boot") \/ Answered("boot") \/ BootWaits
  <2>1. /\ pc["boot"] \in {"probe", "refused", "sleep", "answered", "step"}
        /\ \/ Goto("boot", "answered") \/ Goto("boot", "refused") \/ Goto("boot", "sleep")
           \/ Goto("boot", "probe") \/ Goto("boot", "step")
        /\ Same /\ UNCHANGED <<token, cause, step, result>>
        /\ UNCHANGED catalog \/ catalog' \in {"healthy", "unavailable"}
        /\ CallAnswers \/ CallFails \/ UNCHANGED <<up, outages, blips>>
    BY <1>2, Zenon DEF Probe, Refused, Sleep, Answered, BootWaits, world
  <2>2. RestTyped'
    BY <1>a, <2>1, Zenon DEF RestTyped
  <2>3. pc["boot"] \in Starting /\ {"answered", "refused", "sleep", "probe", "step"} \subseteq Starting
    BY <2>1, Zenon DEF Starting
  <2> QED
    BY <1>d, <1>e, <2>1, <2>2, <2>3, Zenon
<1>3. CASE WaitStops("boot") \/ BootFails
  <2>1. /\ pc["boot"] \in Starting /\ pc' = [t \in Task |-> "gone"] /\ Same
        /\ UNCHANGED <<token, catalog, step>> /\ result' = "error"
        /\ cause' = cause \/ cause' = cause \cup {"permanent"}
        /\ UNCHANGED <<up, outages, blips>>
    BY <1>3, Zenon DEF WaitStops, BootFails, world, Starting
  <2>2. RestTyped'
    BY <1>a, <2>1, ZenonT(30) DEF RestTyped
  <2> QED
    BY <1>d, <1>f, <1>g, <2>1, <2>2, Zenon
<1>4. CASE BootStep
  <2>1. /\ pc["boot"] = "step" /\ CallAnswers /\ step' = step + 1 /\ catalog' = "healthy"
        /\ Same /\ UNCHANGED <<token, cause, result>>
    BY <1>4, Zenon DEF BootStep
  <2>2. step \in 0..Steps /\ step < Steps /\ step' \in 0..Steps
    BY <1>a, <2>1 DEF RestTyped, Starting, Steps
  <2>3. RestTyped' /\ WorldTyped'
    BY <1>a, <1>d, <2>1, <2>2, Zenon DEF RestTyped
  <2>4. CASE step + 1 < Steps
    <3>1. UNCHANGED pc
      BY <1>4, <2>4, Zenon DEF BootStep
    <3> QED
      BY <1>a, <1>b, <2>1, <2>3, <2>4, <3>1, Zenon DEF SupervisorInv, RoleOK, TablesTyped
  <2>5. CASE ~(step + 1 < Steps)
    <3>1. pc' = [t \in Task |-> CASE t = "boot" -> "join"
                                  [] t \in Worker -> "working"
                                  [] OTHER -> pc[t]]
      BY <1>4, <2>5, Zenon DEF BootStep
    <3>2. /\ pc' \in [Task -> Labels] /\ pc'["boot"] = "join"
          /\ \A r \in Worker : pc'[r] = "working"
      BY <1>a, <3>1, Zenon DEF TablesTyped, Labels
    <3>3. \A r \in Worker : doubt[r] = "none" /\ state[r] # "healthy"
      BY <1>a, <1>g, <2>1, Zenon DEF RoleOK, Starting
    <3>4. TypeOK'
      BY <1>b, <2>1, <2>3, <3>2, Zenon
    <3>5. \A r \in Worker : RoleOK(r)'
      BY <2>1, <3>2, <3>3, Zenon DEF RoleOK, Starting
    <3> QED
      BY <3>2, <3>4, <3>5, Zenon DEF SupervisorInv, Starting
  <2> QED
    BY <2>4, <2>5, Zenon
<1>5. CASE ServerStops
  <2>1. /\ Goto("query", "stopped") /\ Same /\ UNCHANGED <<token, cause, catalog, step, result>>
        /\ UNCHANGED <<up, outages, blips>>
    BY <1>5, Zenon DEF ServerStops, world
  <2>2. /\ pc' \in [Task -> Labels] /\ pc'["boot"] = pc["boot"]
        /\ \A r \in Worker : pc'[r] = pc[r]
    BY <1>a, <2>1, Zenon DEF Goto, TablesTyped, Labels, Ended
  <2>3. RestTyped' /\ WorldTyped'
    BY <1>a, <1>d, <2>1, Zenon DEF RestTyped
  <2> QED
    BY <1>a, <1>b, <2>1, <2>2, <2>3, Zenon DEF SupervisorInv, RoleOK
<1>6. ASSUME NEW t \in Task, Join(t) PROVE SupervisorInv'
  <2>1. /\ pc["boot"] = "join" /\ pc[t] \in {"stopped", "failed"} /\ t # "boot"
        /\ token' = (token \/ pc[t] = "failed")
        /\ Same /\ UNCHANGED <<cause, catalog, step>> /\ UNCHANGED <<up, outages, blips>>
    BY <1>6, Zenon DEF Join, world
  <2>2. \/ /\ \A u \in Task \ {"boot", t} : pc[u] = "joined"
           /\ pc' = [u \in Task |-> "gone"]
           /\ result' \in {"error", "ok"}
        \/ Goto(t, "joined") /\ UNCHANGED result
    BY <1>6, Zenon DEF Join
  <2>3. RestTyped' /\ WorldTyped'
    BY <1>a, <1>d, <2>1, <2>2, Zenon DEF RestTyped
  <2>4. CASE Goto(t, "joined")
    <3>1. /\ pc' \in [Task -> Labels] /\ pc'["boot"] = "join"
          /\ \A r \in Worker : pc'[r] = pc[r] \/ (r = t /\ pc'[r] = "joined")
      BY <1>a, <2>1, <2>4, Zenon DEF Goto, TablesTyped, Labels, Ended
    <3>2. TypeOK'
      BY <1>b, <2>1, <2>3, <3>1, Zenon
    <3>3. \A r \in Worker : RoleOK(r)'
      BY <1>a, <2>1, <3>1, Zenon DEF RoleOK, Starting
    <3> QED
      BY <3>1, <3>2, <3>3, Zenon DEF SupervisorInv, Starting
  <2>5. CASE /\ \A u \in Task \ {"boot", t} : pc[u] = "joined"
             /\ pc' = [u \in Task |-> "gone"]
    <3>1. \A r \in Worker : pc[r] # "working"
      BY <1>a, <2>1, <2>5, Zenon
    <3>2. \A r \in Worker : state[r] # "healthy"
      BY <1>a, <3>1, ZenonT(30) DEF RoleOK
    <3> QED
      BY <1>f, <2>1, <2>3, <2>5, <3>2, Zenon
  <2> QED
    BY <2>2, <2>4, <2>5, Zenon
<1> QED
  BY <1>1, <1>2, <1>3, <1>4, <1>5, <1>6, Zenon DEF Boot, Wait

-----------------------------------------------------------------------------
\* The inductive invariant holds for every set of roles and every sequence of
\* outages, broken connections, failures and signals.
THEOREM Supervised == Spec => []SupervisorInv
<1>1. Init => SupervisorInv
  <2> SUFFICES ASSUME Init PROVE SupervisorInv
    BY Zenon
  <2>1. /\ pc = [t \in Task |-> CASE t = "boot" -> "step"
                                  [] t = "query" -> "serving"
                                  [] OTHER -> "idle"]
        /\ state = [r \in Role |-> IF r = "query" THEN "healthy" ELSE "starting"]
        /\ loaded = [r \in Worker |-> FALSE] /\ doubt = [r \in Worker |-> "none"]
        /\ step = 0
    BY Zenon DEF Init
  <2>2. "boot" \in Task /\ \A r \in Worker : r \in Task /\ r \in Role /\ r # "boot" /\ r # "query"
    BY SupervisorAssumption, Zenon DEF Task, Waiter, Role
  <2>3. pc["boot"] = "step" /\ \A r \in Worker : pc[r] = "idle"
    BY <2>1, <2>2, Zenon
  <2>4. \A r \in Worker : state[r] = "starting" /\ doubt[r] = "none"
    BY <2>1, <2>2, ZenonT(30)
  <2>5. TablesTyped
    BY <2>1, Zenon DEF TablesTyped, Labels, States, Doubt
  <2>6. WorldTyped /\ RestTyped
    <3>1. up \in BOOLEAN /\ token \in BOOLEAN
      BY Zenon DEF Init
    <3>2. outages \in 0..MaxOutage /\ blips \in 0..MaxBlip /\ step \in 0..Steps
      BY SupervisorAssumption DEF Init, Steps
    <3>3. /\ cause \subseteq {"signal", "permanent"} /\ catalog \in {"healthy", "unavailable"}
          /\ result \in {"running", "ok", "error"}
      BY Zenon DEF Init
    <3> QED
      BY <3>1, <3>2, <3>3, Zenon DEF WorldTyped, RestTyped
  <2> QED
    BY <2>1, <2>3, <2>4, <2>5, <2>6, Typed DEF SupervisorInv, RoleOK, Starting, Steps
<1>2. SupervisorInv /\ [Next]_vars => SupervisorInv'
  <2> SUFFICES ASSUME SupervisorInv, [Next]_vars PROVE SupervisorInv'
    BY Zenon
  <2>1. CASE UNCHANGED vars
    BY <2>1, Zenon DEF vars, SupervisorInv, TypeOK, RoleOK
  <2> QED
    BY <2>1, RoleStep, ProcessStep, Zenon DEF Next
<1> QED
  BY <1>1, <1>2, PTL DEF Spec

\* HealthSnapshot.ready: a ready report means every role's present worker has
\* reloaded from the catalog.
THEOREM ReadyEarned == Spec => []ReadyIsEarned
<1>1. SupervisorInv => ReadyIsEarned
  BY Zenon DEF SupervisorInv, RoleOK, ReadyIsEarned, Ready, Role
<1> QED
  BY <1>1, Supervised, PTL

\* supervise_role: no worker is built over an operation whose outcome is unknown.
THEOREM NeverInDoubt == Spec => []NoWorkInDoubt
<1>1. SupervisorInv => NoWorkInDoubt
  BY Zenon DEF SupervisorInv, RoleOK, NoWorkInDoubt
<1> QED
  BY <1>1, Supervised, PTL
=============================================================================
