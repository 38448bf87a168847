----------------------------- MODULE Supervisor -----------------------------
(***************************************************************************)
(* One `ukield` process through catalog outages: the start-up sequence     *)
(* (run.rs), the supervision loop of every worker role (supervisor.rs),    *)
(* the wait for the catalog (recovery.rs) and the health registry the      *)
(* readiness endpoint reports (health.rs).                                 *)
(*                                                                         *)
(* A *task* is what the process awaits on: "boot" is the body of           *)
(* run_with_catalog itself, each member of Worker a supervised role,       *)
(* "query" the HTTP server.  The workers are modelled by what the          *)
(* supervisor sees of them: they reload, they fail, they finish.           *)
(***************************************************************************)
EXTENDS Naturals

CONSTANTS
    Worker,     \* the supervised roles this process is configured with
    Polling,    \* those that call the catalog on a timer (mv, compactor, gc)
    MaxOutage,  \* how often the catalog may go away
    MaxBlip     \* how often a call may fail although the catalog is there

ASSUME SupervisorAssumption ==
    /\ Polling \subseteq Worker
    /\ "boot" \notin Worker /\ "query" \notin Worker
    /\ MaxOutage \in Nat /\ MaxBlip \in Nat

VARIABLES
    up,       \* the catalog answers (external)
    outages,  \* outages so far
    blips,    \* single failed calls so far
    token,    \* the process-wide CancellationToken is cancelled
    cause,    \* who cancelled it or ended the start-up: SIGTERM, an error
    catalog,  \* HealthRegistry.catalog
    state,    \* RoleEntry.state of each role
    pc,       \* where each task stands
    step,     \* start-up steps done: migrations, tables, pipelines, views
    loaded,   \* the role's current worker has fired its ready signal
    doubt,    \* the ambiguous operation the supervisor holds for the role
    result    \* what run_with_catalog returned

vars == <<up, outages, blips, token, cause, catalog, state, pc, step, loaded,
          doubt, result>>

world == <<up, outages, blips>>

Role == Worker \cup {"query"}
Waiter == Worker \cup {"boot"}
Task == Waiter \cup {"query"}

Steps == 4

\* What the catalog has to say about an ambiguous operation once it is asked.
Doubt == {"none", "committed", "absent", "collision"}

Ended == {"stopped", "failed", "joined", "gone"}

TypeOK ==
    /\ up \in BOOLEAN /\ outages \in 0..MaxOutage /\ blips \in 0..MaxBlip
    /\ token \in BOOLEAN
    /\ cause \subseteq {"signal", "permanent"}
    /\ catalog \in {"healthy", "unavailable"}
    /\ state \in [Role -> {"starting", "healthy", "degraded", "reconciling",
                           "failed", "stopped"}]
    /\ pc \in [Task -> {"step", "idle", "working", "serving", "probe",
                        "answered", "refused", "sleep", "lookup", "join"} \cup Ended]
    /\ step \in 0..Steps
    /\ loaded \in [Worker -> BOOLEAN]
    /\ doubt \in [Worker -> Doubt]
    /\ result \in {"running", "ok", "error"}

(***************************************************************************)
(* The registry starts with nothing proven; the listeners come up, and the *)
(* query role with them, before the catalog is touched.                    *)
(***************************************************************************)
Init ==
    /\ up \in BOOLEAN /\ outages = 0 /\ blips = 0
    /\ token = FALSE /\ cause = {}
    /\ catalog = "unavailable"
    /\ state = [r \in Role |-> IF r = "query" THEN "healthy" ELSE "starting"]
    /\ pc = [t \in Task |-> CASE t = "boot" -> "step"
                              [] t = "query" -> "serving"
                              [] OTHER -> "idle"]
    /\ step = 0
    /\ loaded = [r \in Worker |-> FALSE]
    /\ doubt = [r \in Worker |-> "none"]
    /\ result = "running"

\* RoleHandle::transition: a terminal state never changes again.
Transition(r, to) ==
    state' = IF state[r] \in {"failed", "stopped"} THEN state
             ELSE [state EXCEPT ![r] = to]

Goto(t, where) == pc' = [pc EXCEPT ![t] = where]

\* HealthSnapshot.ready
Ready ==
    /\ catalog = "healthy"
    /\ \A r \in Role : state[r] = "healthy"

----------------------------------------------------------------------------
(* The world: the writer fails over, single connections break, SIGTERM.    *)

Outage ==
    /\ up /\ outages < MaxOutage
    /\ up' = FALSE /\ outages' = outages + 1
    /\ UNCHANGED <<blips, token, cause, catalog, state, pc, step, loaded, doubt, result>>

Restore ==
    /\ ~up
    /\ up' = TRUE
    /\ UNCHANGED <<outages, blips, token, cause, catalog, state, pc, step, loaded, doubt, result>>

Signal ==
    /\ ~token /\ result = "running"
    /\ token' = TRUE /\ cause' = cause \cup {"signal"}
    /\ UNCHANGED <<up, outages, blips, catalog, state, pc, step, loaded, doubt, result>>

\* A call made now fails in transport: the catalog is away, or this one
\* connection breaks.
CallFails ==
    /\ \/ ~up /\ UNCHANGED blips
       \/ up /\ blips < MaxBlip /\ blips' = blips + 1
    /\ UNCHANGED <<up, outages>>

CallAnswers == up /\ UNCHANGED world

----------------------------------------------------------------------------
(* wait_for_catalog.  The probe's answer and the write to the registry are *)
(* two steps: the registry is shared, and another task may write between.  *)

Probe(t) ==
    /\ pc[t] = "probe" /\ ~token
    /\ \/ CallAnswers /\ Goto(t, "answered")
       \/ CallFails /\ Goto(t, "refused")
    /\ UNCHANGED <<token, cause, catalog, state, step, loaded, doubt, result>>

Refused(t) ==
    /\ pc[t] = "refused"
    /\ catalog' = "unavailable"
    /\ Goto(t, "sleep")
    /\ UNCHANGED <<world, token, cause, state, step, loaded, doubt, result>>

Sleep(t) ==
    /\ pc[t] = "sleep" /\ ~token
    /\ Goto(t, "probe")
    /\ UNCHANGED <<world, token, cause, catalog, state, step, loaded, doubt, result>>

\* Faulty variant: a successful ping is taken for readiness.
AnsweredHealthy(t) ==
    /\ pc[t] = "answered"
    /\ catalog' = "healthy"
    /\ IF t = "boot"
       THEN Goto(t, "step") /\ UNCHANGED <<state, loaded>>
       ELSE /\ Transition(t, "healthy")
            /\ Goto(t, IF doubt[t] # "none" THEN "lookup" ELSE "working")
            /\ loaded' = [loaded EXCEPT ![t] = FALSE]
    /\ UNCHANGED <<world, token, cause, step, doubt, result>>

\* The catalog answers again.  A role is Reconciling until its worker says
\* otherwise, and asks about its ambiguous operation before it is rebuilt.
Answered(t) ==
    /\ pc[t] = "answered"
    /\ catalog' = "healthy"
    /\ IF t = "boot"
       THEN Goto(t, "step") /\ UNCHANGED <<state, loaded>>
       ELSE /\ Transition(t, "reconciling")
            /\ Goto(t, IF doubt[t] # "none" THEN "lookup" ELSE "working")
            /\ loaded' = [loaded EXCEPT ![t] = FALSE]
    /\ UNCHANGED <<world, token, cause, step, doubt, result>>

\* Shutdown during the wait: a clean stop of a role; the start-up bails out.
\* The query task is dropped with the JoinSet when run_with_catalog returns.
WaitStops(t) ==
    /\ pc[t] \in {"probe", "sleep"} /\ token
    /\ IF t = "boot"
       THEN /\ result' = "error"
            /\ pc' = [u \in Task |-> "gone"]
            /\ UNCHANGED state
       ELSE /\ Transition(t, "stopped")
            /\ Goto(t, "stopped")
            /\ UNCHANGED result
    /\ UNCHANGED <<world, token, cause, catalog, step, loaded, doubt>>

----------------------------------------------------------------------------
(* supervise_role.                                                         *)

\* The worker reloaded from catalog authority and fires its ready signal.
Reload(r) ==
    /\ pc[r] = "working" /\ CallAnswers
    /\ loaded' = [loaded EXCEPT ![r] = TRUE]
    /\ Transition(r, "healthy")
    /\ UNCHANGED <<token, cause, catalog, pc, step, doubt, result>>

\* The worker fails in transport; d is what the catalog will say of the
\* commit it died in, if it died in one.
Degrade(r, d) ==
    /\ pc[r] = "working" /\ CallFails
    /\ doubt' = [doubt EXCEPT ![r] = d]
    /\ Transition(r, "degraded")
    /\ Goto(r, "probe")
    /\ UNCHANGED <<token, cause, catalog, step, loaded, result>>

\* Any other error: waiting does not help.
Permanent(r) ==
    /\ pc[r] = "working"
    /\ cause' = cause \cup {"permanent"}
    /\ Transition(r, "failed")
    /\ Goto(r, "failed")
    /\ UNCHANGED <<world, token, catalog, step, loaded, doubt, result>>

\* Workers return Ok only when the token is cancelled.
Finish(r) ==
    /\ pc[r] = "working" /\ token
    /\ Transition(r, "stopped")
    /\ Goto(r, "stopped")
    /\ UNCHANGED <<world, token, cause, catalog, step, loaded, doubt, result>>

\* reconcile: the answer is discarded, but it must be there.
Reconciled(r) ==
    /\ pc[r] = "lookup" /\ CallAnswers
    /\ doubt[r] \in {"committed", "absent"}
    /\ doubt' = [doubt EXCEPT ![r] = "none"]
    /\ Goto(r, "working")
    /\ UNCHANGED <<token, cause, catalog, state, step, loaded, result>>

Collides(r) ==
    /\ pc[r] = "lookup" /\ CallAnswers
    /\ doubt[r] = "collision"
    /\ cause' = cause \cup {"permanent"}
    /\ Transition(r, "failed")
    /\ Goto(r, "failed")
    /\ UNCHANGED <<token, catalog, step, loaded, doubt, result>>

\* Faulty variant: a failed lookup is given up and the worker rebuilt.
LookupFailsOpen(r) ==
    /\ pc[r] = "lookup" /\ CallFails
    /\ Goto(r, "working")
    /\ UNCHANGED <<token, cause, catalog, state, step, loaded, doubt, result>>

LookupFails(r) ==
    /\ pc[r] = "lookup" /\ CallFails
    /\ Goto(r, "probe")
    /\ UNCHANGED <<token, cause, catalog, state, step, loaded, doubt, result>>

----------------------------------------------------------------------------
(* run_with_catalog: the start-up steps, the spawns, the join loop.        *)

\* The last step spawns every supervised role; nothing is awaited between.
BootStep ==
    /\ pc["boot"] = "step" /\ CallAnswers
    /\ step' = step + 1
    /\ catalog' = "healthy"
    /\ pc' = IF step + 1 < Steps THEN pc
             ELSE [t \in Task |-> CASE t = "boot" -> "join"
                                    [] t \in Worker -> "working"
                                    [] OTHER -> pc[t]]
    /\ UNCHANGED <<token, cause, state, loaded, doubt, result>>

BootWaits ==
    /\ pc["boot"] = "step" /\ CallFails
    /\ catalog' = "unavailable"
    /\ Goto("boot", "probe")
    /\ UNCHANGED <<token, cause, state, step, loaded, doubt, result>>

BootFails ==
    /\ pc["boot"] = "step"
    /\ cause' = cause \cup {"permanent"}
    /\ result' = "error"
    /\ pc' = [t \in Task |-> "gone"]
    /\ UNCHANGED <<world, token, catalog, state, step, loaded, doubt>>

\* The server drains once the token is cancelled.
ServerStops ==
    /\ pc["query"] = "serving" /\ token
    /\ Goto("query", "stopped")
    /\ UNCHANGED <<world, token, cause, catalog, state, step, loaded, doubt, result>>

\* Faulty variant: a failed role is only logged.
JoinLogs(t) ==
    /\ pc["boot"] = "join" /\ pc[t] \in {"stopped", "failed"}
    /\ IF \A u \in Task \ {"boot", t} : pc[u] = "joined"
       THEN /\ pc' = [u \in Task |-> "gone"]
            /\ result' = "ok"
       ELSE /\ Goto(t, "joined")
            /\ UNCHANGED result
    /\ UNCHANGED <<world, token, cause, catalog, state, step, loaded, doubt>>

\* The join loop sees one task end; the first failure cancels everything.
Join(t) ==
    /\ pc["boot"] = "join" /\ pc[t] \in {"stopped", "failed"}
    /\ token' = (token \/ pc[t] = "failed")
    /\ IF \A u \in Task \ {"boot", t} : pc[u] = "joined"
       THEN /\ pc' = [u \in Task |-> "gone"]
            /\ result' = IF "failed" \in {state[r] : r \in Role} THEN "error" ELSE "ok"
       ELSE /\ Goto(t, "joined")
            /\ UNCHANGED result
    /\ UNCHANGED <<world, cause, catalog, state, step, loaded, doubt>>

----------------------------------------------------------------------------
Wait(t) == Probe(t) \/ Refused(t) \/ Sleep(t) \/ Answered(t) \/ WaitStops(t)

Supervise(r) ==
    \/ Wait(r) \/ Finish(r)
    \/ Reconciled(r) \/ Collides(r) \/ LookupFails(r)

Boot == BootStep \/ BootWaits \/ Wait("boot") \/ \E t \in Task : Join(t)

Work(r) == Reload(r) \/ \E d \in Doubt : Degrade(r, d)

Next ==
    \/ Outage \/ Restore \/ Signal
    \/ Boot \/ BootFails \/ ServerStops
    \/ \E r \in Worker : Supervise(r) \/ Work(r) \/ Permanent(r)

Spec == Init /\ [][Next]_vars

(***************************************************************************)
(* tokio runs every task that is ready.  A worker that has not reloaded    *)
(* yet makes a catalog call and it answers or fails; afterwards only the   *)
(* polling roles are sure to make another.  Nothing is assumed of the      *)
(* catalog, of SIGTERM or of permanent failures.                           *)
(***************************************************************************)
FairSpec ==
    /\ Spec
    /\ WF_vars(Boot) /\ WF_vars(ServerStops)
    /\ \A r \in Worker :
         /\ WF_vars(Supervise(r))
         /\ WF_vars(~loaded[r] /\ Work(r))
         /\ r \in Polling => WF_vars(~up /\ Work(r))

----------------------------------------------------------------------------
\* The readiness report is never ahead of the workers: when it says ready,
\* the worker each role is running now has itself reloaded from the catalog;
\* a predecessor's signal or an answered ping does not count.
ReadyIsEarned ==
    TypeOK /\ (Ready => \A r \in Worker : pc[r] = "working" /\ loaded[r])

\* No worker is rebuilt while the outcome of its predecessor's last commit is
\* unknown, however often the lookup itself fails; and a key collision is
\* never rebuilt past.
NoWorkInDoubt ==
    \A r \in Worker : pc[r] = "working" => doubt[r] = "none"

\* Once the catalog stays reachable, the process gets ready and stays so,
\* unless it was told to stop or failed for good: no outage ends it or leaves a
\* role degraded, and no late registry write leaves the catalog "unavailable".
\* And readiness does not outlive the catalog: an outage that lasts is reported.
\* One role failing for good takes the whole process down with an error, and
\* a signal always ends it, in the middle of an outage too.
ServesOrEnds ==
    /\ <>[]up => <>[](Ready \/ cause # {})
    /\ ~<>[](~up /\ Ready /\ ~token)
    /\ \A r \in Worker : pc[r] = "failed" ~> result = "error"
    /\ token ~> result # "running"
=============================================================================
