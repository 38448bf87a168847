-------------------------- MODULE ObjectLifecycle ---------------------------
(***************************************************************************)
(* The life of one hypertable's objects: writers register an upload intent, *)
(* upload and commit (ukiel-write, the compactor's rewrite path); commits   *)
(* tombstone parts; queries read what was live when they were planned; and  *)
(* any number of GC workers reap tombstoned parts, sweep orphaned intents   *)
(* and reconcile the bucket listing against the catalog (ukiel-gc).  No     *)
(* feed cursor is registered on the hypertable, so only time fences a reap. *)
(*                                                                          *)
(* A path names one upload: a fresh UUID, never reused.  Time is kept as    *)
(* ages, counted up to the grace that reads them.  Three durations that no  *)
(* code enforces are constants: MaxInflight, from registering an intent to  *)
(* the commit landing or being given up; MaxTxn, how long a deleting        *)
(* transaction runs; MaxQuery, from planning a query to its last read.      *)
(* MaxList bounds reconcile's way from its first catalog read to the        *)
(* listing.                                                                 *)
(***************************************************************************)
EXTENDS Naturals, FiniteSets

CONSTANTS
    Path, Gc, Query,
    OrphanGrace, TombGrace,                  \* GcConfig
    MaxInflight, MaxTxn, MaxQuery, MaxList,
    None

ASSUME LifecycleAssumption ==
    /\ OrphanGrace \in Nat \ {0} /\ TombGrace \in Nat \ {0}
    /\ MaxInflight \in Nat /\ MaxTxn \in Nat /\ MaxQuery \in Nat /\ MaxList \in Nat
    /\ MaxInflight < OrphanGrace
    /\ MaxTxn + MaxQuery < TombGrace
    /\ None \notin Path

VARIABLES
    store,      \* the objects in the bucket
    oage,       \* oage[p]: time since the object's last_modified
    intent,     \* the pending_objects rows
    iage,       \* iage[p]: time since the intent's created_at
    row,        \* the parts rows
    tage,       \* tage[p]: time since the deleting commit's created_at
    wst,        \* where the upload's writer is
    gpc, cand,  \* where each GC worker is, and the path it was authorized
    known,      \* reconcile: the paths the catalog accounts for
    victims,    \* reconcile: the listed objects to delete
    gage,       \* reconcile: time since its first catalog read
    todo, qage  \* the parts each query has still to read, and its age

catVars == <<intent, iage, row, tage>>
objVars == <<store, oage>>
gcVars == <<gpc, cand, known, victims, gage>>
queryVars == <<todo, qage>>
vars == <<objVars, catVars, wst, gcVars, queryVars>>

Zero(S) == [s \in S |-> 0]

Init ==
    /\ store = {} /\ oage = Zero(Path)
    /\ intent = {} /\ iage = Zero(Path)
    /\ row = [p \in Path |-> "none"] /\ tage = Zero(Path)
    /\ wst = [p \in Path |-> "new"]
    /\ gpc = [g \in Gc |-> "reap"] /\ cand = [g \in Gc |-> None]
    /\ known = [g \in Gc |-> {}] /\ victims = [g \in Gc |-> {}]
    /\ gage = Zero(Gc)
    /\ todo = [q \in Query |-> {}] /\ qage = Zero(Query)

Live == {p \in Path : row[p] = "live"}
-----------------------------------------------------------------------------
(* Writers. *)

Register(p) ==
    /\ wst[p] = "new"
    /\ wst' = [wst EXCEPT ![p] = "registered"]
    /\ intent' = intent \cup {p}
    /\ UNCHANGED <<objVars, iage, row, tage, gcVars, queryVars>>

Upload(p) ==
    /\ wst[p] = "registered"
    /\ wst' = [wst EXCEPT ![p] = "uploaded"]
    /\ store' = store \cup {p}
    /\ UNCHANGED <<oage, catVars, gcVars, queryVars>>

\* The parts olds are tombstoned by a commit whose transaction began (that is
\* what created_at records) began ago.
Tombstone(olds, began) ==
    /\ tage' = [p \in Path |-> IF p \in olds THEN began ELSE tage[p]]

\* The transaction lands: parts inserted, intents deleted, inputs tombstoned.
Commit(p, olds, began) ==
    /\ wst[p] = "uploaded"
    /\ olds \subseteq Live
    /\ wst' = [wst EXCEPT ![p] = "over"]
    /\ row' = [r \in Path |-> IF r = p THEN "live"
                              ELSE IF r \in olds THEN "tomb" ELSE row[r]]
    /\ Tombstone(olds, began)
    /\ intent' = intent \ {p}
    /\ iage' = [iage EXCEPT ![p] = 0]
    /\ UNCHANGED <<objVars, gcVars, queryVars>>

\* A commit that only tombstones.
Drop(olds, began) ==
    /\ olds # {} /\ olds \subseteq Live
    /\ row' = [r \in Path |-> IF r \in olds THEN "tomb" ELSE row[r]]
    /\ Tombstone(olds, began)
    /\ UNCHANGED <<objVars, intent, iage, wst, gcVars, queryVars>>

\* Conflict, AlreadyApplied, a failed upload or a crash: the intent stays.  A
\* PUT that was in progress may still reach the bucket.
GiveUp(p) ==
    /\ wst[p] \in {"registered", "uploaded"}
    /\ wst' = [wst EXCEPT ![p] = IF wst[p] = "registered" THEN "lost" ELSE "over"]
    /\ UNCHANGED <<objVars, catVars, gcVars, queryVars>>

LatePut(p) ==
    /\ wst[p] = "lost"
    /\ wst' = [wst EXCEPT ![p] = "over"]
    /\ store' = store \cup {p}
    /\ UNCHANGED <<oage, catVars, gcVars, queryVars>>
-----------------------------------------------------------------------------
(* Queries. *)

Plan(q) ==
    /\ todo[q] = {} /\ Live # {}
    /\ todo' = [todo EXCEPT ![q] = Live]
    /\ UNCHANGED <<objVars, catVars, wst, gcVars, qage>>

\* One object read; also the way a query that is dropped ends.
ReadPart(q, left) ==
    /\ left \subseteq todo[q] /\ left # todo[q]
    /\ todo' = [todo EXCEPT ![q] = left]
    /\ qage' = [qage EXCEPT ![q] = IF left = {} THEN 0 ELSE qage[q]]
    /\ UNCHANGED <<objVars, catVars, wst, gcVars>>
-----------------------------------------------------------------------------
(* GC: every candidate is read from the catalog, its object deleted, and the *)
(* row stamped or cleared, before the next candidate is asked for.           *)

Goto(g, pc) == gpc' = [gpc EXCEPT ![g] = pc]
Authorize(g, p) == cand' = [cand EXCEPT ![g] = p]

Erase(p) ==
    /\ store' = store \ {p}
    /\ oage' = [oage EXCEPT ![p] = 0]

Reapable == {p \in Path : row[p] = "tomb" /\ tage[p] >= TombGrace}

\* next_reapable_part takes them in id order; here in any order.
NextReapable(g) ==
    /\ gpc[g] = "reap"
    /\ \E p \in Reapable : Authorize(g, p)
    /\ Goto(g, "reapDelete")
    /\ UNCHANGED <<objVars, catVars, wst, known, victims, gage, queryVars>>

ReapDone(g) ==
    /\ gpc[g] = "reap" /\ Reapable = {}
    /\ Goto(g, "sweep")
    /\ UNCHANGED <<objVars, catVars, wst, cand, known, victims, gage, queryVars>>

ReapDelete(g) ==
    /\ gpc[g] = "reapDelete"
    /\ Erase(cand[g])
    /\ Goto(g, "stamp")
    /\ UNCHANGED <<catVars, wst, cand, known, victims, gage, queryVars>>

MarkPurged(g) ==
    /\ gpc[g] = "stamp"
    /\ row' = [row EXCEPT ![cand[g]] = "purged"]
    /\ tage' = [tage EXCEPT ![cand[g]] = 0]
    /\ Goto(g, "reap") /\ Authorize(g, None)
    /\ UNCHANGED <<objVars, intent, iage, wst, known, victims, gage, queryVars>>

\* Faulty variant: the sweep takes any intent for an orphan.
OrphanedAtOnce == intent

Orphaned == {p \in intent : iage[p] >= OrphanGrace}

\* In path order in the code; here in any order.
NextOrphaned(g) ==
    /\ gpc[g] = "sweep"
    /\ \E p \in Orphaned : Authorize(g, p)
    /\ Goto(g, "sweepDelete")
    /\ UNCHANGED <<objVars, catVars, wst, known, victims, gage, queryVars>>

SweepDelete(g) ==
    /\ gpc[g] = "sweepDelete"
    /\ Erase(cand[g])
    /\ Goto(g, "clear")
    /\ UNCHANGED <<catVars, wst, cand, known, victims, gage, queryVars>>

ClearPending(g) ==
    /\ gpc[g] = "clear"
    /\ intent' = intent \ {cand[g]}
    /\ iage' = [iage EXCEPT ![cand[g]] = 0]
    /\ Goto(g, "sweep") /\ Authorize(g, None)
    /\ UNCHANGED <<objVars, row, tage, wst, known, victims, gage, queryVars>>

\* The pass is over.
SweepDone(g) ==
    /\ gpc[g] = "sweep" /\ Orphaned = {}
    /\ Goto(g, "reap")
    /\ UNCHANGED <<objVars, catVars, wst, cand, known, victims, gage, queryVars>>

\* Every Nth pass goes on to reconcile_once, which reads the parts, then the
\* intents, then the listing, each in a round trip of its own.
AllPartPaths(g) ==
    /\ gpc[g] = "sweep" /\ Orphaned = {}
    /\ known' = [known EXCEPT ![g] = {p \in Path : row[p] \in {"live", "tomb"}}]
    /\ Goto(g, "pending")
    /\ UNCHANGED <<objVars, catVars, wst, cand, victims, gage, queryVars>>

AllPendingPaths(g) ==
    /\ gpc[g] = "pending"
    /\ known' = [known EXCEPT ![g] = known[g] \cup intent]
    /\ Goto(g, "list")
    /\ UNCHANGED <<objVars, catVars, wst, cand, victims, gage, queryVars>>

\* Faulty variant: an object exactly at the grace is spared, for ever.
UnknownOlder(g) == {p \in store \ known[g] : oage[p] > OrphanGrace}

Unknown(g) == {p \in store \ known[g] : oage[p] >= OrphanGrace}

List(g) ==
    /\ gpc[g] = "list"
    /\ victims' = [victims EXCEPT ![g] = Unknown(g)]
    /\ known' = [known EXCEPT ![g] = {}]
    /\ gage' = [gage EXCEPT ![g] = 0]
    /\ Goto(g, "delete")
    /\ UNCHANGED <<objVars, catVars, wst, cand, queryVars>>

DeleteUnknown(g) ==
    /\ gpc[g] = "delete"
    /\ \E p \in victims[g] :
          /\ Erase(p)
          /\ victims' = [victims EXCEPT ![g] = victims[g] \ {p}]
    /\ UNCHANGED <<catVars, wst, gpc, cand, known, gage, queryVars>>

ReconcileDone(g) ==
    /\ gpc[g] = "delete" /\ victims[g] = {}
    /\ Goto(g, "reap")
    /\ UNCHANGED <<objVars, catVars, wst, cand, known, victims, gage, queryVars>>

\* The catalog (a ping included) or the store failed, or the process died: the
\* pass is abandoned where it stands and a new one starts from the beginning.
AbortPass(g) ==
    /\ gpc[g] # "reap"
    /\ Goto(g, "reap") /\ Authorize(g, None)
    /\ known' = [known EXCEPT ![g] = {}]
    /\ victims' = [victims EXCEPT ![g] = {}]
    /\ gage' = [gage EXCEPT ![g] = 0]
    /\ UNCHANGED <<objVars, catVars, wst, queryVars>>
-----------------------------------------------------------------------------
Older(n, cap) == IF n < cap THEN n + 1 ELSE cap

InFlight == {p \in Path : wst[p] \in {"registered", "uploaded"}}
Reading == {g \in Gc : gpc[g] \in {"pending", "list"}}
Running == {q \in Query : todo[q] # {}}

\* Time passes, as far as the durations allow.
Tick ==
    /\ \A p \in InFlight : iage[p] < MaxInflight
    /\ \A g \in Reading : gage[g] < MaxList
    /\ \A q \in Running : qage[q] < MaxQuery
    /\ oage' = [p \in Path |-> IF p \in store THEN Older(oage[p], OrphanGrace) ELSE oage[p]]
    /\ iage' = [p \in Path |-> IF p \in intent THEN Older(iage[p], OrphanGrace) ELSE iage[p]]
    /\ tage' = [p \in Path |-> IF row[p] = "tomb" THEN Older(tage[p], TombGrace) ELSE tage[p]]
    /\ gage' = [g \in Gc |-> IF g \in Reading THEN gage[g] + 1 ELSE gage[g]]
    /\ qage' = [q \in Query |-> IF q \in Running THEN qage[q] + 1 ELSE qage[q]]
    /\ UNCHANGED <<store, intent, row, wst, gpc, cand, known, victims, todo>>

WriterStep(p) ==
    \/ Register(p) \/ Upload(p) \/ GiveUp(p) \/ LatePut(p)
    \/ \E olds \in SUBSET Live, began \in 0..MaxTxn : Commit(p, olds, began)

QueryStep(q) == Plan(q) \/ \E left \in SUBSET todo[q] : ReadPart(q, left)

GcStep(g) ==
    \/ NextReapable(g) \/ ReapDone(g) \/ ReapDelete(g) \/ MarkPurged(g)
    \/ NextOrphaned(g) \/ SweepDelete(g) \/ ClearPending(g) \/ SweepDone(g)
    \/ AllPartPaths(g) \/ AllPendingPaths(g) \/ List(g) \/ DeleteUnknown(g)
    \/ ReconcileDone(g)

Next ==
    \/ \E p \in Path : WriterStep(p)
    \/ \E olds \in SUBSET Live, began \in 0..MaxTxn : Drop(olds, began)
    \/ \E q \in Query : QueryStep(q)
    \/ \E g \in Gc : GcStep(g) \/ AbortPass(g)
    \/ Tick

Spec == Init /\ [][Next]_vars

(***************************************************************************)
(* Writers and queries end; time goes on; a GC worker keeps taking steps    *)
(* and gets to every Nth pass; the failures that abort passes come to an    *)
(* end.                                                                     *)
(***************************************************************************)
Fairness ==
    /\ SF_vars(Tick)
    /\ \A p \in Path : WF_vars(GiveUp(p))
    /\ \A q \in Query : WF_vars(\E left \in SUBSET todo[q] : ReadPart(q, left))
    /\ \A g \in Gc : WF_vars(GcStep(g)) /\ SF_vars(AllPartPaths(g))
    /\ <>[][\A g \in Gc : AbortPass(g) => GcStep(g)]_vars

FairSpec == Spec /\ Fairness
-----------------------------------------------------------------------------
(* Properties. *)

ObjTypeOK ==
    /\ store \in SUBSET Path /\ oage \in [Path -> 0..OrphanGrace]

CatTypeOK ==
    /\ intent \in SUBSET Path /\ iage \in [Path -> 0..OrphanGrace]
    /\ row \in [Path -> {"none", "live", "tomb", "purged"}]
    /\ tage \in [Path -> 0..TombGrace]

WriterTypeOK ==
    /\ wst \in [Path -> {"new", "registered", "uploaded", "lost", "over"}]

GcTypeOK ==
    /\ gpc \in [Gc -> {"reap", "reapDelete", "stamp", "sweep", "sweepDelete",
                       "clear", "pending", "list", "delete"}]
    /\ cand \in [Gc -> Path \cup {None}]
    /\ known \in [Gc -> SUBSET Path] /\ victims \in [Gc -> SUBSET Path]
    /\ gage \in [Gc -> 0..MaxList]

QueryTypeOK ==
    /\ todo \in [Query -> SUBSET Path] /\ qage \in [Query -> 0..MaxQuery]

TypeOK == ObjTypeOK /\ CatTypeOK /\ WriterTypeOK /\ GcTypeOK /\ QueryTypeOK

\* The object of a live part is in the bucket: neither a sweep, nor a reap, nor
\* a reconcile pass of any GC worker, whenever it read the catalog, takes it.
LiveReadable == Live \subseteq store

\* A query finds every object it planned to read: the tombstone grace, counted
\* from the start of the deleting transaction, outlasts it.
PlannedReadable == \A q \in Query : todo[q] \subseteq store

\* Both: no part, live or under a query, is missing from the bucket.
NothingMissing == LiveReadable /\ PlannedReadable

\* A row is stamped purged only once its object is gone, so that leaving purged
\* rows out of all_part_paths hides nothing from reconcile.
PurgedIsGone == \A p \in Path : row[p] = "purged" => p \notin store

\* An object nobody refers to, however it came to be left behind (a tombstoned
\* part, a failed commit, a crash, a PUT that arrived late), is deleted.
NothingLeaks ==
    \A p \in Path :
       (p \in store /\ wst[p] = "over" /\ row[p] # "live") ~> (p \notin store)
=============================================================================
