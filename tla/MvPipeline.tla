----------------------------- MODULE MvPipeline -----------------------------
(***************************************************************************)
(* Materialized views over one source hypertable (ukiel-mv): replicas of    *)
(* the MV role work through their selected pipelines one source event at a  *)
(* time, sharing each pipeline's durable cursor; the target table's         *)
(* operation identities decide which attempt's outcome counts; and the      *)
(* source's reaper (ukiel-gc) deletes tombstoned objects behind the slowest *)
(* cursor.                                                                  *)
(*                                                                          *)
(* The source is a gapless feed (what Catalog establishes of changes_since  *)
(* and feed_head).  A commit holds at most one part and names it; "add"     *)
(* with empty[c] is a completion marker without parts.  The tombstone grace *)
(* is taken as over at once: waiting longer only delays a reap.             *)
(***************************************************************************)
EXTENDS Naturals, FiniteSets

CONSTANTS
    Replica,
    NumPipelines,   \* the selected pipelines are 1..NumPipelines, in order
    Skips,          \* those whose error_policy is Skip
    MaxCommit,
    MaxLate         \* bound on undecided publications

Pipeline == 1..NumPipelines
Commit == 1..MaxCommit
Outcome == {"rows", "empty"}
NoOutcome == "none"
Unselected == MaxCommit + 1

ASSUME MvAssumption ==
    /\ NumPipelines \in Nat \ {0} /\ MaxCommit \in Nat /\ MaxLate \in Nat
    /\ Skips \subseteq Pipeline

VARIABLES
    head, kind, empty,  \* the source feed
    delby,              \* delby[c]: the commit that tombstoned c's part, or 0
    gone,               \* parts whose objects were reaped
    cand,               \* the part the reaper is authorized to delete, or 0
    cursor,             \* worker_cursors: meaningful once selected
    since,              \* cursor at first selection, or Unselected
    outcome,            \* outcome[l][c]: l's target commit for source commit c
    late,               \* publications whose answer was lost, not yet decided
    rpc, at, ev, out    \* each replica: step, pipeline, event, attempt's result

srcVars == <<head, kind, empty, delby>>
gcVars == <<gone, cand>>
mvVars == <<cursor, since, outcome, late>>
repVars == <<rpc, at, ev, out>>
vars == <<srcVars, gcVars, mvVars, repVars>>

Init ==
    /\ head = 0 /\ kind = [c \in Commit |-> "none"] /\ empty = {}
    /\ delby = [c \in Commit |-> 0]
    /\ gone = {} /\ cand = 0
    /\ cursor = [l \in Pipeline |-> 0]
    /\ since = [l \in Pipeline |-> Unselected]
    /\ outcome = [l \in Pipeline |-> [c \in Commit |-> NoOutcome]]
    /\ late = {}
    /\ rpc = [r \in Replica |-> "new"] /\ at = [r \in Replica |-> 1]
    /\ ev = [r \in Replica |-> 0] /\ out = [r \in Replica |-> "none"]
-----------------------------------------------------------------------------
(* The source table. *)

\* Commits whose parts are live.
LiveParts == {c \in Commit : c <= head /\ c \notin empty /\ delby[c] = 0}

SourceAdd(marker) ==
    /\ head < MaxCommit
    /\ head' = head + 1
    /\ kind' = [kind EXCEPT ![head + 1] = "add"]
    /\ empty' = IF marker THEN empty \cup {head + 1} ELSE empty
    /\ UNCHANGED <<delby, gcVars, mvVars, repVars>>

\* Compaction, delete_key or retention: olds give way to one part, or to none.
SourceReplace(olds, drops) ==
    /\ head < MaxCommit
    /\ olds # {} /\ olds \subseteq LiveParts
    /\ head' = head + 1
    /\ kind' = [kind EXCEPT ![head + 1] = "replace"]
    /\ empty' = IF drops THEN empty \cup {head + 1} ELSE empty
    /\ delby' = [c \in Commit |-> IF c \in olds THEN head + 1 ELSE delby[c]]
    /\ UNCHANGED <<gcVars, mvVars, repVars>>

Selected == {l \in Pipeline : since[l] # Unselected}

\* Faulty variant: the fence is one consumer's cursor, not the slowest's.
ReapableByAny ==
    {c \in Commit : delby[c] # 0 /\ c \notin gone
        /\ (Selected = {} \/ \E l \in Selected : delby[c] <= cursor[l])}

Reapable ==
    {c \in Commit : delby[c] # 0 /\ c \notin gone
        /\ \A l \in Selected : delby[c] <= cursor[l]}

NextReapable ==
    /\ cand = 0
    /\ \E c \in Reapable : cand' = c
    /\ UNCHANGED <<srcVars, gone, mvVars, repVars>>

\* The object is deleted and its row stamped (or the pass dies in between, and
\* the next one finds the same candidate, already deleted).
Reap ==
    /\ cand # 0
    /\ gone' = gone \cup {cand} /\ cand' = 0
    /\ UNCHANGED <<srcVars, mvVars, repVars>>
-----------------------------------------------------------------------------
(* A replica. *)

Step(r, pc) == rpc' = [rpc EXCEPT ![r] = pc]
Result(r, o) == out' = [out EXCEPT ![r] = o]

\* On to the next selected pipeline; after the last, to a new pass.
NextPipeline(r) ==
    /\ at' = [at EXCEPT ![r] = IF at[r] = NumPipelines THEN 1 ELSE at[r] + 1]
    /\ Step(r, "poll")
    /\ ev' = [ev EXCEPT ![r] = 0] /\ Result(r, "none")

\* The worker is built anew, from the catalog alone.
Rebuilt(r) ==
    /\ Step(r, "new")
    /\ at' = [at EXCEPT ![r] = 1]
    /\ ev' = [ev EXCEPT ![r] = 0] /\ Result(r, "none")

\* MvFleet::new: ensure_mv_cursor for each selected pipeline, at the complete
\* feed head and only where there is no cursor yet.
EnsureCursor(r) ==
    LET l == at[r] IN
    /\ rpc[r] = "new"
    /\ IF since[l] = Unselected
       THEN /\ cursor' = [cursor EXCEPT ![l] = head]
            /\ since' = [since EXCEPT ![l] = head]
       ELSE UNCHANGED <<cursor, since>>
    /\ at' = [at EXCEPT ![r] = IF l = NumPipelines THEN 1 ELSE l + 1]
    /\ Step(r, IF l = NumPipelines THEN "poll" ELSE "new")
    /\ UNCHANGED <<srcVars, gcVars, outcome, late, ev, out>>

ReadCursor(r) ==
    /\ rpc[r] = "poll"
    /\ ev' = [ev EXCEPT ![r] = cursor[at[r]] + 1]
    /\ Step(r, "fetch")
    /\ UNCHANGED <<srcVars, gcVars, mvVars, at, out>>

\* changes_since(cursor, 1): the event after the cursor, if there is one.
FetchEvent(r) ==
    /\ rpc[r] = "fetch" /\ ev[r] <= head
    /\ Step(r, IF kind[ev[r]] = "replace" THEN "advance" ELSE "before_read")
    /\ UNCHANGED <<srcVars, gcVars, mvVars, at, ev, out>>

FetchNothing(r) ==
    /\ rpc[r] = "fetch" /\ ev[r] > head
    /\ NextPipeline(r)
    /\ UNCHANGED <<srcVars, gcVars, mvVars>>

(***************************************************************************)
(* completed(): asked before the read, after a failed read, after a failed  *)
(* transformation and before the publication.  The cursor is read, then     *)
(* the operation looked up; a committed operation advances the cursor.      *)
(***************************************************************************)
Checks == {"before_read", "source_read", "transform", "before_publish"}

CompletedByCursor(r) ==
    /\ rpc[r] \in Checks /\ cursor[at[r]] >= ev[r]
    /\ NextPipeline(r)
    /\ UNCHANGED <<srcVars, gcVars, mvVars>>

CompletedByOperation(r) ==
    /\ rpc[r] \in Checks /\ outcome[at[r]][ev[r]] # NoOutcome
    /\ Step(r, "advance")
    /\ UNCHANGED <<srcVars, gcVars, mvVars, at, ev, out>>

\* No other replica has finished the event.
Pending(r, check) ==
    /\ rpc[r] = check
    /\ cursor[at[r]] < ev[r] /\ outcome[at[r]][ev[r]] = NoOutcome
    /\ UNCHANGED <<srcVars, gcVars, mvVars>>

StartRead(r) ==
    /\ Pending(r, "before_read")
    /\ Step(r, "read")
    /\ UNCHANGED <<at, ev, out>>

ReadInput(r) ==
    /\ rpc[r] = "read" /\ ev[r] \notin gone
    /\ Step(r, "execute")
    /\ UNCHANGED <<srcVars, gcVars, mvVars, at, ev, out>>

\* The object is not there, or the read failed for some other reason.
ReadFails(r) ==
    /\ rpc[r] = "read" /\ ev[r] \notin empty
    /\ Result(r, IF ev[r] \in gone THEN "missing" ELSE "broken")
    /\ Step(r, "source_read")
    /\ UNCHANGED <<srcVars, gcVars, mvVars, at, ev>>

\* required_source_error: an input that is not there is told apart.
Failure(r) == IF out[r] = "missing" THEN "unavailable" ELSE "failed"

\* Faulty variant: a failed read is reported before asking whether a peer has
\* finished the event.
SourceErrorAtOnce(r) ==
    /\ rpc[r] = "source_read"
    /\ Step(r, Failure(r))
    /\ UNCHANGED <<srcVars, gcVars, mvVars, at, ev, out>>

\* The event is still to be done and its input could not be read.
SourceError(r) ==
    /\ Pending(r, "source_read")
    /\ Step(r, Failure(r))
    /\ UNCHANGED <<at, ev, out>>

\* A marker yields nothing without running the SQL.  The SQL may be
\* nondeterministic: attempts at one event may differ.
Execute(r, o) ==
    /\ rpc[r] = "execute"
    /\ ev[r] \in empty => o = "empty"
    /\ Result(r, o)
    /\ Step(r, IF o \in Outcome THEN "before_publish" ELSE "transform")
    /\ UNCHANGED <<srcVars, gcVars, mvVars, at, ev>>

\* Faulty variant: a skipped event publishes nothing.
SkipUnpublished(r) ==
    /\ Pending(r, "transform") /\ out[r] = "data" /\ at[r] \in Skips
    /\ Step(r, "advance")
    /\ UNCHANGED <<at, ev, out>>

\* A data error under Skip becomes an empty outcome.
SkipEvent(r) ==
    /\ Pending(r, "transform") /\ out[r] = "data" /\ at[r] \in Skips
    /\ Result(r, "empty")
    /\ Step(r, "before_publish")
    /\ UNCHANGED <<at, ev>>

\* Faulty variant: a data error ends the pass over the selected pipelines.
StallEndsPass(r) ==
    /\ Pending(r, "transform") /\ out[r] = "data" /\ at[r] \notin Skips
    /\ at' = [at EXCEPT ![r] = 1]
    /\ Step(r, "poll")
    /\ ev' = [ev EXCEPT ![r] = 0] /\ Result(r, "none")

\* Under Stall the pipeline keeps its cursor and the pass goes on.
StallEvent(r) ==
    /\ Pending(r, "transform") /\ out[r] = "data" /\ at[r] \notin Skips
    /\ NextPipeline(r)

StartPublish(r) ==
    /\ Pending(r, "before_publish")
    /\ Step(r, "publish")
    /\ UNCHANGED <<at, ev, out>>

\* Faulty variant: a publication overwrites the outcome it finds.
LandsOver(l, c, o) == outcome' = [outcome EXCEPT ![l][c] = o]

\* The identified ADD: the first committed outcome wins.
Lands(l, c, o) ==
    outcome' = IF outcome[l][c] = NoOutcome THEN [outcome EXCEPT ![l][c] = o] ELSE outcome

\* Committed or AlreadyApplied.
Publish(r) ==
    /\ rpc[r] = "publish"
    /\ Lands(at[r], ev[r], out[r])
    /\ Step(r, "advance")
    /\ UNCHANGED <<srcVars, gcVars, cursor, since, late, at, ev, out>>

\* The COMMIT's answer is lost: the worker is rebuilt, and the transaction
\* lands later or not at all.
PublishLost(r) ==
    /\ rpc[r] = "publish" /\ Cardinality(late) < MaxLate
    /\ late' = late \cup {[l |-> at[r], c |-> ev[r], o |-> out[r]]}
    /\ Rebuilt(r)
    /\ UNCHANGED <<srcVars, gcVars, cursor, since, outcome>>

LateDecided(z, lands) ==
    /\ late' = late \ {z}
    /\ IF lands THEN Lands(z.l, z.c, z.o) ELSE UNCHANGED outcome
    /\ UNCHANGED <<srcVars, gcVars, cursor, since, repVars>>

\* set_cursor: never backwards.
Advance(r) ==
    /\ rpc[r] = "advance"
    /\ cursor' = [cursor EXCEPT ![at[r]] = IF ev[r] > cursor[at[r]] THEN ev[r]
                                          ELSE cursor[at[r]]]
    /\ NextPipeline(r)
    /\ UNCHANGED <<srcVars, gcVars, since, outcome, late>>

\* Any other error is returned: an input that could not be read, or a faulty
\* transformation.
ReturnError(r) ==
    /\ \/ rpc[r] \in {"unavailable", "failed"}
       \/ Pending(r, "transform") /\ out[r] = "fault"
    /\ Rebuilt(r)
    /\ UNCHANGED <<srcVars, gcVars, mvVars>>

\* The catalog fails in any step, or the process dies.
Crash(r) ==
    /\ rpc[r] # "new"
    /\ Rebuilt(r)
    /\ UNCHANGED <<srcVars, gcVars, mvVars>>
-----------------------------------------------------------------------------
ReplicaStep(r) ==
    \/ EnsureCursor(r) \/ ReadCursor(r) \/ FetchEvent(r) \/ FetchNothing(r)
    \/ CompletedByCursor(r) \/ CompletedByOperation(r)
    \/ StartRead(r) \/ ReadInput(r) \/ ReadFails(r) \/ SourceError(r)
    \/ \E o \in Outcome \cup {"data", "fault"} : Execute(r, o)
    \/ SkipEvent(r) \/ StallEvent(r) \/ StartPublish(r)
    \/ Publish(r) \/ PublishLost(r) \/ Advance(r) \/ ReturnError(r)

SourceStep ==
    \/ \E marker \in BOOLEAN : SourceAdd(marker)
    \/ \E olds \in SUBSET LiveParts, drops \in BOOLEAN : SourceReplace(olds, drops)

Next ==
    \/ SourceStep
    \/ NextReapable \/ Reap
    \/ \E r \in Replica : ReplicaStep(r) \/ Crash(r)
    \/ \E z \in late, lands \in BOOLEAN : LateDecided(z, lands)

Spec == Init /\ [][Next]_vars

\* What the machinery around the replica does to it: process and catalog
\* failures, storage failures and executor faults.
Disturbed(r) ==
    \/ Crash(r) /\ ~ReturnError(r)
    \/ PublishLost(r)
    \/ ReadFails(r) /\ ev[r] \notin gone
    \/ Execute(r, "fault")

\* A replica keeps running, and disturbances come to an end.  Data errors need
\* not: a pipeline that stalls may stall for ever.
FairSpec ==
    /\ Spec
    /\ \A r \in Replica : WF_vars(ReplicaStep(r))
    /\ <>[][\A r \in Replica : ~Disturbed(r)]_vars
-----------------------------------------------------------------------------
(* Properties. *)

SrcTypeOK ==
    /\ head \in 0..MaxCommit
    /\ kind \in [Commit -> {"none", "add", "replace"}] /\ empty \in SUBSET Commit
    /\ delby \in [Commit -> 0..MaxCommit]

GcTypeOK == gone \in SUBSET Commit /\ cand \in 0..MaxCommit

MvTypeOK ==
    /\ cursor \in [Pipeline -> 0..MaxCommit]
    /\ since \in [Pipeline -> 0..MaxCommit + 1]
    /\ outcome \in [Pipeline -> [Commit -> Outcome \cup {NoOutcome}]]
    /\ late \in SUBSET [l : Pipeline, c : Commit, o : Outcome]

RepTypeOK ==
    /\ rpc \in [Replica -> Checks \cup {"new", "poll", "fetch", "read", "execute",
                                        "publish", "advance", "unavailable", "failed"}]
    /\ at \in [Replica -> Pipeline]
    /\ ev \in [Replica -> 0..MaxCommit + 1]
    /\ out \in [Replica -> Outcome \cup {"none", "data", "fault", "missing", "broken"}]

TypeOK == SrcTypeOK /\ GcTypeOK /\ MvTypeOK /\ RepTypeOK

\* Every ADD a selected pipeline's cursor has passed has an outcome in the
\* target: no replica, stale write or rebuild moves the cursor over unfinished
\* work.
CursorCovers ==
    \A l \in Selected, c \in Commit :
       since[l] < c /\ c <= cursor[l] /\ kind[c] = "add" => outcome[l][c] # NoOutcome

\* The reaper leaves in place every object some selected pipeline has still to
\* read: its cursor fences the tombstoned inputs it has not passed.
UnreadKept ==
    \A l \in Selected, c \in Commit :
       c > cursor[l] /\ c <= head /\ kind[c] = "add" => c \notin gone

\* "Required source input unavailable" is never raised for an input the reaper
\* took: a replica so slow that its input is gone finds the event completed.
NeverUnavailable == \A r \in Replica : rpc[r] # "unavailable"

\* A pipeline that skips bad data gets past every ADD, also while another one
\* selected by the same worker is stalled.
SkippersProgress ==
    \A l \in Skips, c \in Commit :
       (since[l] < c /\ c <= head /\ kind[c] = "add") ~> (cursor[l] >= c)

\* Each pipeline keeps MvOutcomes' promise.
Outcomes(l) == INSTANCE MvOutcomes WITH since <- since[l], outcome <- outcome[l]

InOrderOnce ==
    /\ \A l \in Pipeline : Outcomes(l)!Init
    /\ [][\A l \in Pipeline : Outcomes(l)!Next \/ UNCHANGED Outcomes(l)!vars]_vars
=============================================================================
