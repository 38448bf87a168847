-------------------------- MODULE MvPipelineProofs --------------------------
(***************************************************************************)
(* Every pipeline gives each source ADD exactly one outcome, in feed order; *)
(* its cursor passes nothing unfinished; and no replica is left without an  *)
(* input it still needs, for any number of replicas, pipelines and commits. *)
(*                                                                          *)
(* The argument: a part is tombstoned by a later commit (Feed); a cursor    *)
(* lies between the head at selection and the head (Cursors); an attempt,   *)
(* also one whose answer was lost, is at an ADD right behind what the       *)
(* cursor covers (Attempts, Undecided); and what the reaper takes, every    *)
(* cursor has passed the tombstone of, and so the ADD itself (Reaped).      *)
(***************************************************************************)
EXTENDS MvPipeline, TLAPS

Feed ==
    \A c \in Commit :
       /\ kind[c] = "none" <=> c > head
       /\ delby[c] # 0 => c < delby[c] /\ delby[c] <= head

Cursors == \A l \in Selected : since[l] <= cursor[l] /\ cursor[l] <= head

\* Pipeline l may publish an outcome for source commit c.
Attemptable(l, c) ==
    /\ l \in Selected /\ c \in Commit
    /\ since[l] < c /\ c <= head /\ kind[c] = "add"
    /\ c <= cursor[l] + 1

AtWork == Checks \cup {"read", "execute", "publish", "unavailable", "failed"}

Attempt(r) ==
    /\ rpc[r] = "new" => \A l \in Pipeline : l < at[r] => l \in Selected
    /\ rpc[r] # "new" => Selected = Pipeline
    /\ rpc[r] = "fetch" => since[at[r]] < ev[r] /\ ev[r] <= cursor[at[r]] + 1
    /\ rpc[r] \in AtWork => Attemptable(at[r], ev[r])
    /\ rpc[r] \in {"before_publish", "publish"} => out[r] \in Outcome
    /\ rpc[r] = "source_read" /\ out[r] = "missing" => ev[r] \in gone
    /\ rpc[r] = "advance" =>
          /\ ev[r] \in Commit /\ ev[r] <= head /\ ev[r] <= cursor[at[r]] + 1
          /\ kind[ev[r]] = "replace" \/ outcome[at[r]][ev[r]] # NoOutcome

Attempts == \A r \in Replica : Attempt(r)

Undecided == \A z \in late : Attemptable(z.l, z.c)

Reaped ==
    \A c \in Commit :
       c \in gone \/ c = cand =>
          delby[c] # 0 /\ \A l \in Selected : delby[c] <= cursor[l]

Safe ==
    /\ TypeOK /\ Feed /\ Cursors /\ Attempts /\ Undecided /\ Reaped
    /\ CursorCovers /\ NeverUnavailable

-----------------------------------------------------------------------------
(* Durable progress only grows. *)

Grown ==
    /\ head <= head' /\ \A c \in Commit : c <= head => kind'[c] = kind[c]
    /\ gone \subseteq gone'
    /\ \A l \in Selected : since'[l] = since[l] /\ cursor[l] <= cursor'[l]
    /\ \A l \in Pipeline, c \in Commit :
          outcome[l][c] # NoOutcome => outcome'[l][c] = outcome[l][c]

\* The source commits append to the feed.
LEMMA SourceGrows ==
    ASSUME TypeOK, Feed, Cursors, SourceStep
    PROVE  SrcTypeOK' /\ Feed' /\ Grown /\ Cursors'
<1> USE MvAssumption DEF Commit
<1>1. head' = head + 1 /\ head < MaxCommit /\ UNCHANGED <<gcVars, mvVars, repVars>>
  BY Zenon DEF SourceStep, SourceAdd, SourceReplace
<1>2. \A c \in Commit : c # head + 1 => kind'[c] = kind[c]
  BY Zenon DEF SourceStep, SourceAdd, SourceReplace, TypeOK, SrcTypeOK
<1>3. kind'[head + 1] # "none"
  BY DEF SourceStep, SourceAdd, SourceReplace, TypeOK, SrcTypeOK
<1>4. SrcTypeOK'
  <2>1. head + 1 \in Commit BY <1>1 DEF TypeOK, SrcTypeOK
  <2>2. empty' \in SUBSET Commit
    <3>1. empty' = empty \/ empty' = empty \cup {head + 1}
      BY Zenon DEF SourceStep, SourceAdd, SourceReplace
    <3>2. empty \in SUBSET Commit BY Zenon DEF TypeOK, SrcTypeOK
    <3> QED BY <2>1, <3>1, <3>2, Zenon
  <2>3. kind' \in [Commit -> {"none", "add", "replace"}]
    BY <2>1, ZenonT(30) DEF SourceStep, SourceAdd, SourceReplace, TypeOK, SrcTypeOK
  <2>4. delby' \in [Commit -> 0..MaxCommit]
    <3>1. delby \in [Commit -> 0..MaxCommit] BY Zenon DEF TypeOK, SrcTypeOK
    <3>2. head + 1 \in 0..MaxCommit BY <2>1
    <3>3. CASE \E marker \in BOOLEAN : SourceAdd(marker) BY <3>1, <3>3, Zenon DEF SourceAdd
    <3>4. CASE \E olds \in SUBSET LiveParts, drops \in BOOLEAN : SourceReplace(olds, drops)
      BY <3>1, <3>2, <3>4, Zenon DEF SourceReplace
    <3> QED BY <3>3, <3>4, Zenon DEF SourceStep
  <2> QED BY <1>1, <2>1, <2>2, <2>3, <2>4 DEF SrcTypeOK
<1>5. \A c \in Commit : delby'[c] = delby[c] \/ (delby'[c] = head + 1 /\ c <= head)
  BY Zenon DEF SourceStep, SourceAdd, SourceReplace, LiveParts, TypeOK, SrcTypeOK
<1>6. Feed'
  BY <1>1, <1>2, <1>3, <1>5 DEF Feed, TypeOK, SrcTypeOK
<1>7. Grown
  BY <1>1, <1>2 DEF Grown, gcVars, mvVars, TypeOK, SrcTypeOK, MvTypeOK, Selected
<1>8. Cursors'
  BY <1>1 DEF Cursors, mvVars, TypeOK, SrcTypeOK, MvTypeOK, Selected, Pipeline
<1> QED BY <1>4, <1>6, <1>7, <1>8, Zenon

\* What was attemptable, or true of an idle replica, stays so while progress grows.
LEMMA AttemptableKept ==
    ASSUME TypeOK, TypeOK', Grown, NEW l \in Pipeline, NEW c \in Commit, Attemptable(l, c)
    PROVE  Attemptable(l, c)'
<1>1. l \in Selected' /\ since'[l] = since[l] /\ cursor[l] <= cursor'[l]
  BY Zenon DEF Grown, Attemptable, Selected
<1> QED BY <1>1 DEF Grown, Attemptable, TypeOK, SrcTypeOK, MvTypeOK, Commit

\* What a replica holds stays true while the catalog grows.
LEMMA AttemptKept ==
    ASSUME TypeOK, TypeOK', Grown, NEW r \in Replica, Attempt(r),
           rpc'[r] = rpc[r], at'[r] = at[r], ev'[r] = ev[r], out'[r] = out[r]
    PROVE  Attempt(r)'
<1>1. Selected \subseteq Selected' /\ Selected' \subseteq Pipeline
  BY Zenon DEF Grown, Selected
<1>2. at[r] \in Pipeline BY Zenon DEF TypeOK, RepTypeOK
<1>3. rpc[r] = "new" => \A l \in Pipeline : l < at'[r] => l \in Selected'
  BY <1>1, Zenon DEF Attempt
<1>4. rpc[r] # "new" => Selected' = Pipeline /\ at[r] \in Selected
  BY <1>1, <1>2, Zenon DEF Attempt
<1>5. rpc[r] \in AtWork => Attemptable(at[r], ev[r])'
  BY <1>2, AttemptableKept, Zenon DEF Attempt, Attemptable
<1>6. rpc[r] = "fetch" => since'[at[r]] < ev[r] /\ ev[r] <= cursor'[at[r]] + 1
  BY <1>2, <1>4 DEF Attempt, Grown, TypeOK, MvTypeOK, RepTypeOK
<1>7. rpc[r] = "advance" =>
         /\ ev[r] \in Commit /\ ev[r] <= head' /\ ev[r] <= cursor'[at[r]] + 1
         /\ kind'[ev[r]] = "replace" \/ outcome'[at[r]][ev[r]] # NoOutcome
  BY <1>2, <1>4 DEF Attempt, Grown, TypeOK, MvTypeOK, RepTypeOK, SrcTypeOK, Commit
<1>8. rpc[r] = "source_read" /\ out[r] = "missing" => ev[r] \in gone'
  BY Zenon DEF Attempt, Grown
<1> QED BY <1>3, <1>4, <1>5, <1>6, <1>7, <1>8, Zenon DEF Attempt, Attemptable
-----------------------------------------------------------------------------
(* A replica's steps. *)

\* A replica's step leaves the other replicas where they are.
LEMMA ReplicaFrame ==
    ASSUME TypeOK, NEW r \in Replica, ReplicaStep(r) \/ Crash(r), NEW s \in Replica, s # r
    PROVE  rpc'[s] = rpc[s] /\ at'[s] = at[s] /\ ev'[s] = ev[s] /\ out'[s] = out[s]
<1> USE DEF TypeOK, RepTypeOK, Step, Result, NextPipeline, Rebuilt, Pending
<1>1. CASE EnsureCursor(r) \/ ReadCursor(r) \/ FetchEvent(r) \/ FetchNothing(r)
  BY <1>1, Zenon DEF EnsureCursor, ReadCursor, FetchEvent, FetchNothing
<1>2. CASE CompletedByCursor(r) \/ CompletedByOperation(r) \/ StartRead(r) \/ ReadInput(r)
  BY <1>2, Zenon DEF CompletedByCursor, CompletedByOperation, StartRead, ReadInput
<1>3. CASE ReadFails(r) \/ SourceError(r) \/ SkipEvent(r) \/ StallEvent(r)
  BY <1>3, Zenon DEF ReadFails, SourceError, SkipEvent, StallEvent
<1>4. CASE \E o \in Outcome \cup {"data", "fault"} : Execute(r, o)
  BY <1>4, Zenon DEF Execute
<1>5. CASE StartPublish(r) \/ Publish(r) \/ PublishLost(r)
  BY <1>5, Zenon DEF StartPublish, Publish, PublishLost
<1>6. CASE Advance(r) \/ ReturnError(r) \/ Crash(r)
  BY <1>6, Zenon DEF Advance, ReturnError, Crash
<1> QED BY <1>1, <1>2, <1>3, <1>4, <1>5, <1>6, Zenon DEF ReplicaStep

\* What a replica's step does to the tables.
LEMMA ReplicaTables ==
    ASSUME NEW r \in Replica, ReplicaStep(r) \/ Crash(r)
    PROVE  /\ UNCHANGED <<srcVars, gcVars>>
           /\ \/ UNCHANGED mvVars
              \/ EnsureCursor(r) \/ Publish(r) \/ PublishLost(r) \/ Advance(r)
<1> USE DEF Pending
<1>1. CASE EnsureCursor(r) \/ Publish(r) \/ PublishLost(r) \/ Advance(r)
  BY <1>1, Zenon DEF EnsureCursor, Publish, PublishLost, Advance
<1>2. CASE ReadCursor(r) \/ FetchEvent(r) \/ FetchNothing(r) \/ CompletedByCursor(r)
  BY <1>2, Zenon DEF ReadCursor, FetchEvent, FetchNothing, CompletedByCursor
<1>3. CASE CompletedByOperation(r) \/ StartRead(r) \/ ReadInput(r) \/ ReadFails(r)
  BY <1>3, Zenon DEF CompletedByOperation, StartRead, ReadInput, ReadFails
<1>4. CASE SourceError(r) \/ SkipEvent(r) \/ StallEvent(r) \/ StartPublish(r)
  BY <1>4, Zenon DEF SourceError, SkipEvent, StallEvent, StartPublish
<1>5. CASE \E o \in Outcome \cup {"data", "fault"} : Execute(r, o)
  BY <1>5, Zenon DEF Execute
<1>6. CASE ReturnError(r) \/ Crash(r)
  BY <1>6, Zenon DEF ReturnError, Crash
<1> QED BY <1>1, <1>2, <1>3, <1>4, <1>5, <1>6, Zenon DEF ReplicaStep

\* A replica's step keeps its own variables in their types.
LEMMA ReplicaTyped ==
    ASSUME TypeOK, NEW r \in Replica, Attempt(r), ReplicaStep(r) \/ Crash(r)
    PROVE  RepTypeOK'
<1> USE MvAssumption DEF TypeOK, RepTypeOK, Step, Result, Checks, Outcome
<1>1. NextPipeline(r) => RepTypeOK' BY DEF NextPipeline, Pipeline
<1>2. Rebuilt(r) => RepTypeOK' BY DEF Rebuilt, Pipeline
<1>3. CASE EnsureCursor(r)
  BY <1>3 DEF EnsureCursor, Pipeline
<1>4. CASE ReadCursor(r)
  <2>1. cursor[at[r]] + 1 \in 0..MaxCommit + 1 BY DEF MvTypeOK
  <2> QED BY <1>4, <2>1, Zenon DEF ReadCursor
<1>5. CASE FetchEvent(r) \/ CompletedByOperation(r) \/ StartRead(r) \/ ReadInput(r)
  BY <1>5, Zenon DEF FetchEvent, CompletedByOperation, StartRead, ReadInput, Pending
<1>6. CASE FetchNothing(r) \/ CompletedByCursor(r) \/ StallEvent(r) \/ Advance(r)
  BY <1>1, <1>6, Zenon DEF FetchNothing, CompletedByCursor, StallEvent, Advance
<1>7. CASE ReadFails(r) \/ SourceError(r) \/ SkipEvent(r)
  BY <1>7, Zenon DEF ReadFails, SourceError, Failure, SkipEvent, Pending
<1>8. CASE \E o \in Outcome \cup {"data", "fault"} : Execute(r, o)
  BY <1>8 DEF Execute
<1>9. CASE StartPublish(r) \/ Publish(r)
  BY <1>9, Zenon DEF StartPublish, Publish, Pending
<1>10. CASE PublishLost(r) \/ ReturnError(r) \/ Crash(r)
  BY <1>2, <1>10, Zenon DEF PublishLost, ReturnError, Crash
<1> QED BY <1>3, <1>4, <1>5, <1>6, <1>7, <1>8, <1>9, <1>10, Zenon DEF ReplicaStep

\* An outcome, once there, stays.
LEMMA LandsGrows ==
    ASSUME TypeOK, NEW l \in Pipeline, NEW c \in Commit, NEW o \in Outcome, Lands(l, c, o)
    PROVE  /\ outcome' \in [Pipeline -> [Commit -> Outcome \cup {NoOutcome}]]
           /\ outcome'[l][c] # NoOutcome
           /\ \A k \in Pipeline, b \in Commit :
                 outcome[k][b] # NoOutcome => outcome'[k][b] = outcome[k][b]
           /\ \A k \in Pipeline, b \in Commit :
                 k # l \/ b # c => outcome'[k][b] = outcome[k][b]
  BY Zenon DEF Lands, TypeOK, MvTypeOK, Outcome, NoOutcome

\* A replica's step types the shared tables, moves no cursor back and none past
\* the head.
LEMMA ReplicaGrows ==
    ASSUME TypeOK, Cursors, NEW r \in Replica, Attempt(r), ReplicaStep(r) \/ Crash(r)
    PROVE  MvTypeOK' /\ Grown /\ Cursors'
<1> USE MvAssumption DEF TypeOK
<1>a. UNCHANGED <<srcVars, gcVars>> BY ReplicaTables, Zenon
<1>b. at[r] \in Pipeline BY Zenon DEF RepTypeOK
<1>1. CASE UNCHANGED mvVars
  <2>1. MvTypeOK' BY <1>1, Zenon DEF mvVars, MvTypeOK
  <2>2. Grown BY <1>1, <1>a DEF Grown, mvVars, srcVars, gcVars, SrcTypeOK, MvTypeOK, Selected
  <2>3. Cursors' BY <1>1, <1>a, Zenon DEF Cursors, mvVars, srcVars, Selected
  <2> QED BY <2>1, <2>2, <2>3, Zenon
<1>2. ASSUME NEW v \in 0..MaxCommit, v <= head, at[r] \in Selected => cursor[at[r]] <= v,
             cursor' = [cursor EXCEPT ![at[r]] = v],
             since' = since \/ (since' = [since EXCEPT ![at[r]] = v] /\ at[r] \notin Selected),
             UNCHANGED <<outcome, late>>
      PROVE  MvTypeOK' /\ Grown /\ Cursors'
  <2>1. MvTypeOK' BY <1>2, <1>b DEF MvTypeOK
  <2>2. \A l \in Pipeline \ {at[r]} : since'[l] = since[l] /\ cursor'[l] = cursor[l]
    BY <1>2, Zenon DEF MvTypeOK
  <2>3. cursor'[at[r]] = v /\ (at[r] \in Selected => since'[at[r]] = since[at[r]])
    BY <1>2, <1>b, Zenon DEF MvTypeOK
  <2>4. since'[at[r]] = since[at[r]] \/ since'[at[r]] = v
    BY <1>2, <1>b, Zenon DEF MvTypeOK
  <2>5. \A l \in Selected : since'[l] = since[l] /\ cursor[l] <= cursor'[l]
    BY <1>2, <2>2, <2>3 DEF Selected, MvTypeOK
  <2>6. Grown BY <1>2, <1>a, <2>5 DEF Grown, srcVars, gcVars, SrcTypeOK
  <2>7. \A l \in Selected' : l # at[r] => since'[l] <= cursor'[l] /\ cursor'[l] <= head'
    BY <1>a, <2>2, Zenon DEF Cursors, srcVars, Selected
  <2>8. at[r] \in Selected' => since'[at[r]] <= v
    BY <1>2, <1>b, <2>3, <2>4 DEF Cursors, Selected, MvTypeOK
  <2>9. Cursors'
    BY <1>2, <1>a, <2>3, <2>7, <2>8, Zenon DEF Cursors, srcVars, Selected
  <2> QED BY <2>1, <2>6, <2>9, Zenon
<1>5. CASE EnsureCursor(r)
  <2>1. CASE since[at[r]] = Unselected
    BY <1>2, <1>5, <2>1 DEF EnsureCursor, Selected, SrcTypeOK
  <2>2. CASE since[at[r]] # Unselected
    <3>1. UNCHANGED mvVars BY <1>5, <2>2, Zenon DEF EnsureCursor, mvVars
    <3> QED BY <1>1, <3>1, Zenon
  <2> QED BY <2>1, <2>2, Zenon
<1>6. CASE Advance(r)
  <2> DEFINE v == IF ev[r] > cursor[at[r]] THEN ev[r] ELSE cursor[at[r]]
  <2>1. ev[r] \in 1..MaxCommit /\ ev[r] <= head /\ at[r] \in Selected
    BY <1>6, <1>b, Zenon DEF Advance, Attempt, Commit
  <2>2. v \in 0..MaxCommit /\ v <= head /\ cursor[at[r]] <= v
    BY <1>b, <2>1 DEF Cursors, MvTypeOK, SrcTypeOK
  <2>3. cursor' = [cursor EXCEPT ![at[r]] = v] /\ UNCHANGED <<since, outcome, late>>
    BY <1>6, Zenon DEF Advance
  <2> QED BY <1>2, <2>2, <2>3, ZenonT(30)
<1>3. CASE Publish(r)
  <2>1. ev[r] \in Commit /\ out[r] \in Outcome
    BY <1>3, Zenon DEF Publish, Attempt, AtWork, Attemptable
  <2>2. UNCHANGED <<cursor, since, late>> /\ Lands(at[r], ev[r], out[r])
    BY <1>3, Zenon DEF Publish
  <2>3. MvTypeOK' BY <1>b, <2>1, <2>2, LandsGrows, Zenon DEF MvTypeOK
  <2>4. Grown
    <3>1. head <= head' /\ kind' = kind /\ gone' = gone
      BY <1>a, <1>b DEF srcVars, gcVars, SrcTypeOK
    <3>2. \A k \in Selected : cursor[k] <= cursor'[k] BY <1>b, <2>2 DEF MvTypeOK, Selected
    <3>3. \A k \in Pipeline, c \in Commit :
             outcome[k][c] # NoOutcome => outcome'[k][c] = outcome[k][c]
      BY <1>b, <2>1, <2>2, LandsGrows, Zenon
    <3> QED BY <2>2, <3>1, <3>2, <3>3, Zenon DEF Grown
  <2>5. Cursors' BY <1>a, <2>2, Zenon DEF Cursors, srcVars, Selected
  <2> QED BY <2>3, <2>4, <2>5, Zenon
<1>4. CASE PublishLost(r)
  <2>1. ev[r] \in Commit /\ out[r] \in Outcome
    BY <1>4, Zenon DEF PublishLost, Attempt, AtWork, Attemptable
  <2>2. UNCHANGED <<cursor, since, outcome>> BY <1>4, Zenon DEF PublishLost
  <2>3. MvTypeOK' BY <1>4, <1>b, <2>1, <2>2 DEF PublishLost, MvTypeOK
  <2>4. Grown
    BY <1>a, <2>2 DEF Grown, srcVars, gcVars, SrcTypeOK, MvTypeOK, Selected
  <2>5. Cursors' BY <1>a, <2>2, Zenon DEF Cursors, srcVars, Selected
  <2> QED BY <2>3, <2>4, <2>5, Zenon
<1> QED BY <1>1, <1>3, <1>4, <1>5, <1>6, ReplicaTables, Zenon

\* A replica's step leaves it at an event its cursor is right behind.
LEMMA OwnAttempt ==
    ASSUME TypeOK, TypeOK', Feed, Cursors, Grown, NEW r \in Replica, Attempt(r),
           ReplicaStep(r) \/ Crash(r)
    PROVE  Attempt(r)'
<1> USE MvAssumption
<1>a. at[r] \in Pipeline /\ at'[r] \in Pipeline /\ UNCHANGED <<srcVars, gcVars>>
  BY ReplicaTables, Zenon DEF TypeOK, RepTypeOK
<1>b. rpc[r] # "new" => at[r] \in Selected /\ Selected' = Pipeline
  BY <1>a DEF Attempt, Grown, Selected
<1>1. CASE EnsureCursor(r)
  <2>1. at[r] \in Selected'
    BY <1>1, <1>a DEF EnsureCursor, Selected, Unselected, TypeOK, MvTypeOK, SrcTypeOK
  <2>2. \A l \in Pipeline : l <= at[r] => l \in Selected'
    BY <1>1, <1>a, <2>1 DEF EnsureCursor, Attempt, Grown, Selected, Pipeline
  <2>3. CASE at[r] = NumPipelines
    <3>1. Selected' = Pipeline BY <2>2, <2>3 DEF Selected, Pipeline
    <3>2. rpc'[r] = "poll" BY <1>1, <2>3, Zenon DEF EnsureCursor, Step, TypeOK, RepTypeOK
    <3> QED BY <3>1, <3>2, ZenonT(30) DEF Attempt, AtWork, Checks
  <2>4. CASE at[r] # NumPipelines
    <3>1. rpc'[r] = "new" /\ at'[r] = at[r] + 1
      BY <1>1, <2>4, Zenon DEF EnsureCursor, Step, TypeOK, RepTypeOK
    <3>2. \A l \in Pipeline : l < at'[r] => l \in Selected'
      BY <1>a, <2>2, <3>1 DEF Pipeline
    <3> QED BY <3>1, <3>2, ZenonT(30) DEF Attempt, AtWork, Checks
  <2> QED BY <2>3, <2>4, Zenon
<1>2. ASSUME rpc'[r] = "poll", rpc[r] # "new" PROVE Attempt(r)'
  BY <1>2, <1>b, Zenon DEF Attempt, AtWork, Checks
<1>3. CASE FetchNothing(r) \/ CompletedByCursor(r) \/ StallEvent(r) \/ Advance(r)
  <2>1. rpc'[r] = "poll" /\ rpc[r] # "new"
    BY <1>3, Zenon
       DEF FetchNothing, CompletedByCursor, StallEvent, Advance, NextPipeline, Step, Pending,
           Checks, TypeOK, RepTypeOK
  <2> QED BY <1>2, <2>1, Zenon
<1>4. CASE PublishLost(r) \/ ReturnError(r) \/ Crash(r)
  <2>1. rpc'[r] = "new" /\ at'[r] = 1
    BY <1>4, Zenon DEF PublishLost, ReturnError, Crash, Rebuilt, Step, TypeOK, RepTypeOK
  <2> QED BY <2>1 DEF Attempt, AtWork, Checks, Pipeline
<1>5. CASE ReadCursor(r)
  <2>1. rpc'[r] = "fetch" /\ ev'[r] = cursor[at[r]] + 1 /\ at' = at /\ UNCHANGED mvVars
    BY <1>5, Zenon DEF ReadCursor, Step, TypeOK, RepTypeOK
  <2>2. rpc[r] # "new" BY <1>5, Zenon DEF ReadCursor
  <2>3. since[at[r]] <= cursor[at[r]] BY <1>b, <2>2, Zenon DEF Cursors
  <2>4. since'[at'[r]] < ev'[r] /\ ev'[r] <= cursor'[at'[r]] + 1
    BY <1>a, <2>1, <2>3 DEF mvVars, TypeOK, MvTypeOK
  <2> QED BY <1>b, <2>1, <2>2, <2>4, Zenon DEF Attempt, AtWork, Checks
<1>6. ASSUME rpc'[r] \in AtWork, rpc[r] # "new", at'[r] = at[r], ev'[r] = ev[r],
             Attemptable(at[r], ev[r]),
             rpc'[r] \in {"before_publish", "publish"} => out'[r] \in Outcome,
             rpc'[r] = "source_read" /\ out'[r] = "missing" => ev[r] \in gone
      PROVE  Attempt(r)'
  <2>1. Attemptable(at[r], ev[r])'
    BY <1>6, <1>a, AttemptableKept, Zenon DEF Attemptable
  <2>2. rpc'[r] \notin {"new", "fetch", "advance"} BY <1>6, Zenon DEF AtWork, Checks
  <2>3. Selected' = Pipeline /\ gone' = gone BY <1>6, <1>a, <1>b, Zenon DEF gcVars
  <2> QED BY <1>6, <2>1, <2>2, <2>3, Zenon DEF Attempt
<1>7. CASE FetchEvent(r)
  <2>1. ev[r] \in Commit /\ since[at[r]] < ev[r] /\ ev[r] <= head /\ ev[r] <= cursor[at[r]] + 1
    <3>1. rpc[r] = "fetch" /\ ev[r] <= head BY <1>7, Zenon DEF FetchEvent
    <3>2. since[at[r]] < ev[r] /\ ev[r] <= cursor[at[r]] + 1 BY <3>1, Zenon DEF Attempt
    <3>3. since[at[r]] \in Nat /\ ev[r] \in Nat /\ head \in 0..MaxCommit
      BY <1>a DEF TypeOK, SrcTypeOK, MvTypeOK, RepTypeOK
    <3>4. ev[r] \in 1..MaxCommit BY <3>1, <3>2, <3>3
    <3> QED BY <3>1, <3>2, <3>4, Zenon DEF Commit
  <2>2. kind[ev[r]] \in {"add", "replace"}
    <3>1. kind[ev[r]] \in {"none", "add", "replace"} BY <2>1, Zenon DEF TypeOK, SrcTypeOK
    <3>2. ~(ev[r] > head) BY <2>1 DEF Commit, TypeOK, SrcTypeOK
    <3> QED BY <2>1, <3>1, <3>2, Zenon DEF Feed
  <2>3. at' = at /\ ev' = ev /\ out' = out /\ rpc[r] # "new" /\ UNCHANGED mvVars
    BY <1>7, Zenon DEF FetchEvent
  <2>4. CASE kind[ev[r]] = "add"
    <3>1. rpc'[r] = "before_read"
      BY <1>7, <2>4, Zenon DEF FetchEvent, Step, TypeOK, RepTypeOK
    <3>2. Attemptable(at[r], ev[r]) BY <1>b, <2>1, <2>3, <2>4, Zenon DEF Attemptable
    <3> QED BY <1>6, <2>3, <3>1, <3>2, Zenon DEF AtWork, Checks
  <2>5. CASE kind[ev[r]] = "replace"
    <3>1. rpc'[r] = "advance"
      BY <1>7, <2>5, Zenon DEF FetchEvent, Step, TypeOK, RepTypeOK
    <3> QED BY <1>a, <1>b, <2>1, <2>3, <2>5, <3>1, Zenon DEF Attempt, AtWork, Checks, srcVars, mvVars
  <2> QED BY <2>2, <2>4, <2>5, Zenon
<1>8. CASE CompletedByOperation(r)
  <2>1. rpc[r] \in AtWork /\ rpc[r] # "new"
    BY <1>8, Zenon DEF CompletedByOperation, AtWork, Checks
  <2>2. rpc'[r] = "advance" /\ at' = at /\ ev' = ev /\ UNCHANGED mvVars
    BY <1>8, Zenon DEF CompletedByOperation, Step, TypeOK, RepTypeOK
  <2>3. outcome[at[r]][ev[r]] # NoOutcome BY <1>8, Zenon DEF CompletedByOperation
  <2>4. Attemptable(at[r], ev[r]) BY <2>1, Zenon DEF Attempt
  <2> QED BY <1>a, <1>b, <2>1, <2>2, <2>3, <2>4, Zenon
          DEF Attempt, Attemptable, AtWork, Checks, srcVars, mvVars
<1>9. CASE Publish(r)
  <2>1. Attemptable(at[r], ev[r]) /\ out[r] \in Outcome /\ rpc[r] # "new"
    BY <1>9, ZenonT(30) DEF Publish, Attempt, AtWork
  <2>2. rpc'[r] = "advance" /\ at' = at /\ ev' = ev /\ UNCHANGED cursor
    BY <1>9, Zenon DEF Publish, Step, TypeOK, RepTypeOK
  <2>3. outcome'[at[r]][ev[r]] # NoOutcome
    BY <1>9, <1>a, <2>1, LandsGrows, ZenonT(30) DEF Publish, Attemptable
  <2> QED BY <1>a, <1>b, <2>1, <2>2, <2>3, Zenon DEF Attempt, Attemptable, AtWork, Checks, srcVars
<1>10. CASE StartRead(r) \/ ReadInput(r) \/ SourceError(r) \/ StartPublish(r)
  <2>1. rpc[r] \in AtWork /\ at' = at /\ ev' = ev /\ out' = out
    BY <1>10, ZenonT(30) DEF StartRead, ReadInput, SourceError, StartPublish, Pending, AtWork, Checks
  <2>2. rpc'[r] \in {"read", "execute", "unavailable", "failed"}
        \/ (rpc[r] = "before_publish" /\ rpc'[r] = "publish")
    BY <1>10, Zenon
       DEF StartRead, ReadInput, SourceError, Failure, StartPublish, Pending, Step, TypeOK,
           RepTypeOK
  <2> QED BY <1>6, <2>1, <2>2, ZenonT(30) DEF Attempt, AtWork, Checks
<1>11. CASE ReadFails(r)
  <2>1. rpc[r] = "read" /\ at' = at /\ ev' = ev BY <1>11, Zenon DEF ReadFails
  <2>2. rpc'[r] = "source_read" /\ (out'[r] = "missing" => ev[r] \in gone)
    BY <1>11, Zenon DEF ReadFails, Step, Result, TypeOK, RepTypeOK
  <2> QED BY <1>6, <2>1, <2>2 DEF Attempt, AtWork, Checks
<1>12. CASE \E o \in Outcome \cup {"data", "fault"} : Execute(r, o)
  <2>1. PICK o \in Outcome \cup {"data", "fault"} : Execute(r, o) BY <1>12, Zenon
  <2>2. rpc[r] = "execute" /\ at' = at /\ ev' = ev BY <2>1 DEF Execute
  <2>3. out'[r] = o /\ rpc'[r] = IF o \in Outcome THEN "before_publish" ELSE "transform"
    BY <2>1 DEF Execute, Step, Result, TypeOK, RepTypeOK
  <2> QED BY <1>6, <2>2, <2>3 DEF Attempt, AtWork, Checks
<1>13. CASE SkipEvent(r)
  <2>1. rpc[r] = "transform" /\ at' = at /\ ev' = ev BY <1>13, Zenon DEF SkipEvent, Pending
  <2>2. rpc'[r] = "before_publish" /\ out'[r] = "empty"
    BY <1>13, Zenon DEF SkipEvent, Step, Result, TypeOK, RepTypeOK
  <2> QED BY <1>6, <2>1, <2>2, Zenon DEF Attempt, AtWork, Checks, Outcome
<1> QED BY <1>1, <1>3, <1>4, <1>5, <1>7, <1>8, <1>9, <1>10, <1>11, <1>12, <1>13, Zenon DEF ReplicaStep
-----------------------------------------------------------------------------
(* Every step of the system. *)

\* A publication whose answer was lost may land like any other.
LEMMA LateGrows ==
    ASSUME TypeOK, Cursors, Undecided, NEW z \in late, NEW lands \in BOOLEAN,
           LateDecided(z, lands)
    PROVE  MvTypeOK' /\ Grown /\ Cursors' /\ UNCHANGED <<srcVars, gcVars, repVars>>
<1>1. z.l \in Pipeline /\ z.c \in Commit /\ z.o \in Outcome
  BY Zenon DEF TypeOK, MvTypeOK
<1>2. UNCHANGED <<srcVars, gcVars, repVars>> /\ UNCHANGED <<cursor, since>> /\ late' \subseteq late
  BY Zenon DEF LateDecided
<1>3. /\ outcome' \in [Pipeline -> [Commit -> Outcome \cup {NoOutcome}]]
      /\ \A k \in Pipeline, b \in Commit :
            outcome[k][b] # NoOutcome => outcome'[k][b] = outcome[k][b]
  BY <1>1, LandsGrows, Zenon DEF LateDecided, TypeOK, MvTypeOK
<1>4. MvTypeOK' BY <1>2, <1>3, Zenon DEF TypeOK, MvTypeOK
<1>5. Grown BY <1>2, <1>3 DEF Grown, srcVars, gcVars, TypeOK, SrcTypeOK, MvTypeOK, Selected
<1>6. Cursors' BY <1>2, Zenon DEF Cursors, srcVars, Selected
<1> QED BY <1>2, <1>4, <1>5, <1>6, Zenon

\* Types, the feed, growth and the cursors' place under any step.
LEMMA StepGrows ==
    ASSUME TypeOK, Feed, Cursors, Attempts, Undecided, [Next]_vars
    PROVE  TypeOK' /\ Feed' /\ Grown /\ Cursors'
<1> USE MvAssumption
<1>a. UNCHANGED srcVars => SrcTypeOK' /\ Feed'
  BY Zenon DEF TypeOK, srcVars, SrcTypeOK, Feed
<1>b. UNCHANGED gcVars => GcTypeOK'
  BY Zenon DEF TypeOK, gcVars, GcTypeOK
<1>c. UNCHANGED mvVars => MvTypeOK'
  BY Zenon DEF TypeOK, mvVars, MvTypeOK
<1>d. UNCHANGED repVars => RepTypeOK'
  BY Zenon DEF TypeOK, repVars, RepTypeOK
<1>1. CASE SourceStep
  <2>1. UNCHANGED <<gcVars, mvVars, repVars>>
    BY <1>1, Zenon DEF SourceStep, SourceAdd, SourceReplace
  <2> QED BY <1>1, <1>b, <1>c, <1>d, <2>1, SourceGrows, Zenon DEF TypeOK
<1>2. CASE NextReapable \/ Reap \/ UNCHANGED vars
  <2>1. UNCHANGED <<srcVars, mvVars, repVars>> BY <1>2, Zenon DEF NextReapable, Reap, vars
  <2>2. GcTypeOK' /\ gone \subseteq gone'
    <3>1. CASE NextReapable BY <3>1 DEF NextReapable, Reapable, TypeOK, GcTypeOK, Commit
    <3>2. CASE Reap BY <3>2 DEF Reap, TypeOK, GcTypeOK, Commit
    <3>3. CASE UNCHANGED vars BY <1>b, <3>3, Zenon DEF vars, gcVars
    <3> QED BY <1>2, <3>1, <3>2, <3>3, Zenon
  <2>3. Grown BY <2>1, <2>2 DEF Grown, srcVars, mvVars, TypeOK, SrcTypeOK, MvTypeOK, Selected
  <2>4. Cursors' BY <2>1, Zenon DEF Cursors, srcVars, mvVars, Selected
  <2> QED BY <1>a, <1>c, <1>d, <2>1, <2>2, <2>3, <2>4, Zenon DEF TypeOK
<1>3. ASSUME NEW r \in Replica, ReplicaStep(r) \/ Crash(r)
      PROVE  TypeOK' /\ Feed' /\ Grown /\ Cursors'
  BY <1>3, <1>a, <1>b, ReplicaTables, ReplicaTyped, ReplicaGrows, Zenon DEF TypeOK, Attempts
<1>4. ASSUME NEW z \in late, NEW lands \in BOOLEAN, LateDecided(z, lands)
      PROVE  TypeOK' /\ Feed' /\ Grown /\ Cursors'
  BY <1>4, <1>a, <1>b, <1>d, LateGrows, Zenon DEF TypeOK
<1> QED BY <1>1, <1>2, <1>3, <1>4, Zenon DEF Next

\* Attempts, also undecided ones, stay right behind what their cursor covers.
LEMMA AttemptsStep ==
    ASSUME TypeOK, Feed, Cursors, Attempts, Undecided, [Next]_vars
    PROVE  Attempts' /\ Undecided'
<1>a. TypeOK' /\ Grown BY StepGrows, Zenon
<1>1. UNCHANGED repVars => Attempts'
  BY <1>a, AttemptKept, Zenon DEF Attempts, repVars
<1>2. late' \subseteq late => Undecided'
  <2>1. \A z \in late : z.l \in Pipeline /\ z.c \in Commit BY Zenon DEF TypeOK, MvTypeOK
  <2> QED BY <1>a, <2>1, AttemptableKept, Zenon DEF Undecided
<1>3. CASE SourceStep \/ NextReapable \/ Reap \/ UNCHANGED vars
  <2>1. UNCHANGED repVars /\ late' = late
    BY <1>3, Zenon DEF SourceStep, SourceAdd, SourceReplace, NextReapable, Reap, vars, mvVars
  <2> QED BY <1>1, <1>2, <2>1, Zenon
<1>4. ASSUME NEW r \in Replica, ReplicaStep(r) \/ Crash(r)
      PROVE  Attempts' /\ Undecided'
  <2>1. Attempt(r)' BY <1>4, <1>a, OwnAttempt, Zenon DEF Attempts
  <2>2. ASSUME NEW s \in Replica, s # r PROVE Attempt(s)'
    BY <1>4, <1>a, <2>2, ReplicaFrame, AttemptKept, ZenonT(30) DEF Attempts
  <2>3. CASE late' = late BY <1>2, <2>1, <2>2, <2>3, Zenon DEF Attempts
  <2>4. CASE PublishLost(r)
    <3> DEFINE y == [l |-> at[r], c |-> ev[r], o |-> out[r]]
    <3>1. Attemptable(at[r], ev[r]) /\ at[r] \in Pipeline
      BY <2>4, Zenon DEF PublishLost, Attempts, Attempt, AtWork, TypeOK, RepTypeOK
    <3>2. late' = late \cup {y} /\ y.l = at[r] /\ y.c = ev[r] BY <2>4, Zenon DEF PublishLost
    <3>3. Attemptable(y.l, y.c) BY <3>1, <3>2, Zenon
    <3>4. \A z \in late' : z.l \in Pipeline /\ z.c \in Commit BY <1>a, Zenon DEF TypeOK, MvTypeOK
    <3>5. \A z \in late' : Attemptable(z.l, z.c) BY <3>2, <3>3, Zenon DEF Undecided
    <3>6. ASSUME NEW z \in late' PROVE z \in late' /\ Attemptable(z.l, z.c)'
      BY <1>a, <3>4, <3>5, AttemptableKept, Zenon
    <3> QED BY <2>1, <2>2, <3>6, Zenon DEF Attempts, Undecided
  <2> QED BY <1>4, <2>3, <2>4, ReplicaTables, ZenonT(30)
          DEF mvVars, EnsureCursor, Publish, Advance
<1>5. ASSUME NEW z \in late, NEW lands \in BOOLEAN, LateDecided(z, lands)
      PROVE  Attempts' /\ Undecided'
  BY <1>1, <1>2, <1>5, Zenon DEF LateDecided
<1> QED BY <1>3, <1>4, <1>5, Zenon DEF Next

\* Whatever the reaper takes, every cursor has passed the tombstone of.
LEMMA ReapedStep ==
    ASSUME TypeOK, Feed, Cursors, Attempts, Undecided, Reaped, [Next]_vars
    PROVE  Reaped'
<1>a. TypeOK' /\ Grown /\ Cursors' /\ Feed' BY StepGrows, Zenon
<1>1. \A c \in Commit : delby[c] # 0 => delby'[c] = delby[c]
  <2>1. CASE SourceStep
    BY <2>1, Zenon DEF SourceStep, SourceAdd, SourceReplace, LiveParts, TypeOK, SrcTypeOK
  <2>2. CASE ~SourceStep
    <3>1. UNCHANGED srcVars
      BY <2>2, ReplicaTables, Zenon DEF Next, NextReapable, Reap, LateDecided, vars
    <3> QED BY <3>1, Zenon DEF srcVars
  <2> QED BY <2>1, <2>2, Zenon
<1>2. \A l \in Selected' : l \notin Selected => cursor'[l] = head'
  <2>1. CASE \E r \in Replica : EnsureCursor(r)
    BY <2>1, Zenon DEF EnsureCursor, Selected, srcVars, TypeOK, MvTypeOK
  <2>2. CASE ~ \E r \in Replica : EnsureCursor(r)
    <3>1. UNCHANGED since
      BY <2>2, ReplicaTables
         DEF Next, SourceStep, SourceAdd, SourceReplace, NextReapable, Reap, Publish,
             PublishLost, Advance, LateDecided, vars, mvVars
    <3> QED BY <3>1, Zenon DEF Selected
  <2> QED BY <2>1, <2>2, Zenon
<1>3. \A c \in Commit : (c \in gone' \/ c = cand') /\ ~(c \in gone \/ c = cand) => c \in Reapable
  <2>1. CASE NextReapable \/ Reap
    BY <2>1 DEF NextReapable, Reap, Commit
  <2>2. CASE ~(NextReapable \/ Reap)
    <3>1. UNCHANGED gcVars
      BY <2>2, ReplicaTables, Zenon
         DEF Next, SourceStep, SourceAdd, SourceReplace, LateDecided, vars
    <3> QED BY <3>1, Zenon DEF gcVars
  <2> QED BY <2>1, <2>2, Zenon
<1>4. ASSUME NEW c \in Commit, c \in gone' \/ c = cand'
      PROVE  delby'[c] # 0 /\ \A l \in Selected' : delby'[c] <= cursor'[l]
  <2>1. delby[c] # 0 /\ \A l \in Selected : delby[c] <= cursor[l]
    BY <1>3, <1>4, Zenon DEF Reaped, Reapable
  <2>2. delby'[c] = delby[c] BY <1>1, <2>1, Zenon
  <2>3. ASSUME NEW l \in Selected' PROVE delby'[c] <= cursor'[l]
    <3>1. CASE l \in Selected
      BY <2>1, <2>2, <3>1, <1>a DEF Grown, TypeOK, SrcTypeOK, MvTypeOK, Selected
    <3>2. CASE l \notin Selected
      BY <1>2, <1>a, <2>1, <2>2, <3>2, Zenon DEF Feed
    <3> QED BY <3>1, <3>2, Zenon
  <2> QED BY <2>1, <2>2, <2>3, Zenon
<1> QED BY <1>4, Zenon DEF Reaped

\* A cursor moves over one answered or partless event, or starts at the head.
LEMMA CoversStep ==
    ASSUME TypeOK, Feed, Cursors, Attempts, Undecided, CursorCovers, [Next]_vars
    PROVE  CursorCovers'
<1>a. TypeOK' /\ Grown /\ Cursors' BY StepGrows, Zenon
<1>1. ASSUME NEW l \in Selected', NEW c \in Commit,
             since'[l] < c, c <= cursor'[l], kind'[c] = "add"
      PROVE  outcome'[l][c] # NoOutcome
  <2>0. l \in Pipeline BY Zenon DEF Selected
  <2>1. CASE l \in Selected /\ c <= cursor[l]
    <3>1. c <= head /\ since[l] < c /\ kind[c] = "add"
      BY <1>a, <1>1, <2>1 DEF Grown, Cursors, TypeOK, SrcTypeOK, MvTypeOK, Selected, Commit
    <3>2. outcome[l][c] # NoOutcome BY <2>1, <3>1, Zenon DEF CursorCovers
    <3> QED BY <1>a, <2>0, <3>2, Zenon DEF Grown
  <2>2. CASE l \in Selected /\ ~(c <= cursor[l])
    <3>1. cursor'[l] # cursor[l] BY <1>1, <2>2, Zenon
    <3>2. PICK r \in Replica : Advance(r) \/ EnsureCursor(r)
      BY <3>1, ReplicaTables, Zenon
         DEF Next, SourceStep, SourceAdd, SourceReplace, NextReapable, Reap, Publish,
             PublishLost, LateDecided, vars, mvVars
    <3>3. Advance(r) /\ l = at[r] /\ cursor'[l] = ev[r]
      BY <2>0, <2>2, <3>1, <3>2, Zenon
         DEF Advance, EnsureCursor, Selected, TypeOK, MvTypeOK, RepTypeOK
    <3>4. /\ ev[r] \in Commit /\ ev[r] <= head /\ ev[r] <= cursor[l] + 1
          /\ kind[ev[r]] = "replace" \/ outcome[l][ev[r]] # NoOutcome
      BY <3>3, ZenonT(30) DEF Advance, Attempts, Attempt
    <3>5. c = ev[r]
      <4>1. c \in Nat /\ ev[r] \in Nat BY <3>4 DEF Commit
      <4>2. cursor[l] \in Nat BY <2>0, MvAssumption DEF TypeOK, MvTypeOK
      <4>3. c <= ev[r] BY <1>1, <3>3, Zenon
      <4>4. ~(c <= cursor[l]) /\ ev[r] <= cursor[l] + 1 BY <2>2, <3>4, Zenon
      <4> QED BY <4>1, <4>2, <4>3, <4>4
    <3>6. kind[c] = "add" BY <1>1, <1>a, <3>4, <3>5, Zenon DEF Grown
    <3> QED BY <1>a, <2>0, <3>4, <3>5, <3>6, Zenon DEF Grown
  <2>3. CASE l \notin Selected
    <3>1. PICK r \in Replica : EnsureCursor(r)
      BY <2>3, ReplicaTables, ZenonT(30)
         DEF Selected, Next, SourceStep, SourceAdd, SourceReplace, NextReapable, Reap,
             Publish, PublishLost, Advance, LateDecided, vars, mvVars
    <3>2. cursor'[l] = since'[l]
      BY <2>0, <2>3, <3>1 DEF EnsureCursor, Selected, TypeOK, MvTypeOK, RepTypeOK
    <3> QED BY <1>1, <1>a, <2>0, <3>2 DEF TypeOK, MvTypeOK, Commit
  <2> QED BY <2>1, <2>2, <2>3, Zenon
<1> QED BY <1>1, Zenon DEF CursorCovers

\* An input that is gone was passed by every cursor: its event is completed.
LEMMA AvailableStep ==
    ASSUME TypeOK, Feed, Attempts, Reaped, NeverUnavailable, [Next]_vars
    PROVE  NeverUnavailable'
<1>1. ASSUME NEW r \in Replica, SourceError(r) PROVE out[r] # "missing"
  <2> SUFFICES ASSUME out[r] = "missing" PROVE FALSE BY Zenon
  <2>1. Attemptable(at[r], ev[r]) /\ ev[r] \in gone /\ cursor[at[r]] < ev[r]
    BY <1>1 DEF SourceError, Pending, Attempts, Attempt, AtWork, Checks
  <2>2. delby[ev[r]] <= cursor[at[r]] /\ ev[r] < delby[ev[r]]
    BY <2>1, Zenon DEF Attemptable, Reaped, Feed
  <2>3. cursor[at[r]] \in Nat /\ ev[r] \in Nat /\ delby[ev[r]] \in Nat
    BY <2>1, MvAssumption DEF Attemptable, Selected, Commit, TypeOK, SrcTypeOK, MvTypeOK
  <2> QED BY <2>1, <2>2, <2>3
<1>2. ASSUME NEW r \in Replica, rpc'[r] = "unavailable" PROVE FALSE
  <2>1. rpc[r] # "unavailable" BY Zenon DEF NeverUnavailable
  <2>2. PICK s \in Replica : ReplicaStep(s) \/ Crash(s)
    BY <1>2, <2>1, Zenon
       DEF Next, SourceStep, SourceAdd, SourceReplace, NextReapable, Reap, LateDecided,
           vars, repVars
  <2>3. s = r BY <1>2, <2>1, <2>2, ReplicaFrame, ZenonT(30)
  <2>4. ReplicaStep(r) \/ Crash(r) BY <2>2, <2>3, Zenon
  <2>5. SourceError(r) => rpc'[r] = "failed"
    BY <1>1, ZenonT(30) DEF SourceError, Failure, Step, TypeOK, RepTypeOK
  <2> QED
    BY <1>2, <2>1, <2>4, <2>5, ZenonT(30)
       DEF ReplicaStep, Crash, EnsureCursor, ReadCursor, FetchEvent, FetchNothing,
           CompletedByCursor, CompletedByOperation, StartRead, ReadInput, ReadFails, Execute,
           SkipEvent, StallEvent, StartPublish, Publish, PublishLost, Advance, ReturnError,
           Rebuilt, NextPipeline, Step, TypeOK, RepTypeOK
<1> QED BY <1>2, Zenon DEF NeverUnavailable

(***************************************************************************)
(* Safe is an invariant of the MV role's steps.                             *)
(***************************************************************************)
THEOREM MvDiscipline == Spec => []Safe
<1>1. Init => Safe
  BY MvAssumption
     DEF Init, Safe, TypeOK, SrcTypeOK, GcTypeOK, MvTypeOK, RepTypeOK, Feed, Cursors,
         Attempts, Attempt, AtWork, Undecided, Reaped, CursorCovers, NeverUnavailable,
         Selected, Unselected, Checks, Commit, Pipeline, Outcome, NoOutcome
<1>2. Safe /\ [Next]_vars => Safe'
  BY StepGrows, AttemptsStep, ReapedStep, CoversStep, AvailableStep, Zenon DEF Safe
<1> QED BY <1>1, <1>2, PTL DEF Spec

\* No cursor passes an ADD that has no outcome in the target.
THEOREM CursorsCoverOutcomes == Spec => []CursorCovers
<1>1. Safe => CursorCovers BY Zenon DEF Safe
<1> QED BY <1>1, MvDiscipline, PTL

\* The reaper keeps every object a selected pipeline has still to read.
THEOREM UnreadNeverReaped == Spec => []UnreadKept
<1>1. Safe => UnreadKept
  BY DEF Safe, TypeOK, SrcTypeOK, MvTypeOK, Feed, Reaped, UnreadKept, Selected, Commit
<1> QED BY <1>1, MvDiscipline, PTL

\* A replica whose input was reaped finds its event completed.
THEOREM InputsAvailable == Spec => []NeverUnavailable
<1>1. Safe => NeverUnavailable BY Zenon DEF Safe
<1> QED BY <1>1, MvDiscipline, PTL
-----------------------------------------------------------------------------
(* The refinement of MvOutcomes. *)

\* An attempt is at the first ADD without an outcome, or at one that has it.
LEMMA Behind ==
    ASSUME TypeOK, CursorCovers, NEW l \in Pipeline, NEW c \in Commit, Attemptable(l, c)
    PROVE  c \in Outcomes(l)!Due(c)
           /\ \A b \in Outcomes(l)!Due(c) \ {c} : outcome[l][b] # NoOutcome
  BY MvAssumption
     DEF TypeOK, SrcTypeOK, MvTypeOK, CursorCovers, Attemptable, Outcomes!Due, Commit, Pipeline

\* A publication that lands is a Publish of its pipeline's promise, or nothing.
LEMMA LandsInOrder ==
    ASSUME TypeOK, CursorCovers, NEW l \in Pipeline, NEW c \in Commit, NEW o \in Outcome,
           Attemptable(l, c), Lands(l, c, o), UNCHANGED <<srcVars, since>>
    PROVE  \A k \in Pipeline : Outcomes(k)!Next \/ UNCHANGED Outcomes(k)!vars
<1> SUFFICES ASSUME NEW k \in Pipeline
             PROVE  Outcomes(k)!Next \/ UNCHANGED Outcomes(k)!vars
  BY Zenon
<1>1. CASE k # l \/ outcome[l][c] # NoOutcome
  <2>1. outcome'[k] = outcome[k] BY <1>1, Zenon DEF Lands, TypeOK, MvTypeOK
  <2> QED BY <2>1, Zenon DEF Outcomes!vars, srcVars
<1>2. CASE k = l /\ outcome[l][c] = NoOutcome
  <2>1. outcome'[k] = [outcome[k] EXCEPT ![c] = o]
    BY <1>2, Zenon DEF Lands, TypeOK, MvTypeOK
  <2>2. Outcomes(k)!Publish(c, o)
    BY <1>2, <2>1, Behind, Zenon DEF Outcomes!Publish, srcVars
  <2> QED BY <2>2, Zenon DEF Outcomes!Next, Commit
<1> QED BY <1>1, <1>2, Zenon

(***************************************************************************)
(* Every pipeline implements MvOutcomes: one outcome for each ADD since its *)
(* selection, in feed order, never changed, whatever the replicas,          *)
(* restarts and lost answers.                                               *)
(***************************************************************************)
THEOREM OutcomesInOrderOnce == Spec => InOrderOnce
<1> DEFINE Promise == \A l \in Pipeline : Outcomes(l)!Next \/ UNCHANGED Outcomes(l)!vars
<1>1. Init => \A l \in Pipeline : Outcomes(l)!Init
  BY DEF Init, Outcomes!Init, Outcomes!Unselected, Unselected, Commit
<1>2. ASSUME Safe, [Next]_vars PROVE [Promise]_vars
  <2>a. UNCHANGED <<srcVars, since, outcome>> => Promise
    BY Zenon DEF Outcomes!vars, srcVars
  <2>1. CASE SourceStep
    <3>1. /\ \E k \in {"add", "replace"} : kind' = [kind EXCEPT ![head + 1] = k]
          /\ head < MaxCommit /\ head' = head + 1 /\ UNCHANGED <<since, outcome>>
      BY <2>1, Zenon DEF SourceStep, SourceAdd, SourceReplace, mvVars
    <3>2. ASSUME NEW l \in Pipeline PROVE Outcomes(l)!Next
      BY <3>1, ZenonT(30) DEF Outcomes!Next, Outcomes!Append
    <3> QED BY <3>2, Zenon
  <2>2. CASE NextReapable \/ Reap \/ UNCHANGED vars
    BY <2>2, <2>a, Zenon DEF NextReapable, Reap, vars, mvVars
  <2>3. ASSUME NEW r \in Replica, EnsureCursor(r) PROVE Promise
    <3> SUFFICES ASSUME NEW l \in Pipeline
                 PROVE  Outcomes(l)!Next \/ UNCHANGED Outcomes(l)!vars
      BY Zenon
    <3>1. CASE since'[l] = since[l]
      BY <2>3, <3>1, Zenon DEF EnsureCursor, Outcomes!vars, srcVars
    <3>2. CASE since'[l] # since[l]
      <4>1. since[l] = Unselected /\ since'[l] = head
        BY <1>2, <2>3, <3>2, Zenon DEF EnsureCursor, Safe, TypeOK, MvTypeOK, RepTypeOK
      <4>2. Outcomes(l)!Select
        BY <2>3, <4>1, ZenonT(30)
           DEF EnsureCursor, Outcomes!Select, Outcomes!Unselected, Unselected, srcVars
      <4> QED BY <4>2, Zenon DEF Outcomes!Next
    <3> QED BY <3>1, <3>2, Zenon
  <2>4. ASSUME NEW r \in Replica, Publish(r) PROVE Promise
    <3>1. /\ Attemptable(at[r], ev[r]) /\ out[r] \in Outcome
          /\ at[r] \in Pipeline /\ ev[r] \in Commit
      BY <1>2, <2>4 DEF Publish, Safe, Attempts, Attempt, AtWork, Attemptable, TypeOK, RepTypeOK
    <3> QED BY <1>2, <2>4, <3>1, LandsInOrder DEF Publish, Safe
  <2>5. ASSUME NEW r \in Replica, ReplicaStep(r) \/ Crash(r),
               ~EnsureCursor(r), ~Publish(r)
        PROVE  Promise
    BY <2>5, <2>a, ReplicaTables, Zenon DEF Safe, mvVars, PublishLost, Advance
  <2>6. ASSUME NEW z \in late, NEW lands \in BOOLEAN, LateDecided(z, lands) PROVE Promise
    <3>1. Attemptable(z.l, z.c) /\ z.l \in Pipeline /\ z.c \in Commit /\ z.o \in Outcome
      BY <1>2, Zenon DEF Safe, Undecided, TypeOK, MvTypeOK
    <3>2. CASE lands BY <1>2, <2>6, <3>1, <3>2, LandsInOrder, Zenon DEF LateDecided, Safe
    <3>3. CASE ~lands BY <2>6, <2>a, <3>3, Zenon DEF LateDecided
    <3> QED BY <3>2, <3>3, Zenon
  <2> QED BY <1>2, <2>1, <2>2, <2>3, <2>4, <2>5, <2>6, Zenon DEF Next
<1>3. Safe /\ [Next]_vars => [Promise]_vars BY <1>2, Zenon
<1> HIDE DEF Promise
<1>4. Spec => (\A l \in Pipeline : Outcomes(l)!Init) /\ [][Promise]_vars
  BY <1>1, <1>3, MvDiscipline, PTL DEF Spec
<1> QED BY <1>4, Zenon DEF InOrderOnce, Promise
=============================================================================
