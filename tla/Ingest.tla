------------------------------- MODULE Ingest -------------------------------
(***************************************************************************)
(* The ingest role (ukiel-ingest): processes run one task per route, which  *)
(* reads a Kafka topic from the offsets stored in the catalog, buffers rows *)
(* by day, and flushes rows and offsets in one catalog transaction.  Kafka  *)
(* keeps no position for it: after any death a task starts again from the   *)
(* catalog.                                                                 *)
(*                                                                          *)
(* The transaction is atomic here (Catalog has its statements); what stays  *)
(* of its life is that its answer can be lost, and that it may then land    *)
(* at any later time or never.  Routes feed different hypertables.          *)
(***************************************************************************)
EXTENDS Integers, FiniteSets

CONSTANTS
    Process,
    Route,
    Task,           \* the <<process, route>> pairs that are configured
    Partition,      \* Kafka partitions, of all topics
    RouteOf,        \* RouteOf[p]: the route whose topic p belongs to
    Existing,       \* routes whose topic exists from the start
    Log,            \* the messages: [part, off, kind, ts]
    Loaded,         \* parts that are there already, of other messages
    MaxOffset,
    DayLength,      \* of a day, in clock units
    MaxEventAge,    \* max_event_age_days, in clock units
    MaxEventFuture, \* max_event_future_secs, in clock units
    MaxBufferRows,  \* max_buffer_rows
    SlowdownParts,  \* l0_slowdown_parts
    StopParts,      \* l0_stop_parts
    CompactAt,      \* L0 parts that make the compactor merge a day
    MaxNow, MaxFault  \* bounds: the clock, injected deaths

(* A message is "poison" when it has no payload, is not JSON, or lacks an   *)
(* integer timestamp or packing key; "odd" when it has both and yet cannot  *)
(* be encoded (another column's value does not fit the table's schema).     *)
Message == [part : Partition, off : 0..MaxOffset,
            kind : {"row", "poison", "odd"}, ts : Int]

NoRange == [first |-> 0, last |-> -1]
OffsetRange == [first : 0..MaxOffset, last : 0..MaxOffset] \cup {NoRange}
Ranges == [Partition -> OffsetRange]
Part == [route : Route, day : Int, rows : SUBSET Log, level : {0, 1}, op : Ranges]
Batch == [ranges : Ranges, rows : SUBSET Log]

TasksOf(w) == {t \in Task : t[1] = w}

ASSUME IngestAssumption ==
    /\ Task \subseteq Process \X Route
    /\ \A w \in Process : Cardinality(TasksOf(w)) \in Nat
    /\ RouteOf \in [Partition -> Route] /\ Existing \subseteq Route
    /\ MaxOffset \in Nat
    /\ Log \subseteq Message
    /\ \A m1, m2 \in Log : m1.part = m2.part /\ m1.off = m2.off => m1 = m2
    /\ Loaded \subseteq {a \in Part : a.rows = {}}
    /\ DayLength \in Nat \ {0}
    /\ MaxEventAge \in Nat /\ MaxEventFuture \in Nat
    /\ MaxBufferRows \in Nat /\ SlowdownParts \in Nat /\ StopParts \in Nat
    /\ CompactAt \in Nat \ {0}
    /\ MaxNow \in Nat /\ MaxFault \in Nat

VARIABLES
    now,        \* the wall clock
    topics,     \* routes whose topic exists
    offsets,    \* ingest_offsets: the next offset of each Kafka partition
    parts,      \* the live parts; an L0 part names the operation that added it
    applied,    \* the operations (by their ranges) already committed
    astray,     \* batches whose COMMIT was sent and never answered
    pc,         \* step of each task
    pos,        \* position of each task's consumer
    ranges, rows, deferred,  \* Buffers: ranges, rows_by_day, deferred_flushes > 0
    batch,      \* what the task is publishing
    stopping,   \* processes told to shut down
    remaining,  \* ReadyGate of each process
    faults

catVars == <<offsets, parts, applied>>
bufVars == <<ranges, rows, deferred>>
taskVars == <<pc, pos, bufVars, batch>>
procVars == <<stopping, remaining>>
vars == <<now, topics, catVars, astray, taskVars, procVars, faults>>

NoRanges == [p \in Partition |-> NoRange]
NoBatch == [ranges |-> NoRanges, rows |-> {}]
PartitionsOf(t) == {p \in Partition : RouteOf[p] = t[2]}

Init ==
    /\ now = 0 /\ topics = Existing
    /\ offsets = [p \in Partition |-> 0]
    /\ parts = Loaded /\ applied = {} /\ astray = {}
    /\ pc = [t \in Task |-> "down"]
    /\ pos = [t \in Task |-> [p \in Partition |-> 0]]
    /\ ranges = [t \in Task |-> NoRanges] /\ rows = [t \in Task |-> {}]
    /\ deferred = [t \in Task |-> FALSE]
    /\ batch = [t \in Task |-> NoBatch]
    /\ stopping = {}
    /\ remaining = [w \in Process |-> Cardinality(TasksOf(w))]
    /\ faults = 0
-----------------------------------------------------------------------------
(* A process and its tasks. *)

Goto(t, s) == pc' = [pc EXCEPT ![t] = s]

\* The transaction is on its way; "closing": it is the last one of a shutdown.
Publishing(t) == pc[t] \in {"publishing", "closing"}

\* IngestWorker::run fails at the first task that fails; the JoinSet aborts
\* the others, and everything in memory is gone.
Dies(w) ==
    /\ pc' = [t \in Task |-> IF t[1] = w THEN "down" ELSE pc[t]]
    /\ ranges' = [t \in Task |-> IF t[1] = w THEN NoRanges ELSE ranges[t]]
    /\ rows' = [t \in Task |-> IF t[1] = w THEN {} ELSE rows[t]]
    /\ deferred' = [t \in Task |-> IF t[1] = w THEN FALSE ELSE deferred[t]]
    /\ batch' = [t \in Task |-> IF t[1] = w THEN NoBatch ELSE batch[t]]
    /\ astray' = astray \cup {<<t[2], batch[t]>> : t \in {u \in TasksOf(w) : Publishing(u)}}
    /\ UNCHANGED pos

\* IngestWorker::run: one task per route, all behind one gate.
Launch(w) ==
    /\ \A t \in TasksOf(w) : pc[t] = "down"
    /\ pc' = [t \in Task |-> IF t[1] = w THEN "connecting" ELSE pc[t]]
    /\ remaining' = [remaining EXCEPT ![w] = Cardinality(TasksOf(w))]
    /\ stopping' = stopping \ {w}
    /\ UNCHANGED <<now, topics, catVars, astray, pos, bufVars, batch, faults>>

\* connect: the stored offsets, or 0 where there is none (ingest_offsets and
\* desired_assignment).  They are read before the topic is waited for.
LoadOffsets(t) ==
    /\ pc[t] = "connecting"
    /\ pos' = [pos EXCEPT ![t] = offsets]
    /\ Goto(t, "assigning")
    /\ UNCHANGED <<now, topics, catVars, astray, bufVars, batch, procVars, faults>>

\* connect: the topic has partitions; the consumer is positioned and the task
\* passes the gate, whose last arrival signals readiness.
Assign(t) ==
    /\ pc[t] = "assigning" /\ t[2] \in topics
    /\ remaining' = [remaining EXCEPT ![t[1]] = remaining[t[1]] - 1]
    /\ Goto(t, "running")
    /\ UNCHANGED <<now, topics, catVars, astray, pos, bufVars, batch, stopping, faults>>

\* connect: no partitions after 30 seconds.
NoTopic(t) ==
    /\ pc[t] = "assigning" /\ t[2] \notin topics
    /\ faults < MaxFault
    /\ faults' = faults + 1
    /\ Dies(t[1])
    /\ UNCHANGED <<now, topics, catVars, procVars>>
-----------------------------------------------------------------------------
(* The select loop of RouteIngest::run. *)

EventTimeInBounds(ts) == ts >= now - MaxEventAge /\ ts <= now + MaxEventFuture

Accepted(m) == m.kind # "poison" /\ EventTimeInBounds(m.ts)

DayOf(m) == m.ts \div DayLength

\* The next message of partition p for a consumer at offset o.
IsNext(m, p, o) ==
    /\ m.part = p /\ m.off >= o
    /\ \A m2 \in Log : m2.part = p /\ m2.off >= o => m.off <= m2.off

\* Faulty variant: a message that is skipped leaves no trace in the ranges.
ExtendIfAccepted(r, m) ==
    IF ~ Accepted(m) THEN r
    ELSE [first |-> IF r = NoRange THEN m.off ELSE r.first, last |-> m.off]

\* buffer_message: the offset is tracked for rows that are skipped, too.
Extend(r, m) ==
    [first |-> IF r = NoRange THEN m.off ELSE r.first, last |-> m.off]

\* buffer_message, then a flush when the buffer is full.
Recv(t, p) ==
    /\ pc[t] = "running" /\ p \in PartitionsOf(t)
    /\ \E m \in Log :
        /\ IsNext(m, p, pos[t][p])
        /\ pos' = [pos EXCEPT ![t] = [pos[t] EXCEPT ![p] = m.off + 1]]
        /\ ranges' = [ranges EXCEPT ![t] = [ranges[t] EXCEPT ![p] = Extend(ranges[t][p], m)]]
        /\ rows' = [rows EXCEPT ![t] = IF Accepted(m) THEN rows[t] \cup {m} ELSE rows[t]]
    /\ Goto(t, IF Cardinality(rows'[t]) < MaxBufferRows THEN "running" ELSE "flushing")
    /\ UNCHANGED <<now, topics, catVars, astray, deferred, batch, procVars, faults>>

\* The flush ticker; flush returns at once when nothing was consumed.
Tick(t) ==
    /\ pc[t] = "running" /\ ranges[t] # NoRanges
    /\ Goto(t, "flushing")
    /\ UNCHANGED <<now, topics, catVars, astray, pos, bufVars, batch, procVars, faults>>

\* Faulty variant: what is buffered at shutdown is left to a replay.
SeeShutdownDropping(t) ==
    /\ pc[t] = "running" /\ t[1] \in stopping
    /\ Goto(t, "stopped")
    /\ UNCHANGED <<now, topics, catVars, astray, pos, bufVars, batch, procVars, faults>>

\* Shutdown: a last flush that nothing defers.
SeeShutdown(t) ==
    /\ pc[t] = "running" /\ t[1] \in stopping
    /\ Goto(t, IF ranges[t] = NoRanges THEN "stopped" ELSE "draining")
    /\ UNCHANGED <<now, topics, catVars, astray, pos, bufVars, batch, procVars, faults>>
-----------------------------------------------------------------------------
(* flush. *)

LiveL0(r, d) == {a \in parts : a.level = 0 /\ a.route = r /\ a.day = d}

Days(ms) == {DayOf(m) : m \in ms}

\* max_live_l0_parts over the buffered days reaches n.
LiveL0Reaches(t, n) ==
    n = 0 \/ \E d \in Days(rows[t]) : Cardinality(LiveL0(t[2], d)) >= n

\* Faulty variant: no memory valve.
DefersWithoutValve(t) ==
    /\ rows[t] # {}
    /\ \/ LiveL0Reaches(t, StopParts)
       \/ LiveL0Reaches(t, SlowdownParts) /\ ~ deferred[t]

\* flush_decision, and the flush without rows that is never deferred.
Defers(t) ==
    /\ rows[t] # {}
    /\ Cardinality(rows[t]) < 2 * MaxBufferRows
    /\ \/ LiveL0Reaches(t, StopParts)
       \/ LiveL0Reaches(t, SlowdownParts) /\ ~ deferred[t]

Flushes(t) == pc[t] = "draining" \/ (pc[t] = "flushing" /\ ~ Defers(t))

Defer(t) ==
    /\ pc[t] = "flushing" /\ Defers(t)
    /\ deferred' = [deferred EXCEPT ![t] = TRUE]
    /\ Goto(t, "running")
    /\ UNCHANGED <<now, topics, catVars, astray, pos, ranges, rows, batch, procVars, faults>>

\* The buffers are drained into one batch.
Drain(t) ==
    /\ Flushes(t)
    /\ \A m \in rows[t] : m.kind = "row"
    /\ batch' = [batch EXCEPT ![t] = [ranges |-> ranges[t], rows |-> rows[t]]]
    /\ ranges' = [ranges EXCEPT ![t] = NoRanges]
    /\ rows' = [rows EXCEPT ![t] = {}]
    /\ deferred' = [deferred EXCEPT ![t] = FALSE]
    /\ Goto(t, IF pc[t] = "draining" THEN "closing" ELSE "publishing")
    /\ UNCHANGED <<now, topics, catVars, astray, pos, procVars, faults>>

\* encode_rows rejects a row, and the batch with it.
EncodeFails(t) ==
    /\ Flushes(t)
    /\ \E m \in rows[t] : m.kind # "row"
    /\ Dies(t[1])
    /\ UNCHANGED <<now, topics, catVars, procVars, faults>>

\* Faulty variant: offsets are written, not compared and swapped.
FreshUnchecked(b) == b.ranges \notin applied

\* commit_with_offsets: no commit has this identity, and no stored offset is
\* past the start of its range.
Fresh(b) ==
    /\ b.ranges \notin applied
    /\ \A p \in Partition : b.ranges[p] # NoRange => offsets[p] <= b.ranges[p].first

\* One L0 part for each day of the batch; a batch may have none.
Apply(r, b) ==
    /\ applied' = applied \cup {b.ranges}
    /\ parts' = parts \cup
         {[route |-> r, day |-> d, rows |-> {m \in b.rows : DayOf(m) = d}, level |-> 0,
           op |-> b.ranges] : d \in Days(b.rows)}
    /\ offsets' = [p \in Partition |-> IF b.ranges[p] = NoRange THEN offsets[p]
                                       ELSE b.ranges[p].last + 1]

\* The commit, or AlreadyApplied; then the loop, or the end of a shutdown.
Publish(t) ==
    /\ Publishing(t)
    /\ \/ Fresh(batch[t]) /\ Apply(t[2], batch[t])
       \/ batch[t].ranges \in applied /\ UNCHANGED catVars
    /\ batch' = [batch EXCEPT ![t] = NoBatch]
    /\ Goto(t, IF pc[t] = "closing" THEN "stopped" ELSE "running")
    /\ UNCHANGED <<now, topics, astray, pos, bufVars, procVars, faults>>

\* OffsetRace: another writer consumed part of the range.
Race(t) ==
    /\ Publishing(t)
    /\ ~ Fresh(batch[t]) /\ batch[t].ranges \notin applied
    /\ Dies(t[1])
    /\ UNCHANGED <<now, topics, catVars, procVars, faults>>

\* A transaction without a client commits after all, or is given up.
StrayCommits(x) ==
    /\ x \in astray /\ Fresh(x[2])
    /\ Apply(x[1], x[2])
    /\ astray' = astray \ {x}
    /\ UNCHANGED <<now, topics, taskVars, procVars, faults>>

StrayEnds(x) ==
    /\ x \in astray
    /\ astray' = astray \ {x}
    /\ UNCHANGED <<now, topics, catVars, taskVars, procVars, faults>>
-----------------------------------------------------------------------------
(* Around the role. *)

\* A crash, or an error of Kafka, the catalog or the object store.
Fails(w) ==
    /\ faults < MaxFault
    /\ \E t \in TasksOf(w) : pc[t] \notin {"down", "stopped"}
    /\ faults' = faults + 1
    /\ Dies(w)
    /\ UNCHANGED <<now, topics, catVars, procVars>>

Shutdown(w) ==
    /\ faults < MaxFault
    /\ w \notin stopping
    /\ stopping' = stopping \cup {w}
    /\ faults' = faults + 1
    /\ UNCHANGED <<now, topics, catVars, astray, taskVars, remaining>>

\* Every task returned; whoever runs the process starts it again.
Exit(w) ==
    /\ TasksOf(w) # {} /\ \A t \in TasksOf(w) : pc[t] = "stopped"
    /\ Dies(w)
    /\ UNCHANGED <<now, topics, catVars, procVars, faults>>

CreateTopic(r) ==
    /\ r \notin topics
    /\ topics' = topics \cup {r}
    /\ UNCHANGED <<now, catVars, astray, taskVars, procVars, faults>>

\* The compactor merges a day.
Compact(r, d) ==
    LET old == {a \in parts : a.route = r /\ a.day = d} IN
    /\ Cardinality(LiveL0(r, d)) >= CompactAt
    /\ parts' = (parts \ old) \cup
         {[route |-> r, day |-> d, rows |-> UNION {a.rows : a \in old}, level |-> 1,
           op |-> NoRanges]}
    /\ UNCHANGED <<now, topics, offsets, applied, astray, taskVars, procVars, faults>>

Clock ==
    /\ now < MaxNow
    /\ now' = now + 1
    /\ UNCHANGED <<topics, catVars, astray, taskVars, procVars, faults>>

TaskStep(t) ==
    \/ LoadOffsets(t) \/ Assign(t) \/ NoTopic(t)
    \/ \E p \in Partition : Recv(t, p)
    \/ Tick(t) \/ SeeShutdown(t)
    \/ Defer(t) \/ Drain(t) \/ EncodeFails(t)
    \/ Publish(t) \/ Race(t)

Next ==
    \/ \E w \in Process : Launch(w) \/ Fails(w) \/ Shutdown(w) \/ Exit(w)
    \/ \E t \in Task : TaskStep(t)
    \/ \E x \in astray : StrayCommits(x) \/ StrayEnds(x)
    \/ \E r \in Route : CreateTopic(r)
    \/ \E r \in Route, d \in Days(Log) : Compact(r, d)
    \/ Clock

Spec == Init /\ [][Next]_vars

(* Tasks are scheduled, a process that ended is started again, the topics   *)
(* come to exist, the compactor merges what it has to and time passes.      *)
FairSpec ==
    /\ Spec
    /\ \A w \in Process : WF_vars(Launch(w) \/ Exit(w))
    /\ \A t \in Task : WF_vars(TaskStep(t))
    /\ WF_vars(\E r \in Route : CreateTopic(r))
    /\ \A r \in Route : WF_vars(\E d \in Days(Log) : Compact(r, d))
    /\ WF_vars(Clock)
-----------------------------------------------------------------------------
(* Properties. *)

TypeOK ==
    /\ now \in 0..MaxNow /\ topics \subseteq Route
    /\ offsets \in [Partition -> 0..(MaxOffset + 1)]
    /\ parts \subseteq Part
    /\ applied \subseteq Ranges /\ astray \subseteq Route \X Batch
    /\ pc \in [Task -> {"down", "connecting", "assigning", "running", "flushing",
                        "draining", "publishing", "closing", "stopped"}]
    /\ pos \in [Task -> [Partition -> 0..(MaxOffset + 1)]]
    /\ ranges \in [Task -> Ranges]
    /\ rows \in [Task -> SUBSET Log]
    /\ deferred \in [Task -> BOOLEAN]
    /\ batch \in [Task -> Batch]
    /\ stopping \subseteq Process
    /\ remaining \in [Process -> Int]
    /\ faults \in 0..MaxFault

\* Whenever it is consumed, such a message is a row to keep.
AlwaysKept(m) == m.kind = "row" /\ m.ts >= MaxNow - MaxEventAge /\ m.ts <= MaxEventFuture

NothingTwice ==
    \A a \in parts :
        /\ \A m \in a.rows : m.kind = "row" /\ m.off < offsets[m.part] /\ DayOf(m) = a.day
        /\ \A b \in parts \ {a} : a.rows \cap b.rows = {}

NothingLost ==
    \A m \in Log : AlwaysKept(m) /\ m.off < offsets[m.part] =>
        \E a \in parts : m \in a.rows

(* Through deaths, lost answers, replays with other boundaries and a second *)
(* writer on the same topic, each message lies in at most one part, only    *)
(* below the stored offset, and no row that had to be kept is missing there *)
(* (buffer_message, flush, commit_with_offsets).                            *)
ExactlyOnce == TypeOK /\ NothingTwice /\ NothingLost

(* However long backpressure lasts, a task that goes on to receive holds    *)
(* less than max_buffer_rows, or, once its flush was deferred, less than    *)
(* twice as many (flush_decision's memory valve).                           *)
BufferBounded ==
    \A t \in Task : pc[t] = "running" /\ MaxBufferRows > 0 =>
        \/ Cardinality(rows[t]) < MaxBufferRows
        \/ deferred[t] /\ Cardinality(rows[t]) < 2 * MaxBufferRows

(* A task that ended by shutdown left nothing behind that it had consumed   *)
(* (RouteIngest::run: "a clean stop must not strand buffered rows").        *)
CleanStopStrandsNothing ==
    \A t \in Task : pc[t] = "stopped" =>
        \A p \in PartitionsOf(t) : \A m \in Log :
            m.part = p /\ m.off < pos[t][p] => m.off < offsets[p]

(* Every message is passed in the end: neither poison nor backpressure nor  *)
(* a restart holds a partition up for ever.  A row that passes the checks   *)
(* of buffer_message and cannot be encoded fails every flush, and its       *)
(* process with it, until it is older than max_event_age_days.              *)
StreamNeverStalls ==
    \A m \in Log : <>(m.off < offsets[m.part])
=============================================================================
