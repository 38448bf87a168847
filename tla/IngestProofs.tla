---------------------------- MODULE IngestProofs ----------------------------
(***************************************************************************)
(* Exactly-once ingest, for any number of processes, routes, partitions and *)
(* messages, any message boundaries and any deaths.                         *)
(***************************************************************************)
EXTENDS Ingest, TLAPS

\* Message m lies in the ranges rg.
Within(rg, m) == rg[m.part].first <= m.off /\ m.off <= rg[m.part].last

\* A catalog that has taken m, or had taken it when a later offset was stored.
Taken(m) == m.off < offsets[m.part]

\* The rows of a set are exactly those its ranges had to keep, and more.
Keeps(rg, ms) ==
    /\ \A m \in ms : Within(rg, m)
    /\ \A m \in Log : AlwaysKept(m) /\ Within(rg, m) => m \in ms

\* A range starts where everything before it is in the catalog.
NoGap(rg) ==
    \A p \in Partition : rg[p] # NoRange =>
        /\ rg[p].first <= rg[p].last
        /\ \A m \in Log : m.part = p /\ m.off < rg[p].first => Taken(m)

BatchOK(b) == Keeps(b.ranges, b.rows) /\ NoGap(b.ranges) /\ \A m \in b.rows : m.kind = "row"

\* Between flushes a task holds nothing.
Idle == {"down", "connecting", "assigning", "publishing", "closing", "stopped"}

\* A buffer within its bound, as BufferBounded has it.
Held(t) == \/ Cardinality(rows[t]) < MaxBufferRows
           \/ deferred[t] /\ Cardinality(rows[t]) < 2 * MaxBufferRows

TaskOK(t) ==
    /\ pc[t] \in Idle => ranges[t] = NoRanges /\ rows[t] = {}
    /\ Keeps(ranges[t], rows[t])
    /\ \A p \in Partition : ranges[t][p] # NoRange =>
          /\ ranges[t][p].first <= ranges[t][p].last
          /\ pos[t][p] = ranges[t][p].last + 1
    /\ Publishing(t) => BatchOK(batch[t])
    /\ pc[t] = "running" /\ MaxBufferRows > 0 => Held(t)
    /\ pc[t] \notin {"down", "connecting"} =>
          \A m \in Log : m.off < pos[t][m.part] =>
              \/ Taken(m)
              \/ Within(ranges[t], m)
              \/ Publishing(t) /\ Within(batch[t].ranges, m)

TableOK ==
    /\ \A rg \in applied, p \in Partition : rg[p] # NoRange => rg[p].last < offsets[p]
    /\ \A x \in astray : BatchOK(x[2])
    /\ NothingTwice /\ NothingLost

IngestInv == TypeOK /\ (\A t \in Task : TaskOK(t)) /\ TableOK

-----------------------------------------------------------------------------
(* Facts about messages, ranges and days. *)

\* Nothing is buffered: the count is below every bound.
LEMMA EmptyCount == Cardinality({}) = 0 /\ (MaxBufferRows > 0 => Cardinality({}) < MaxBufferRows)
<1> DEFINE F(g) == [T \in SUBSET {} |-> IF T = {} THEN 0 ELSE 1 + g[T \ {CHOOSE x : x \in T}]]
           count == CHOOSE g : g = F(g)
<1>1. \E g : g = F(g)
  <2>1. [T \in SUBSET {} |-> 0] = F([T \in SUBSET {} |-> 0])
    BY Zenon
  <2> QED
    BY <2>1, Zenon
<1>2. count = F(count)
  BY <1>1, Zenon
<1>3. count[{}] = 0
  <2>1. {} \in SUBSET {}
    BY Zenon
  <2> QED
    BY <1>2, <2>1, Zenon
<1>4. Cardinality({}) = count[{}]
  BY Zenon DEF Cardinality
<1> QED
  BY <1>3, <1>4, IngestAssumption, Zenon

\* The numeric bounds alone, which most leaves need.
LEMMA Bounds ==
    /\ MaxOffset \in Nat /\ MaxBufferRows \in Nat /\ MaxNow \in Nat /\ MaxFault \in Nat
  BY IngestAssumption, Zenon

\* A message lies in a partition, at an offset, on a day.
LEMMA MessageFacts ==
    ASSUME NEW m \in Log
    PROVE  /\ m.part \in Partition /\ m.off \in 0..MaxOffset /\ m.off \in Nat
           /\ m.ts \in Int /\ DayOf(m) \in Int
<1>1. m \in Message /\ MaxOffset \in Nat /\ DayLength \in Nat \ {0}
  BY IngestAssumption, Zenon
<1>2. m.part \in Partition /\ m.off \in 0..MaxOffset /\ m.ts \in Int
  BY <1>1, Zenon DEF Message
<1>3. m.off \in Nat
  BY <1>1, <1>2
<1>4. DayOf(m) \in Int
  BY <1>1, <1>2 DEF DayOf
<1> QED
  BY <1>2, <1>3, <1>4, Zenon

\* The empty range ends before it starts.
LEMMA RangeFacts == NoRange.first = 0 /\ NoRange.last = -1 /\ NoRange \in OffsetRange
  BY Zenon DEF OffsetRange, NoRange

\* A range that is not empty lies in the log's offsets.
LEMMA RangesTyped ==
    ASSUME NEW rg \in Ranges, NEW p \in Partition
    PROVE  /\ rg[p].first \in Int /\ rg[p].last \in Int
           /\ rg[p] # NoRange => rg[p].first \in 0..MaxOffset /\ rg[p].last \in 0..MaxOffset
<1>1. rg[p] \in OffsetRange
  BY Zenon DEF Ranges
<1>2. ASSUME NEW x \in OffsetRange
      PROVE  /\ x.first \in Int /\ x.last \in Int
             /\ x # NoRange => x.first \in 0..MaxOffset /\ x.last \in 0..MaxOffset
  BY Bounds DEF OffsetRange, NoRange
<1> QED
  BY <1>1, <1>2, Zenon

\* An empty range holds no message.
LEMMA WithinSome ==
    ASSUME NEW rg \in Ranges, NEW m \in Log, Within(rg, m)
    PROVE  /\ rg[m.part] # NoRange
           /\ rg[m.part].first \in 0..MaxOffset /\ rg[m.part].last \in 0..MaxOffset
<1>1. m.part \in Partition /\ m.off \in Nat
  BY MessageFacts, Zenon
<1>2. rg[m.part] # NoRange
  BY <1>1, RangeFacts DEF Within
<1> QED
  BY <1>1, <1>2, RangesTyped, Zenon

\* An empty buffer covers no message.
LEMMA NothingWithin == ASSUME NEW m \in Log PROVE ~Within(NoRanges, m)
  BY MessageFacts DEF Within, NoRanges, NoRange

\* The drained buffer and the absent batch are well typed.
LEMMA EmptyTyped == NoRanges \in Ranges /\ NoBatch \in Batch
  BY RangeFacts, Zenon DEF NoRanges, Ranges, NoBatch, Batch

\* The drained buffer keeps what it has to: nothing.
LEMMA EmptyKeeps == Keeps(NoRanges, {}) /\ NoGap(NoRanges)
<1>1. \A m \in Log : ~Within(NoRanges, m)
  BY NothingWithin, Zenon
<1>2. \A p \in Partition : NoRanges[p] = NoRange
  BY Zenon DEF NoRanges
<1> QED
  BY <1>1, <1>2, Zenon DEF Keeps, NoGap

\* A row that is always kept is accepted whenever it is consumed.
LEMMA KeptAccepted ==
    ASSUME TypeOK, NEW m \in Log, AlwaysKept(m)
    PROVE  Accepted(m)
<1>1. /\ m.ts \in Int /\ now \in 0..MaxNow /\ MaxNow \in Nat
      /\ MaxEventAge \in Nat /\ MaxEventFuture \in Nat
  BY MessageFacts, IngestAssumption, Zenon DEF TypeOK
<1> QED
  BY <1>1 DEF AlwaysKept, Accepted, EventTimeInBounds

-----------------------------------------------------------------------------
(* The commit of a batch. *)

\* A batch is ranges and rows of the log.
LEMMA BatchTyped ==
    ASSUME NEW b \in Batch
    PROVE  b.ranges \in Ranges /\ b.rows \subseteq Log
  BY Zenon DEF Batch

\* A commit writes well-typed offsets, parts and identities.
LEMMA ApplyTyped ==
    ASSUME TypeOK, NEW r \in Route, NEW b \in Batch, Apply(r, b)
    PROVE  /\ offsets' \in [Partition -> 0..(MaxOffset + 1)]
           /\ parts' \subseteq Part /\ applied' \subseteq Ranges
<1>1. b.ranges \in Ranges /\ b.rows \subseteq Log
  BY BatchTyped, Zenon
<1>2. applied' \subseteq Ranges
  BY <1>1, Zenon DEF Apply, TypeOK
<1>3. ASSUME NEW p \in Partition, b.ranges[p] # NoRange
      PROVE  b.ranges[p].last + 1 \in 0..(MaxOffset + 1)
  <2>1. b.ranges[p].last \in 0..MaxOffset /\ MaxOffset \in Nat
    BY <1>1, <1>3, RangesTyped, Bounds, Zenon
  <2> QED
    BY <2>1
<1>4. offsets' \in [Partition -> 0..(MaxOffset + 1)]
  BY <1>3, Zenon DEF Apply, TypeOK
<1>5. ASSUME NEW d \in Days(b.rows)
      PROVE  [route |-> r, day |-> d, rows |-> {m \in b.rows : DayOf(m) = d}, level |-> 0,
              op |-> b.ranges] \in Part
  <2>1. d \in Int
    BY <1>1, MessageFacts, Zenon DEF Days
  <2> QED
    BY <1>1, <2>1, Zenon DEF Part
<1>6. parts' \subseteq Part
  BY <1>5, Zenon DEF Apply, TypeOK
<1> QED
  BY <1>2, <1>4, <1>6, Zenon

\* No stored offset moves back.
LEMMA ApplyAdvances ==
    ASSUME TypeOK, NEW r \in Route, NEW b \in Batch, BatchOK(b), Fresh(b), Apply(r, b)
    PROVE  /\ \A p \in Partition : offsets[p] <= offsets'[p]
           /\ \A p \in Partition : b.ranges[p] # NoRange => b.ranges[p].last < offsets'[p]
<1>1. b.ranges \in Ranges
  BY BatchTyped, Zenon
<1> SUFFICES ASSUME NEW p \in Partition
             PROVE  /\ offsets[p] <= offsets'[p]
                    /\ b.ranges[p] # NoRange => b.ranges[p].last < offsets'[p]
  BY Zenon
<1>2. offsets[p] \in Int
  BY Bounds DEF TypeOK
<1>3. CASE b.ranges[p] = NoRange
  <2>1. offsets'[p] = offsets[p]
    BY <1>3, Zenon DEF Apply
  <2> QED
    BY <1>2, <1>3, <2>1
<1>4. CASE b.ranges[p] # NoRange
  <2>1. /\ b.ranges[p].first \in Int /\ b.ranges[p].last \in Int
    BY <1>1, RangesTyped, Zenon
  <2>2. b.ranges[p].first <= b.ranges[p].last /\ offsets[p] <= b.ranges[p].first
    BY <1>4, Zenon DEF BatchOK, NoGap, Fresh
  <2>3. offsets'[p] = b.ranges[p].last + 1
    BY <1>4, Zenon DEF Apply
  <2> QED
    BY <1>2, <2>1, <2>2, <2>3
<1> QED
  BY <1>3, <1>4, Zenon

\* What is in the catalog stays there.
LEMMA TakenStays ==
    ASSUME TypeOK, offsets' \in [Partition -> 0..(MaxOffset + 1)],
           \A p \in Partition : offsets[p] <= offsets'[p]
    PROVE  \A m \in Log : Taken(m) => Taken(m)'
<1> SUFFICES ASSUME NEW m \in Log, Taken(m) PROVE Taken(m)'
  BY Zenon
<1>1. /\ m.part \in Partition /\ m.off \in Int
      /\ offsets[m.part] \in Int /\ offsets'[m.part] \in Int
  BY MessageFacts, Bounds DEF TypeOK
<1> QED
  BY <1>1 DEF Taken

\* A batch in order stays in order while the catalog advances.
LEMMA BatchStays ==
    ASSUME TypeOK, \A m \in Log : Taken(m) => Taken(m)', NEW b, BatchOK(b)
    PROVE  BatchOK(b)'
  BY Zenon DEF BatchOK, Keeps, NoGap, Within, AlwaysKept

\* A row of the batch is new, and what the batch passes is kept.
LEMMA ApplyOnce ==
    ASSUME TypeOK, TableOK, NEW r \in Route, NEW b \in Batch, BatchOK(b), Fresh(b), Apply(r, b)
    PROVE  NothingTwice' /\ NothingLost'
<1>a. b.ranges \in Ranges /\ b.rows \subseteq Log
  BY BatchTyped, Zenon
<1>b. /\ \A p \in Partition : offsets[p] <= offsets'[p]
      /\ \A p \in Partition : b.ranges[p] # NoRange => b.ranges[p].last < offsets'[p]
      /\ offsets' \in [Partition -> 0..(MaxOffset + 1)]
  BY ApplyAdvances, ApplyTyped, Zenon
<1>c. \A m \in Log : Taken(m) => Taken(m)'
  BY <1>b, TakenStays, Zenon
<1>d. ASSUME NEW m \in b.rows PROVE m.kind = "row" /\ ~Taken(m) /\ Taken(m)'
  <2>1. m \in Log /\ Within(b.ranges, m) /\ m.kind = "row"
    BY <1>a, Zenon DEF BatchOK, Keeps
  <2>2. /\ b.ranges[m.part] # NoRange /\ m.part \in Partition /\ m.off \in Int
        /\ b.ranges[m.part].first \in Int /\ b.ranges[m.part].last \in Int
        /\ offsets[m.part] \in Int /\ offsets'[m.part] \in Int
    BY <1>a, <1>b, <2>1, WithinSome, MessageFacts, Bounds DEF TypeOK
  <2>3. offsets[m.part] <= b.ranges[m.part].first /\ b.ranges[m.part].last < offsets'[m.part]
    BY <1>b, <2>2, Zenon DEF Fresh
  <2> QED
    BY <2>1, <2>2, <2>3 DEF Taken, Within
<1> DEFINE PartOf(d) == [route |-> r, day |-> d, rows |-> {m \in b.rows : DayOf(m) = d},
                         level |-> 0, op |-> b.ranges]
<1>e. parts' = parts \cup {PartOf(d) : d \in Days(b.rows)}
  BY Zenon DEF Apply
<1>f. \A d : PartOf(d).rows = {m \in b.rows : DayOf(m) = d} /\ PartOf(d).day = d
  BY Zenon
<1> HIDE DEF PartOf
<1>g. \A a \in parts : a.rows \subseteq Log
  BY Zenon DEF TypeOK, Part
<1>h. ASSUME NEW a \in parts
      PROVE  /\ \A m \in a.rows : m.kind = "row" /\ Taken(m) /\ DayOf(m) = a.day
             /\ \A c \in parts \ {a} : a.rows \cap c.rows = {}
  BY Zenon DEF TableOK, NothingTwice, Taken
<1>1. NothingTwice'
  <2> SUFFICES ASSUME NEW a \in parts'
               PROVE  /\ \A m \in a.rows : m.kind = "row" /\ Taken(m)' /\ DayOf(m) = a.day
                      /\ \A c \in parts' \ {a} : a.rows \cap c.rows = {}
    BY Zenon DEF NothingTwice, Taken, DayOf
  <2>1. CASE a \in parts
    <3>1. \A m \in a.rows : m.kind = "row" /\ Taken(m)' /\ DayOf(m) = a.day
      BY <1>c, <1>g, <1>h, <2>1, Zenon
    <3>2. ASSUME NEW d \in Days(b.rows) PROVE a.rows \cap PartOf(d).rows = {}
      BY <1>d, <1>f, <1>h, <2>1, Zenon
    <3> QED
      BY <1>e, <1>h, <2>1, <3>1, <3>2, Zenon
  <2>2. ASSUME NEW d \in Days(b.rows), a = PartOf(d)
        PROVE  /\ \A m \in a.rows : m.kind = "row" /\ Taken(m)' /\ DayOf(m) = a.day
               /\ \A c \in parts' \ {a} : a.rows \cap c.rows = {}
    <3>1. \A m \in a.rows : m.kind = "row" /\ Taken(m)' /\ DayOf(m) = a.day
      BY <1>d, <1>f, <2>2
    <3>2. ASSUME NEW c \in parts PROVE a.rows \cap c.rows = {}
      BY <1>d, <1>f, <1>h, <2>2, Zenon
    <3>3. ASSUME NEW e \in Days(b.rows), PartOf(e) # a PROVE a.rows \cap PartOf(e).rows = {}
      <4>1. d # e
        BY <2>2, <3>3, Zenon
      <4> QED
        BY <1>f, <2>2, <4>1
    <3> QED
      BY <1>e, <3>1, <3>2, <3>3, Zenon
  <2> QED
    BY <1>e, <2>1, <2>2, Zenon
<1>2. NothingLost'
  <2> SUFFICES ASSUME NEW m \in Log, AlwaysKept(m), Taken(m)'
               PROVE  \E a \in parts' : m \in a.rows
    BY Zenon DEF NothingLost, Taken, AlwaysKept
  <2>1. CASE Taken(m)
    BY <1>e, <2>1, Zenon DEF TableOK, NothingLost, Taken
  <2>2. CASE ~Taken(m)
    <3>1. /\ m.part \in Partition /\ m.off \in Int
          /\ offsets[m.part] \in Int /\ offsets'[m.part] \in Int
      BY <1>b, MessageFacts, Bounds DEF TypeOK
    <3>2. b.ranges[m.part] # NoRange
      BY <2>2, <3>1, Zenon DEF Apply, Taken
    <3>3. offsets'[m.part] = b.ranges[m.part].last + 1 /\ b.ranges[m.part].last \in Int
          /\ b.ranges[m.part].first \in Int
      BY <1>a, <3>1, <3>2, RangesTyped, Zenon DEF Apply
    <3>4. ~(m.off < b.ranges[m.part].first)
      BY <2>2, <3>1, <3>2, Zenon DEF BatchOK, NoGap
    <3>5. Within(b.ranges, m)
      BY <3>1, <3>3, <3>4 DEF Taken, Within
    <3>6. m \in b.rows
      BY <3>5, Zenon DEF BatchOK, Keeps
    <3>7. DayOf(m) \in Days(b.rows) /\ m \in PartOf(DayOf(m)).rows
      BY <1>f, <3>6, Zenon DEF Days
    <3> QED
      BY <1>e, <3>7, Zenon
  <2> QED
    BY <2>1, <2>2, Zenon
<1> QED
  BY <1>1, <1>2, Zenon

-----------------------------------------------------------------------------
(* Types, and what a step leaves alone. *)

Labels == {"down", "connecting", "assigning", "running", "flushing", "draining",
           "publishing", "closing", "stopped"}

WorldTyped ==
    /\ now \in 0..MaxNow /\ topics \subseteq Route
    /\ stopping \subseteq Process /\ remaining \in [Process -> Int] /\ faults \in 0..MaxFault

CatTyped ==
    /\ offsets \in [Partition -> 0..(MaxOffset + 1)]
    /\ parts \subseteq Part
    /\ applied \subseteq Ranges /\ astray \subseteq Route \X Batch

TasksTyped ==
    /\ pc \in [Task -> Labels]
    /\ pos \in [Task -> [Partition -> 0..(MaxOffset + 1)]]
    /\ ranges \in [Task -> Ranges]
    /\ rows \in [Task -> SUBSET Log]
    /\ deferred \in [Task -> BOOLEAN]
    /\ batch \in [Task -> Batch]

\* The type invariant by actor, in the parts the steps change.
LEMMA Typed == TypeOK <=> WorldTyped /\ CatTyped /\ TasksTyped
  BY Zenon DEF TypeOK, WorldTyped, CatTyped, TasksTyped, Labels

\* A task that does nothing keeps its promise while the catalog advances.
LEMMA TaskStays ==
    ASSUME TypeOK, NEW t \in Task, TaskOK(t),
           pc'[t] = pc[t], pos'[t] = pos[t], ranges'[t] = ranges[t], rows'[t] = rows[t],
           deferred'[t] = deferred[t], batch'[t] = batch[t],
           \A m \in Log : Taken(m) => Taken(m)'
    PROVE  TaskOK(t)'
<1>1. Publishing(t)' = Publishing(t)
  BY Zenon DEF Publishing
<1>2. Publishing(t) => BatchOK(batch[t])'
  <2>1. ASSUME NEW b, BatchOK(b), batch'[t] = b PROVE BatchOK(batch[t])'
    <3>1. BatchOK(b)'
      BY <2>1, BatchStays, Zenon
    <3> QED
      BY <2>1, <3>1, Zenon DEF BatchOK, Keeps, NoGap
  <2> QED
    BY <2>1, Zenon DEF TaskOK
<1>3. Keeps(ranges[t], rows[t])'
  <2>1. Keeps(ranges[t], rows[t])
    BY Zenon DEF TaskOK
  <2> QED
    BY <2>1, Zenon DEF Keeps, Within, AlwaysKept
<1>4. ASSUME NEW m \in Log, pc[t] \notin {"down", "connecting"}, m.off < pos[t][m.part]
      PROVE  \/ Taken(m)'
             \/ Within(ranges[t], m)'
             \/ Publishing(t) /\ Within(batch[t].ranges, m)'
  <2>1. Taken(m) \/ Within(ranges[t], m) \/ (Publishing(t) /\ Within(batch[t].ranges, m))
    BY <1>4, Zenon DEF TaskOK
  <2> QED
    BY <2>1, Zenon DEF Within
<1>5. /\ pc[t] \in Idle => ranges[t] = NoRanges /\ rows[t] = {}
      /\ \A p \in Partition : ranges[t][p] # NoRange =>
            ranges[t][p].first <= ranges[t][p].last /\ pos[t][p] = ranges[t][p].last + 1
      /\ pc[t] = "running" /\ MaxBufferRows > 0 => Held(t)'
  BY Zenon DEF TaskOK, Held
<1> QED
  BY <1>1, <1>2, <1>3, <1>4, <1>5, ZenonT(30) DEF TaskOK

\* A step that leaves the tables alone and sends no new batch astray.
LEMMA TableStays ==
    ASSUME TypeOK, TableOK, UNCHANGED <<offsets, parts, applied>>,
           \A x \in astray' : x \in astray \/ BatchOK(x[2])
    PROVE  TableOK' /\ \A m \in Log : Taken(m) => Taken(m)'
<1>1. \A m \in Log : Taken(m) => Taken(m)'
  BY Zenon DEF Taken
<1>2. \A x \in astray' : BatchOK(x[2])'
  BY <1>1, BatchStays, Zenon DEF TableOK
<1>3. NothingTwice' /\ NothingLost'
  BY Zenon DEF TableOK, NothingTwice, NothingLost, DayOf, AlwaysKept
<1> QED
  BY <1>1, <1>2, <1>3, Zenon DEF TableOK

\* One task moves.
LEMMA OneTask ==
    ASSUME IngestInv, NEW t \in Task, WorldTyped', CatTyped', TasksTyped', TableOK',
           \A m \in Log : Taken(m) => Taken(m)',
           \A u \in Task \ {t} : /\ pc'[u] = pc[u] /\ pos'[u] = pos[u]
                                 /\ ranges'[u] = ranges[u] /\ rows'[u] = rows[u]
                                 /\ deferred'[u] = deferred[u] /\ batch'[u] = batch[u],
           TaskOK(t)'
    PROVE  IngestInv'
<1>1. TypeOK'
  BY Zenon DEF TypeOK, WorldTyped, CatTyped, TasksTyped, Labels
<1>2. \A u \in Task \ {t} : TaskOK(u)'
  BY TaskStays, Zenon DEF IngestInv
<1> QED
  BY <1>1, <1>2, Zenon DEF IngestInv

\* No task moves.
LEMMA NoTask ==
    ASSUME IngestInv, WorldTyped', CatTyped', TableOK',
           UNCHANGED <<pc, pos, ranges, rows, deferred, batch>>,
           \A m \in Log : Taken(m) => Taken(m)'
    PROVE  IngestInv'
<1>1. TypeOK'
  BY Zenon DEF IngestInv, TypeOK, WorldTyped, CatTyped
<1>2. \A u \in Task : TaskOK(u)'
  BY TaskStays, Zenon DEF IngestInv
<1> QED
  BY <1>1, <1>2, Zenon DEF IngestInv

\* A process dies: what its tasks were publishing goes astray, in order.
LEMMA DeathKept ==
    ASSUME IngestInv, NEW w \in Process, Dies(w), UNCHANGED <<offsets, parts, applied>>,
           WorldTyped'
    PROVE  IngestInv'
<1>1. TypeOK /\ CatTyped /\ TasksTyped /\ TableOK /\ \A t \in Task : TaskOK(t)
  BY Typed, Zenon DEF IngestInv
<1>2. TasksTyped'
  BY <1>1, EmptyTyped, ZenonT(30) DEF Dies, TasksTyped, Labels
<1>3. \A x \in astray' : x \in Route \X Batch /\ (x \in astray \/ BatchOK(x[2]))
  <2> SUFFICES ASSUME NEW x \in astray', x \notin astray
               PROVE  x \in Route \X Batch /\ BatchOK(x[2])
    BY <1>1, Zenon DEF CatTyped
  <2>1. PICK t \in {u \in TasksOf(w) : Publishing(u)} : x = <<t[2], batch[t]>>
    BY Zenon DEF Dies
  <2>2. t \in Task /\ Publishing(t) /\ t[2] \in Route
    BY <2>1, IngestAssumption, Zenon DEF TasksOf
  <2>3. batch[t] \in Batch /\ BatchOK(batch[t])
    BY <1>1, <2>2, Zenon DEF TasksTyped, TaskOK
  <2> QED
    BY <2>1, <2>2, <2>3, Zenon
<1>4. CatTyped'
  BY <1>1, <1>3, Zenon DEF CatTyped
<1>5. TableOK' /\ \A m \in Log : Taken(m) => Taken(m)'
  BY <1>1, <1>3, TableStays, Zenon
<1>6. ASSUME NEW t \in Task, t[1] = w PROVE TaskOK(t)'
  <2>1. pc'[t] = "down" /\ ranges'[t] = NoRanges /\ rows'[t] = {}
    BY <1>6, Zenon DEF Dies
  <2>2. Keeps(ranges[t], rows[t])'
    BY <2>1, EmptyKeeps, Zenon DEF Keeps, Within, AlwaysKept
  <2>3. \A p \in Partition : NoRanges[p] = NoRange
    BY Zenon DEF NoRanges
  <2> QED
    BY <2>1, <2>2, <2>3, ZenonT(30) DEF TaskOK, Publishing
<1>7. ASSUME NEW t \in Task, t[1] # w PROVE TaskOK(t)'
  <2>1. /\ pc'[t] = pc[t] /\ pos'[t] = pos[t] /\ ranges'[t] = ranges[t] /\ rows'[t] = rows[t]
        /\ deferred'[t] = deferred[t] /\ batch'[t] = batch[t]
    BY <1>7, Zenon DEF Dies
  <2> QED
    BY <1>1, <1>5, <2>1, TaskStays, Zenon
<1>8. TypeOK'
  BY <1>2, <1>4, Zenon DEF TypeOK, WorldTyped, CatTyped, TasksTyped, Labels
<1> QED
  BY <1>5, <1>6, <1>7, <1>8, Zenon DEF IngestInv

-----------------------------------------------------------------------------
(* The steps of a task. *)

\* The buffer after message m of partition p.
Extended(t, p, m) == [ranges[t] EXCEPT ![p] = Extend(ranges[t][p], m)]
Received(t, m) == IF Accepted(m) THEN rows[t] \cup {m} ELSE rows[t]

\* Consuming the next message extends the range by it and by nothing else.
LEMMA ExtendKeeps ==
    ASSUME TypeOK, NEW t \in Task, TaskOK(t), NEW p \in Partition, NEW m \in Log,
           IsNext(m, p, pos[t][p])
    PROVE  LET rg == Extended(t, p, m) IN
           /\ rg \in Ranges /\ Keeps(rg, Received(t, m))
           /\ \A q \in Partition : q # p => rg[q] = ranges[t][q]
           /\ rg[p] # NoRange /\ rg[p].first <= rg[p].last /\ rg[p].last = m.off
           /\ \A n \in Log : Within(ranges[t], n) => Within(rg, n)
           /\ \A n \in Log : n.part = p /\ pos[t][p] <= n.off /\ n.off <= m.off => Within(rg, n)
<1> DEFINE rg == Extended(t, p, m)
           ms == Received(t, m)
<1>1. /\ rg = [ranges[t] EXCEPT ![p] = Extend(ranges[t][p], m)]
      /\ ms = IF Accepted(m) THEN rows[t] \cup {m} ELSE rows[t]
  BY Zenon DEF Extended, Received
<1> HIDE DEF rg, ms
<1>a. /\ ranges[t] \in Ranges /\ rows[t] \subseteq Log /\ pos[t][p] \in Int
      /\ ranges[t][p].first \in Int /\ ranges[t][p].last \in Int
      /\ m.part = p /\ m.off \in 0..MaxOffset /\ m.off >= pos[t][p] /\ MaxOffset \in Nat
  BY RangesTyped, MessageFacts, Bounds, SMTT(30) DEF TypeOK, IsNext
<1>b. ranges[t][p] # NoRange => /\ ranges[t][p].first \in 0..MaxOffset
                                /\ ranges[t][p].last \in 0..MaxOffset
                                /\ ranges[t][p].first <= ranges[t][p].last
                                /\ pos[t][p] = ranges[t][p].last + 1
  <2>1. ranges[t][p] # NoRange => /\ ranges[t][p].first <= ranges[t][p].last
                                  /\ pos[t][p] = ranges[t][p].last + 1
    BY Zenon DEF TaskOK
  <2>2. ranges[t][p] # NoRange => /\ ranges[t][p].first \in 0..MaxOffset
                                  /\ ranges[t][p].last \in 0..MaxOffset
    BY <1>a, RangesTyped, Zenon
  <2> QED
    BY <2>1, <2>2, Zenon
<1>c. /\ \A q \in Partition : q # p => rg[q] = ranges[t][q]
      /\ rg[p] = Extend(ranges[t][p], m)
  BY <1>1, <1>a, Zenon DEF Ranges
<1>d. /\ rg[p].first = (IF ranges[t][p] = NoRange THEN m.off ELSE ranges[t][p].first)
      /\ rg[p].last = m.off /\ rg[p] \in [first : 0..MaxOffset, last : 0..MaxOffset]
  <2>1. rg[p] = [first |-> IF ranges[t][p] = NoRange THEN m.off ELSE ranges[t][p].first,
                 last |-> m.off]
    BY <1>c, Zenon DEF Extend
  <2> QED
    BY <1>a, <1>b, <2>1
<1>e. rg[p] # NoRange /\ rg[p].first <= rg[p].last
  BY <1>a, <1>b, <1>d, RangeFacts
<1>f. rg \in Ranges
  <2>1. rg[p] \in OffsetRange
    BY <1>d, Zenon DEF OffsetRange
  <2> QED
    BY <1>1, <1>a, <1>c, <2>1, Zenon DEF Ranges
<1>g. ASSUME NEW n \in Log, Within(ranges[t], n) PROVE Within(rg, n)
  <2>1. n.part \in Partition /\ n.off \in Int
    BY MessageFacts
  <2>2. CASE n.part # p
    BY <1>c, <1>g, <2>1, <2>2, Zenon DEF Within
  <2>3. CASE n.part = p
    <3>1. ranges[t][p] # NoRange
      BY <1>a, <1>g, <2>3, WithinSome, Zenon
    <3> QED
      BY <1>a, <1>b, <1>d, <1>g, <2>1, <2>3, <3>1 DEF Within
  <2> QED
    BY <2>2, <2>3, Zenon
<1>h. ASSUME NEW n \in Log, n.part = p, pos[t][p] <= n.off, n.off <= m.off
      PROVE  n = m /\ Within(rg, n)
  <2>1. n.off \in Int
    BY MessageFacts
  <2>2. n.off = m.off
    BY <1>a, <1>h, <2>1, SMTT(30) DEF IsNext
  <2>3. n = m
    BY <1>a, <1>h, <2>2, IngestAssumption, Zenon
  <2> QED
    BY <1>a, <1>d, <1>e, <2>3 DEF Within
<1>i. ASSUME NEW n \in Log, Within(rg, n) PROVE Within(ranges[t], n) \/ n = m
  <2>1. n.part \in Partition /\ n.off \in Int
    BY MessageFacts
  <2>2. CASE n.part # p
    BY <1>c, <1>i, <2>1, <2>2, Zenon DEF Within
  <2>3. CASE n.part = p /\ pos[t][p] <= n.off
    <3>1. n.off <= m.off
      BY <1>d, <1>i, <2>3, Zenon DEF Within
    <3> QED
      BY <1>h, <2>3, <3>1, Zenon
  <2>4. CASE n.part = p /\ ~(pos[t][p] <= n.off)
    <3>1. rg[p].first <= n.off
      BY <1>i, <2>4, Zenon DEF Within
    <3>2. ranges[t][p] # NoRange
      BY <1>a, <1>d, <2>1, <2>4, <3>1
    <3> QED
      BY <1>a, <1>b, <1>d, <2>1, <2>4, <3>1, <3>2 DEF Within
  <2> QED
    BY <2>2, <2>3, <2>4, Zenon
<1>j. Keeps(rg, ms)
  <2>1. Keeps(ranges[t], rows[t])
    BY Zenon DEF TaskOK
  <2>2. ASSUME NEW n \in ms PROVE Within(rg, n)
    <3>1. n \in rows[t] \/ n = m
      BY <1>1, Zenon
    <3>2. Within(rg, m)
      BY <1>a, <1>h
    <3> QED
      BY <1>a, <1>g, <2>1, <3>1, <3>2, Zenon DEF Keeps
  <2>3. ASSUME NEW n \in Log, AlwaysKept(n), Within(rg, n) PROVE n \in ms
    <3>1. CASE Within(ranges[t], n)
      BY <1>1, <2>1, <2>3, <3>1, Zenon DEF Keeps
    <3>2. CASE n = m
      BY <1>1, <2>3, <3>2, KeptAccepted, ZenonT(30)
    <3> QED
      BY <1>i, <2>3, <3>1, <3>2, Zenon
  <2> QED
    BY <2>2, <2>3, Zenon DEF Keeps
<1> QED
  BY <1>c, <1>d, <1>e, <1>f, <1>g, <1>h, <1>j, ZenonT(30) DEF rg, ms

\* A message is buffered, or skipped with its offset tracked.
LEMMA RecvKept ==
    ASSUME IngestInv, NEW t \in Task, NEW p \in Partition, Recv(t, p)
    PROVE  IngestInv'
<1>1. TypeOK /\ WorldTyped /\ CatTyped /\ TasksTyped /\ TableOK /\ TaskOK(t)
  BY Typed, Zenon DEF IngestInv
<1>2. PICK m \in Log :
        /\ IsNext(m, p, pos[t][p])
        /\ pos' = [pos EXCEPT ![t] = [pos[t] EXCEPT ![p] = m.off + 1]]
        /\ ranges' = [ranges EXCEPT ![t] = [ranges[t] EXCEPT ![p] = Extend(ranges[t][p], m)]]
        /\ rows' = [rows EXCEPT ![t] = IF Accepted(m) THEN rows[t] \cup {m} ELSE rows[t]]
  BY ZenonT(30) DEF Recv
<1>3. /\ pc[t] = "running" /\ UNCHANGED <<offsets, parts, applied, astray, batch, deferred>>
      /\ UNCHANGED <<now, topics, stopping, remaining, faults>>
      /\ Goto(t, IF Cardinality(rows'[t]) < MaxBufferRows THEN "running" ELSE "flushing")
  BY Zenon DEF Recv, catVars, procVars
<1> DEFINE rg == Extended(t, p, m)
           ms == Received(t, m)
<1>4. /\ rg \in Ranges /\ Keeps(rg, ms)
      /\ \A q \in Partition : q # p => rg[q] = ranges[t][q]
      /\ rg[p] # NoRange /\ rg[p].first <= rg[p].last /\ rg[p].last = m.off
      /\ \A n \in Log : Within(ranges[t], n) => Within(rg, n)
      /\ \A n \in Log : n.part = p /\ pos[t][p] <= n.off /\ n.off <= m.off => Within(rg, n)
  BY <1>1, <1>2, ExtendKeeps, Zenon
<1>5. ms \subseteq Log
  BY <1>1, Zenon DEF TasksTyped, Received
<1>6. /\ ranges' = [ranges EXCEPT ![t] = rg] /\ rows' = [rows EXCEPT ![t] = ms]
  BY <1>2, Zenon DEF Extended, Received
<1> HIDE DEF rg, ms
<1>7. m.off + 1 \in 0..(MaxOffset + 1) /\ m.off \in Nat /\ m.part = p
  BY <1>2, MessageFacts, Bounds DEF IsNext
<1>8. /\ ranges'[t] = rg /\ rows'[t] = ms /\ pos'[t] = [pos[t] EXCEPT ![p] = m.off + 1]
      /\ pos'[t][p] = m.off + 1 /\ \A q \in Partition : q # p => pos'[t][q] = pos[t][q]
      /\ \A u \in Task \ {t} : ranges'[u] = ranges[u] /\ rows'[u] = rows[u] /\ pos'[u] = pos[u]
  BY <1>1, <1>2, <1>6 DEF TasksTyped
<1>9. /\ pc'[t] = IF Cardinality(ms) < MaxBufferRows THEN "running" ELSE "flushing"
      /\ \A u \in Task \ {t} : pc'[u] = pc[u]
      /\ pc' \in [Task -> Labels]
  BY <1>1, <1>3, <1>8, ZenonT(30) DEF TasksTyped, Goto, Labels
<1>10. TasksTyped'
  <2>1. pos' \in [Task -> [Partition -> 0..(MaxOffset + 1)]]
    BY <1>1, <1>2, <1>7, Zenon DEF TasksTyped
  <2> QED
    BY <1>1, <1>3, <1>4, <1>5, <1>6, <1>9, <2>1, ZenonT(30) DEF TasksTyped
<1>11. WorldTyped' /\ CatTyped'
  BY <1>1, <1>3, ZenonT(30) DEF WorldTyped, CatTyped
<1>12. TableOK' /\ \A n \in Log : Taken(n) => Taken(n)'
  BY <1>1, <1>3, TableStays, ZenonT(30)
<1>13. TaskOK(t)'
  <2>1. pc'[t] \in {"flushing", "running"} /\ ~Publishing(t)'
    BY <1>9, Zenon DEF Publishing
  <2>2. Keeps(ranges[t], rows[t])'
    BY <1>4, <1>8, ZenonT(30) DEF Keeps, Within, AlwaysKept
  <2>3. \A q \in Partition : rg[q] # NoRange =>
           rg[q].first <= rg[q].last /\ pos'[t][q] = rg[q].last + 1
    <3>1. \A q \in Partition : ranges[t][q] # NoRange =>
             ranges[t][q].first <= ranges[t][q].last /\ pos[t][q] = ranges[t][q].last + 1
      BY <1>1, Zenon DEF TaskOK
    <3>2. rg[p].first <= rg[p].last /\ pos'[t][p] = rg[p].last + 1
      BY <1>4, <1>8, Zenon
    <3>3. ASSUME NEW q \in Partition, q # p
          PROVE  rg[q] = ranges[t][q] /\ pos'[t][q] = pos[t][q]
      BY <1>4, <1>8, <3>3, Zenon
    <3> QED
      BY <3>1, <3>2, <3>3, Zenon
  <2>4. pc'[t] = "running" => Held(t)'
    BY <1>8, <1>9, Zenon DEF Held
  <2>5. ASSUME NEW n \in Log, n.off < pos'[t][n.part] PROVE Taken(n)' \/ Within(rg, n)
    <3>1. n.part \in Partition /\ n.off \in Int /\ pos[t][n.part] \in Int
      BY <1>1, MessageFacts, Bounds, SMTT(30) DEF TasksTyped
    <3>2. CASE n.off < pos[t][n.part]
      <4>1. Taken(n) \/ Within(ranges[t], n)
        BY <1>1, <1>3, <3>2, ZenonT(30) DEF TaskOK, Publishing
      <4> QED
        BY <1>4, <1>12, <4>1, Zenon
    <3>3. CASE ~(n.off < pos[t][n.part])
      <4>1. n.part = p
        BY <1>8, <2>5, <3>1, <3>3, Zenon
      <4>2. pos[t][p] <= n.off /\ n.off <= m.off
        BY <1>7, <1>8, <2>5, <3>1, <3>3, <4>1, SMTT(30)
      <4> QED
        BY <1>4, <4>1, <4>2, ZenonT(30)
    <3> QED
      BY <3>2, <3>3, Zenon
  <2> QED
    BY <1>5, <1>8, <2>1, <2>2, <2>3, <2>4, <2>5, ZenonT(30) DEF TaskOK, Idle, Within
<1> QED
  <2>1. \A u \in Task \ {t} : /\ pc'[u] = pc[u] /\ pos'[u] = pos[u]
                              /\ ranges'[u] = ranges[u] /\ rows'[u] = rows[u]
                              /\ deferred'[u] = deferred[u] /\ batch'[u] = batch[u]
    BY <1>3, <1>8, <1>9, Zenon
  <2> QED
    BY <1>10, <1>11, <1>12, <1>13, <2>1, OneTask, ZenonT(30)

\* The steps of a task that neither touch the catalog nor receive.
LEMMA LoopKept ==
    ASSUME IngestInv, NEW t \in Task,
           LoadOffsets(t) \/ Assign(t) \/ Tick(t) \/ SeeShutdown(t) \/ Defer(t) \/ Drain(t)
    PROVE  IngestInv'
<1>1. TypeOK /\ WorldTyped /\ CatTyped /\ TasksTyped /\ TableOK /\ TaskOK(t)
  BY Typed, Zenon DEF IngestInv
<1>2. UNCHANGED <<offsets, parts, applied, astray, now, topics, stopping, faults>>
  BY Zenon DEF LoadOffsets, Assign, Tick, SeeShutdown, Defer, Drain, catVars, procVars
<1>3. remaining' \in [Process -> Int]
  <2>1. CASE Assign(t)
    BY <1>1, <2>1, IngestAssumption, SMTT(30) DEF Assign, WorldTyped
  <2>2. CASE ~Assign(t)
    <3>1. UNCHANGED remaining
      BY <2>2, Zenon DEF LoadOffsets, Tick, SeeShutdown, Defer, Drain, procVars
    <3> QED
      BY <1>1, <3>1, Zenon DEF WorldTyped
  <2> QED
    BY <2>1, <2>2, Zenon
<1>4. WorldTyped' /\ CatTyped'
  BY <1>1, <1>2, <1>3, Zenon DEF WorldTyped, CatTyped
<1>5. TableOK' /\ \A m \in Log : Taken(m) => Taken(m)'
  BY <1>1, <1>2, TableStays, Zenon
<1> DEFINE Others == \A u \in Task \ {t} : /\ pc'[u] = pc[u] /\ pos'[u] = pos[u]
                                           /\ ranges'[u] = ranges[u] /\ rows'[u] = rows[u]
                                           /\ deferred'[u] = deferred[u] /\ batch'[u] = batch[u]
<1>6. ASSUME TasksTyped', Others, TaskOK(t)' PROVE IngestInv'
  BY <1>4, <1>5, <1>6, OneTask, ZenonT(30)
<1>7. ASSUME NEW label \in Labels, Goto(t, label)
      PROVE  /\ pc' \in [Task -> Labels] /\ pc'[t] = label /\ \A u \in Task \ {t} : pc'[u] = pc[u]
  BY <1>1, <1>7, Zenon DEF Goto, TasksTyped
<1>8. {"assigning", "running", "flushing", "stopped", "draining", "closing", "publishing"}
        \subseteq Labels
  BY Zenon DEF Labels
<1>9. \A p \in Partition : NoRanges[p] = NoRange
  BY Zenon DEF NoRanges
<1>10. CASE LoadOffsets(t)
  <2>1. /\ pc[t] = "connecting" /\ pos' = [pos EXCEPT ![t] = offsets] /\ Goto(t, "assigning")
        /\ UNCHANGED <<ranges, rows, deferred, batch>>
    BY <1>10, Zenon DEF LoadOffsets, bufVars
  <2>2. /\ pc' \in [Task -> Labels] /\ pc'[t] = "assigning"
        /\ \A u \in Task \ {t} : pc'[u] = pc[u]
    BY <1>7, <1>8, <2>1, Zenon
  <2>3. TasksTyped' /\ Others /\ pos'[t] = offsets
    BY <1>1, <2>1, <2>2, ZenonT(30) DEF TasksTyped, CatTyped
  <2>4. ranges[t] = NoRanges /\ rows[t] = {}
    BY <1>1, <2>1, ZenonT(30) DEF TaskOK, Idle
  <2>5. \A m \in Log : m.off < pos'[t][m.part] => Taken(m)'
    BY <1>2, <2>3, ZenonT(30) DEF Taken
  <2>6. Keeps(ranges[t], rows[t])'
    BY <2>1, <2>4, EmptyKeeps, ZenonT(30) DEF Keeps, Within, AlwaysKept
  <2>7. TaskOK(t)'
    BY <1>9, <2>1, <2>2, <2>4, <2>5, <2>6, ZenonT(30) DEF TaskOK, Publishing
  <2> QED
    BY <1>6, <2>3, <2>7, Zenon
<1>11. CASE Assign(t)
  <2>1. /\ pc[t] = "assigning" /\ Goto(t, "running")
        /\ UNCHANGED <<pos, ranges, rows, deferred, batch>>
    BY <1>11, Zenon DEF Assign, bufVars
  <2>2. /\ pc' \in [Task -> Labels] /\ pc'[t] = "running"
        /\ \A u \in Task \ {t} : pc'[u] = pc[u]
    BY <1>7, <1>8, <2>1, Zenon
  <2>3. TasksTyped' /\ Others
    BY <1>1, <2>1, <2>2, Zenon DEF TasksTyped
  <2>4. ranges[t] = NoRanges /\ rows[t] = {}
    BY <1>1, <2>1, ZenonT(30) DEF TaskOK, Idle
  <2>5. Keeps(ranges[t], rows[t])'
    BY <2>1, <2>4, EmptyKeeps, ZenonT(30) DEF Keeps, Within, AlwaysKept
  <2>6. MaxBufferRows > 0 => Held(t)'
    BY <2>1, <2>4, EmptyCount, Zenon DEF Held
  <2>7. \A m \in Log : m.off < pos[t][m.part] => Taken(m)' \/ Within(ranges[t], m)
    BY <1>1, <1>5, <2>1, ZenonT(30) DEF TaskOK, Publishing
  <2>8. TaskOK(t)'
    BY <1>9, <2>1, <2>2, <2>4, <2>5, <2>6, <2>7, ZenonT(30) DEF TaskOK, Publishing, Idle, Within
  <2> QED
    BY <1>6, <2>3, <2>8, ZenonT(30)
<1>12. CASE Tick(t) \/ SeeShutdown(t) \/ Defer(t)
  <2>1. /\ pc[t] \in {"running", "flushing"} /\ UNCHANGED <<pos, ranges, rows, batch>>
        /\ deferred' \in [Task -> BOOLEAN]
        /\ \A u \in Task \ {t} : deferred'[u] = deferred[u]
    BY <1>1, <1>12, ZenonT(30) DEF Tick, SeeShutdown, Defer, bufVars, TasksTyped
  <2>2. \/ Goto(t, "flushing") \/ Goto(t, "draining")
        \/ Goto(t, "stopped") /\ ranges[t] = NoRanges
        \/ Goto(t, "running") /\ Held(t)'
    <3>1. CASE Defer(t)
      BY <1>1, <3>1, ZenonT(30) DEF Defer, Defers, Held, TasksTyped
    <3> QED
      BY <1>12, <3>1, ZenonT(30) DEF Tick, SeeShutdown
  <2>3. ranges[t] = NoRanges => rows[t] = {}
    <3>1. Keeps(ranges[t], rows[t]) /\ rows[t] \subseteq Log
      BY <1>1, ZenonT(30) DEF TaskOK, TasksTyped
    <3> QED
      BY <3>1, NothingWithin, Zenon DEF Keeps
  <2>4. ASSUME NEW label \in {"flushing", "draining", "stopped", "running"}, Goto(t, label),
               label = "stopped" => ranges[t] = NoRanges,
               label = "running" => Held(t)'
        PROVE  IngestInv'
    <3>1. /\ pc' \in [Task -> Labels] /\ pc'[t] = label
          /\ \A u \in Task \ {t} : pc'[u] = pc[u]
      BY <1>7, <1>8, <2>4, ZenonT(30)
    <3>2. TasksTyped' /\ Others
      BY <1>1, <2>1, <3>1, Zenon DEF TasksTyped
    <3>3. Keeps(ranges[t], rows[t])'
      BY <1>1, <2>1, ZenonT(30) DEF TaskOK, Keeps, Within, AlwaysKept
    <3>4. \A m \in Log : m.off < pos[t][m.part] => Taken(m)' \/ Within(ranges[t], m)
      BY <1>1, <1>5, <2>1, ZenonT(30) DEF TaskOK, Publishing
    <3>5. TaskOK(t)'
      BY <1>1, <2>1, <2>3, <2>4, <3>1, <3>3, <3>4, ZenonT(30)
         DEF TaskOK, Publishing, Idle, Within
    <3> QED
      BY <1>6, <3>2, <3>5, Zenon
  <2> QED
    BY <2>2, <2>4, Zenon
<1>13. CASE Drain(t)
  <2>0. PICK b \in Batch : b = [ranges |-> ranges[t], rows |-> rows[t]]
    BY <1>1, ZenonT(30) DEF Batch, TasksTyped
  <2>1. /\ pc[t] \in {"flushing", "draining"} /\ \A m \in rows[t] : m.kind = "row"
        /\ batch' = [batch EXCEPT ![t] = b] /\ ranges' = [ranges EXCEPT ![t] = NoRanges]
        /\ rows' = [rows EXCEPT ![t] = {}] /\ deferred' = [deferred EXCEPT ![t] = FALSE]
        /\ Goto(t, "closing") \/ Goto(t, "publishing")
    BY <1>13, <2>0, Zenon DEF Drain, Flushes
  <2>2. UNCHANGED pos
    BY <1>13, Zenon DEF Drain
  <2>3. /\ pc' \in [Task -> Labels] /\ pc'[t] \in {"closing", "publishing"}
        /\ \A u \in Task \ {t} : pc'[u] = pc[u]
    BY <1>7, <1>8, <2>1, Zenon
  <2>4. b \in Batch /\ b.ranges = ranges[t] /\ b.rows = rows[t]
    BY <2>0, Zenon
  <2>5. TasksTyped' /\ Others /\ batch'[t] = b /\ ranges'[t] = NoRanges /\ rows'[t] = {}
    BY <1>1, <2>1, <2>2, <2>3, <2>4, EmptyTyped, ZenonT(30) DEF TasksTyped
  <2>6. \A m \in Log : m.off < pos[t][m.part] => Taken(m) \/ Within(ranges[t], m)
    BY <1>1, <2>1, ZenonT(30) DEF TaskOK, Publishing
  <2>7. NoGap(ranges[t])
    <3> SUFFICES ASSUME NEW p \in Partition, ranges[t][p] # NoRange
                 PROVE  /\ ranges[t][p].first <= ranges[t][p].last
                        /\ \A m \in Log : m.part = p /\ m.off < ranges[t][p].first => Taken(m)
      BY Zenon DEF NoGap
    <3>1. /\ ranges[t][p].first <= ranges[t][p].last /\ pos[t][p] = ranges[t][p].last + 1
          /\ ranges[t][p].first \in Int /\ ranges[t][p].last \in Int
      BY <1>1, RangesTyped, ZenonT(30) DEF TaskOK, TasksTyped
    <3>2. ASSUME NEW m \in Log, m.part = p, m.off < ranges[t][p].first PROVE Taken(m)
      <4>1. m.off \in Int
        BY MessageFacts, SMTT(30)
      <4>2. m.off < pos[t][p] /\ ~Within(ranges[t], m)
        BY <3>1, <3>2, <4>1 DEF Within
      <4> QED
        BY <2>6, <3>2, <4>2, ZenonT(30)
    <3> QED
      BY <3>1, <3>2, ZenonT(30)
  <2>8. BatchOK(b)
    BY <1>1, <2>1, <2>4, <2>7, ZenonT(30) DEF BatchOK, TaskOK
  <2>9. BatchOK(batch[t])'
    <3>1. BatchOK(b)'
      BY <1>1, <1>5, <2>8, BatchStays, Zenon
    <3> QED
      BY <2>5, <3>1, ZenonT(30) DEF BatchOK, Keeps, NoGap
  <2>10. Keeps(ranges[t], rows[t])'
    BY <2>5, EmptyKeeps, Zenon DEF Keeps, Within, AlwaysKept
  <2>11. \A m \in Log : m.off < pos'[t][m.part] =>
            Taken(m)' \/ (Publishing(t)' /\ Within(batch'[t].ranges, m))
    BY <1>5, <2>2, <2>3, <2>4, <2>5, <2>6, ZenonT(30) DEF Publishing
  <2>12. TaskOK(t)'
    BY <1>9, <2>3, <2>5, <2>9, <2>10, <2>11, ZenonT(30) DEF TaskOK, Within
  <2> QED
    BY <1>6, <2>5, <2>12, ZenonT(30)
<1> QED
  BY <1>10, <1>11, <1>12, <1>13, Zenon

-----------------------------------------------------------------------------
(* Commits. *)

\* A batch that lands leaves the table in order, and everything of it behind
\* the stored offsets.
LEMMA CommitKept ==
    ASSUME TypeOK, TableOK, NEW r \in Route, NEW b \in Batch, BatchOK(b), Fresh(b), Apply(r, b),
           astray' \subseteq astray
    PROVE  /\ CatTyped' /\ TableOK'
           /\ \A m \in Log : Taken(m) => Taken(m)'
           /\ \A m \in Log : Within(b.ranges, m) => Taken(m)'
<1>1. /\ offsets' \in [Partition -> 0..(MaxOffset + 1)]
      /\ parts' \subseteq Part /\ applied' \subseteq Ranges
  BY ApplyTyped, Zenon
<1>2. /\ \A p \in Partition : offsets[p] <= offsets'[p]
      /\ \A p \in Partition : b.ranges[p] # NoRange => b.ranges[p].last < offsets'[p]
  BY ApplyAdvances, Zenon
<1>3. \A m \in Log : Taken(m) => Taken(m)'
  BY <1>1, <1>2, TakenStays, Zenon
<1>4. CatTyped'
  BY <1>1, Zenon DEF CatTyped, TypeOK
<1>5. \A rg \in applied', p \in Partition : rg[p] # NoRange => rg[p].last < offsets'[p]
  <2> SUFFICES ASSUME NEW rg \in applied', NEW p \in Partition, rg[p] # NoRange
               PROVE  rg[p].last < offsets'[p]
    BY Zenon
  <2>1. CASE rg = b.ranges
    BY <1>2, <2>1, Zenon
  <2>2. CASE rg \in applied
    <3>1. rg[p].last < offsets[p] /\ rg \in Ranges
      BY <2>2, Zenon DEF TableOK, TypeOK
    <3>2. rg[p].last \in Int /\ offsets[p] \in Int /\ offsets'[p] \in Int
      BY <1>1, <3>1, RangesTyped, Bounds, SMTT(30) DEF TypeOK
    <3> QED
      BY <1>2, <3>1, <3>2, SMTT(30)
  <2> QED
    BY <2>1, <2>2, Zenon DEF Apply
<1>6. \A x \in astray' : BatchOK(x[2])'
  BY <1>3, BatchStays, Zenon DEF TableOK
<1>7. NothingTwice' /\ NothingLost'
  BY ApplyOnce, Zenon
<1>8. ASSUME NEW m \in Log, Within(b.ranges, m) PROVE Taken(m)'
  <2>1. b.ranges \in Ranges /\ m.part \in Partition /\ m.off \in Int
    BY BatchTyped, MessageFacts
  <2>2. b.ranges[m.part] # NoRange /\ b.ranges[m.part].last \in Int
    BY <1>8, <2>1, WithinSome, RangesTyped, Zenon
  <2>3. offsets'[m.part] \in Int
    BY <1>1, <2>1, Bounds
  <2> QED
    BY <1>2, <1>8, <2>1, <2>2, <2>3, SMTT(30) DEF Within, Taken
<1> QED
  BY <1>3, <1>4, <1>5, <1>6, <1>7, <1>8, ZenonT(30) DEF TableOK

\* The commit of a task, new or already applied.
LEMMA PublishKept ==
    ASSUME IngestInv, NEW t \in Task, Publish(t)
    PROVE  IngestInv'
<1>1. TypeOK /\ WorldTyped /\ CatTyped /\ TasksTyped /\ TableOK /\ TaskOK(t)
  BY Typed, Zenon DEF IngestInv
<1>2. PICK b \in Batch : b = batch[t]
  BY <1>1, Zenon DEF TasksTyped
<1>3. /\ Publishing(t) /\ t[2] \in Route
      /\ UNCHANGED <<now, topics, astray, pos, ranges, rows, deferred, stopping, remaining, faults>>
      /\ batch' = [batch EXCEPT ![t] = NoBatch]
  BY IngestAssumption, ZenonT(30) DEF Publish, bufVars, procVars
<1>4. \/ Fresh(b) /\ Apply(t[2], b)
      \/ b.ranges \in applied /\ UNCHANGED <<offsets, parts, applied>>
  BY <1>2, Zenon DEF Publish, catVars
<1>5. /\ pc' \in [Task -> Labels] /\ pc'[t] \in {"running", "stopped"}
      /\ \A u \in Task \ {t} : pc'[u] = pc[u]
  BY <1>1, Zenon DEF Publish, Goto, TasksTyped, Labels
<1>6. BatchOK(b)
  BY <1>1, <1>2, <1>3, ZenonT(30) DEF TaskOK
<1>7. /\ CatTyped' /\ TableOK'
      /\ \A m \in Log : Taken(m) => Taken(m)'
      /\ \A m \in Log : Within(b.ranges, m) => Taken(m)'
  <2>1. CASE Fresh(b) /\ Apply(t[2], b)
    BY <1>1, <1>3, <1>6, <2>1, CommitKept, Zenon
  <2>2. CASE b.ranges \in applied /\ UNCHANGED <<offsets, parts, applied>>
    <3>1. TableOK' /\ \A m \in Log : Taken(m) => Taken(m)'
      BY <1>1, <1>3, <2>2, TableStays, Zenon
    <3>2. CatTyped'
      BY <1>1, <1>3, <2>2, Zenon DEF CatTyped
    <3>3. ASSUME NEW m \in Log, Within(b.ranges, m) PROVE Taken(m)
      <4>1. b.ranges \in Ranges /\ m.part \in Partition /\ m.off \in Int
        BY BatchTyped, MessageFacts
      <4>2. b.ranges[m.part] # NoRange /\ b.ranges[m.part].last \in Int
        BY <3>3, <4>1, WithinSome, RangesTyped, Zenon
      <4>3. offsets[m.part] \in Int
        BY <1>1, <4>1, Bounds, SMTT(30) DEF TypeOK
      <4>4. b.ranges[m.part].last < offsets[m.part]
        BY <1>1, <2>2, <4>1, <4>2, Zenon DEF TableOK
      <4> QED
        BY <3>3, <4>1, <4>2, <4>3, <4>4 DEF Within, Taken
    <3> QED
      BY <3>1, <3>2, <3>3, Zenon
  <2> QED
    BY <1>4, <2>1, <2>2, Zenon
<1>8. WorldTyped' /\ TasksTyped'
  BY <1>1, <1>3, <1>5, EmptyTyped, ZenonT(30) DEF WorldTyped, TasksTyped
<1>9. ranges'[t] = NoRanges /\ rows'[t] = {} /\ ranges[t] = NoRanges
  BY <1>1, <1>3, ZenonT(30) DEF TaskOK, Publishing, Idle
<1>10. \A m \in Log : m.off < pos'[t][m.part] => Taken(m)'
  <2> SUFFICES ASSUME NEW m \in Log, m.off < pos[t][m.part] PROVE Taken(m)'
    BY <1>3, Zenon
  <2>1. Taken(m) \/ Within(NoRanges, m) \/ Within(b.ranges, m)
    BY <1>1, <1>2, <1>3, <1>9, ZenonT(30) DEF TaskOK, Publishing
  <2> QED
    BY <1>7, <2>1, NothingWithin, Zenon
<1>11. TaskOK(t)'
  <2>1. Keeps(ranges[t], rows[t])'
    BY <1>9, EmptyKeeps, ZenonT(30) DEF Keeps, Within, AlwaysKept
  <2>2. MaxBufferRows > 0 => Held(t)'
    BY <1>9, EmptyCount, Zenon DEF Held
  <2>3. \A p \in Partition : ranges'[t][p] = NoRange
    BY <1>9, Zenon DEF NoRanges
  <2> QED
    BY <1>5, <1>9, <1>10, <2>1, <2>2, <2>3, ZenonT(30) DEF TaskOK, Publishing
<1>12. \A u \in Task \ {t} : /\ pc'[u] = pc[u] /\ pos'[u] = pos[u]
                             /\ ranges'[u] = ranges[u] /\ rows'[u] = rows[u]
                             /\ deferred'[u] = deferred[u] /\ batch'[u] = batch[u]
  BY <1>1, <1>3, <1>5, Zenon DEF TasksTyped
<1> QED
  BY <1>7, <1>8, <1>11, <1>12, OneTask, ZenonT(30)

\* The commit nobody waits for.
LEMMA StrayKept ==
    ASSUME IngestInv, NEW x \in astray, StrayCommits(x) \/ StrayEnds(x)
    PROVE  IngestInv'
<1>1. TypeOK /\ WorldTyped /\ CatTyped /\ TasksTyped /\ TableOK
  BY Typed, Zenon DEF IngestInv
<1>2. /\ UNCHANGED <<now, topics, pc, pos, ranges, rows, deferred, batch,
                     stopping, remaining, faults>>
      /\ astray' = astray \ {x}
      /\ \/ Fresh(x[2]) /\ Apply(x[1], x[2])
         \/ UNCHANGED <<offsets, parts, applied>>
  BY Zenon DEF StrayCommits, StrayEnds, taskVars, bufVars, procVars, catVars
<1>3. PICK r \in Route, b \in Batch : r = x[1] /\ b = x[2]
  BY <1>1, Zenon DEF CatTyped
<1>4. BatchOK(b)
  BY <1>1, <1>3, Zenon DEF TableOK
<1>5. CatTyped' /\ TableOK' /\ \A m \in Log : Taken(m) => Taken(m)'
  <2>1. CASE Fresh(b) /\ Apply(r, b)
    BY <1>1, <1>2, <1>4, <2>1, CommitKept, Zenon
  <2>2. CASE UNCHANGED <<offsets, parts, applied>>
    <3>1. CatTyped'
      BY <1>1, <1>2, <2>2, Zenon DEF CatTyped
    <3>2. \A y \in astray' : y \in astray
      BY <1>2, Zenon
    <3> QED
      BY <1>1, <2>2, <3>1, <3>2, TableStays, Zenon
  <2> QED
    BY <1>2, <1>3, <2>1, <2>2, Zenon
<1>6. WorldTyped'
  BY <1>1, <1>2, Zenon DEF WorldTyped
<1> QED
  BY <1>2, <1>5, <1>6, NoTask, Zenon

-----------------------------------------------------------------------------
(* Around the role. *)

\* The gate of a process starts at a number.
LEMMA TaskCount == ASSUME NEW w \in Process PROVE Cardinality(TasksOf(w)) \in Int
  BY IngestAssumption

\* Steps in which a process dies.
LEMMA DeathsKept ==
    ASSUME IngestInv,
           \/ \E t \in Task : NoTopic(t) \/ EncodeFails(t) \/ Race(t)
           \/ \E w \in Process : Fails(w) \/ Exit(w)
    PROVE  IngestInv'
<1>1. WorldTyped
  BY Typed, Zenon DEF IngestInv
<1>2. \A t \in Task : t[1] \in Process
  BY IngestAssumption, Zenon
<1>3. PICK w \in Process : Dies(w)
  BY <1>2, Zenon DEF NoTopic, EncodeFails, Race, Fails, Exit
<1>4. UNCHANGED <<offsets, parts, applied, now, topics, stopping, remaining>>
  BY ZenonT(30) DEF NoTopic, EncodeFails, Race, Fails, Exit, catVars, procVars
<1>5. \/ UNCHANGED faults
      \/ faults < MaxFault /\ faults' = faults + 1
  BY ZenonT(30) DEF NoTopic, EncodeFails, Race, Fails, Exit
<1>6. WorldTyped'
  BY <1>1, <1>4, <1>5, Bounds DEF WorldTyped
<1> QED
  BY <1>3, <1>4, <1>6, DeathKept, Zenon

\* A process starts with nothing in memory.
LEMMA LaunchKept ==
    ASSUME IngestInv, NEW w \in Process, Launch(w)
    PROVE  IngestInv'
<1>1. TypeOK /\ WorldTyped /\ CatTyped /\ TasksTyped /\ TableOK /\ \A t \in Task : TaskOK(t)
  BY Typed, Zenon DEF IngestInv
<1>2. UNCHANGED <<now, topics, offsets, parts, applied, astray, pos, ranges, rows, deferred,
                  batch, faults>>
  BY Zenon DEF Launch, catVars, bufVars
<1>3. WorldTyped'
  BY <1>1, <1>2, TaskCount, Zenon DEF Launch, WorldTyped
<1>4. CatTyped' /\ TasksTyped'
  BY <1>1, <1>2, Zenon DEF Launch, CatTyped, TasksTyped, Labels
<1>5. TableOK' /\ \A m \in Log : Taken(m) => Taken(m)'
  BY <1>1, <1>2, TableStays, Zenon
<1>6. ASSUME NEW t \in Task, t[1] = w PROVE TaskOK(t)'
  <2>1. pc[t] = "down" /\ pc'[t] = "connecting"
    BY <1>6, ZenonT(30) DEF Launch, TasksOf
  <2>2. TaskOK(t) /\ ranges[t] = NoRanges /\ rows[t] = {}
    BY <1>1, <2>1, ZenonT(30) DEF TaskOK, Idle
  <2>3. Keeps(ranges[t], rows[t])'
    BY <1>2, <2>2, EmptyKeeps, ZenonT(30) DEF Keeps, Within, AlwaysKept
  <2>4. \A p \in Partition : NoRanges[p] = NoRange
    BY Zenon DEF NoRanges
  <2> QED
    BY <1>2, <2>1, <2>2, <2>3, <2>4, ZenonT(30) DEF TaskOK, Publishing
<1>7. ASSUME NEW t \in Task, t[1] # w PROVE TaskOK(t)'
  <2>1. pc'[t] = pc[t]
    BY <1>7, ZenonT(30) DEF Launch
  <2> QED
    BY <1>1, <1>2, <1>5, <2>1, TaskStays, ZenonT(30)
<1>8. TypeOK'
  BY <1>3, <1>4, Zenon DEF TypeOK, WorldTyped, CatTyped, TasksTyped, Labels
<1> QED
  BY <1>5, <1>6, <1>7, <1>8, Zenon DEF IngestInv

\* The clock, a topic that appears, a signal to stop.
LEMMA WorldKept ==
    ASSUME IngestInv,
           Clock \/ (\E r \in Route : CreateTopic(r)) \/ (\E w \in Process : Shutdown(w))
    PROVE  IngestInv'
<1>1. TypeOK /\ WorldTyped /\ CatTyped /\ TableOK
  BY Typed, Zenon DEF IngestInv
<1>2. UNCHANGED <<offsets, parts, applied, astray, pc, pos, ranges, rows, deferred, batch>>
  BY Zenon DEF Clock, CreateTopic, Shutdown, catVars, taskVars, bufVars
<1>3. CatTyped' /\ TableOK' /\ \A m \in Log : Taken(m) => Taken(m)'
  BY <1>1, <1>2, TableStays, Zenon DEF CatTyped
<1>4. WorldTyped'
  BY <1>1, Bounds DEF WorldTyped, Clock, CreateTopic, Shutdown, procVars
<1> QED
  BY <1>2, <1>3, <1>4, NoTask, Zenon

\* A merge moves the rows of a day into one part.
LEMMA CompactKept ==
    ASSUME IngestInv, NEW r \in Route, NEW d \in Days(Log), Compact(r, d)
    PROVE  IngestInv'
<1>1. TypeOK /\ WorldTyped /\ CatTyped /\ TableOK
  BY Typed, Zenon DEF IngestInv
<1> DEFINE old == {a \in parts : a.route = r /\ a.day = d}
           merged == [route |-> r, day |-> d, rows |-> UNION {a.rows : a \in old}, level |-> 1,
                      op |-> NoRanges]
<1>2. /\ UNCHANGED <<now, topics, offsets, applied, astray, pc, pos, ranges, rows, deferred,
                     batch, stopping, remaining, faults>>
      /\ parts' = (parts \ old) \cup {merged}
  BY Zenon DEF Compact, taskVars, bufVars, procVars
<1>3. old \subseteq parts /\ \A a \in old : a.day = d
  BY ZenonT(30)
<1>4. merged.rows = UNION {a.rows : a \in old} /\ merged.day = d
  BY ZenonT(30)
<1>5. merged \in Part
  <2>1. d \in Int
    BY MessageFacts, Zenon DEF Days
  <2>2. UNION {a.rows : a \in old} \subseteq Log
    BY <1>1, Zenon DEF CatTyped, Part
  <2> QED
    BY <2>1, <2>2, EmptyTyped, Zenon DEF Part
<1>6. CatTyped'
  BY <1>1, <1>2, <1>5, ZenonT(30) DEF CatTyped
<1> HIDE DEF old, merged
<1>7. NothingTwice'
  <2> SUFFICES ASSUME NEW a \in parts'
               PROVE  /\ \A m \in a.rows : /\ m.kind = "row" /\ m.off < offsets[m.part]
                                           /\ DayOf(m) = a.day
                      /\ \A b \in parts' \ {a} : a.rows \cap b.rows = {}
    BY <1>2, Zenon DEF NothingTwice, DayOf
  <2>1. /\ \A x \in parts : \A m \in x.rows : /\ m.kind = "row" /\ m.off < offsets[m.part]
                                              /\ DayOf(m) = x.day
        /\ \A x, y \in parts : x # y => x.rows \cap y.rows = {}
    BY <1>1, Zenon DEF TableOK, NothingTwice
  <2>2. \A m \in merged.rows : \E x \in old : m \in x.rows
    BY <1>4, Zenon
  <2>3. \A b \in parts \ old : merged.rows \cap b.rows = {}
    BY <1>3, <2>1, <2>2, SMTT(30)
  <2>4. CASE a = merged
    <3>1. \A m \in merged.rows : /\ m.kind = "row" /\ m.off < offsets[m.part]
                                  /\ DayOf(m) = merged.day
      BY <1>3, <1>4, <2>1, <2>2, ZenonT(30)
    <3>2. \A b \in parts' \ {a} : b \in parts \ old
      BY <1>2, <2>4, ZenonT(30)
    <3> QED
      BY <2>3, <2>4, <3>1, <3>2, ZenonT(30)
  <2>5. CASE a \in parts \ old
    <3>1. a \in parts /\ \A b \in parts' \ {a} : b = merged \/ (b \in parts /\ b # a)
      BY <1>2, <2>5, ZenonT(30)
    <3>2. a.rows \cap merged.rows = {}
      BY <2>3, <2>5, ZenonT(30)
    <3> QED
      BY <2>1, <3>1, <3>2, ZenonT(30)
  <2> QED
    BY <1>2, <2>4, <2>5, ZenonT(30)
<1>8. NothingLost'
  <2> SUFFICES ASSUME NEW m \in Log, AlwaysKept(m), m.off < offsets[m.part]
               PROVE  \E a \in parts' : m \in a.rows
    BY <1>2, Zenon DEF NothingLost, AlwaysKept
  <2>1. PICK a \in parts : m \in a.rows
    BY <1>1, Zenon DEF TableOK, NothingLost
  <2> QED
    BY <1>2, <1>4, <2>1, Zenon
<1>9. \A m \in Log : Taken(m) => Taken(m)'
  BY <1>2, Zenon DEF Taken
<1>10. TableOK'
  <2>1. \A x \in astray' : BatchOK(x[2])'
    BY <1>1, <1>2, <1>9, BatchStays, ZenonT(30) DEF TableOK
  <2> QED
    BY <1>1, <1>2, <1>7, <1>8, <2>1, ZenonT(30) DEF TableOK
<1>11. WorldTyped'
  BY <1>1, <1>2, Zenon DEF WorldTyped
<1> QED
  BY <1>2, <1>6, <1>9, <1>10, <1>11, NoTask, Zenon

-----------------------------------------------------------------------------
\* Nothing is consumed or committed at the start.
LEMMA InitIngest == Init => IngestInv
<1> SUFFICES ASSUME Init PROVE IngestInv
  BY Zenon
<1>1. WorldTyped
  <2>1. remaining \in [Process -> Int]
    BY TaskCount, Zenon DEF Init
  <2>2. topics \subseteq Route
    BY IngestAssumption, Zenon DEF Init
  <2> QED
    BY <2>1, <2>2, Bounds DEF Init, WorldTyped
<1>2. CatTyped
  BY IngestAssumption, SMTT(30) DEF Init, CatTyped
<1>3. TasksTyped
  BY EmptyTyped, Bounds, SMTT(30) DEF Init, TasksTyped, Labels
<1>4. ASSUME NEW t \in Task PROVE TaskOK(t)
  <2>1. pc[t] = "down" /\ ranges[t] = NoRanges /\ rows[t] = {}
    BY Zenon DEF Init
  <2>2. \A p \in Partition : NoRanges[p] = NoRange
    BY Zenon DEF NoRanges
  <2> QED
    BY <2>1, <2>2, EmptyKeeps, ZenonT(30) DEF TaskOK, Publishing
<1>5. TableOK
  <2>1. NothingTwice
    BY IngestAssumption, Zenon DEF Init, NothingTwice
  <2>2. NothingLost
    <3>1. \A m \in Log : m.part \in Partition /\ m.off \in Nat
      BY MessageFacts, Zenon
    <3>2. \A p \in Partition : offsets[p] = 0
      BY Zenon DEF Init
    <3>3. \A m \in Log : ~(m.off < offsets[m.part])
      BY <3>1, <3>2
    <3> QED
      BY <3>3, Zenon DEF NothingLost
  <2> QED
    BY <2>1, <2>2, ZenonT(30) DEF Init, TableOK
<1> QED
  BY <1>1, <1>2, <1>3, <1>4, <1>5, Typed, Zenon DEF IngestInv

(* What RouteIngest::run, flush and commit_with_offsets hold together, for  *)
(* any processes, routes and logs: a task that has nothing in flight has    *)
(* everything before its position in its buffer or in the catalog, a batch  *)
(* on its way, with or without a client, starts where the catalog has       *)
(* everything before it, and an identity that was applied is behind the     *)
(* stored offsets.                                                          *)
THEOREM Ingesting == Spec => []IngestInv
<1>1. IngestInv /\ [Next]_vars => IngestInv'
  <2> SUFFICES ASSUME IngestInv, [Next]_vars PROVE IngestInv'
    BY Zenon
  <2>1. ASSUME NEW w \in Process, Launch(w) PROVE IngestInv'
    BY <2>1, LaunchKept, Zenon
  <2>2. ASSUME NEW w \in Process, Fails(w) \/ Exit(w) PROVE IngestInv'
    BY <2>2, DeathsKept, Zenon
  <2>3. ASSUME NEW w \in Process, Shutdown(w) PROVE IngestInv'
    BY <2>3, WorldKept, Zenon
  <2>4. ASSUME NEW t \in Task, TaskStep(t) PROVE IngestInv'
    <3>1. CASE LoadOffsets(t) \/ Assign(t) \/ Tick(t) \/ SeeShutdown(t) \/ Defer(t) \/ Drain(t)
      BY <3>1, LoopKept, Zenon
    <3>2. CASE NoTopic(t) \/ EncodeFails(t) \/ Race(t)
      BY <3>2, DeathsKept, Zenon
    <3>3. CASE \E p \in Partition : Recv(t, p)
      BY <3>3, RecvKept, Zenon
    <3>4. CASE Publish(t)
      BY <3>4, PublishKept, Zenon
    <3> QED
      BY <2>4, <3>1, <3>2, <3>3, <3>4, Zenon DEF TaskStep
  <2>5. ASSUME NEW x \in astray, StrayCommits(x) \/ StrayEnds(x) PROVE IngestInv'
    BY <2>5, StrayKept, Zenon
  <2>6. CASE Clock \/ \E r \in Route : CreateTopic(r)
    BY <2>6, WorldKept, Zenon
  <2>7. ASSUME NEW r \in Route, NEW d \in Days(Log), Compact(r, d) PROVE IngestInv'
    BY <2>7, CompactKept, Zenon
  <2>8. CASE UNCHANGED vars
    <3>1. UNCHANGED <<offsets, parts, applied, astray, pc, pos, ranges, rows, deferred, batch,
                      now, topics, stopping, remaining, faults>>
      BY <2>8, Zenon DEF vars, catVars, taskVars, bufVars, procVars
    <3>2. TypeOK /\ WorldTyped /\ CatTyped /\ TableOK
      BY Typed, Zenon DEF IngestInv
    <3>3. CatTyped' /\ WorldTyped' /\ TableOK' /\ \A m \in Log : Taken(m) => Taken(m)'
      BY <3>1, <3>2, TableStays, Zenon DEF CatTyped, WorldTyped
    <3> QED
      BY <3>1, <3>3, NoTask, Zenon
  <2> QED
    BY <2>1, <2>2, <2>3, <2>4, <2>5, <2>6, <2>7, <2>8, Zenon DEF Next
<1> QED
  BY <1>1, InitIngest, PTL DEF Spec

(* buffer_message, flush and commit_with_offsets: no message lies in two    *)
(* parts, none beyond the stored offset, and no row that had to be kept is  *)
(* missing below it.                                                        *)
THEOREM IngestedOnce == Spec => []ExactlyOnce
<1>1. IngestInv => ExactlyOnce
  BY Zenon DEF IngestInv, TableOK, ExactlyOnce
<1> QED
  BY <1>1, Ingesting, PTL

(* flush_decision: only a deferred flush lets a buffer pass its size, and   *)
(* never twice its size.                                                    *)
THEOREM BufferHeld == Spec => []BufferBounded
<1>1. IngestInv => BufferBounded
  BY ZenonT(30) DEF IngestInv, TaskOK, BufferBounded, Held
<1> QED
  BY <1>1, Ingesting, PTL

(* RouteIngest::run: what a task consumed before a clean stop is committed. *)
THEOREM NothingStranded == Spec => []CleanStopStrandsNothing
<1>1. IngestInv => CleanStopStrandsNothing
  <2> SUFFICES ASSUME IngestInv, NEW t \in Task, pc[t] = "stopped", NEW p \in PartitionsOf(t),
                      NEW m \in Log, m.part = p, m.off < pos[t][p]
               PROVE  m.off < offsets[p]
    BY Zenon DEF CleanStopStrandsNothing
  <2>1. TaskOK(t) /\ ranges[t] = NoRanges
    BY ZenonT(30) DEF IngestInv, TaskOK, Idle
  <2>2. Taken(m) \/ Within(NoRanges, m)
    BY <2>1, ZenonT(30) DEF TaskOK, Publishing
  <2> QED
    BY <2>2, NothingWithin, Zenon DEF Taken
<1> QED
  BY <1>1, Ingesting, PTL
=============================================================================
