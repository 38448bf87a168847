----------------------------- MODULE ColumnLife ------------------------------
(***************************************************************************)
(* What becomes of a row's values: the two write paths (JSON rows through   *)
(* ingest, SQL results through a pipeline) split, fill, sort and encode     *)
(* batches; rewrites read the files back and write them again, under a      *)
(* schema that may have gained a column since.                              *)
(*                                                                          *)
(* A value is an integer or Null.  An expression adds up the columns it     *)
(* refers to and, if it calls now(), the clock; it is NULL if a reference   *)
(* is.  Every row carries an identity in the stored column `id`.            *)
(***************************************************************************)
EXTENDS Integers, Sequences, FiniteSets, SequencesExt

CONSTANTS
    Tables,       \* [specs, added, sortKey, partitions] records; a column spec is [name, kind
                  \* ("stored", "default", "materialized", "alias"), refs, now, nullable]
    Outputs,      \* what a pipeline can produce: sequences of [cols, rows] batches
    JsonFlushes,  \* what ingest can flush: sequences of rows of one day
    PackingKey, TsColumn,
    MaxBytes,     \* budget of a write, in values
    MaxWrites, MaxRewrites, MaxClock,   \* bounds
    Null

VARIABLES
    table,      \* the table; `specs` grows when it is widened
    widened,    \* the added column is in the schema
    clock,
    files,      \* live files: [cols, rows, partition, min, max]
    accepted,   \* identities of the rows accepted so far
    kept,       \* identity -> the values as they were first stored (ghost)
    writes, rewrites

clVars == <<table, widened, clock, files, accepted, kept, writes, rewrites>>

Init ==
    /\ table \in Tables
    /\ widened = FALSE /\ clock = 0 /\ files = {} /\ accepted = {} /\ kept = <<>>
    /\ writes = 0 /\ rewrites = 0
-----------------------------------------------------------------------------
(* Schemas. *)

NamesOf(specs) == {specs[i].name : i \in DOMAIN specs}
Where(specs, kinds) == SelectSeq(specs, LAMBDA s : s.kind \in kinds)
PhysicalSchema(specs) == Where(specs, {"stored", "default", "materialized"})

Evaluate(s, row, t) ==
    IF \E c \in s.refs : row[c] = Null THEN Null
    ELSE FoldLeft(LAMBDA n, c : n + row[c], IF s.now THEN t ELSE 0, SetToSeq(s.refs))

\* In the order of the specs, each against the columns filled so far.
ApplyDefaultsAndMaterialized(row, specs, t) ==
    FoldLeft(LAMBDA r, s :
                 IF s.kind = "materialized" \/ (s.kind = "default" /\ r[s.name] = Null)
                 THEN [r EXCEPT ![s.name] = Evaluate(s, r, t)] ELSE r,
             row, specs)

\* A faulty variant: a rewrite fills whatever is NULL and computes afresh.
ApplyAgain(row, specs, fileCols, t) == ApplyDefaultsAndMaterialized(row, specs, t)
\* Only what the file predates: a stored NULL stays one.
ApplyMissing(row, specs, fileCols, t) ==
    ApplyDefaultsAndMaterialized(row, SelectSeq(specs, LAMBDA s : s.name \notin fileCols), t)

Adapt(row, specs) ==
    [c \in NamesOf(PhysicalSchema(specs)) |-> IF c \in DOMAIN row THEN row[c] ELSE Null]
-----------------------------------------------------------------------------
(* Sorting: ascending, NULLs first. *)

Before(v, w) == w # Null /\ (v = Null \/ v < w)
RowBefore(r, q, sortKey) ==
    \E i \in DOMAIN sortKey :
        /\ \A j \in 1 .. i - 1 : r[sortKey[j]] = q[sortKey[j]]
        /\ Before(r[sortKey[i]], q[sortKey[i]])
SortBatch(rows, sortKey) == SortSeq(rows, LAMBDA r, q : RowBefore(r, q, sortKey))

ValidSortKey(specs, sortKey) ==
    /\ sortKey # <<>> /\ sortKey[1] = PackingKey
    /\ ToSet(sortKey) \subseteq NamesOf(PhysicalSchema(specs))

Least(S) == CHOOSE v \in S : \A w \in S : v <= w
Greatest(S) == CHOOSE v \in S : \A w \in S : w <= v

\* encode_batch: the sorted rows and their key range.
EncodeBatch(rows, specs, partition) ==
    LET keys == {rows[i][PackingKey] : i \in DOMAIN rows} IN
    [cols |-> NamesOf(PhysicalSchema(specs)), rows |-> rows, partition |-> partition,
     min |-> Least(keys), max |-> Greatest(keys)]
-----------------------------------------------------------------------------
(* The SQL path. *)

\* What a batch of this shape may not be written with.
OutputRefused(cols) ==
    LET specs == table.specs
        required == ToSet(table.sortKey) \cup table.partitions \cup {PackingKey}
    IN
    \/ \E c \in cols : c \notin NamesOf(Where(specs, {"stored", "default"}))
    \/ \E s \in ToSet(Where(specs, {"stored"})) :
          (~s.nullable \/ s.name \in required) /\ s.name \notin cols
    \/ ~ValidSortKey(specs, table.sortKey)
    \/ ~(required \subseteq NamesOf(PhysicalSchema(specs)))

Filled(batch) ==
    [i \in DOMAIN batch.rows |->
        ApplyDefaultsAndMaterialized(Adapt(Restrict(batch.rows[i], batch.cols), table.specs),
                                     table.specs, clock)]

Size(batches) == FoldLeft(LAMBDA n, b : n + Len(b.rows) * Cardinality(b.cols), 0, batches)
FilledSize(batches) ==
    FoldLeft(LAMBDA n, b : n + Len(b.rows) * Len(PhysicalSchema(table.specs)), 0, batches)

RowsRefused(rows) ==
    \E i \in DOMAIN rows :
        \/ rows[i][PackingKey] = Null
        \/ \E s \in ToSet(PhysicalSchema(table.specs)) : ~s.nullable /\ rows[i][s.name] = Null

\* batches_to_l0_items as a whole: the rows, or nothing.
SqlRefused(batches) ==
    \/ \E b \in ToSet(batches) : OutputRefused(b.cols)
    \/ Size(batches) > MaxBytes \/ FilledSize(batches) > MaxBytes
    \/ \E b \in ToSet(batches) : RowsRefused(Filled(b))

PartitionOf(row) == Restrict(row, table.partitions)

\* One item for each combination of partition values, sorted.
Items(batches) ==
    LET all == FlattenSeq([b \in DOMAIN batches |-> Filled(batches[b])])
        item(p) == EncodeBatch(SortBatch(SelectSeq(all, LAMBDA r : PartitionOf(r) = p), table.sortKey),
                               table.specs, p)
    IN  {item(PartitionOf(all[i])) : i \in DOMAIN all}

RowsIn(fs) == UNION {ToSet(f.rows) : f \in fs}

\* The values a file gives a row for the first time are the row's from then on.
Keep(fs) ==
    LET row(id) == CHOOSE r \in RowsIn(fs) : r.id = id
        ids == {r.id : r \in RowsIn(fs)}
    IN  kept' = [id \in DOMAIN kept \cup ids |->
                    IF id \notin DOMAIN kept THEN row(id)
                    ELSE IF id \in ids THEN kept[id] @@ row(id) ELSE kept[id]]

Publish(items) ==
    /\ files' = files \cup items
    /\ accepted' = accepted \cup {r.id : r \in RowsIn(items)}
    /\ Keep(items)

Fresh(ids) == ids \cap accepted = {}

\* An empty result publishes no item; a refused one nothing at all.
SqlWrite ==
    /\ writes < MaxWrites
    /\ \E batches \in Outputs :
          /\ Fresh(UNION {{b.rows[i].id : i \in DOMAIN b.rows} : b \in ToSet(batches)})
          /\ IF SqlRefused(batches) THEN UNCHANGED <<files, accepted, kept>>
             ELSE Publish(Items(batches))
    /\ writes' = writes + 1
    /\ UNCHANGED <<table, widened, clock, rewrites>>
-----------------------------------------------------------------------------
(* The JSON path: one day's rows, one file. *)

\* The packing key and the timestamp must be integers; the decoder refuses a
\* missing value of a column that is not nullable before any default is filled.
JsonRefused(rows) ==
    \/ rows = <<>>
    \/ \E i \in DOMAIN rows : \E c \in {PackingKey, TsColumn} :
          c \notin DOMAIN rows[i] \/ rows[i][c] = Null
    \/ \E i \in DOMAIN rows : RowsRefused(<<Adapt(rows[i], table.specs)>>)

EncodeRows(rows) ==
    LET filled == [i \in DOMAIN rows |->
                      ApplyDefaultsAndMaterialized(Adapt(rows[i], table.specs), table.specs, clock)]
    IN  EncodeBatch(SortBatch(filled, table.sortKey), table.specs, <<>>)

JsonWrite ==
    /\ writes < MaxWrites
    /\ table.partitions = {}
    /\ \E rows \in JsonFlushes :
          /\ Fresh({rows[i].id : i \in DOMAIN rows})
          /\ IF JsonRefused(rows) THEN UNCHANGED <<files, accepted, kept>>
             ELSE Publish({EncodeRows(rows)})
    /\ writes' = writes + 1
    /\ UNCHANGED <<table, widened, clock, rewrites>>
-----------------------------------------------------------------------------
(* Rewrites. *)

\* part_streams: adapted and backfilled file by file, before anything is merged.
Streamed(f) ==
    [i \in DOMAIN f.rows |-> ApplyMissing(Adapt(f.rows[i], table.specs), table.specs, f.cols, clock)]

Rewrite ==
    /\ rewrites < MaxRewrites
    /\ \E fs \in SUBSET files :
          /\ fs # {} /\ \A f, g \in fs : f.partition = g.partition
          /\ LET inputs == SetToSeq(fs)
                 rows == FlattenSeq([i \in DOMAIN inputs |-> Streamed(inputs[i])])
                 output == EncodeBatch(SortBatch(rows, table.sortKey), table.specs,
                                       (CHOOSE f \in fs : TRUE).partition)
             IN  /\ files' = (files \ fs) \cup {output}
                 /\ Keep({output})
    /\ rewrites' = rewrites + 1
    /\ UNCHANGED <<table, widened, clock, accepted, writes>>

\* Additive evolution, which the readers provide for; nothing in the catalog
\* changes a schema yet.
Widen ==
    /\ ~widened
    /\ widened' = TRUE
    /\ table' = [table EXCEPT !.specs = @ \o table.added]
    /\ UNCHANGED <<clock, files, accepted, kept, writes, rewrites>>

Tick ==
    /\ clock < MaxClock
    /\ clock' = clock + 1
    /\ UNCHANGED <<table, widened, files, accepted, kept, writes, rewrites>>

Next == SqlWrite \/ JsonWrite \/ Rewrite \/ Widen \/ Tick

Spec == Init /\ [][Next]_clVars
-----------------------------------------------------------------------------
(* Properties. *)

\* A column is computed after the columns it refers to.
InSpecOrder == \A i, j \in DOMAIN table.specs :
    table.specs[j].name \in table.specs[i].refs /\ table.specs[j].kind # "stored" => j < i

\* Every accepted row is in exactly one file, in the partition of its values,
\* in a file sorted by the sort key whose key range is exact; a column that was
\* once stored for a row keeps its value through every rewrite, a NULL and a
\* clock value too; and a materialized value that depends on no clock is its
\* expression over the values stored with it (apply_defaults_and_materialized,
\* apply_missing_defaults_and_materialized, batches_to_l0_items, encode_rows,
\* part_streams: "Stored values survive rewrites even when their original
\* expression used a clock or random function").
StoredOnceForAll ==
    /\ \A id \in accepted :
          Cardinality(UNION {{<<f, i>> : i \in {n \in DOMAIN f.rows : f.rows[n].id = id}} : f \in files}) = 1
    /\ \A f \in files :
          /\ \A i \in 1 .. Len(f.rows) - 1 : ~RowBefore(f.rows[i + 1], f.rows[i], table.sortKey)
          /\ \E i, j \in DOMAIN f.rows : f.rows[i][PackingKey] = f.min /\ f.rows[j][PackingKey] = f.max
          /\ \A i \in DOMAIN f.rows :
                LET r == f.rows[i] IN
                /\ r.id \in accepted
                /\ f.min <= r[PackingKey] /\ r[PackingKey] <= f.max
                /\ table.partitions # {} => PartitionOf(r) = f.partition
                /\ \A c \in f.cols : r[c] = kept[r.id][c]
                /\ InSpecOrder => \A s \in ToSet(table.specs) :
                      s.kind = "materialized" /\ ~s.now /\ s.name \in f.cols /\ s.refs \subseteq f.cols =>
                          r[s.name] = Evaluate(s, r, 0)
=============================================================================
