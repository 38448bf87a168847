----------------------------- MODULE FixtureLoad -----------------------------
(***************************************************************************)
(* Loading synthetic fixtures into a lake and measuring what a compactor    *)
(* makes of them: ukiel-prod-load (materialized, catalog-only and           *)
(* compaction-input) and the wait-compacted and part-shape commands of      *)
(* ukiel-prod-bench, several at a time, each one catalog or store call at a *)
(* time, on local files that may change under them, with crashes, failing   *)
(* calls and a running compactor.                                           *)
(*                                                                          *)
(* A file's contents are the sequence of its row keys and the day they fall *)
(* in; a digest is taken to be the contents.                                *)
(***************************************************************************)
EXTENDS Integers, Sequences, FiniteSets, SequencesExt

CONSTANTS
    Job,
    Fixture,     \* fixture -> the files its manifest records, a sequence of contents
    Changed,     \* contents a local file may be replaced by
    Plans,       \* sets of commands run together: [cmd, fixture, label, keep]
    Faults,      \* bound: crashes, failed calls and changed files together
    None

VARIABLES
    wanted,      \* the commands of this behaviour
    disk,        \* fixture -> the contents of its local files
    tables,      \* hypertables: [label, id]
    parts,       \* live parts: [table, path, run, level, file, marker]
    store,       \* objects: path -> contents
    receipts,    \* compaction-input receipts: [label, table, fixture]
    job,         \* what each process is doing
    nextId, faults,
    reports,     \* part-shape reports: [fixture, parts, rows]
    cleaned      \* labels whose rows a cleanup has deleted (ghost)

fxVars == <<wanted, disk, tables, parts, store, receipts, job, nextId, faults, reports, cleaned>>
lakeVars == <<tables, parts, store, nextId, cleaned>>

Idle == [pc |-> "idle"]

Init ==
    /\ wanted \in Plans
    /\ disk = Fixture
    /\ tables = {} /\ parts = {} /\ store = <<>> /\ receipts = {} /\ reports = {} /\ cleaned = {}
    /\ job = [j \in Job |-> Idle]
    /\ nextId = 1 /\ faults = 0

Named(label) == {t \in tables : t.label = label}
Exists(id) == \E t \in tables : t.id = id
LiveOf(id) == {p \in parts : p.table = id}
RowsOf(ps) == LET s == SetToSeq(ps) IN FlattenSeq([i \in DOMAIN s |-> s[i].file.rows])
Times(s, k) == Cardinality({i \in DOMAIN s : s[i] = k})
SameRows(s, t) == \A k \in ToSet(s) \cup ToSet(t) : Times(s, k) = Times(t, k)
AllRows(f) == FlattenSeq([i \in DOMAIN Fixture[f] |-> Fixture[f][i].rows])

At(j, pc) == job[j].pc = pc
Goes(j, pc) == job' = [job EXCEPT ![j].pc = pc]
Only(j, pc) == Goes(j, pc) /\ UNCHANGED <<wanted, disk, lakeVars, receipts, faults, reports>>
CatalogOnly(j) == job[j].call.cmd = "catalog-only"

\* Where a command goes when one of its calls fails: catalog-only cleans up.
Refused(j) == IF CatalogOnly(j) THEN "clean parts" ELSE "failed"

CallFails(j) ==
    /\ job[j].pc \in {"furnish", "intend", "put", "commit", "census", "clean tables"}
    /\ faults < Faults /\ faults' = faults + 1
    /\ Goes(j, IF At(j, "clean tables") THEN "failed" ELSE Refused(j))
    /\ UNCHANGED <<wanted, disk, lakeVars, receipts, reports>>

\* The process dies where it is.
Crash(j) ==
    /\ job[j].pc \notin {"idle", "done", "failed"}
    /\ faults < Faults /\ faults' = faults + 1
    /\ Goes(j, "failed")
    /\ UNCHANGED <<wanted, disk, lakeVars, receipts, reports>>

FileChanges ==
    /\ faults < Faults /\ faults' = faults + 1
    /\ \E f \in DOMAIN disk : \E i \in DOMAIN disk[f] : \E c \in Changed :
          disk' = [disk EXCEPT ![f][i] = c]
    /\ UNCHANGED <<wanted, lakeVars, receipts, job, reports>>
-----------------------------------------------------------------------------
(* ukiel-prod-load. *)

\* compaction-input verifies every staged file before it touches a service, the
\* other loaders the manifest and the topology only.
Verified(c) == c.cmd = "compaction-input" => disk[c.fixture] = Fixture[c.fixture]

Start(j) ==
    /\ job[j] = Idle
    /\ \E c \in wanted :
          /\ \A k \in Job : job[k] # Idle => job[k].call # c
          /\ job' = [job EXCEPT ![j] =
                [pc |-> IF c.cmd \in {"wait", "shape"} THEN "find"
                        ELSE IF Verified(c) THEN "fresh" ELSE "failed",
                 call |-> c, table |-> None, next |-> 1, bytes |-> None, metas |-> {}, seen |-> {}]]
    /\ UNCHANGED <<wanted, disk, lakeVars, receipts, faults, reports>>

require_fresh_label(j) ==
    /\ At(j, "fresh")
    /\ Only(j, IF Named(job[j].call.label) = {} THEN "create" ELSE "failed")

\* The name is unique; the loser of a race fails here.
create_hypertable(j) ==
    LET label == job[j].call.label IN
    /\ At(j, "create")
    /\ \/ /\ Named(label) # {}
          /\ Only(j, Refused(j))
       \/ /\ Named(label) = {}
          /\ tables' = tables \cup {[label |-> label, id |-> nextId]}
          /\ nextId' = nextId + 1
          /\ job' = [job EXCEPT ![j].table = nextId, ![j].pc = "furnish"]
          /\ UNCHANGED <<wanted, disk, parts, store, cleaned, receipts, faults, reports>>

\* Placement and the tenants' logical tables.
Furnish(j) ==
    /\ At(j, "furnish")
    /\ Only(j, IF ~Exists(job[j].table) THEN Refused(j)
               ELSE IF CatalogOnly(j) THEN "commit" ELSE "intend")

FixtureOf(j) == Fixture[job[j].call.fixture]
Path(j) == <<job[j].call.label, job[j].next>>

\* A faulty variant: the file was verified when the command started.
DigestVerifiedBefore(bytes, recorded) == TRUE
DigestHolds(bytes, recorded) == bytes = recorded

\* Read the file, check its digest again, record the upload intent.
Intend(j) ==
    LET i == job[j].next
        bytes == disk[job[j].call.fixture][i]
    IN
    /\ At(j, "intend")
    /\ \/ /\ ~(DigestHolds(bytes, FixtureOf(j)[i]) /\ Exists(job[j].table))
          /\ Only(j, "failed")
       \/ /\ DigestHolds(bytes, FixtureOf(j)[i]) /\ Exists(job[j].table)
          /\ job' = [job EXCEPT ![j].bytes = bytes, ![j].pc = "put"]
          /\ UNCHANGED <<wanted, disk, lakeVars, receipts, faults, reports>>

\* Rows and key range, read back from the file's own bytes.
read_part_facts(bytes) ==
    [rows |-> Len(bytes.rows),
     key_min |-> Min(ToSet(bytes.rows)), key_max |-> Max(ToSet(bytes.rows))]

part_meta(j, path, bytes, level) ==
    [table |-> job[j].table, path |-> path, run |-> None, level |-> level, file |-> bytes,
     marker |-> IF level = 0 THEN job[j].call.fixture ELSE None]

\* compaction-input loads level-0 files and commits each on its own;
\* materialized uploads all its files and commits them once.
Level(j) == IF job[j].call.cmd = "compaction-input" THEN 0 ELSE 1
CommitsEach(j) == Level(j) = 0

Put(j) ==
    LET i == job[j].next
        bytes == job[j].bytes
        last == i = Len(FixtureOf(j))
        ok == read_part_facts(bytes) = read_part_facts(FixtureOf(j)[i])
    IN
    /\ At(j, "put")
    /\ store' = [p \in DOMAIN store \cup {Path(j)} |-> IF p = Path(j) THEN bytes ELSE store[p]]
    /\ job' = [job EXCEPT
          ![j].metas = IF ok THEN @ \cup {part_meta(j, Path(j), bytes, Level(j))} ELSE @,
          ![j].next = @ + 1,
          ![j].pc = IF ~ok THEN "failed" ELSE IF CommitsEach(j) \/ last THEN "commit" ELSE "intend"]
    /\ UNCHANGED <<wanted, disk, tables, parts, nextId, cleaned, receipts, faults, reports>>

\* The rows of the topology, with paths nothing can open.
part_rows(j) ==
    {part_meta(j, <<"catalog-only", i>>, FixtureOf(j)[i], 1) : i \in DOMAIN FixtureOf(j)}

\* One commit is one run. A hypertable that was deleted meanwhile refuses it.
Commit(j) ==
    LET new == IF CatalogOnly(j) THEN part_rows(j) ELSE job[j].metas IN
    /\ At(j, "commit")
    /\ \/ /\ ~Exists(job[j].table)
          /\ Only(j, Refused(j))
       \/ /\ Exists(job[j].table)
          /\ parts' = parts \cup {[p EXCEPT !.run = nextId] : p \in new}
          /\ nextId' = nextId + 1
          /\ job' = [job EXCEPT ![j].metas = {},
                ![j].pc = IF CommitsEach(j) /\ job[j].next <= Len(FixtureOf(j)) THEN "intend"
                          ELSE IF CommitsEach(j) THEN "receipt" ELSE "census"]
          /\ UNCHANGED <<wanted, disk, tables, store, cleaned, receipts, faults, reports>>

\* The receipt is published only after the last commit.
write_receipt(j) ==
    /\ At(j, "receipt")
    /\ receipts' = {r \in receipts : r.label # job[j].call.label} \cup
          {[label |-> job[j].call.label, table |-> job[j].table, fixture |-> job[j].call.fixture]}
    /\ Goes(j, "done")
    /\ UNCHANGED <<wanted, disk, lakeVars, faults, reports>>

\* materialized compares parts, rows and bytes with the manifest; catalog-only
\* looks for every tenant's parts.
Census(j) ==
    LET live == LiveOf(job[j].table)
        agrees == /\ Cardinality(live) = Len(FixtureOf(j))
                  /\ Len(RowsOf(live)) = Len(AllRows(job[j].call.fixture))
    IN
    /\ At(j, "census")
    /\ Only(j, IF ~agrees THEN Refused(j)
               ELSE IF CatalogOnly(j) /\ ~job[j].call.keep THEN "clean parts" ELSE "done")

\* The cleanup goes by name, one autocommitted DELETE at a time; the last ones
\* fail while rows still refer to the hypertable.
CleanParts(j) ==
    LET ids == {t.id : t \in Named(job[j].call.label)} IN
    /\ At(j, "clean parts")
    /\ parts' = {p \in parts : p.table \notin ids}
    /\ cleaned' = cleaned \cup {job[j].call.label}
    /\ Goes(j, "clean tables")
    /\ UNCHANGED <<wanted, disk, tables, store, nextId, receipts, faults, reports>>

CleanTables(j) ==
    LET doomed == Named(job[j].call.label) IN
    /\ At(j, "clean tables")
    /\ \/ /\ \E t \in doomed : LiveOf(t.id) # {}
          /\ Only(j, "failed")
       \/ /\ \A t \in doomed : LiveOf(t.id) = {}
          /\ tables' = tables \ doomed
          /\ Goes(j, "done")
          /\ UNCHANGED <<wanted, disk, parts, store, nextId, cleaned, receipts, faults, reports>>
-----------------------------------------------------------------------------
(* The compactor, which merges runs of one partition; its own model is Ladder. *)

Partition(p) == <<p.marker, p.file.day>>
Partitions(ps) == {Partition(p) : p \in ps}
Runs(ps, v) == {p.run : p \in {q \in ps : Partition(q) = v}}

Sorted(rows) == SortSeq(rows, LAMBDA a, b : a < b)

Compact ==
    \E id \in {t.id : t \in tables} : \E v \in Partitions(LiveOf(id)) :
    \E runs \in SUBSET Runs(LiveOf(id), v) :
       LET old == {p \in LiveOf(id) : Partition(p) = v /\ p.run \in runs}
           path == <<"merged", nextId>>
           file == [rows |-> Sorted(RowsOf(old)), day |-> v[2]]
           new == [table |-> id, path |-> path, run |-> nextId, level |-> 1, file |-> file,
                   marker |-> v[1]]
       IN
       /\ Cardinality(runs) >= 2
       /\ parts' = (parts \ old) \cup {new}
       /\ store' = [p \in DOMAIN store \cup {path} |-> IF p = path THEN file ELSE store[p]]
       /\ nextId' = nextId + 1
       /\ UNCHANGED <<wanted, disk, tables, cleaned, receipts, job, faults, reports>>
-----------------------------------------------------------------------------
(* ukiel-prod-bench. *)

\* The load the receipt names, under its name and its id.
find_loaded(j) ==
    /\ At(j, "find")
    /\ \E r \in receipts :
          /\ r.label = job[j].call.label
          /\ \/ /\ \E t \in Named(r.label) : t.id = r.table
                /\ job' = [job EXCEPT ![j].table = r.table, ![j].call.fixture = r.fixture,
                              ![j].pc = "observe"]
             \/ /\ ~ \E t \in Named(r.label) : t.id = r.table
                /\ Goes(j, "failed")
    /\ UNCHANGED <<wanted, disk, lakeVars, receipts, faults, reports>>

AllMarked(ps, f) == \A p \in ps : p.marker = f

Settled(ps) ==
    /\ \A p \in ps : p.level > 0
    /\ \A v \in Partitions(ps) : Cardinality(Runs(ps, v)) = 1

converged(prev, cur, f) ==
    /\ Settled(cur) /\ AllMarked(cur, f)
    /\ Len(RowsOf(cur)) = Len(AllRows(f))
    /\ prev = cur /\ cur # {}

\* wait-compacted polls until two polls agree or its time is up.
wait_compacted(j) ==
    LET live == LiveOf(job[j].table) IN
    /\ At(j, "observe") /\ job[j].call.cmd = "wait"
    /\ \/ /\ converged(job[j].seen, live, job[j].call.fixture)
          /\ Only(j, "done")
       \/ /\ ~converged(job[j].seen, live, job[j].call.fixture)
          /\ job' = [job EXCEPT ![j].seen = live]
          /\ UNCHANGED <<wanted, disk, lakeVars, receipts, faults, reports>>

WaitTimesOut(j) ==
    /\ At(j, "observe") /\ job[j].call.cmd = "wait"
    /\ ~converged(job[j].seen, LiveOf(job[j].table), job[j].call.fixture)
    /\ Only(j, "failed")

\* part-shape refuses a fixture that is not final or not marked.
ShapeObserve(j) ==
    LET live == LiveOf(job[j].table) IN
    /\ At(j, "observe") /\ job[j].call.cmd = "shape"
    /\ Only(j, IF Settled(live) /\ AllMarked(live, job[j].call.fixture) THEN "list" ELSE "failed")

\* The parts are listed again, after the check.
ShapeList(j) ==
    /\ At(j, "list")
    /\ job' = [job EXCEPT ![j].seen = LiveOf(job[j].table), ![j].metas = {}, ![j].pc = "scan"]
    /\ UNCHANGED <<wanted, disk, lakeVars, receipts, faults, reports>>

\* The packing-key column must not descend.
count_transitions(rows) == \A i \in 1 .. Len(rows) - 1 : rows[i] <= rows[i + 1]

\* One object: its order, its rows and its key range must be the catalog's.
scan_object(j) ==
    /\ At(j, "scan")
    /\ \E p \in job[j].seen :
          LET object == IF p.path \in DOMAIN store THEN store[p.path] ELSE None
              ok == /\ object # None
                    /\ count_transitions(object.rows)
                    /\ read_part_facts(object) = read_part_facts(p.file)
          IN
          /\ \A q \in job[j].metas : q.path # p.path
          /\ IF ok THEN job' = [job EXCEPT ![j].metas = @ \cup {[path |-> p.path, file |-> object]}]
             ELSE Goes(j, "failed")
    /\ UNCHANGED <<wanted, disk, lakeVars, receipts, faults, reports>>

\* A report only when the rows scanned are the rows staged.
build_report(j) ==
    LET seen == job[j].seen
        rows == RowsOf(job[j].metas)
        f == job[j].call.fixture
    IN
    /\ At(j, "scan")
    /\ Cardinality(job[j].metas) = Cardinality(seen)
    /\ \/ /\ ~SameRows(rows, AllRows(f))
          /\ Only(j, "failed")
       \/ /\ SameRows(rows, AllRows(f))
          /\ reports' = reports \cup {[fixture |-> f, parts |-> seen]}
          /\ Goes(j, "done")
          /\ UNCHANGED <<wanted, disk, lakeVars, receipts, faults>>
-----------------------------------------------------------------------------
Step(j) ==
    \/ Start(j) \/ require_fresh_label(j) \/ create_hypertable(j) \/ Furnish(j) \/ Intend(j)
    \/ Put(j) \/ Commit(j) \/ write_receipt(j) \/ Census(j) \/ CleanParts(j) \/ CleanTables(j)
    \/ find_loaded(j) \/ wait_compacted(j) \/ WaitTimesOut(j) \/ ShapeObserve(j) \/ ShapeList(j)
    \/ scan_object(j) \/ build_report(j) \/ CallFails(j) \/ Crash(j)

Next == Compact \/ FileChanges \/ \E j \in Job : Step(j)

Spec == Init /\ [][Next]_fxVars
-----------------------------------------------------------------------------
Holds(ps, f) == SameRows(RowsOf(ps), AllRows(f))
Untouched(label) == label \notin cleaned
Finished(cmd) == {j \in Job : job[j].pc = "done" /\ job[j].call.cmd = cmd}

(* What the tools assert of a fixture is so, through races for a label, files
   replaced under a loader, failures and a compactor at work: a receipt's
   hypertable, and a materialized load, hold the fixture's rows and no others;
   a fixture that wait-compacted called converged no longer changes; and a
   part-shape report describes one run per partition holding exactly the staged
   rows, though its parts were listed after the check. Where a catalog-only
   cleanup went by the same label only the reports are claimed. *)
MeasuredIsLoaded ==
    /\ \A r \in receipts : Untouched(r.label) =>
          Holds(LiveOf(r.table), r.fixture) /\ AllMarked(LiveOf(r.table), r.fixture)
    /\ \A j \in Finished("materialized") : Untouched(job[j].call.label) =>
          /\ Holds(LiveOf(job[j].table), job[j].call.fixture)
          /\ \A p \in LiveOf(job[j].table) : p.path \in DOMAIN store /\ store[p.path] = p.file
    /\ \A j \in Finished("wait") : Untouched(job[j].call.label) =>
          LiveOf(job[j].table) = job[j].seen
    /\ \A r \in reports : Settled(r.parts) /\ Holds(r.parts, r.fixture)
=============================================================================
