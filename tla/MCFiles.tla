------------------------------- MODULE MCFiles -------------------------------
(***************************************************************************)
(* Everything about data files, on small instances: what becomes of a row's *)
(* values, the merge that writes them, the identities of the commits that   *)
(* publish them, the queries that read them, the indexes that prune them,   *)
(* the fingerprints that compare them, and the tools that load, freeze,     *)
(* rewrite and measure them.                                                *)
(* The parts do not share state; each behaviour studies one of them, and    *)
(* the variables of the others keep a value without meaning.                *)
(***************************************************************************)
EXTENDS Rewrite, TLC

CONSTANTS
    TopByte, Variants, Specs, Predicates,
    Dir, Job, Receipt, Late, LocalFiles, Baseline, Deltas, Narrow, Scenarios,
    Proc, Artifact, Kind, Recorded, Damage, Query, Plans, Name, Samples, Worlds,
    Base, Word, Kilo, Cases,
    SparseChunks, Percent, Artifacts,
    Tables, Outputs, JsonFlushes, PackingKey, TsColumn, MaxBytes, MaxWrites, MaxRewrites, MaxClock,
    Attempts,
    Loader, Fixture, Changed, LoadPlans, Faults,
    Request, Asks, Histories, Physical, Alias, Capacity, Turns,
    snap, reco, child, r1, s1, o1, o2, o3

VARIABLES
    studied,
    variant, published, payload, skip, built, build, measured, bound, blob,
    world, live, object, lastId, out, tmp, job, torn, rotted, crashes,
    setting, disk, resident, proc, evidence, bucket, launches, faults,
    case, todo, acc, refused,
    files, fraction, plan, ranges, ordinals, local,
    table, widened, clock, written, accepted, kept, writes, rewrites,
    attempts, stored, applied, reply,
    wanted, staged, hypertables, parts, store, receipts, loader, nextId, mishaps, reports, cleaned,
    commits, tables, catalog, storeUp, turns, dead, reaped, footers, ask, call, lived

skipVars == <<variant, published, payload, skip, built, build, measured, bound, blob>>
labVars == <<world, live, object, lastId, out, tmp, job, torn, rotted, crashes>>
benchVars == <<setting, disk, resident, proc, evidence, bucket, launches, faults>>
rfVars == <<case, todo, acc, refused>>
apVars == <<files, fraction, plan, ranges, ordinals, local>>
clVars == <<table, widened, clock, written, accepted, kept, writes, rewrites>>
idVars == <<attempts, stored, applied, reply>>
fxVars == <<wanted, staged, hypertables, parts, store, receipts, loader, nextId, mishaps, reports,
            cleaned>>
qsVars == <<commits, tables, catalog, storeUp, turns, dead, reaped, footers, ask, call, lived>>

Skip == INSTANCE SkipIndex
Lab == INSTANCE LabArtifacts
Bench == INSTANCE LabBench
Prints == INSTANCE RowFingerprint
Access == INSTANCE AccessPlans
Column == INSTANCE ColumnLife WITH files <- written
Ids == INSTANCE OperationIdentity
Fix == INSTANCE FixtureLoad WITH Job <- Loader, Plans <- LoadPlans, disk <- staged,
           tables <- hypertables, job <- loader, faults <- mishaps
Serve == INSTANCE QueryService

(* The merge. *)

\* Rows in sort order, a negative tenant and a NULL timestamp among them.
MCRows == {<<-1, 1>>, <<1, Null>>, <<1, 0>>, <<2, -2>>, <<2, 1>>}

\* Two input parts, sorted or not, of at most three and two rows.
MCInputs ==
    {<<a, b>> : a \in UNION {[1..n -> MCRows] : n \in 0..3},
                b \in UNION {[1..n -> MCRows] : n \in 0..2}}

MCKeys == {-1, 0, 1, 2}
MCMinInt == -2
MCTiers == <<1, 2>>
\* Probe bits with collisions: 0 is a false positive of {1, 2} in tier 2.
MCProbes == [t \in 1..2 |-> [k \in MCKeys |-> IF t = 1 THEN {k % 2} ELSE {k % 3, (k + 1) % 3}]]

\* Conjunctions a query can push down on the timestamp, its extremes included.
MCFilters ==
    {{}} \cup {{<<op, v>>} : op \in {"=", ">", ">=", "<", "<="}, v \in {-2, 0, 1}}
         \cup {{<<">", -2>>, <<"<", 1>>}, {<<">=", 0>>, <<"<", -2>>}, {<<">", 1>>, <<"<=", 0>>}}


(* The skip index. *)
MCBytes == UNION {[1..n -> 0..TopByte] : n \in 0..2}
Str(s) == <<"str", s>>
Int64V(i) == <<"int", i>>
MCStrs == {Str(s) : s \in MCBytes}
MCInts == {Int64V(i) : i \in {-1, 0, 1}}
MCGroups(vs) == {<<v>> : v \in vs \cup {Null}}
                \cup {SetToSeq(s) : s \in kSubset(2, vs)}
MCVariants ==
    << {<<g, <<Str(<<1, 0>>), Null>>>> : g \in MCGroups(MCStrs)}
           \cup {<<g, <<Int64V(1)>>>> : g \in MCGroups(MCInts)},
       {<< <<Str(<<1>>)>>, <<Str(<<0, 1>>)>> >>} >>
IndexSpec(kind, budget, len) == [kind |-> kind, budget |-> budget, len |-> len]
MCSpecs ==
    << {IndexSpec("zone_map", 0, 0), IndexSpec("value_set", 8, 0),
        IndexSpec("prefix_set", 64, 1), IndexSpec("prefix_set", 7, 2)},
       {IndexSpec("zone_map", 0, 0)} >>
MCRange == {Str(<<>>), Str(<<0, 1>>), Str(<<1, 1>>)}
MCPredicates ==
    {[op |-> "eq", v |-> v] : v \in MCStrs \cup {Int64V(-1), Int64V(1)}}
    \cup {[op |-> "in", vs |-> vs] : vs \in
             {{}, {Str(<<0>>), Int64V(1)}, {Str(<<1, 0>>), Str(<<1, 1>>)}}}
    \cup {[op |-> "range", lo |-> a, hi |-> b] : a, b \in MCRange}
    \cup {[op |-> "range", lo |-> a, hi |-> b] : a, b \in {Int64V(0), Int64V(1)}}
    \cup {[op |-> "prefix", p |-> p] : p \in MCBytes}

(* The laboratory: artifacts. *)
LabFile(r) == [rows |-> {r}, phys |-> "int64", 
               cfg |-> [p \in {"global.compression", "global.statistics"} |-> "default"]]
MCLocal == {<<LabFile(1)>>, <<LabFile(1), LabFile(4)>>}
MCBaseline == {"columns.c.dictionary" :> "off"}
MCDeltas ==
    {[allowed |-> {"columns.c.physical_type"}, changes |-> ("columns.c.physical_type" :> "int8")],
     [allowed |-> {"global.compression"},
      changes |-> ("global.compression" :> "zstd" @@ "columns.c.dictionary" :> "on")],
     [allowed |-> {"columns.c.dictionary"}, changes |-> ("columns.c.dictionary" :> "mistyped")]}
LabCall(t, s, d, r) == [tool |-> t, src |-> s, dst |-> d, replace |-> r]
\* A freeze over a lake that changes; a snapshot that is replaced or damaged
\* while it is rewritten; and the causal chain.
MCScenarios ==
    {[calls |-> {LabCall("from-ukiel", snap, snap, r) : r \in BOOLEAN},
      parts |-> 4, crashes |-> 1, rot |-> 0],
     [calls |-> {LabCall("from-ukiel", snap, snap, FALSE), LabCall("from-files", snap, snap, TRUE),
                 LabCall("run", snap, child, TRUE)},
      parts |-> 2, crashes |-> 1, rot |-> 1],
     [calls |-> {LabCall("from-ukiel", snap, snap, FALSE), LabCall("reconstruct", snap, reco, FALSE),
                 LabCall("vary", reco, child, FALSE)},
      parts |-> 2, crashes |-> 1, rot |-> 1]}

(* The laboratory: measurements and the evidence they leave. *)
MCKind == snap :> "snapshot" @@ child :> "variant" @@ reco :> "reconstruction"
MCRecorded ==
    snap :> << <<"x", "plain">>, <<"y", "plain">> >> @@ child :> << <<"x", "zstd">>, <<"y", "zstd">> >>
        @@ reco :> << <<"x", "one">>, <<"y", "one">> >>
MCDamage == {<<"z", "plain">>, <<"x", "other">>}
MCQuery == << [name |-> "q", ordered |-> FALSE, required |-> {}, rowset |-> FALSE],
              [name |-> "scan", ordered |-> TRUE, required |-> {"c"}, rowset |-> FALSE] >>
MCPlans == {[projects |-> {"c"}, aggregates |-> TRUE], [projects |-> {}, aggregates |-> TRUE]}
BenchCall(t, a, o) ==
    [tool |-> t, artifact |-> a, out |-> o, replace |-> FALSE, receipt |-> None, suite |-> s1,
     profile |-> "none", prefix |-> o]
\* Cache receipts and raw reads; suites and runs; two publications under one
\* prefix; and the other measuring tools.
MCWorlds ==
    {[calls |-> {[BenchCall("prepare", snap, r1) EXCEPT !.profile = "local-os-cold", !.replace = TRUE],
                 [BenchCall("prepare", snap, r1) EXCEPT !.profile = "local-os-warm"],
                 [BenchCall("read", snap, o1) EXCEPT !.receipt = r1],
                 [BenchCall("scan", snap, o2) EXCEPT !.receipt = r1]}, launches |-> 3, faults |-> 1],
     [calls |-> {BenchCall("compile", snap, s1), [BenchCall("compile", snap, s1) EXCEPT !.replace = TRUE],
                 BenchCall("run", child, o1), BenchCall("run", snap, o2),
                 BenchCall("census", child, o3)}, launches |-> 3, faults |-> 1],
     [calls |-> {[BenchCall("publish", snap, o1) EXCEPT !.prefix = o3],
                 [BenchCall("publish", child, o2) EXCEPT !.prefix = o3]}, launches |-> 3, faults |-> 1],
     [calls |-> {[BenchCall("publish", snap, o1) EXCEPT !.prefix = o3], BenchCall("write", reco, o2),
                 BenchCall("census", snap, r1)}, launches |-> 3, faults |-> 1]}

(* Fingerprints. *)
Batch(names, types, rows) == [names |-> names, types |-> types, rows |-> rows]
Case(version, declared, names, left, right) ==
    [version |-> version, declared |-> declared, names |-> names,
     left |-> left, right |-> right]
Texts == {<<>>, <<4>>, Null}
TextRows == {<<a, b>> : a \in Texts, b \in {<<>>, <<4>>}}
MCTextCases ==
    {Case("logical", <<"utf8", "utf8">>, <<"a", "b">>,
          <<Batch(<<"a", "b">>, <<"utf8", "utf8view">>, <<w, x>>)>>,
          <<Batch(<<"a", "b">>, <<"utf8", "utf8">>, <<y>>),
            Batch(<<"a", "b">>, <<"utf8view", "large_utf8">>, <<z>>)>>) :
        w \in TextRows, x \in TextRows, y \in TextRows, z \in TextRows}
Num == {-2, 0, 1, Null}
Timed == {<<"timestamp_ms", p>> : p \in {"int64", "ts_s", "ts_ms", "ts_us", "ts_ns", "utf8"}}
Whole == {<<"signed_int", "int8">>, <<"signed_int", "int64">>, <<"date_days", "date32">>,
          <<"date_days", "int64">>, <<"signed_int", "float32">>}
MCNumberCases ==
    UNION {{Case("logical", <<d[1]>>, <<"a">>,
             <<Batch(<<"a">>, <<"int64">>, <<<<w>>, <<x>>>>)>>,
             <<Batch(<<n>>, <<d[2]>>, <<<<y>>, <<z>>>>)>>) :
        w \in Num, x \in Num, y \in Num, z \in Num} : d \in Timed \cup Whole, n \in {"a"}}
Floats == {0, 4, 5, Null}
MCFloatCases ==
    {Case("logical", <<"float64", "boolean">>, <<"a", "b">>,
          <<Batch(<<"a", "b">>, <<"float64", "bool">>, <<<<w, 0>>>>)>>,
          <<Batch(n, <<"float64", "bool">>, <<<<x, 0>>>>)>>) :
        w \in Floats, x \in Floats, n \in {<<"a", "b">>, <<"b", "a">>}}
MCPhysicalCases ==
    UNION {{Case("physical", <<>>, <<>>,
          <<Batch(<<"a", "b">>, <<l, "bool">>, <<<<w, 0>>, <<x, 1>>>>)>>,
          <<Batch(<<"a", "b">>, <<r, "bool">>, <<<<y, 1>>>>),
            Batch(<<"a", "b">>, <<r, "bool">>, <<<<z, 0>>>>)>>) :
        w \in {0, 1, Null}, x \in {0, 1, Null}, y \in {0, 1, Null}, z \in {0, 1, Null}} :
      l \in {"int64", "float64"}, r \in {"int64", "float64", "int32"}}
MCCases == MCTextCases \cup MCNumberCases \cup MCFloatCases \cup MCPhysicalCases

(* Access plans. *)
File(b, g) == [bytes |-> b, groups |-> g]
MCArtifacts == {<<File(b, g), File(c, h)>> : b \in 0 .. 9, g \in {0, 1, 5, 11}, c \in {0, 7, 13}, h \in {0, 9, 10}}
               \cup {<<File(b, g)>> : b \in {0,1,20}, g \in 0..41}

(* A row's values. *)
ColumnSpec(name, kind, refs, now, nullable) ==
    [name |-> name, kind |-> kind, refs |-> refs, now |-> now, nullable |-> nullable]
Stored(n, nullable) == ColumnSpec(n, "stored", {}, FALSE, nullable)
Core == <<Stored("id", FALSE), Stored("k", FALSE), Stored("ts", TRUE), Stored("x", TRUE)>>
Filling == ColumnSpec("d", "default", {"x"}, TRUE, TRUE)
Summing == ColumnSpec("m", "materialized", {"d", "ts"}, FALSE, TRUE)
Stamp == ColumnSpec("n", "materialized", {}, TRUE, FALSE)
Added == <<ColumnSpec("e", "default", {"d"}, FALSE, TRUE),
           ColumnSpec("z", "alias", {"x"}, FALSE, TRUE)>>
TableOf(specs, key, by) == [specs |-> specs, added |-> Added, sortKey |-> key, partitions |-> by]
\* Expressions in order and out of order, a clock, and a partitioned table.
MCTables == {TableOf(Core \o <<Filling, Summing>>, <<"k", "ts">>, {}),
             TableOf(Core \o <<Summing, Filling>>, <<"k">>, {"x"}),
             TableOf(Core \o <<Filling, Stamp>>, <<"k", "d">>, {})}
Given(id, k, ts, x) == "id" :> id @@ "k" :> k @@ "ts" :> ts @@ "x" :> x
Plain == {"id", "k", "ts", "x"}
Produced(cols, rows) == [cols |-> cols, rows |-> rows]
\* Accepted, then refused: a NULL key, no key, a column that is not writable.
MCOutputs ==
    {<<>>,
     <<Produced(Plain, <<Given(1, 2, 1, 1), Given(2, 1, Null, Null)>>)>>,
     <<Produced(Plain, <<Given(3, 1, 1, Null)>>),
       Produced(Plain \cup {"d"}, <<Given(4, 1, 0, 1) @@ "d" :> 5>>)>>,
     <<Produced(Plain, <<Given(5, Null, 1, 1)>>)>>,
     <<Produced(Plain \ {"k"}, <<Given(6, 1, 1, 1)>>)>>,
     <<Produced(Plain \cup {"m"}, <<Given(6, 1, 1, 1) @@ "m" :> 1>>)>>}
MCJsonFlushes ==
    {<<>>, <<Given(7, 2, 1, Null), Given(8, 1, 1, 1) @@ "d" :> Null>>,
     <<Given(9, 1, 0, 1) @@ "d" :> 3>>, <<Given(10, Null, 1, 1)>>, <<[id |-> 11, k |-> 1]>>}

(* Identities: pairs of attempts of one kind. *)
MvIntent(t, p, src, c) ==
    [domain |-> "mv", table |-> t, pipeline |-> p, source |-> src, commit |-> c, version |-> 1]
MCMvIntents == {MvIntent(t, p, src, c) : t \in 0..2, p \in 0..1, src \in 0..2, c \in {-1, 1, 2}}
MCRanges == [topic : {<<>>, <<7>>, <<7, 3>>}, partition : {0, 3}, first : {0, 3}, last : {2, 3}]
IngestIntent(rs) == [domain |-> "ingest", table |-> 1, version |-> 1, ranges |-> rs]
MCIngestIntents ==
    {IngestIntent(rs) : rs \in {<<>>} \cup {<<r>> : r \in MCRanges}
        \cup {<<r, q>> : r, q \in {x \in MCRanges : x.topic # <<>> /\ x.first <= x.last /\ x.partition = 3}}}
Empty == <<"object", <<>>>>
One == <<"number", <<1>>>>
Members(m, n) == <<"object", <<m, n>>>>
MCJsons ==
    {<<"null">>, <<"bool", FALSE>>, One, <<"string", <<1>>>>, <<"array", <<>>>>, Empty,
     <<"array", <<One, Empty>>>>, <<"array", <<Empty, One>>>>,
     Members(<< <<1>>, One >>, << <<1, 18>>, Empty >>),
     Members(<< <<1, 18>>, Empty >>, << <<1>>, One >>),
     Members(<< <<1>>, Empty >>, << <<1, 18>>, One >>)}
CompactionIntent(l, ps, v, sc, k, p) ==
    [domain |-> "compaction", table |-> 1, version |-> 1, level |-> l, parts |-> ps, values |-> v,
     schema |-> sc, sortKey |-> k, placement |-> p]
DeleteIntent(key, ps, k) ==
    [domain |-> "delete-key", table |-> 1, version |-> 1, key |-> key, parts |-> ps,
     schema |-> Empty, sortKey |-> k, placement |-> [kind |-> "packed", bytes |-> 0]]
Packing(kind) == [kind |-> kind, bytes |-> 0]
MCPartLists == {<<>>, <<1>>, <<1, 2>>, <<2, 1>>, <<2, 1, 2>>}
MCSortKeys == {<<>>, << <<1>>, <<1, 2, 1>> >>, << <<1, 2, 1>>, <<1>> >>, << <<1>> >>}
MCShapes ==
    {CompactionIntent(l, ps, <<"null">>, Empty, k, Packing("packed")) :
        l \in 1..2, ps \in MCPartLists, k \in MCSortKeys}
    \cup {CompactionIntent(1, <<1>>, Empty, Empty, << <<1>> >>, Packing(kind)) :
              kind \in {"packed", "separated", "size_targeted"}}
    \cup {DeleteIntent(key, ps, k) : key \in 1..2, ps \in MCPartLists, k \in MCSortKeys}
MCSchemas ==
    {CompactionIntent(1, <<1>>, v, sc, << <<1>> >>, Packing("packed")) : v \in MCJsons, sc \in MCJsons}
MCAttempts == UNION {f \X f : f \in {MCMvIntents, MCIngestIntents, MCShapes, MCSchemas}}

(* Fixtures. *)
Staged(rows) == [rows |-> rows, day |-> 1]
MCFixture == [f |-> <<Staged(<<1, 1, 2>>), Staged(<<2, 3>>)>>, g |-> <<Staged(<<1, 3>>)>>]
\* As many rows as the first file of f, and between the same keys.
MCChanged == {Staged(<<1, 2, 2>>)}
Command(cmd, f, keep) == [cmd |-> cmd, fixture |-> f, label |-> "l", keep |-> keep]
MCLoadPlans ==
    {{Command("compaction-input", "f", FALSE), Command("wait", None, FALSE), Command("shape", None, FALSE)},
     {Command("compaction-input", "f", FALSE), Command("catalog-only", "g", FALSE), Command("shape", None, FALSE)},
     {Command("materialized", "f", FALSE), Command("catalog-only", "g", TRUE)},
     {Command("materialized", "f", FALSE), Command("compaction-input", "g", FALSE)}}
(* Queries: two parts with a tenant in both of them, which are merged or from *)
(* which that tenant is deleted.                                             *)
Row(tenant, x, y) == [k |-> tenant, x |-> x, y |-> y]
First == [path |-> "first", rows |-> <<Row(1, 1, 1), Row(2, 1, Null), Row(4, 2, 2)>>]
Second == [path |-> "second", rows |-> <<Row(2, 1, Null)>>]
Merged == [path |-> "merged",
           rows |-> <<Row(1, 1, 1), Row(2, 1, Null), Row(2, 1, Null), Row(4, 2, 2)>>]
Rest == [path |-> "rest", rows |-> <<Row(1, 1, 1), Row(4, 2, 2)>>]
MCHistories == {<< {First, Second}, {Merged} >>, << {First, Second}, {Rest} >>}
MCAlias == [sum |-> {"x", "y"}]
QueryOf(n, cols, k, f, a, w) ==
    [namespace |-> n, table |-> "t", columns |-> cols, scans |-> k, format |-> f, arrow |-> a, wants |-> w]
\* Two readers of one file that want different footers, one of them without
\* rows in it; and a plan that reads the table twice, beside one without files.
MCAsks ==
    {[one |-> QueryOf(3, <<"x", "sum">>, 1, None, TRUE, FALSE),
      two |-> QueryOf(2, <<"y", "x">>, 1, "rows", FALSE, TRUE)],
     [one |-> QueryOf(2, <<"sum">>, 2, None, FALSE, FALSE),
      two |-> QueryOf(5, <<"sum">>, 1, None, FALSE, FALSE)]}

-----------------------------------------------------------------------------
(* One part at a time.  Idle variables hold None. *)

MergeIdle == /\ placement = None /\ streams = <<>> /\ pc = None /\ runs = None /\ cur = None
             /\ picked = None /\ open = None /\ lastKey = None /\ outputs = None
SkipIdle == /\ variant = None /\ published = None /\ payload = None /\ skip = None /\ built = None
            /\ build = None /\ measured = None /\ bound = None /\ blob = None
LabIdle == /\ world = None /\ live = None /\ object = None /\ lastId = None /\ out = None
           /\ tmp = None /\ job = None /\ torn = None /\ rotted = None /\ crashes = None
BenchIdle == /\ setting = None /\ disk = None /\ resident = None /\ proc = None /\ evidence = None
             /\ bucket = None /\ launches = None /\ faults = None
PrintIdle == /\ case = None /\ todo = None /\ acc = None /\ refused = None
AccessIdle == /\ files = None /\ fraction = None /\ plan = None /\ ranges = None /\ ordinals = None
              /\ local = None
ColumnIdle == /\ table = None /\ widened = None /\ clock = None /\ written = None /\ accepted = None
              /\ kept = None /\ writes = None /\ rewrites = None
IdsIdle == /\ attempts = None /\ stored = None /\ applied = None /\ reply = None
FixIdle == /\ wanted = None /\ staged = None /\ hypertables = None /\ parts = None /\ store = None
           /\ receipts = None /\ loader = None /\ nextId = None /\ mishaps = None /\ reports = None
           /\ cleaned = None
ServeIdle == /\ commits = None /\ tables = None /\ catalog = None /\ storeUp = None /\ turns = None
             /\ dead = None /\ reaped = None /\ footers = None /\ ask = None /\ call = None
             /\ lived = None

FilesInit ==
    /\ studied \in {"merge", "skip index", "artifacts", "evidence", "fingerprints",
                    "access plans", "values", "identities", "fixtures", "queries"}
    /\ IF studied = "merge" THEN Init ELSE MergeIdle
    /\ IF studied = "skip index" THEN Skip!Init ELSE SkipIdle
    /\ IF studied = "artifacts" THEN Lab!Init ELSE LabIdle
    /\ IF studied = "evidence" THEN Bench!Init ELSE BenchIdle
    /\ IF studied = "fingerprints" THEN Prints!Init ELSE PrintIdle
    /\ IF studied = "access plans" THEN Access!Init ELSE AccessIdle
    /\ IF studied = "values" THEN Column!Init ELSE ColumnIdle
    /\ IF studied = "identities" THEN Ids!Init ELSE IdsIdle
    /\ IF studied = "fixtures" THEN Fix!Init ELSE FixIdle
    /\ IF studied = "queries" THEN Serve!Init ELSE ServeIdle

FilesNext ==
    /\ UNCHANGED studied
    /\ \/ /\ studied = "merge" /\ Next
          /\ UNCHANGED <<skipVars, labVars, benchVars, rfVars, apVars, clVars, idVars, fxVars, qsVars>>
       \/ /\ studied = "skip index" /\ Skip!Next
          /\ UNCHANGED <<vars, labVars, benchVars, rfVars, apVars, clVars, idVars, fxVars, qsVars>>
       \/ /\ studied = "artifacts" /\ Lab!Next
          /\ UNCHANGED <<vars, skipVars, benchVars, rfVars, apVars, clVars, idVars, fxVars, qsVars>>
       \/ /\ studied = "evidence" /\ Bench!Next
          /\ UNCHANGED <<vars, skipVars, labVars, rfVars, apVars, clVars, idVars, fxVars, qsVars>>
       \/ /\ studied = "fingerprints" /\ Prints!Next
          /\ UNCHANGED <<vars, skipVars, labVars, benchVars, apVars, clVars, idVars, fxVars, qsVars>>
       \/ /\ studied = "access plans" /\ Access!Next
          /\ UNCHANGED <<vars, skipVars, labVars, benchVars, rfVars, clVars, idVars, fxVars, qsVars>>
       \/ /\ studied = "values" /\ Column!Next
          /\ UNCHANGED <<vars, skipVars, labVars, benchVars, rfVars, apVars, idVars, fxVars, qsVars>>
       \/ /\ studied = "identities" /\ Ids!Next
          /\ UNCHANGED <<vars, skipVars, labVars, benchVars, rfVars, apVars, clVars, fxVars, qsVars>>
       \/ /\ studied = "fixtures" /\ Fix!Next
          /\ UNCHANGED <<vars, skipVars, labVars, benchVars, rfVars, apVars, clVars, idVars, qsVars>>
       \/ /\ studied = "queries" /\ Serve!Next
          /\ UNCHANGED <<vars, skipVars, labVars, benchVars, rfVars, apVars, clVars, idVars, fxVars>>

FilesSpec ==
    FilesInit /\ [][FilesNext]_<<studied, vars, skipVars, labVars, benchVars, rfVars, apVars, clVars, idVars,
                                  fxVars, qsVars>>

Symmetry == Permutations(Job) \cup Permutations(Proc)
-----------------------------------------------------------------------------
(* Properties. *)

\* The merge is a sort into one chain of files per key, or a loud refusal
\* (Rewrite's MergeIsSort and OneChainPerKey: merge_streams,
\* StreamingChunkWriter, convert_and_guard).
MergeSortsIntoChains == studied = "merge" => MergeIsSort /\ OneChainPerKey

\* Pruning may only remove what it can prove absent: a scan for one tenant,
\* with any pushed-down timestamp filters, gets every row it asked for out of
\* every file the merge wrote, through the range, the Bloom filter, the column
\* stats, the treemap and the row-group spans (live_parts_pruned,
\* part_excludes_key, access_plan_for; stats.rs "Every ambiguous state degrades
\* to keep the part").  And delete_key takes a tenant out of a packed file and
\* out of its index: every other row stays, still found by every pruned scan; a
\* scan for the deleted tenant no longer opens the file if the file has a
\* treemap or holds one tenant; and no tenant that fits a row group is spread
\* over two (delete_key, batch_to_parquet_key_aligned).
ScanComplete(file) ==
    \A k \in MCKeys : \A fs \in MCFilters :
        Wanted(Rows(RowsOf(file)), k, fs) \subseteq Scanned(file, k, fs)

LeavesNoTrace(file, k) ==
    LET new == WithoutKey(file, k)
        others == {r \in Rows(RowsOf(file)) : r[1] # k}
    IN
    /\ (new = None) <=> (others = {})
    /\ new # None =>
          /\ Rows(RowsOf(new)) = others
          /\ \A j \in MCKeys : Wanted(others, j, {}) \subseteq Scanned(new, j, {})
          /\ (k >= 0 /\ (new.bitmap # None \/ new.min = new.max)) => Scanned(new, k, {}) = {}
          /\ \A j \in KeysIn(others) : Cardinality({r \in others : r[1] = j}) <= Cap =>
                Cardinality({g \in DOMAIN new.groups : j \in KeysIn(Rows(new.groups[g]))}) = 1

PrunedScanComplete ==
    studied = "merge" /\ pc = "done" =>
        \A i \in DOMAIN outputs :
            ScanComplete(outputs[i]) /\ \A k \in MCKeys : LeavesNoTrace(outputs[i], k)

\* "A NoMatch can never hide a matching row": whatever kind of index was built
\* with whatever budget, and whatever was rebuilt, damaged or cut short between
\* the build, the binding and the read of the payload, a scan keeps every row
\* group with a row that satisfies the predicate (SkipIndex).
NoFalseSkip == studied = "skip index" => Skip!NoFalseSkip

\* A directory with a manifest holds exactly what the manifest lists, whatever
\* crashed on it, was retried or ran beside it; every artifact holds the rows
\* of the load it descends from; and a child of a reconstruction differs from
\* it in the paths it declares and nothing else (LabArtifacts).
ArtifactsHonest ==
    studied = "artifacts" => Lab!PublishedComplete /\ Lab!ChainHonest /\ Lab!OneVariable

\* Every receipt, suite and report describes bytes and answers that its
\* manifest and its suite vouch for (LabBench).
EvidenceBacked == studied = "evidence" => Bench!EvidenceBacked

\* Fingerprints are equal if and only if the rows are (RowFingerprint).
FingerprintDecides == studied = "fingerprints" => Prints!FingerprintDecides

\* Contiguous and scattered plans of a fraction read the same volume, inside
\* the files, each row group once (AccessPlans).
PlansFair == studied = "access plans" => Access!PlansFair

\* A stored value survives every rewrite, in exactly one sorted file of its
\* partition (ColumnLife).
StoredOnceForAll == studied = "values" => Column!StoredOnceForAll

\* Attempts at one intent, and only those, are recognized as retries
\* (OperationIdentity).
RetriesRecognized == studied = "identities" => Ids!RetriesRecognized

\* What is loaded, waited for and reported is the fixture (FixtureLoad).
MeasuredIsLoaded == studied = "fixtures" => Fix!MeasuredIsLoaded

\* A 200 is the tenant's rows of a live set, in every format, an error has the
\* status its cause deserves, and the footer cache keeps its capacity and
\* serves what its reader wants (QueryService).
AnswersTrue == studied = "queries" => Serve!AnswersTrue
=============================================================================
