---------------------------- MODULE LabArtifacts -----------------------------
(***************************************************************************)
(* The artifact chain of the Parquet laboratory: parquet-lab-snapshot       *)
(* freezes a converged Ukiel load, or a list of files, into a directory;    *)
(* parquet-rewrite derives variants from it, and the causal pair            *)
(* reconstruct / vary derives a control and its one-variable children.      *)
(* Every tool fills a sibling temporary directory and renames it, any of    *)
(* them may die between two steps, several run at once on different         *)
(* outputs, and the lake they read keeps changing.                          *)
(*                                                                          *)
(* A file is [rows, phys, cfg]: the values of its one column, the physical  *)
(* type that holds them and the writer configuration.  A digest is the      *)
(* value it was computed from, the logical fingerprint is the set of rows.  *)
(* One invocation at a time works on an output directory.  Each tool        *)
(* clears its own temporary tree when it starts, so one tree per directory  *)
(* stands for the three names the tools use.                                *)
(***************************************************************************)
EXTENDS Naturals, Integers, Sequences, FiniteSets, FiniteSetsExt, SequencesExt

CONSTANTS
    Dir,        \* the output directories
    Job,        \* the tool processes
    Receipt,    \* the rows of the load the part-shape receipt describes
    Late,       \* rows that are not of that load
    LocalFiles, \* what from-files may be given: sequences of files
    Baseline,   \* the writer specs: functions from config paths to values
    Deltas,     \* the delta files: [allowed, changes]
    Narrow,     \* the values that fit the narrow physical type
    Scenarios,  \* what is considered together: the invocations [tool, src, dst, replace]
                \* and how many parts, crashes and damaged directories there may be
    None

VARIABLES
    world,   \* the scenario
    live,    \* the catalog's live parts: [id, rows, level, pv]
    object,  \* the object store: part id -> rows, or None
    lastId,  \* the last part id
    out,     \* directory -> [manifest, files], or None
    tmp,     \* directory -> the files of its temporary tree, or None
    job,     \* process -> its invocation, or None
    torn,    \* directories whose removal was cut short
    rotted,  \* directories a file of which changed after publication
    crashes

labVars == <<world, live, object, lastId, out, tmp, job, torn, rotted, crashes>>

Globals == {"global.compression", "global.statistics"}
Columns == {"columns.c.dictionary", "columns.c.physical_type"}
\* experiment.rs is_known_config_path
Known == Globals \cup Columns
Default == [p \in Globals |-> "default"]
Missing == [rows |-> {}, phys |-> "none", cfg |-> [p \in {} |-> "none"]]

Init ==
    /\ world \in Scenarios
    /\ live = {[id |-> i, rows |-> {r \in Receipt : r % 2 = i % 2}, level |-> 1, pv |-> i] : i \in 1..2}
    /\ object = [i \in 1..world.parts |-> IF i <= 2 THEN {r \in Receipt : r % 2 = i % 2} ELSE {}]
    /\ lastId = 2
    /\ out = [d \in Dir |-> None]
    /\ tmp = [d \in Dir |-> None]
    /\ job = [j \in Job |-> None]
    /\ torn = {} /\ rotted = {} /\ crashes = 0

(***************************************************************************)
(* The lake: ingestion, compaction, key deletion and garbage collection as  *)
(* the snapshot tool can observe them (modelled in full by Catalog, Ladder  *)
(* and ObjectLifecycle).  A part's partition values carry the load's        *)
(* marker, so rows of another load land in an unmarked partition (pv = 0)   *)
(* unless they were written into a marked one.                              *)
(***************************************************************************)
Replace(old, new) ==
    /\ lastId < world.parts
    /\ live' = (live \ old) \cup {[new EXCEPT !.id = lastId + 1]}
    /\ object' = [object EXCEPT ![lastId + 1] = new.rows]
    /\ lastId' = lastId + 1
    /\ UNCHANGED <<out, tmp, job, torn, rotted, crashes>>

LakeIngest(r, pv) == Replace({}, [id |-> 0, rows |-> {r}, level |-> 0, pv |-> pv])

LakeCompact(pv) ==
    LET ps == {p \in live : p.pv = pv} IN
    /\ Cardinality(ps) > 1
    /\ Replace(ps, [id |-> 0, rows |-> UNION {p.rows : p \in ps}, level |-> 1, pv |-> pv])

LakeDelete(p) ==
    /\ p.level = 1 /\ p.rows # {}
    /\ \E r \in p.rows : Replace({p}, [p EXCEPT !.rows = @ \ {r}])

LakePurge(i) ==
    /\ i <= lastId /\ object[i] # {} /\ \A p \in live : p.id # i
    /\ object' = [object EXCEPT ![i] = {}]
    /\ UNCHANGED <<live, lastId, out, tmp, job, torn, rotted, crashes>>

(***************************************************************************)
(* Temporary tree, publication and failure, shared by the tools.            *)
(***************************************************************************)
Free(j, d) == job[j] = None /\ \A k \in Job : job[k] # None => job[k].dst # d
NonEmpty(d) == out[d] # None
At(j) == Len(job[j].done) + 1
Running(j, tools, pc) == job[j] # None /\ job[j].tool \in tools /\ job[j].pc = pc
Copying(j, tools) == Running(j, tools, "copy") /\ At(j) <= Len(job[j].todo)
Copied(j, tools) == Running(j, tools, "copy") /\ At(j) > Len(job[j].todo)
Rewriters == {"run", "reconstruct", "vary"}
Replacing == {"from-ukiel", "from-files", "run"}
Tmp(j) == job[j].dst
Causal(tool) == tool \in {"reconstruct", "vary"}
Snapshots(tool) == tool \in {"from-ukiel", "from-files"}

\* The temporary tree a tool starts from: whatever a dead invocation left is
\* removed (faulty variant: kept).
LeftoverTmp(d) == IF tmp[d] = None THEN <<>> ELSE tmp[d]
PrepareTmp(d) == <<>>

\* Prepare the output and the temporary tree, and start.  A directory that is
\* not empty needs --replace (the causal tools look only when they publish);
\* the snapshot tool removes it right away.
Begin(j, c, todo, rest) ==
    LET gone == Snapshots(c.tool) /\ c.replace IN
    /\ Free(j, c.dst)
    /\ Causal(c.tool) \/ c.replace \/ ~NonEmpty(c.dst)
    /\ out' = [out EXCEPT ![c.dst] = IF gone THEN None ELSE @]
    /\ torn' = IF gone THEN torn \ {c.dst} ELSE torn
    /\ rotted' = IF gone THEN rotted \ {c.dst} ELSE rotted
    /\ tmp' = [tmp EXCEPT ![c.dst] = PrepareTmp(c.dst)]
    /\ job' = [job EXCEPT ![j] = c @@ [pc |-> "copy", todo |-> todo, done |-> <<>>, sealed |-> None] @@ rest]
    /\ UNCHANGED <<crashes, live, object, lastId>>

\* The invocation ends with an error; a tool that refuses its own result
\* removes the temporary tree first.
Bail(j, clean) ==
    /\ tmp' = IF clean THEN [tmp EXCEPT ![Tmp(j)] = None] ELSE tmp
    /\ job' = [job EXCEPT ![j] = None]
    /\ UNCHANGED <<out, torn, rotted, crashes, live, object, lastId>>

\* Write the next file into the temporary tree at its position.
Put(j, file) ==
    /\ tmp' = [tmp EXCEPT ![Tmp(j)] =
                  IF At(j) <= Len(@) THEN [@ EXCEPT ![At(j)] = file] ELSE Append(@, file)]
    /\ job' = [job EXCEPT ![j].done = Append(@, file)]
    /\ UNCHANGED <<out, torn, rotted, crashes, live, object, lastId>>

\* manifest.json goes into the temporary tree.
Seal(j, manifest) ==
    /\ job' = [job EXCEPT ![j] = [@ EXCEPT !.pc = "publish", !.sealed = manifest]]
    /\ UNCHANGED <<out, tmp, torn, rotted, crashes, live, object, lastId>>

\* finish / run: whatever the output holds is removed ...
ClearOutput(j) ==
    /\ Running(j, Replacing, "publish")
    /\ out' = [out EXCEPT ![job[j].dst] = None]
    /\ torn' = torn \ {job[j].dst} /\ rotted' = rotted \ {job[j].dst}
    /\ job' = [job EXCEPT ![j].pc = "rename"]
    /\ UNCHANGED <<tmp, crashes, live, object, lastId>>

\* ... while the causal tools refuse an output that is not empty.
CheckOutput(j) ==
    /\ Running(j, {"reconstruct", "vary"}, "publish")
    /\ IF NonEmpty(job[j].dst)
         THEN Bail(j, TRUE)
         ELSE /\ job' = [job EXCEPT ![j].pc = "rename"]
              /\ UNCHANGED <<out, tmp, torn, rotted, crashes, live, object, lastId>>

\* The rename that makes the whole tree appear.
Rename(j) ==
    /\ job[j] # None /\ job[j].pc = "rename"
    /\ out' = [out EXCEPT ![job[j].dst] = [manifest |-> job[j].sealed, files |-> tmp[Tmp(j)]]]
    /\ tmp' = [tmp EXCEPT ![Tmp(j)] = None]
    /\ job' = [job EXCEPT ![j] = None]
    /\ UNCHANGED <<torn, rotted, crashes, live, object, lastId>>

Crash(j) ==
    /\ job[j] # None /\ crashes < world.crashes
    /\ crashes' = crashes + 1
    /\ job' = [job EXCEPT ![j] = None]
    /\ UNCHANGED <<out, tmp, torn, rotted, live, object, lastId>>

\* The process dies inside remove_dir_all: some files are gone.
CrashInRemoval(j) ==
    /\ Running(j, Replacing, "publish")
    /\ NonEmpty(job[j].dst) /\ crashes < world.crashes
    /\ crashes' = crashes + 1
    /\ LET d == job[j].dst IN
       /\ \E i \in DOMAIN out[d].files : out' = [out EXCEPT ![d].files[i] = Missing]
       /\ torn' = torn \cup {d}
    /\ job' = [job EXCEPT ![j] = None]
    /\ UNCHANGED <<tmp, rotted, live, object, lastId>>

\* A file of a published directory changes under its manifest.
Rot(d) ==
    /\ out[d] # None /\ d \notin rotted /\ Cardinality(rotted) < world.rot
    /\ \E i \in DOMAIN out[d].files :
         out' = [out EXCEPT ![d].files[i] = [@ EXCEPT !.rows = Late]]
    /\ rotted' = rotted \cup {d}
    /\ UNCHANGED <<tmp, job, torn, crashes, live, object, lastId>>

(***************************************************************************)
(* parquet-lab-snapshot from-ukiel.                                         *)
(***************************************************************************)
\* No L0, one run per partition, the receipt's row count, every part marked.
RequireConverged(parts) ==
    /\ parts # {}
    /\ \A p \in parts : p.level # 0 /\ p.pv # 0
    /\ \A p, q \in parts : p.pv = q.pv => p = q
    /\ FoldLeft(LAMBDA n, p : n + Cardinality(p.rows), 0, SetToSeq(parts)) = Cardinality(Receipt)

FreezeLake(j, c) ==
    /\ c.tool = "from-ukiel"
    /\ RequireConverged(live)
    /\ Begin(j, c, SetToSortSeq(live, LAMBDA p, q : p.id < q.id), <<>>)

\* HEAD, GET and add_file: a part whose object is gone, or of another size
\* than the catalog says, ends the freeze.
FetchPart(j) ==
    /\ Copying(j, {"from-ukiel"})
    /\ LET p == job[j].todo[At(j)] IN
       IF p.rows # {} /\ object[p.id] = {} THEN Bail(j, FALSE)
       ELSE Put(j, [rows |-> object[p.id], phys |-> "int64", cfg |-> Default])

RowsOf(files) == UNION {files[i].rows : i \in DOMAIN files}

\* The physical fingerprint equals the receipt's.
FingerprintAgrees(rows) == rows = Receipt

SealLake(j) ==
    /\ Copied(j, {"from-ukiel"})
    /\ IF FingerprintAgrees(RowsOf(job[j].done))
         THEN Seal(j, [kind |-> "snapshot", source |-> "receipt",
                       files |-> job[j].done, fp |-> RowsOf(job[j].done)])
         ELSE Bail(j, FALSE)

(***************************************************************************)
(* parquet-lab-snapshot from-files.                                         *)
(***************************************************************************)
FreezeFiles(j, c) ==
    /\ c.tool = "from-files"
    /\ \E list \in LocalFiles : Begin(j, c, list, <<>>)

FreezeFile(j) ==
    /\ Copying(j, {"from-files"})
    /\ Put(j, job[j].todo[At(j)])

SealFiles(j) ==
    /\ Copied(j, {"from-files"})
    /\ Seal(j, [kind |-> "snapshot", source |-> "files",
                files |-> job[j].done, fp |-> RowsOf(job[j].done)])

\* parquet-lab-snapshot verify: every listed file is there with its digest,
\* nothing else is, and the rows reproduce the logical fingerprint.
Verify(d) ==
    /\ out[d].manifest.kind = "snapshot"
    /\ Len(out[d].files) = Len(out[d].manifest.files)
    /\ \A i \in DOMAIN out[d].files : out[d].files[i] = out[d].manifest.files[i]
    /\ RowsOf(out[d].files) = out[d].manifest.fp

(***************************************************************************)
(* The writer configuration: TOML spec <-> canonical config map, and the    *)
(* lossless projection.                                                     *)
(***************************************************************************)
Typed(v) == v # "mistyped"
\* config_to_spec refuses a mistyped global, an unknown column suffix and a
\* value the writer does not support.
ConfigAccepted(cfg) ==
    \A p \in DOMAIN cfg :
        /\ p \in Globals => Typed(cfg[p])
        /\ p \in Known => cfg[p] # "unsupported"

\* spec_to_config(config_to_spec(cfg)): globals filled with the defaults, a
\* mistyped column property and an unknown global path left out.
Resolve(cfg) ==
    [p \in Globals \cup {q \in DOMAIN cfg \cap Columns : Typed(cfg[q])} |->
        IF p \in DOMAIN cfg THEN cfg[p] ELSE Default[p]]

Narrows(cfg) == "columns.c.physical_type" \in DOMAIN cfg

\* validate_projections and project_batch: only an Int64 column is narrowed,
\* and only when every value fits.
Projectable(file, cfg) ==
    Narrows(cfg) => file.phys = "int64" /\ file.rows \subseteq Narrow

Written(file, cfg) ==
    [rows |-> file.rows, phys |-> IF Narrows(cfg) THEN "int8" ELSE file.phys, cfg |-> cfg]

Diff(a, b) ==
    {p \in DOMAIN a \cup DOMAIN b :
        ~(p \in DOMAIN a /\ p \in DOMAIN b /\ a[p] = b[p])}

(***************************************************************************)
(* parquet-rewrite run | reconstruct | vary.                                *)
(***************************************************************************)
\* The manifest is read once, at the start.
StartRewrite(j, c, kind, cfg, rest) ==
    /\ out[c.src] # None /\ out[c.src].manifest.kind = kind
    /\ ConfigAccepted(cfg)
    /\ Begin(j, c, out[c.src].manifest.files,
             [parent |-> out[c.src].manifest, cfg |-> Resolve(cfg)] @@ rest)

Rewrite(j, c) ==
    /\ c.tool = "run"
    /\ \E spec \in Baseline : StartRewrite(j, c, "snapshot", spec, <<>>)

Reconstruct(j, c) ==
    /\ c.tool = "reconstruct" /\ c.src # c.dst
    /\ \E spec \in Baseline : StartRewrite(j, c, "snapshot", spec, <<>>)

\* The delta laid over the reconstruction's resolved configuration.
Child(cfg, delta) == delta.changes @@ cfg

Vary(j, c) ==
    /\ c.tool = "vary" /\ c.src # c.dst /\ out[c.src] # None
    /\ \E delta \in Deltas :
         StartRewrite(j, c, "reconstruction", Child(out[c.src].manifest.cfg, delta),
                      [delta |-> delta])

\* The input is checked against the digest its manifest recorded.
InputVerified(file, digest) == file = digest

RewriteFile(j) ==
    /\ Copying(j, Rewriters)
    /\ LET b == job[j] IN
       IF /\ out[b.src] # None /\ At(j) <= Len(out[b.src].files)
          /\ InputVerified(out[b.src].files[At(j)], b.todo[At(j)])
          /\ Projectable(out[b.src].files[At(j)], b.cfg)
         THEN Put(j, Written(out[b.src].files[At(j)], b.cfg))
         ELSE Bail(j, FALSE)

\* Every allowed path is known and every changed path is allowed; the child
\* differs from its reconstruction only on allowed paths.
DeltaAccepted(b) ==
    b.tool = "vary" =>
        /\ b.delta.allowed \subseteq Known
        /\ DOMAIN b.delta.changes \subseteq b.delta.allowed
        /\ Diff(b.parent.cfg, b.cfg) \subseteq b.delta.allowed

RewriteManifest(b) ==
    [kind |-> CASE b.tool = "run" -> "variant"
                [] b.tool = "reconstruct" -> "reconstruction"
                [] b.tool = "vary" -> "delta",
     parent |-> b.parent, cfg |-> b.cfg, files |-> b.done, fp |-> RowsOf(b.done),
     allowed |-> IF b.tool = "vary" THEN b.delta.allowed ELSE {}]

SealRewrite(j) ==
    /\ Copied(j, Rewriters)
    /\ IF RowsOf(job[j].done) = job[j].parent.fp /\ DeltaAccepted(job[j])
         THEN Seal(j, RewriteManifest(job[j]))
         ELSE Bail(j, TRUE)

JobStep(j) ==
    \/ FetchPart(j) \/ SealLake(j)
    \/ FreezeFile(j) \/ SealFiles(j)
    \/ RewriteFile(j) \/ SealRewrite(j)
    \/ ClearOutput(j) \/ CheckOutput(j) \/ Rename(j)

Start(j) ==
    \E c \in world.calls :
        FreezeLake(j, c) \/ FreezeFiles(j, c) \/ Rewrite(j, c) \/ Reconstruct(j, c) \/ Vary(j, c)

Next ==
  /\ UNCHANGED world
  /\ \/ \E r \in Late, pv \in 0..2 : LakeIngest(r, pv)
     \/ \E pv \in 0..2 : LakeCompact(pv)
     \/ \E p \in live : LakeDelete(p)
     \/ \E i \in 1..world.parts : LakePurge(i)
     \/ \E j \in Job : Start(j) \/ JobStep(j) \/ Crash(j) \/ CrashInRemoval(j)
     \/ \E d \in Dir : Rot(d)

Spec == Init /\ [][Next]_labVars

-----------------------------------------------------------------------------
(***************************************************************************)
(* Properties.                                                              *)
(***************************************************************************)
Ancestors(m) == IF m.kind = "snapshot" THEN {m}
                ELSE IF m.parent.kind = "snapshot" THEN {m, m.parent}
                ELSE {m, m.parent, m.parent.parent}

\* A directory that carries a manifest holds exactly the files it lists, with
\* the bytes it lists, whatever invocations crashed on it, were retried or
\* were running beside it: only later damage to the directory itself can
\* change that, and a removal that was cut short leaves files missing but
\* never a foreign one.  The offline verification of a snapshot succeeds on
\* the directories nothing happened to, and on no other.
PublishedComplete ==
    \A d \in Dir : out[d] # None =>
        /\ Len(out[d].files) = Len(out[d].manifest.files)
        /\ \A i \in DOMAIN out[d].files :
             \/ out[d].files[i] = out[d].manifest.files[i]
             \/ d \in torn /\ out[d].files[i] = Missing
             \/ d \in rotted
        /\ out[d].manifest.kind = "snapshot" => (Verify(d) <=> d \notin torn \cup rotted)

\* Every published artifact holds the rows its ancestors hold, down to the
\* load the receipt describes: what is ingested, deleted, compacted or purged
\* while a freeze runs, and what is replaced or damaged while a rewrite reads
\* it, never gets into a descendant.
ChainHonest ==
    \A d \in Dir : out[d] # None =>
        \A a \in Ancestors(out[d].manifest) :
            /\ RowsOf(out[d].manifest.files) = RowsOf(a.files)
            /\ a.kind = "snapshot" /\ a.source = "receipt" => RowsOf(a.files) = Receipt

\* A published child of a reconstruction is a one-variable experiment: file by
\* file it has the rows of its parent, and the configuration its bytes were
\* written with differs from the parent's only on the paths it may change.
OneVariable ==
    \A d \in Dir :
        out[d] # None /\ out[d].manifest.kind = "delta" =>
            LET m == out[d].manifest IN
            /\ Len(m.files) = Len(m.parent.files)
            /\ \A i \in DOMAIN m.files :
                 /\ m.files[i].rows = m.parent.files[i].rows
                 /\ Diff(m.files[i].cfg, m.parent.files[i].cfg) \subseteq m.allowed \cap Known

=============================================================================
