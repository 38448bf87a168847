------------------------------- MODULE LabBench -------------------------------
(***************************************************************************)
(* The measuring tools of the Parquet laboratory and the evidence they      *)
(* leave: parquet-cachectl prepares the page cache and writes a receipt,    *)
(* file-read-bench, parquet-scan-bench, parquet-write-bench, parquet-lab-   *)
(* bench and parquet-census publish reports, parquet-lab-bench compiles     *)
(* suites and parquet-lab-store copies an artifact to an object store.      *)
(* Every tool is a process of its own: they interleave, any of them may     *)
(* die, the kernel drops pages when it likes and files may change on disk.  *)
(*                                                                          *)
(* An artifact is a published directory with the file contents its          *)
(* manifest records.  A content is <<rows, form>>: a rewrite keeps the      *)
(* rows and changes the form.  A digest is the value it was computed from.  *)
(* A file is one page of the cache.                                         *)
(***************************************************************************)
EXTENDS Naturals, Sequences, FiniteSets, SequencesExt, FiniteSetsExt

CONSTANTS
    Proc,       \* the tool processes
    Artifact,   \* the artifact directories
    Kind,       \* artifact -> "snapshot" | "variant" | "reconstruction" | "delta"
    Recorded,   \* artifact -> the sequence of contents its manifest records
    Damage,     \* the contents a damaged file may have
    Query,      \* the suite: [name, ordered, required, rowset] records
    Plans,      \* the plans the engine may choose: [projects, aggregates]
    Name,       \* the names of receipts, suites, reports and prefixes
    Samples,    \* timed samples of an invocation
    Worlds,     \* what is considered together: [calls, launches, faults]
    None

VARIABLES
    setting,      \* the world
    disk,      \* artifact -> the contents of its files now
    resident,  \* artifact -> the files in the page cache
    proc,      \* process -> its invocation under way, or None
    evidence,  \* name -> the receipt, suite or report file of that name, or None
    bucket,    \* prefix -> the objects under it, by file
    launches, faults

benchVars == <<setting, disk, resident, proc, evidence, bucket, launches, faults>>

Files(a) == DOMAIN Recorded[a]
NoData == <<>>

Init ==
    /\ setting \in Worlds
    /\ disk = Recorded
    /\ resident \in [Artifact -> {{}}]
    /\ proc = [p \in Proc |-> None]
    /\ evidence = [n \in Name |-> None]
    /\ bucket = [n \in Name |-> <<>>]
    /\ launches = 0 /\ faults = 0

(***************************************************************************)
(* The order in which each tool does its work.                              *)
(***************************************************************************)
Phases ==
    [prepare |-> <<"verify", "touch", "receipt">>,
     read    |-> <<"verify", "bind", "sample", "report">>,
     scan    |-> <<"bind", "verify", "decode", "report">>,
     write   |-> <<"verify", "encode", "report">>,
     census  |-> <<"verify", "report">>,
     compile |-> <<"query", "report">>,
     run     |-> <<"bind", "query", "report">>,
     publish |-> <<"verify", "list", "put", "report">>]

\* Which manifests a tool parses.
Accepts(t) ==
    CASE t \in {"prepare", "read", "scan"} -> {"snapshot", "reconstruction", "delta"}
      [] t = "write" -> {"reconstruction"}
      [] t = "compile" -> {"snapshot"}
      [] OTHER -> {"snapshot", "variant"}

\* The tools that look at their output before they start; the others look
\* only when they publish, and the store's receipt is never replaced.
LooksFirst == {"prepare", "compile", "run", "publish"}

Launch(p, c) ==
    /\ proc[p] = None /\ launches < setting.launches
    /\ Kind[c.artifact] \in Accepts(c.tool)
    /\ c.tool \in LooksFirst => evidence[c.out] = None \/ c.replace
    /\ proc' = [proc EXCEPT ![p] = [call |-> c, phase |-> 1, at |-> 1, data |-> NoData,
                                   bound |-> None, seen |-> NoData]]
    /\ launches' = launches + 1
    /\ UNCHANGED <<setting, disk, resident, evidence, bucket, faults>>

In(p, phase) ==
    /\ proc[p] # None
    /\ Phases[proc[p].call.tool][proc[p].phase] = phase

A(p) == proc[p].call.artifact
Advance(p, r) == proc' = [proc EXCEPT ![p] = [r EXCEPT !.phase = @ + 1, !.at = 1]]
Again(p, r) == proc' = [proc EXCEPT ![p] = [r EXCEPT !.at = @ + 1]]
\* The next of n rounds of a loop, or the phase after it.
Round(p, r, n) == IF r.at < n THEN Again(p, r) ELSE Advance(p, r)
Quit(p) == proc' = [proc EXCEPT ![p] = None]

(***************************************************************************)
(* Reading the artifact.  A file is read whole and compared with the        *)
(* manifest's length and digest; what was read stays in memory and in the   *)
(* page cache.                                                              *)
(***************************************************************************)
Fetch(a, f) == resident' = [resident EXCEPT ![a] = @ \cup {f}]

\* A faulty variant: only that the file is there.
VerifyFilePresent(p) ==
    /\ In(p, "verify")
    /\ LET f == proc[p].at  a == A(p)
       IN /\ Fetch(a, f)
          /\ Round(p, [proc[p] EXCEPT !.data = Append(@, disk[a][f])], Len(Recorded[a]))
    /\ UNCHANGED <<setting, disk, evidence, bucket, launches, faults>>

VerifyFile(p) ==
    /\ In(p, "verify")
    /\ LET f == proc[p].at  a == A(p)
       IN /\ Fetch(a, f)
          /\ IF disk[a][f] = Recorded[a][f]
             THEN Round(p, [proc[p] EXCEPT !.data = Append(@, disk[a][f])], Len(Recorded[a]))
             ELSE Quit(p)
    /\ UNCHANGED <<setting, disk, evidence, bucket, launches, faults>>

(***************************************************************************)
(* parquet-cachectl: evict or warm every file, probe, judge, write.         *)
(***************************************************************************)
RequiresCold(profile) == profile = "local-os-cold"
RequiresWarm(profile) == profile \in {"local-os-warm", "local-reader-warm"}

\* posix_fadvise need not drop a page.
Touch(p) ==
    /\ In(p, "touch")
    /\ LET f == proc[p].at  a == A(p)
       IN \/ RequiresCold(proc[p].call.profile) /\ resident' = [resident EXCEPT ![a] = @ \ {f}]
          \/ RequiresCold(proc[p].call.profile) /\ UNCHANGED resident
          \/ ~RequiresCold(proc[p].call.profile) /\ Fetch(a, f)
    /\ Round(p, proc[p], Len(Recorded[A(p)]))
    /\ UNCHANGED <<setting, disk, evidence, bucket, launches, faults>>

\* The floor is 90% and the ceiling 10% of the pages.
Achieved(profile, pages, total) ==
    /\ RequiresCold(profile) => 10 * pages <= total
    /\ RequiresWarm(profile) => 10 * pages >= 9 * total

WriteReceipt(p) ==
    /\ In(p, "receipt")
    /\ LET c == proc[p].call  n == Cardinality(resident[c.artifact])
       IN evidence' = IF evidence[c.out] = None \/ c.replace
                      THEN [evidence EXCEPT ![c.out] =
                              [what |-> "receipt", artifact |-> c.artifact, profile |-> c.profile,
                               after |-> n, valid |-> Achieved(c.profile, n, Len(Recorded[c.artifact]))]]
                      ELSE evidence
    /\ Quit(p)
    /\ UNCHANGED <<setting, disk, resident, bucket, launches, faults>>

(***************************************************************************)
(* Binding: a receipt must parse, be valid and be for this manifest; a run  *)
(* needs its suite.                                                         *)
(***************************************************************************)
Usable(n, a) ==
    /\ evidence[n] # None /\ evidence[n].what = "receipt"
    /\ evidence[n].valid /\ evidence[n].artifact = a

SuiteThere(n) == evidence[n] # None /\ evidence[n].what = "suite"

Bind(p) ==
    /\ In(p, "bind")
    /\ LET c == proc[p].call
       IN IF /\ c.receipt # None => Usable(c.receipt, c.artifact)
             /\ c.tool = "run" => SuiteThere(c.suite)
          THEN Advance(p, [proc[p] EXCEPT !.bound =
                 [receipt |-> IF c.receipt = None THEN None ELSE evidence[c.receipt],
                  suite |-> IF c.tool = "run" THEN evidence[c.suite] ELSE None]])
          ELSE Quit(p)
    /\ UNCHANGED <<setting, disk, resident, evidence, bucket, launches, faults>>

(***************************************************************************)
(* Timed samples.  file-read-bench reads the files again for each sample    *)
(* and refuses a checksum that changed; the decode and encode benches work  *)
(* on what they verified.                                                   *)
(***************************************************************************)
Sample(p) ==
    /\ In(p, "sample")
    /\ resident' = [resident EXCEPT ![A(p)] = Files(A(p))]
    /\ IF proc[p].at > 1 /\ disk[A(p)] # proc[p].seen[1]
       THEN Quit(p)
       ELSE Round(p, [proc[p] EXCEPT !.seen = Append(@, disk[A(p)])], Samples)
    /\ UNCHANGED <<setting, disk, evidence, bucket, launches, faults>>

InMemory(p) ==
    /\ Round(p, [proc[p] EXCEPT !.seen = Append(@, proc[p].data)], Samples)
    /\ UNCHANGED <<setting, disk, resident, evidence, bucket, launches, faults>>

Decode(p) == In(p, "decode") /\ InMemory(p)
Encode(p) == In(p, "encode") /\ InMemory(p)

(***************************************************************************)
(* Queries.  The engine reads the files as they are.  An ordered answer is  *)
(* the rows in order, the other answers are the multiset of rows.           *)
(***************************************************************************)
RowsOf(s) == [i \in DOMAIN s |-> s[i][1]]

Answer(q, s) ==
    IF q.ordered THEN RowsOf(s)
    ELSE [r \in Range(RowsOf(s)) |-> Cardinality({i \in DOMAIN s : s[i][1] = r})]

\* plan_guard.rs assert_physical_plan
GuardAccepts(q, plan) ==
    q.required # {} => /\ q.required \subseteq plan.projects
                       /\ ~q.rowset => plan.aggregates

Expected(suite, q) == (CHOOSE e \in suite.answers : e[1] = q)[2]

\* The rounds of the query loop: an odd one runs a query and, in a run,
\* compares its answer; an even one runs it again on a reused session and
\* guards a plan made for it, of a declared class only.
RunQuery(p) ==
    /\ In(p, "query") /\ proc[p].at % 2 = 1
    /\ LET c == proc[p].call  q == Query[(proc[p].at + 1) \div 2]  got == Answer(q, disk[A(p)])
       IN IF c.tool = "run" => got = Expected(proc[p].bound.suite, q)
          THEN Again(p, [proc[p] EXCEPT !.seen = Append(@, <<q, got>>)])
          ELSE Quit(p)
    /\ resident' = [resident EXCEPT ![A(p)] = Files(A(p))]
    /\ UNCHANGED <<setting, disk, evidence, bucket, launches, faults>>

RunAgain(p, plan) ==
    /\ In(p, "query") /\ proc[p].at % 2 = 0
    /\ IF GuardAccepts(Query[proc[p].at \div 2], plan)
       THEN Round(p, proc[p], 2 * Len(Query))
       ELSE Quit(p)
    /\ resident' = [resident EXCEPT ![A(p)] = Files(A(p))]
    /\ UNCHANGED <<setting, disk, evidence, bucket, launches, faults>>

(***************************************************************************)
(* Publication: a temporary file and a rename.  A tool without a replace    *)
(* flag refuses an existing file here; the rename of the others does not    *)
(* look again.                                                              *)
(***************************************************************************)
Suite(p) ==
    [what |-> "suite", artifact |-> A(p), answers |-> Range(proc[p].seen)]

StoreReceipt(p) ==
    [what |-> "store", artifact |-> A(p), prefix |-> proc[p].call.prefix,
     objects |-> proc[p].data]

Report(p) ==
    [what |-> "report", tool |-> proc[p].call.tool, artifact |-> A(p),
     data |-> proc[p].data, seen |-> proc[p].seen, bound |-> proc[p].bound]

Content(p) ==
    CASE proc[p].call.tool = "compile" -> Suite(p)
      [] proc[p].call.tool = "publish" -> StoreReceipt(p)
      [] OTHER -> Report(p)

MayWrite(c) ==
    CASE c.tool \in {"compile", "run", "publish"} -> TRUE
      [] c.tool = "census" -> evidence[c.out] = None \/ c.replace
      [] OTHER -> evidence[c.out] = None

WriteReport(p) ==
    /\ In(p, "report")
    /\ LET c == proc[p].call
       IN evidence' = IF MayWrite(c) THEN [evidence EXCEPT ![c.out] = Content(p)] ELSE evidence
    /\ Quit(p)
    /\ UNCHANGED <<setting, disk, resident, bucket, launches, faults>>

(***************************************************************************)
(* parquet-lab-store: the prefix must be empty when it is listed; then one  *)
(* put, checked with a HEAD, for each file.                                 *)
(***************************************************************************)
ListPrefix(p) ==
    /\ In(p, "list")
    /\ IF bucket[proc[p].call.prefix] = <<>> THEN Advance(p, proc[p]) ELSE Quit(p)
    /\ UNCHANGED <<setting, disk, resident, evidence, bucket, launches, faults>>

Stored(prefix, f, x) ==
    LET b == bucket[prefix]
    IN [i \in DOMAIN b \cup {f} |-> IF i = f THEN x ELSE b[i]]

PutFile(p) ==
    /\ In(p, "put")
    /\ bucket' = [bucket EXCEPT ![proc[p].call.prefix] =
                    Stored(proc[p].call.prefix, proc[p].at, proc[p].data[proc[p].at])]
    /\ Round(p, proc[p], Len(proc[p].data))
    /\ UNCHANGED <<setting, disk, resident, evidence, launches, faults>>

\* verify.rs: every object of the receipt is there with its digest.
StoreVerifies(r) ==
    \A f \in DOMAIN r.objects :
        f \in DOMAIN bucket[r.prefix] /\ bucket[r.prefix][f] = r.objects[f]

(***************************************************************************)
(* What happens around the tools.                                           *)
(***************************************************************************)
Die(p) ==
    /\ proc[p] # None /\ faults < setting.faults
    /\ Quit(p) /\ faults' = faults + 1
    /\ UNCHANGED <<setting, disk, resident, evidence, bucket, launches>>

Rot(a, f, x) ==
    /\ faults < setting.faults /\ disk[a][f] # x
    /\ disk' = [disk EXCEPT ![a][f] = x]
    /\ faults' = faults + 1
    /\ UNCHANGED <<setting, resident, proc, evidence, bucket, launches>>

Reclaim(a, f) ==
    /\ faults < setting.faults /\ f \in resident[a]
    /\ resident' = [resident EXCEPT ![a] = @ \ {f}]
    /\ faults' = faults + 1
    /\ UNCHANGED <<setting, disk, proc, evidence, bucket, launches>>

ToolStep(p) ==
    \/ VerifyFile(p) \/ Touch(p) \/ WriteReceipt(p) \/ Bind(p)
    \/ Sample(p) \/ Decode(p) \/ Encode(p) \/ RunQuery(p) \/ \E plan \in Plans : RunAgain(p, plan)
    \/ WriteReport(p) \/ ListPrefix(p) \/ PutFile(p)

Next ==
    \/ \E p \in Proc : ToolStep(p) \/ Die(p) \/ \E c \in setting.calls : Launch(p, c)
    \/ \E a \in Artifact : \E f \in Files(a) : Reclaim(a, f) \/ \E x \in Damage : Rot(a, f, x)

Spec == Init /\ [][Next]_benchVars

(***************************************************************************)
(* What the evidence is worth.  A scan, write or census report describes    *)
(* exactly the bytes its manifest records, and every sample of a raw read   *)
(* the same bytes, whatever happened to the files meanwhile; a run report   *)
(* holds the suite's answer to each query; a receipt bound to a report was  *)
(* achieved and is for its artifact; a store receipt names the manifest's   *)
(* files, all of them uploaded, and verifies unless another artifact was    *)
(* published under the same prefix.                                         *)
(***************************************************************************)
Backed(e) ==
    CASE e.what = "receipt" -> e.valid => Achieved(e.profile, e.after, Len(Recorded[e.artifact]))
      [] e.what = "suite" -> {a[1] : a \in e.answers} = Range(Query)
      [] e.what = "store" ->
           /\ e.objects = Recorded[e.artifact]
           /\ DOMAIN e.objects \subseteq DOMAIN bucket[e.prefix]
           /\ (\A c \in setting.calls : c.tool = "publish" => c.artifact = e.artifact) => StoreVerifies(e)
      [] OTHER ->
           /\ e.tool \in {"scan", "write", "census"} => e.data = Recorded[e.artifact]
           /\ e.tool # "run" => \A i, j \in DOMAIN e.seen : e.seen[i] = e.seen[j]
           /\ e.tool = "run" => \A s \in Range(e.seen) : s \in e.bound.suite.answers
           /\ e.bound # None /\ e.bound.receipt # None =>
                LET r == e.bound.receipt
                IN r.artifact = e.artifact
                   /\ Achieved(r.profile, r.after, Len(Recorded[r.artifact]))

EvidenceBacked == \A n \in Name : evidence[n] # None => Backed(evidence[n])
=============================================================================
