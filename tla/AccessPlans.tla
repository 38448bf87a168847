---------------------------- MODULE AccessPlans ----------------------------
(***************************************************************************)
(* The access plans two measurement tools compare: byte ranges of files    *)
(* (file-read-bench) and ordinals of row groups (parquet-scan-bench).  A   *)
(* comparison of a contiguous with a scattered plan is about locality only *)
(* if both read the same volume.  The ranges are then read once each.      *)
(***************************************************************************)
EXTENDS Naturals, Sequences, FiniteSets, SequencesExt, FiniteSetsExt

CONSTANTS
    SparseChunks,   \* scattered ranges per file (16)
    Percent,        \* fractions of a file asked for, in percent
    Artifacts       \* sequences of files [bytes, groups]

VARIABLES files, fraction, plan, ranges, ordinals, local

apVars == <<files, fraction, plan, ranges, ordinals, local>>

CeilPercent(n, p) == (n * p + 99) \div 100

\* budget: the rounded-up fraction, at least a byte and at most the file.
Budget(len, p) == Max({1, Min({len, CeilPercent(len, p)})})

NonEmptyFiles == {f \in DOMAIN files : files[f].bytes > 0}

\* A faulty variant: the remainder of the division is not handed out.
SparseFileRounded(f) ==
    LET len    == files[f].bytes
        total  == Budget(len, fraction)
        chunks == Max({1, Min({SparseChunks, total})})
    IN  [c \in 1 .. chunks |->
            [file |-> f, offset |-> Min({(c - 1) * Max({1, len \div chunks}),
                                         len - total \div chunks}),
             length |-> total \div chunks]]

\* One file of the sparse plan: the budget in equal chunks, the last taking
\* the remainder, each starting a stride after the one before it unless it
\* would run past the end.
SparseFile(f) ==
    LET len    == files[f].bytes
        total  == Budget(len, fraction)
        chunks == Max({1, Min({SparseChunks, total})})
        stride == Max({1, len \div chunks})
        size(c) == total \div chunks + IF c = chunks THEN total % chunks ELSE 0
    IN  [c \in 1 .. chunks |->
            [file |-> f, length |-> size(c),
             offset |-> Min({(c - 1) * stride, len - size(c)})]]

FromStart(f, length) == <<[file |-> f, offset |-> 0, length |-> length]>>

\* build: the range list of a plan, file by file.
BuildRanges(p) ==
    LET inOrder == SetToSortSeq(NonEmptyFiles, <)
        of(f) == CASE p \in {"all", "one"} -> FromStart(f, files[f].bytes)
                   [] p = "contiguous" -> FromStart(f, Budget(files[f].bytes, fraction))
                   [] p = "sparse" -> SparseFile(f)
        chosen == IF p = "one" /\ inOrder # <<>> THEN <<inOrder[1]>> ELSE inOrder
    IN  FlattenSeq([i \in DOMAIN chosen |-> of(chosen[i])])

TotalBytes(rs) == FoldSeq(LAMBDA r, n : r.length + n, 0, rs)

\* spans: the first global ordinal of a file's row groups.
StartOrdinal(f) == FoldSeq(LAMBDA x, n : x.groups + n, 0, SubSeq(files, 1, f - 1))
TotalGroups == StartOrdinal(Len(files) + 1)

\* global_ordinals: the row groups a selection names; a tenth is rounded up
\* and never empty, and dedup removes equal neighbours.
GlobalOrdinals(p) ==
    LET total  == TotalGroups
        count  == Min({total, Max({1, CeilPercent(total, 10)})})
        stride == Max({1, total \div count})
    IN  IF total = 0 THEN {}
        ELSE CASE p = "zero"       -> {}
               [] p = "all"        -> 0 .. total - 1
               [] p = "one"        -> {total \div 2}
               [] p = "contiguous" -> 0 .. count - 1
               [] p = "sparse"     -> {Min({i * stride, total - 1}) : i \in 0 .. count - 1}

\* to_local: each ordinal goes to the one file whose span holds it.
ToLocal(os) ==
    [f \in DOMAIN files |->
        {g - StartOrdinal(f) : g \in {x \in os : /\ x >= StartOrdinal(f)
                                                 /\ x < StartOrdinal(f) + files[f].groups}}]

Unplanned == "none"

Init == /\ files \in Artifacts /\ fraction \in Percent
        /\ plan = Unplanned
        /\ ranges = <<>> /\ ordinals = {} /\ local = [f \in DOMAIN files |-> {}]

\* One sample compiles a plan for its artifact; the tools are asked for one
\* plan at a time over the same files.
Compile(p) == /\ plan' = p
              /\ ranges' = IF p = "zero" THEN <<>> ELSE BuildRanges(p)
              /\ ordinals' = GlobalOrdinals(p)
              /\ local' = ToLocal(ordinals')
              /\ UNCHANGED <<files, fraction>>

Next == \E p \in {"all", "one", "contiguous", "sparse", "zero"} : Compile(p)

Spec == Init /\ [][Next]_apVars

-----------------------------------------------------------------------------
\* Plans of one fraction are comparable and stay inside the artifact: what is
\* scattered reads as many bytes and as many row groups as what is
\* contiguous, every range lies within its file, and the local row groups
\* name each chosen ordinal exactly once.  (ranges.rs build,
\* selection.rs global_ordinals and to_local.)
PlansFair ==
    /\ \A i \in DOMAIN ranges :
          /\ ranges[i].length > 0
          /\ ranges[i].offset + ranges[i].length <= files[ranges[i].file].bytes
    /\ plan \in {"contiguous", "sparse"} =>
          /\ TotalBytes(ranges) =
                FoldFunction(+, 0, [f \in NonEmptyFiles |-> Budget(files[f].bytes, fraction)])
          /\ Cardinality(ordinals) = CeilPercent(TotalGroups, 10)
    /\ \A f \in DOMAIN files : \A g \in local[f] : g < files[f].groups
    /\ FoldFunction(+, 0, [f \in DOMAIN files |-> Cardinality(local[f])])
          = Cardinality(ordinals)
=============================================================================
