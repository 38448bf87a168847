------------------------------ MODULE KeyIndex ------------------------------
(***************************************************************************)
(* What a writer records about the rows of a part and what a scan concludes *)
(* from it before it opens the file: the packing-key range, the treemap of  *)
(* distinct keys, the Bloom filter the catalog derives from the treemap,    *)
(* the key spans of the row groups, and the min/max of an Int64 column.     *)
(*                                                                          *)
(* A row is a tuple whose first two fields are its packing key and its      *)
(* timestamp.  Int64 is a small signed range that wraps around, as release  *)
(* builds of the program do.                                                *)
(***************************************************************************)
EXTENDS Integers, Sequences, FiniteSets

CONSTANTS
    MaxBitmapKeys,  \* stats::MAX_BITMAP_KEYS
    MaxFilterKeys,  \* keyfilter::MAX_KEYS_WORTH_FILTERING
    Tiers,          \* keyfilter::TIERS: key count each size is for, smallest first
    Probes,         \* tier -> key -> the bits its probes demand
    MinInt, MaxInt, \* the range of i64
    Null,           \* SQL NULL
    None            \* Option::None

ASSUME KeyIndexAssumption ==
    /\ MaxBitmapKeys \in Nat /\ MaxFilterKeys \in Nat
    /\ Tiers \in Seq(Nat) /\ Tiers # <<>> /\ DOMAIN Probes = DOMAIN Tiers
    /\ MinInt \in Int /\ MaxInt \in Int /\ MinInt < 0 /\ 0 < MaxInt

Int64 == MinInt..MaxInt

Rows(seq) == {seq[i] : i \in DOMAIN seq}
KeysIn(rows) == {r[1] : r \in rows}
Least(S) == CHOOSE x \in S : \A y \in S : x <= y
Greatest(S) == CHOOSE x \in S : \A y \in S : x >= y
-----------------------------------------------------------------------------
(* The write side. *)

\* KeyBitmapAccumulator: a negative key poisons the treemap; past the cap there
\* is none.
KeyBitmap(rows) ==
    LET ks == KeysIn(rows) IN
    IF ks = {} \/ (\E k \in ks : k < 0) \/ Cardinality(ks) > MaxBitmapKeys
    THEN None ELSE ks

\* The span of every flushed row group, by position.
KeyRowGroups(groups) ==
    IF groups = <<>> THEN None
    ELSE [i \in DOMAIN groups |->
            <<Least(KeysIn(Rows(groups[i]))), Greatest(KeysIn(Rows(groups[i])))>>]

\* Int64StatsAccumulator for the timestamp: NULLs do not count.
TsStats(rows) ==
    LET ts == {r[2] : r \in {r \in rows : r[2] # Null}} IN
    IF ts = {} THEN None ELSE <<Least(ts), Greatest(ts)>>

TierFor(n) ==
    LET fits == {i \in DOMAIN Tiers : n <= Tiers[i]} IN
    IF fits = {} THEN Len(Tiers) ELSE Least(fits)

\* keyfilter::build over the treemap's keys, when the part carries one.
KeyFilter(bitmap) ==
    IF bitmap = None THEN None
    ELSE IF Cardinality(bitmap) <= 1 \/ Cardinality(bitmap) > MaxFilterKeys THEN None
    ELSE LET t == TierFor(Cardinality(bitmap))
         IN  [tier |-> t, bits |-> UNION {Probes[t][k] : k \in bitmap}]

\* Faulty variant: the spans leave out the row group still being filled.
PartMetaUnflushed(groups, min, max) ==
    LET rows == UNION {Rows(groups[i]) : i \in DOMAIN groups}
        bitmap == IF min # max THEN KeyBitmap(rows) ELSE None
    IN  [groups |-> groups, min |-> min, max |-> max, bitmap |-> bitmap,
         spans |-> IF min # max THEN KeyRowGroups(SubSeq(groups, 1, Len(groups) - 1)) ELSE None,
         ts |-> TsStats(rows), filter |-> KeyFilter(bitmap)]

\* What a closed file leaves in the catalog.  Only multi-key files are indexed.
PartMeta(groups, min, max) ==
    LET rows == UNION {Rows(groups[i]) : i \in DOMAIN groups}
        bitmap == IF min # max THEN KeyBitmap(rows) ELSE None
    IN  [groups |-> groups, min |-> min, max |-> max, bitmap |-> bitmap,
         spans |-> IF min # max THEN KeyRowGroups(groups) ELSE None,
         ts |-> TsStats(rows), filter |-> KeyFilter(bitmap)]
-----------------------------------------------------------------------------
(* The read side. *)

\* sql_predicate: no filter keeps the part; otherwise every probe must hit.
MaybeContains(filter, k) ==
    filter = None \/ Probes[filter.tier][k] \subseteq filter.bits

Wrapped(n) == IF n > MaxInt THEN MinInt ELSE IF n < MinInt THEN MaxInt ELSE n

\* extract_int64_ranges: the bounds one comparison with a literal contributes.
BoundOf(op, v) ==
    CASE op = "=" -> <<v, v>>
      [] op = ">" -> <<Wrapped(v + 1), None>>
      [] op = ">=" -> <<v, None>>
      [] op = "<" -> <<None, Wrapped(v - 1)>>
      [] op = "<=" -> <<None, v>>

\* ... and the bounds of a conjunction: the tightest of each side.
RangeOf(filters) ==
    LET bs == {BoundOf(f[1], f[2]) : f \in filters}
        los == {b[1] : b \in {b \in bs : b[1] # None}}
        his == {b[2] : b \in {b \in bs : b[2] # None}}
    IN  <<IF los = {} THEN None ELSE Greatest(los), IF his = {} THEN None ELSE Least(his)>>

\* The column_stats predicate of live_parts_pruned; no stats keep the part.
StatsOverlap(ts, range) ==
    \/ ts = None
    \/ /\ range[1] = None \/ ts[2] >= range[1]
       /\ range[2] = None \/ ts[1] <= range[2]

\* live_parts_pruned for one part, one tenant and the filters pushed down.
Candidate(part, k, filters) ==
    /\ part.min <= k /\ k <= part.max
    /\ MaybeContains(part.filter, k)
    /\ StatsOverlap(part.ts, RangeOf(filters))

\* part_excludes_key: only a treemap that answers "absent" licenses a skip.
ExcludesKey(part, k) == part.bitmap # None /\ k >= 0 /\ k \notin part.bitmap

\* access_plan_for: the row groups left to read.
PlannedGroups(part, k) ==
    IF part.spans = None THEN DOMAIN part.groups
    ELSE {i \in DOMAIN part.spans : part.spans[i][1] <= k /\ k <= part.spans[i][2]}

\* The rows a scan for tenant k gets out of the part before the isolation
\* filter runs.
Scanned(part, k, filters) ==
    IF Candidate(part, k, filters) /\ ~ExcludesKey(part, k)
    THEN UNION {Rows(part.groups[i]) : i \in PlannedGroups(part, k)}
    ELSE {}

\* What the query asked for.
Satisfies(r, filter) ==
    /\ r[2] # Null
    /\ CASE filter[1] = "=" -> r[2] = filter[2]
         [] filter[1] = ">" -> r[2] > filter[2]
         [] filter[1] = ">=" -> r[2] >= filter[2]
         [] filter[1] = "<" -> r[2] < filter[2]
         [] filter[1] = "<=" -> r[2] <= filter[2]

Wanted(rows, k, filters) ==
    {r \in rows : r[1] = k /\ \A f \in filters : Satisfies(r, f)}
=============================================================================
