----------------------------- MODULE SkipIndex ------------------------------
(***************************************************************************)
(* The experimental skip-index sidecar of the Parquet laboratory: what the  *)
(* builder writes for each row group of a variant, what a reader makes of   *)
(* it once the variant, the manifest or the payload blob may have changed,  *)
(* and which row groups a scan leaves out.                                  *)
(*                                                                          *)
(* A value is an integer or a string of bytes.  The payload blob is a       *)
(* sequence of bytes in which an integer and a length take one place each;  *)
(* a digest is the sequence it was computed from.  The variant has one file *)
(* and the sidecar indexes one column of it.                                *)
(***************************************************************************)
EXTENDS Integers, Sequences, FiniteSets, SequencesExt

CONSTANTS
    TopByte,     \* 0xff
    Variants,    \* those considered at each publication: sequences of row groups of values
    Specs,       \* the column specs [kind, budget, len] of each build
    Predicates,  \* the predicates a probe may ask about
    Null, None

VARIABLES
    variant,   \* the published variant: [version, groups], or None
    published, \* how often it was published
    payload,   \* payload.bin, or None
    skip,      \* skip.json, or None
    built,     \* how many sidecars were begun
    build,     \* the build under way, past payload.bin: its manifest, or None
    measured,  \* the variant a reader measures, or None
    bound,     \* the manifest that reader has bound to it, or None
    blob       \* the payload that reader holds, or None

skipVars == <<variant, published, payload, skip, built, build, measured, bound, blob>>

Int64V(i) == <<"int", i>>
Str(s) == <<"str", s>>

Init ==
    /\ variant = None /\ published = 0 /\ payload = None /\ skip = None
    /\ built = 0 /\ build = None /\ measured = None /\ bound = None /\ blob = None
-----------------------------------------------------------------------------
(* The order of values: None across types. *)

BytesLess(a, b) ==
    \E i \in 1..Len(b) :
        /\ \A j \in 1..(i - 1) : j <= Len(a) /\ a[j] = b[j]
        /\ i = Len(a) + 1 \/ (i <= Len(a) /\ a[i] < b[i])

Cmp(a, b) ==
    CASE a[1] # b[1] -> "none"
      [] a = b -> "eq"
      [] a[1] = "int" -> IF a[2] < b[2] THEN "lt" ELSE "gt"
      [] OTHER -> IF BytesLess(a[2], b[2]) THEN "lt" ELSE "gt"

NonNull(values) == SelectSeq(values, LAMBDA v : v # Null)
-----------------------------------------------------------------------------
(* The three indexes: build. *)

ZoneMapBuild(values) ==
    LET widen(z, v) ==
          IF z = None THEN <<v, v>>
          ELSE <<IF Cmp(v, z[1]) = "lt" THEN v ELSE z[1], IF Cmp(v, z[2]) = "gt" THEN v ELSE z[2]>>
    IN  FoldLeft(widen, None, NonNull(values))

EncodeValue(v) == IF v[1] = "int" THEN <<1, v[2]>> ELSE <<2, Len(v[2])>> \o v[2]

\* A set of keys within the budget, or None: never a part of it.
Budgeted(keys, budget) ==
    IF FoldLeft(LAMBDA n, k : n + Len(k) + 4, 0, SetToSeq(keys)) > budget THEN None ELSE keys

ValueSetBuild(values, budget) == Budgeted({EncodeValue(v) : v \in ToSet(NonNull(values))}, budget)

PrefixKey(s, l) == SubSeq(s, 1, IF Len(s) < l THEN Len(s) ELSE l)

PrefixSetBuild(values, l, budget) ==
    LET vs == ToSet(NonNull(values)) IN
    IF \E v \in vs : v[1] # "str" THEN None
    ELSE Budgeted({PrefixKey(v[2], l) : v \in vs}, budget)
-----------------------------------------------------------------------------
(* ... and the bytes they become. *)

ByteZ == 90
ByteV == 86
ByteP == 80

ZoneMapEncode(z) ==
    IF z = None THEN <<ByteZ, 0>> ELSE <<ByteZ, 1>> \o EncodeValue(z[1]) \o EncodeValue(z[2])

\* A BTreeSet is written in order, each item behind its length.
SetEncode(keys) ==
    LET item(k) == <<Len(k)>> \o k
        order == SetToSortSeq(keys, BytesLess)
    IN  <<Cardinality(keys)>> \o FlattenSeq([i \in DOMAIN order |-> item(order[i])])

\* build_payload: None leaves the row group out of the manifest.
BuildPayload(spec, values) ==
    CASE spec.kind = "zone_map" -> ZoneMapEncode(ZoneMapBuild(values))
      [] spec.kind = "value_set" ->
            LET s == ValueSetBuild(values, spec.budget)
            IN  IF s = None THEN None ELSE <<ByteV>> \o SetEncode(s)
      [] spec.kind = "prefix_set" ->
            LET s == PrefixSetBuild(values, spec.len, spec.budget)
            IN  IF s = None THEN None ELSE <<ByteP, spec.len>> \o SetEncode(s)
-----------------------------------------------------------------------------
(* Decoding.  A result is None or what was read; every read is in bounds. *)

Slice(b, from, n) == IF n >= 0 /\ from + n - 1 <= Len(b) THEN SubSeq(b, from, from + n - 1) ELSE None

\* decode_value: <<value, next position>>.
DecodeValue(b, p) ==
    CASE p > Len(b) \/ p + 1 > Len(b) -> None
      [] b[p] = 1 -> <<Int64V(b[p + 1]), p + 2>>
      [] b[p] = 2 -> LET s == Slice(b, p + 2, b[p + 1])
                     IN  IF s = None THEN None ELSE <<Str(s), p + 2 + b[p + 1]>>
      [] OTHER -> None

ZoneMapDecode(b) ==
    CASE Len(b) < 2 \/ b[1] # ByteZ -> None
      [] b[2] = 0 -> [bounds |-> None]
      [] b[2] = 1 ->
            LET lo == DecodeValue(b, 3) IN
            IF lo = None THEN None
            ELSE LET hi == DecodeValue(b, lo[2])
                 IN  IF hi = None THEN None ELSE [bounds |-> <<lo[1], hi[1]>>]
      [] OTHER -> None

\* The items announced at position p, or None when the bytes run out.
SetDecode(b, p) ==
    LET read(acc, i) ==
          IF acc = None \/ acc.at > Len(b) THEN None
          ELSE LET s == Slice(b, acc.at + 1, b[acc.at])
               IN  IF s = None THEN None
                   ELSE [keys |-> acc.keys \cup {s}, at |-> acc.at + 1 + b[acc.at]]
        all == FoldLeft(read, [keys |-> {}, at |-> p + 1], [i \in 1..b[p] |-> i])
    IN  IF p > Len(b) THEN None ELSE IF all = None THEN None ELSE all.keys
-----------------------------------------------------------------------------
(* Evaluation: "no_match" alone permits a skip. *)

PointDecision(v, min, max) ==
    CASE Cmp(v, min) = "lt" \/ Cmp(v, max) = "gt" -> "no_match"
      [] Cmp(v, min) # "none" /\ Cmp(v, max) # "none" -> "maybe"
      [] OTHER -> "unknown"

\* Faulty variant: the last byte is incremented even when it is 0xff's successor
\* that is needed, so the bound of a prefix ending in 0xff is too low.
PrefixUpperNoCarry(p) ==
    IF p = <<>> THEN None
    ELSE IF p[Len(p)] = TopByte THEN SubSeq(p, 1, Len(p) - 1)
    ELSE [p EXCEPT ![Len(p)] = @ + 1]

\* prefix_upper: the last byte below 0xff plus one, the tail dropped.
PrefixUpper(p) ==
    LET low == {i \in DOMAIN p : p[i] < TopByte}
        last == CHOOSE i \in low : \A j \in low : j <= i
    IN  IF low = {} THEN None ELSE [SubSeq(p, 1, last) EXCEPT ![last] = @ + 1]

PrefixDecision(p, min, max) ==
    CASE min[1] # "str" \/ max[1] # "str" -> "unknown"
      [] p = <<>> -> "maybe"
      [] BytesLess(max[2], p) -> "no_match"
      [] PrefixUpper(p) # None /\ ~BytesLess(min[2], PrefixUpper(p)) -> "no_match"
      [] OTHER -> "maybe"

ZoneMapEvaluate(z, pred) ==
    IF z.bounds = None THEN "no_match"
    ELSE LET min == z.bounds[1]
             max == z.bounds[2]
         IN CASE pred.op = "eq" -> PointDecision(pred.v, min, max)
              [] pred.op = "in" ->
                    LET ds == {PointDecision(v, min, max) : v \in pred.vs}
                    IN  IF "unknown" \in ds THEN "unknown"
                        ELSE IF "maybe" \in ds THEN "maybe" ELSE "no_match"
              [] pred.op = "range" ->
                    CASE Cmp(pred.hi, min) = "lt" \/ Cmp(pred.lo, max) = "gt" -> "no_match"
                      [] Cmp(pred.hi, min) # "none" /\ Cmp(pred.lo, max) # "none" -> "maybe"
                      [] OTHER -> "unknown"
              [] pred.op = "prefix" -> PrefixDecision(pred.p, min, max)

Found(b) == IF b THEN "maybe" ELSE "no_match"

ValueSetEvaluate(keys, pred) ==
    CASE pred.op = "eq" -> Found(EncodeValue(pred.v) \in keys)
      [] pred.op = "in" -> Found(\E v \in pred.vs : EncodeValue(v) \in keys)
      [] OTHER -> "unknown"

PrefixSetEvaluate(keys, l, pred) ==
    CASE pred.op = "prefix" /\ Len(pred.p) < l -> "unknown"
      [] pred.op = "prefix" -> Found(SubSeq(pred.p, 1, l) \in keys)
      [] pred.op = "eq" /\ pred.v[1] = "str" -> Found(PrefixKey(pred.v[2], l) \in keys)
      [] OTHER -> "unknown"

\* sidecar::evaluate: a payload that is not the recorded one abstains.
Evaluate(kind, bytes, digest, pred) ==
    LET z == ZoneMapDecode(bytes)
        v == SetDecode(bytes, 2)
        p == SetDecode(bytes, 3)
    IN CASE bytes # digest -> "unknown"
         [] kind = "zone_map" -> IF z = None THEN "unknown" ELSE ZoneMapEvaluate(z, pred)
         [] kind = "value_set" ->
              IF Len(bytes) < 2 \/ bytes[1] # ByteV \/ v = None THEN "unknown"
              ELSE ValueSetEvaluate(v, pred)
         [] kind = "prefix_set" ->
              IF Len(bytes) < 3 \/ bytes[1] # ByteP \/ p = None THEN "unknown"
              ELSE PrefixSetEvaluate(p, bytes[2], pred)
-----------------------------------------------------------------------------
(* The life of a sidecar. *)

\* The rewriter publishes the variant, anew or in place of the old one.
PublishVariant ==
    /\ published < Len(Variants)
    /\ \E g \in Variants[published + 1] : variant' = [version |-> published + 1, groups |-> g]
    /\ published' = published + 1
    /\ UNCHANGED <<payload, skip, built, build, measured, bound, blob>>

\* The index entries of the row groups, and the blob they point into.
Indexed(spec) ==
    LET add(acc, g) ==
          LET bytes == BuildPayload(spec, variant.groups[g]) IN
          IF bytes = None THEN acc
          ELSE [blob |-> acc.blob \o bytes,
                entries |-> acc.entries \cup
                   {[group |-> g, kind |-> spec.kind, offset |-> Len(acc.blob),
                     length |-> Len(bytes), digest |-> bytes]}]
    IN  FoldLeft(add, [blob |-> <<>>, entries |-> {}], [g \in DOMAIN variant.groups |-> g])

\* build, up to payload.bin.  With --replace the old directory goes first.
BuildSidecar(spec) ==
    /\ variant # None /\ build = None /\ built < Len(Specs) /\ spec \in Specs[built + 1]
    /\ built' = built + 1
    /\ LET out == Indexed(spec) IN
       /\ payload' = out.blob
       /\ build' = [parent |-> variant.version, files |-> variant, entries |-> out.entries]
    /\ skip' = None
    /\ UNCHANGED <<variant, published, measured, bound, blob>>

\* ... and skip.json.
WriteManifest ==
    /\ build # None
    /\ skip' = build /\ build' = None
    /\ UNCHANGED <<variant, published, payload, built, measured, bound, blob>>

\* The builder dies between the two files.
BuilderDies ==
    /\ build # None
    /\ build' = None
    /\ UNCHANGED <<variant, published, payload, skip, built, measured, bound, blob>>

\* is_bound_to: the parent's digest and that of every indexed file.
IsBoundTo(m) == m.parent = variant.version /\ m.files = variant

\* load_and_bind for the variant being measured; an unbound sidecar is refused.
LoadAndBind ==
    /\ skip # None /\ bound = None /\ IsBoundTo(skip)
    /\ bound' = skip /\ measured' = variant
    /\ UNCHANGED <<variant, published, payload, skip, built, build, blob>>

\* The payload is read later than the manifest, and may be another one, damaged
\* or cut short by then.
ReadPayload ==
    /\ bound # None /\ blob = None /\ payload # None
    /\ \/ blob' = payload
       \/ \E i \in DOMAIN payload : blob' = [payload EXCEPT ![i] = 0]
       \/ payload # <<>> /\ blob' = Front(payload)
    /\ UNCHANGED <<variant, published, payload, skip, built, build, measured, bound>>

\* The measurement ends.
Release ==
    /\ blob # None
    /\ measured' = None /\ bound' = None /\ blob' = None
    /\ UNCHANGED <<variant, published, payload, skip, built, build>>

Next ==
    \/ PublishVariant \/ WriteManifest \/ BuilderDies \/ LoadAndBind \/ ReadPayload \/ Release
    \/ \E spec \in UNION ToSet(Specs) : BuildSidecar(spec)

Spec == Init /\ [][Next]_skipVars
-----------------------------------------------------------------------------
\* decide: the verdict on one row group of the measured file.
Decide(g, pred) ==
    LET es == {e \in bound.entries : e.group = g} IN
    IF es = {} THEN "unknown"
    ELSE LET e == CHOOSE e \in es : TRUE
             bytes == Slice(blob, e.offset + 1, e.length)
         IN  IF bytes = None THEN "unknown" ELSE Evaluate(e.kind, bytes, e.digest, pred)

\* scan_equality: the row groups the access plan of a scan keeps.
Selected(groups, pred) == {g \in DOMAIN groups : Decide(g, pred) # "no_match"}

\* What a predicate means: NULL satisfies none.
Matches(v, pred) ==
    /\ v # Null
    /\ CASE pred.op = "eq" -> v = pred.v
         [] pred.op = "in" -> v \in pred.vs
         [] pred.op = "range" -> Cmp(pred.lo, v) \in {"lt", "eq"} /\ Cmp(v, pred.hi) \in {"lt", "eq"}
         [] pred.op = "prefix" -> v[1] = "str" /\ IsPrefix(pred.p, v[2])

\* "A NoMatch can never hide a matching row": whatever kind of index was built
\* with whatever budget, and whatever was rebuilt, damaged or cut short between
\* the build, the binding and the read of the payload, a scan of the variant the
\* sidecar was bound to keeps every row group with a row that satisfies the
\* predicate (evaluate, decide, is_bound_to, load_and_bind).
NoFalseSkip ==
    blob # None =>
        \A pred \in Predicates : \A g \in DOMAIN measured.groups :
            (\E i \in DOMAIN measured.groups[g] : Matches(measured.groups[g][i], pred))
                => g \in Selected(measured.groups, pred)
=============================================================================
