--------------------------- MODULE RowFingerprint ---------------------------
(***************************************************************************)
(* The two row-multiset fingerprints the tools compare data sets by:       *)
(* `row-multiset/v1` (prod-synth-integrity), which hashes rows under their *)
(* physical types, and `logical-row-multiset/v1` (parquet-lab-integrity),  *)
(* which hashes them under the types a manifest declares.  Two data sets,  *)
(* each a set of batches in physical shapes of their own, are folded batch *)
(* by batch in any order, in place or shard by shard with a merge.         *)
(*                                                                         *)
(* Integers keep their width: a byte has Base values, an i64 is Word bytes *)
(* and an i128 two words.  BLAKE3 is taken to be collision free, so the    *)
(* canonical bytes stand for their digest, the XOR of digests for the set  *)
(* of digests that occur an odd number of times, and the four wrapping     *)
(* sums for how often each digest occurs.                                  *)
(***************************************************************************)
EXTENDS Integers, Sequences, FiniteSets, Bags

CONSTANTS
    Base, Word,     \* values of a byte; bytes of an i64 (256 and 8)
    Kilo,           \* 1000: seconds, milliseconds, micro- and nanoseconds
    Cases,          \* pairs of data sets with the declared schema to compare
    Null            \* a cell without a value

VARIABLES
    case,           \* the comparison: version, declared types, both sides
    todo,           \* side -> the batches still to fold
    acc,            \* side -> the accumulator
    refused         \* side -> a batch the encoding would not take was met

rfVars == <<case, todo, acc, refused>>

Sides == {"left", "right"}

\* i64::to_le_bytes and i128::to_le_bytes: little endian, two's complement.
LittleEndian(v, bytes) == [i \in 1 .. bytes |-> (v \div Base^(i - 1)) % Base]

Wrap(v) == LET span == Base^Word IN ((v + span \div 2) % span) - span \div 2

\* A float is given by its bits; the sign bit alone is -0.0.
NegativeZero == Base^Word \div 2
FloatBits(v) == IF v = NegativeZero THEN 0 ELSE v

\* A faulty variant: strings are appended without their length.
EncodeStrBare(tag, s) == <<tag>> \o s
EncodeStr(tag, s) == <<tag>> \o LittleEndian(Len(s), Word) \o s

\* The physical types an encoder accepts for each declared type; any other
\* is an UnsupportedCast.
AcceptedPhysical ==
    [signed_int |-> {"int8", "int16", "int32", "int64"},
     timestamp_ms |-> {"int64", "ts_s", "ts_ms", "ts_us", "ts_ns"},
     date_days |-> {"date32", "int32", "int64"},
     utf8 |-> {"utf8", "large_utf8", "utf8view"},
     boolean |-> {"bool"},
     float64 |-> {"float64"}]

\* A micro- or nanosecond column converts only if every value divides.
LossyCast(p, v) == \/ p = "ts_us" /\ v % Kilo # 0
                   \/ p = "ts_ns" /\ v % (Kilo * Kilo) # 0

ToMillis(p, v) == CASE p = "ts_s"  -> Wrap(v * Kilo)
                    [] p = "ts_us" -> v \div Kilo
                    [] p = "ts_ns" -> v \div (Kilo * Kilo)
                    [] OTHER       -> v

\* encoder_for: one cell under its declared logical type.
EncodeLogical(l, p, v) ==
    IF v = Null THEN <<0>>
    ELSE CASE l = "signed_int"   -> <<1>> \o LittleEndian(v, 2 * Word)
           [] l = "timestamp_ms" -> <<2>> \o LittleEndian(ToMillis(p, v), Word)
           [] l = "date_days"    -> <<3>> \o LittleEndian(v, Word)
           [] l = "utf8"         -> EncodeStr(4, v)
           [] l = "boolean"      -> <<5, v>>
           [] l = "float64"      -> <<6>> \o LittleEndian(FloatBits(v), Word)

\* prod-synth-integrity's column encoders: the tag is the physical type.
EncodePhysical(p, v) ==
    IF v = Null THEN <<0>>
    ELSE CASE p = "int64"              -> <<1>> \o LittleEndian(v, Word)
           [] p = "float64"            -> <<2>> \o LittleEndian(FloatBits(v), Word)
           [] p \in {"utf8", "utf8view"} -> EncodeStr(3, v)
           [] p = "bool"               -> <<4, v>>

\* column_encoders: the declared columns and the batch's line up one to one
\* and every cast is exact, or the whole batch is an error.
Encodable(b) ==
    IF case.version = "logical"
    THEN /\ b.names = case.names
         /\ \A i \in DOMAIN b.types :
               /\ b.types[i] \in AcceptedPhysical[case.declared[i]]
               /\ \A r \in DOMAIN b.rows :
                     b.rows[r][i] # Null => ~LossyCast(b.types[i], b.rows[r][i])
    ELSE \A i \in DOMAIN b.types :
            b.types[i] \in {"int64", "float64", "utf8", "utf8view", "bool"}

Canonical(b, row) ==
    LET cell(i) == IF case.version = "logical"
                   THEN EncodeLogical(case.declared[i], b.types[i], row[i])
                   ELSE EncodePhysical(b.types[i], row[i])
        upTo[n \in 0 .. Len(row)] ==
            IF n = 0 THEN <<>> ELSE upTo[n - 1] \o cell(n)
    IN  upTo[Len(row)]

EmptyMultiset == [count |-> 0, xor |-> {}, sum |-> EmptyBag]

SymmetricDifference(S, T) == (S \ T) \cup (T \ S)

Merge(a, b) == [count |-> a.count + b.count,
                xor |-> SymmetricDifference(a.xor, b.xor),
                sum |-> a.sum (+) b.sum]

\* fold: one row's digest into the accumulator.
FoldDigest(a, d) == Merge(a, [count |-> 1, xor |-> {d}, sum |-> SetToBag({d})])

\* update: the rows of a batch, in their order.
FoldBatch(a, b) ==
    LET upTo[n \in 0 .. Len(b.rows)] ==
            IF n = 0 THEN a ELSE FoldDigest(upTo[n - 1], Canonical(b, b.rows[n]))
    IN  upTo[Len(b.rows)]

Init == /\ case \in Cases
        /\ todo = [s \in Sides |-> DOMAIN case[s]]
        /\ acc = [s \in Sides |-> EmptyMultiset]
        /\ refused = [s \in Sides |-> FALSE]

\* One batch is folded in place, or into an accumulator of its own that is
\* merged.  An error ends the fold with no fingerprint.
Update(s, i) ==
    LET b == case[s][i] IN
    /\ i \in todo[s] /\ ~refused[s]
    /\ IF Encodable(b)
       THEN /\ todo' = [todo EXCEPT ![s] = @ \ {i}]
            /\ \/ acc' = [acc EXCEPT ![s] = FoldBatch(@, b)]
               \/ acc' = [acc EXCEPT ![s] = Merge(@, FoldBatch(EmptyMultiset, b))]
            /\ UNCHANGED <<case, refused>>
       ELSE refused' = [refused EXCEPT ![s] = TRUE] /\ UNCHANGED <<case, todo, acc>>

Next == \E s \in Sides : \E i \in DOMAIN case[s] : Update(s, i)

Spec == Init /\ [][Next]_rfVars

-----------------------------------------------------------------------------
\* What a cell says, whatever its physical shape: the type it is read as and
\* the exact value, an instant counted in nanoseconds.
Meaning(c, p, v) ==
    LET l == IF c = "physical" THEN IF p = "utf8view" THEN "utf8" ELSE p ELSE c
        ticks == [ts_s |-> Kilo^3, ts_ms |-> Kilo^2, int64 |-> Kilo^2,
                  ts_us |-> Kilo, ts_ns |-> 1]
    IN  IF v = Null THEN <<"null">>
        ELSE CASE l = "timestamp_ms" -> <<l, v * ticks[p]>>
               [] l = "float64" /\ v = NegativeZero -> <<l, 0>>
               [] OTHER -> <<l, v>>

Rows(s) == UNION {{<<i, r>> : r \in DOMAIN case[s][i].rows} : i \in DOMAIN case[s]}

RowMeaning(s, at) ==
    LET b == case[s][at[1]] IN
    [i \in DOMAIN b.types |->
        Meaning(IF case.version = "logical" THEN case.declared[i] ELSE "physical",
                b.types[i], b.rows[at[2]][i])]

SameRows == \A x \in UNION {{RowMeaning(s, at) : at \in Rows(s)} : s \in Sides} :
               Cardinality({at \in Rows("left") : RowMeaning("left", at) = x})
                 = Cardinality({at \in Rows("right") : RowMeaning("right", at) = x})

Folded(s) == todo[s] = {} /\ ~refused[s]

\* Fingerprints decide whether two data sets hold the same rows: however the
\* rows are split into batches, ordered, folded or merged, and whatever exact
\* physical shape each side uses, the accumulators are equal if and only if
\* every row occurs equally often on both sides.  (update, merge and fold in
\* parquet-lab-integrity and prod-synth-integrity.)
FingerprintDecides ==
    (\A s \in Sides : Folded(s)) => (acc["left"] = acc["right"] <=> SameRows)
=============================================================================
