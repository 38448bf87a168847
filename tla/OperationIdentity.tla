------------------------- MODULE OperationIdentity --------------------------
(***************************************************************************)
(* The identities of retryable catalog mutations: what an intent becomes    *)
(* (canonical bytes, fingerprint, key) and what that makes of two attempts  *)
(* at the same or at different work.  CatalogTypes takes an identity to be  *)
(* the intent it names; here that is computed from the bytes.               *)
(*                                                                          *)
(* Attempts spell their intents as their workers enumerated them: parts and *)
(* ranges are sequences, a JSON object is the sequence of its members.  A   *)
(* string is a sequence of bytes; an integer and a length, eight bytes in   *)
(* the code, take one place each.  The hash is taken to be injective.       *)
(***************************************************************************)
EXTENDS Integers, Sequences, FiniteSets, SequencesExt

CONSTANTS
    Attempts,   \* what is considered together: sequences of intents
    None

VARIABLES
    attempts,   \* the intents submitted, one for each attempt
    stored,     \* the catalog's operations: [table, key, fingerprint] records
    applied,    \* the attempts that were the first of their operation
    reply       \* attempt -> "applied", "already", "collision", "refused", or None

idVars == <<attempts, stored, applied, reply>>

Init == /\ attempts \in Attempts
        /\ stored = {} /\ applied = {}
        /\ reply = [n \in DOMAIN attempts |-> None]
-----------------------------------------------------------------------------
(* Canonical bytes: every value carries its tag and its length. *)

TagStr == 2
TagInt == 3
TagList == 4
TagNull == 16
TagBool == 17
TagNumber == 18
TagString == 19
TagArray == 20
TagObject == 21

\* A faulty variant: the bytes alone delimit a string.
StrUndelimited(s) == <<TagStr>> \o s
CanonicalStr(s) == <<TagStr, Len(s)>> \o s

CanonicalInt(v) == <<TagInt, v>>

\* The items as they come: the encoder never reorders.
List(items) == <<TagList, Len(items)>> \o FlattenSeq(items)

BytesBefore(a, b) ==
    \E i \in 1 .. Len(b) :
        /\ \A j \in 1 .. i - 1 : j <= Len(a) /\ a[j] = b[j]
        /\ i = Len(a) + 1 \/ (i <= Len(a) /\ a[i] < b[i])

RECURSIVE Json(_)
Json(v) ==
    CASE v[1] = "null"   -> <<TagNull>>
      [] v[1] = "bool"   -> <<TagBool, IF v[2] THEN 1 ELSE 0>>
      [] v[1] = "number" -> <<TagNumber, Len(v[2])>> \o v[2]
      [] v[1] = "string" -> <<TagString, Len(v[2])>> \o v[2]
      [] v[1] = "array"  -> <<TagArray, Len(v[2])>> \o FlattenSeq([i \in DOMAIN v[2] |-> Json(v[2][i])])
      [] v[1] = "object" ->
            LET members == SortSeq(v[2], LAMBDA m, n : BytesBefore(m[1], n[1]))
                bytes(m) == <<Len(m[1])>> \o m[1] \o Json(m[2])
            IN  <<TagObject, Len(members)>> \o FlattenSeq([i \in DOMAIN members |-> bytes(members[i])])

\* Placements by their variant, not by the number the database stores.
Packed == <<112>>
Separated == <<115>>
SizeTargeted == <<116>>
CanonicalPlacement(p) ==
    IF p.kind = "size_targeted" THEN CanonicalStr(SizeTargeted) \o CanonicalInt(p.bytes)
    ELSE CanonicalStr(IF p.kind = "packed" THEN Packed ELSE Separated)

CanonicalParts(ps) == SortSeq(ps, LAMBDA a, b : a < b)

RangeBefore(r, q) ==
    \/ BytesBefore(r.topic, q.topic)
    \/ r.topic = q.topic /\ r.partition < q.partition
    \/ r.topic = q.topic /\ r.partition = q.partition /\ r.first < q.first
    \/ r.topic = q.topic /\ r.partition = q.partition /\ r.first = q.first /\ r.last < q.last

CanonicalRanges(rs) == SortSeq(rs, RangeBefore)
-----------------------------------------------------------------------------
(* What the factories refuse. *)

\* An identical part is next to its twin once the parts are sorted.
PartsMalformed(ps) ==
    LET sorted == SortSeq(ps, LAMBDA a, b : a < b)
    IN  ps = <<>> \/ \E i \in 1 .. Len(ps) - 1 : sorted[i] = sorted[i + 1]

\* An empty topic, an inverted range, or a neighbour that starts too early.
RangesMalformed(rs) ==
    LET sorted == CanonicalRanges(rs) IN
    \/ rs = <<>>
    \/ \E i \in DOMAIN rs : rs[i].topic = <<>> \/ rs[i].first > rs[i].last
    \/ \E i \in 1 .. Len(rs) - 1 :
          /\ sorted[i].topic = sorted[i + 1].topic
          /\ sorted[i].partition = sorted[i + 1].partition
          /\ sorted[i + 1].first <= sorted[i].last

MvMalformed(x) ==
    \/ \E id \in {x.table, x.pipeline, x.source, x.commit} : id <= 0
    \/ x.table = x.source

Refused(x) ==
    CASE x.domain = "mv" -> MvMalformed(x)
      [] x.domain = "ingest" -> RangesMalformed(x.ranges)
      [] x.domain \in {"compaction", "delete-key"} -> PartsMalformed(x.parts) \/ x.sortKey = <<>>
-----------------------------------------------------------------------------
(* The four factories: what goes into the bytes, in their order. *)

MvBody(x) == CanonicalInt(x.pipeline) \o CanonicalInt(x.source) \o CanonicalInt(x.commit)

IngestBody(x) ==
    LET rs == CanonicalRanges(x.ranges)
        bytes(r) == CanonicalStr(r.topic) \o CanonicalInt(r.partition)
                        \o CanonicalInt(r.first) \o CanonicalInt(r.last)
    IN  List([i \in DOMAIN rs |-> bytes(rs[i])])

PartsBody(x) == LET ps == CanonicalParts(x.parts) IN List([i \in DOMAIN ps |-> CanonicalInt(ps[i])])
ShapeBody(x) ==
    Json(x.schema) \o List([i \in DOMAIN x.sortKey |-> CanonicalStr(x.sortKey[i])])
        \o CanonicalPlacement(x.placement)

CompactionBody(x) == CanonicalInt(x.level) \o PartsBody(x) \o Json(x.values) \o ShapeBody(x)
DeleteKeyBody(x) == CanonicalInt(x.key) \o PartsBody(x) \o ShapeBody(x)

\* One byte stands for a name.
Product == <<117>>
DomainName == [mv |-> <<109>>, ingest |-> <<105>>, compaction |-> <<99>>] @@ ("delete-key" :> <<100>>)

\* finish: product, domain, version of the format and table come first.
Fingerprint(x) ==
    CanonicalStr(Product) \o CanonicalStr(DomainName[x.domain]) \o CanonicalInt(1) \o CanonicalInt(x.table)
        \o CanonicalInt(x.version)
        \o CASE x.domain = "mv" -> MvBody(x)
             [] x.domain = "ingest" -> IngestBody(x)
             [] x.domain = "compaction" -> CompactionBody(x)
             [] x.domain = "delete-key" -> DeleteKeyBody(x)

Identity(x) ==
    [table |-> x.table, key |-> <<DomainName[x.domain], Fingerprint(x)>>, fingerprint |-> Fingerprint(x)]
-----------------------------------------------------------------------------
(* An attempt reaches the catalog.  Same key and fingerprint: the work was  *)
(* done; same key and another fingerprint: a loud error.                    *)
Submit(n) ==
    LET x == attempts[n]
        same == {o \in stored : o.table = x.table /\ o.key = Identity(x).key}
    IN
    /\ reply[n] = None
    /\ \/ /\ Refused(x)
          /\ reply' = [reply EXCEPT ![n] = "refused"]
          /\ UNCHANGED <<stored, applied>>
       \/ /\ ~Refused(x) /\ same = {}
          /\ stored' = stored \cup {Identity(x)}
          /\ applied' = applied \cup {n}
          /\ reply' = [reply EXCEPT ![n] = "applied"]
       \/ /\ ~Refused(x) /\ same # {}
          /\ reply' = [reply EXCEPT ![n] =
                IF \E o \in same : o.fingerprint = Identity(x).fingerprint THEN "already" ELSE "collision"]
          /\ UNCHANGED <<stored, applied>>
    /\ UNCHANGED attempts

Next == \E n \in DOMAIN attempts : Submit(n)

Spec == Init /\ [][Next]_idVars
-----------------------------------------------------------------------------
(* What an intent means, whatever its spelling. *)

RECURSIVE JsonMeaning(_)
JsonMeaning(v) ==
    CASE v[1] = "array" -> <<"array", [i \in DOMAIN v[2] |-> JsonMeaning(v[2][i])]>>
      [] v[1] = "object" -> <<"object", {<<v[2][i][1], JsonMeaning(v[2][i][2])>> : i \in DOMAIN v[2]}>>
      [] OTHER -> v

Meaning(x) ==
    CASE x.domain = "mv" -> x
      [] x.domain = "ingest" -> [x EXCEPT !.ranges = ToSet(@)]
      [] x.domain = "compaction" -> [x EXCEPT !.parts = ToSet(@), !.values = JsonMeaning(@), !.schema = JsonMeaning(@)]
      [] x.domain = "delete-key" -> [x EXCEPT !.parts = ToSet(@), !.schema = JsonMeaning(@)]

\* Each part once and each offset once, and no offset of a nameless topic.
Sensible(x) ==
    CASE x.domain = "ingest" ->
            /\ x.ranges # <<>>
            /\ \A i, j \in DOMAIN x.ranges :
                  LET r == x.ranges[i]  q == x.ranges[j] IN
                  /\ r.topic # <<>> /\ r.first <= r.last
                  /\ i # j /\ r.topic = q.topic /\ r.partition = q.partition =>
                        r.first .. r.last \cap q.first .. q.last = {}
      [] x.domain \in {"compaction", "delete-key"} ->
            x.parts # <<>> /\ IsInjective(x.parts) /\ x.sortKey # <<>>
      [] x.domain = "mv" ->
            x.table > 0 /\ x.pipeline > 0 /\ x.source > 0 /\ x.commit > 0 /\ x.table # x.source

\* An attempt is told "already applied" if and only if an attempt with the same
\* meaning was applied before, whatever order its worker met the parts, the
\* ranges and the JSON members in, and whatever strings, numbers and lists
\* could run into each other; an intent that is not sensible is refused, no
\* other is, and no two intents meet under one key (OperationIdentity::mv,
\* ingest, compaction, delete_key; "no two different intents can encode to the
\* same bytes by accident").
RetriesRecognized ==
    \A n \in DOMAIN attempts :
        /\ reply[n] # None => ((reply[n] = "refused") <=> ~Sensible(attempts[n]))
        /\ reply[n] # "collision"
        /\ reply[n] = "already" =>
              \E k \in applied : Meaning(attempts[k]) = Meaning(attempts[n])
        /\ \A k \in applied : n \in applied /\ k # n => Meaning(attempts[k]) # Meaning(attempts[n])
=============================================================================
