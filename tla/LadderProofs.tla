---------------------------- MODULE LadderProofs ----------------------------
(***************************************************************************)
(* The compactor fleet, for any number of compactors, partitions and files: *)
(* no row is lost, doubled or brought back, and the bounded candidate       *)
(* window gives every eligible partition its turn within one rotation.      *)
(***************************************************************************)
EXTENDS Ladder, FiniteSetTheorems, TLAPS

\* There are finitely many parts, merge inputs and deletion inputs, so a commit
\* id that none of them carries can be found.
Finite ==
    /\ IsFiniteSet(parts) /\ IsFiniteSet(erasure.inputs)
    /\ \A c \in Compactor : IsFiniteSet(work[c].group)

\* delete_key removes only what was ingested: the next file brings no row back.
ErasedIngested == erased \subseteq Ingested

\* How often partition p can have been left out, cursor being at a: while the
\* cursor is past p it rises with every window that leaves p out; after the
\* rewind it rises again, up to p.
Bound(a, p) == IF p <= a THEN a - p ELSE Partitions - p + a

Rotation ==
    \A c \in Compactor : \A kind \in Kind : \A p \in Partition :
        /\ skipped[c][kind][p] <= Bound(cursor[c][kind], p)
        /\ work[c].pc = "rewind" /\ work[c].kind = kind /\ p > cursor[c][kind] =>
               skipped[c][kind][p] = 0

LadderInv == RowsConserved /\ Finite /\ ErasedIngested /\ Rotation
-----------------------------------------------------------------------------
(* Least and greatest elements. *)

\* A finite non-empty set of naturals has a least and a greatest element: a
\* smallest set without them would have two elements, and would still lack one
\* with either of them taken out.
LEMMA Ends ==
    ASSUME NEW S \in SUBSET Nat, S # {}, IsFiniteSet(S)
    PROVE  /\ SetMin(S) \in S /\ \A y \in S : SetMin(S) <= y
           /\ SetMax(S) \in S /\ \A y \in S : SetMax(S) >= y
<1> DEFINE HasMin(T) == \E x \in T : \A y \in T : x <= y
           HasMax(T) == \E x \in T : \A y \in T : x >= y
           Bad == {T \in FiniteSubsetsOf(Nat) : T # {} /\ ~(HasMin(T) /\ HasMax(T))}
<1>1. Bad = {}
  <2> SUFFICES ASSUME Bad # {} PROVE FALSE
    BY Zenon
  <2>1. PICK T \in Bad : \A U \in Bad : ~(<<U, T>> \in StrictSubsetOrdering(Nat))
    <3> HIDE DEF Bad
    <3>1. Bad \subseteq FiniteSubsetsOf(Nat)
      BY Zenon DEF Bad
    <3> QED
      BY <3>1, WFMin, FS_StrictSubsetOrderingWellFounded, Zenon
  <2>2. T \in SUBSET Nat /\ IsFiniteSet(T) /\ T # {} /\ ~(HasMin(T) /\ HasMax(T))
    BY Zenon DEF FiniteSubsetsOf
  <2>3. PICK x \in T : TRUE
    BY <2>2, ZenonT(30)
  <2> DEFINE U == T \ {x}
  <2>4. U \in SUBSET Nat /\ IsFiniteSet(U)
    BY <2>2, FS_RemoveElement, Zenon
  <2>5. U # {}
    <3>1. \A y \in T : (x <= y /\ x >= y) \/ y \in U
      BY <2>2, <2>3
    <3> QED
      BY <2>2, <2>3, <3>1, Zenon
  <2>6. <<U, T>> \in StrictSubsetOrdering(Nat)
    BY <2>2, <2>3, ZenonT(30) DEF StrictSubsetOrdering
  <2>7. HasMin(U) /\ HasMax(U)
    BY <2>1, <2>4, <2>5, <2>6, ZenonT(30) DEF FiniteSubsetsOf
  <2>8. PICK m \in U : \A y \in U : m >= y
    BY <2>7, Zenon
  <2>9. PICK l \in U : \A y \in U : l <= y
    BY <2>7, Zenon
  <2>10. /\ x \in Nat /\ m \in Nat /\ m \in T /\ l \in Nat /\ l \in T
         /\ \A y \in T : y \in Nat /\ (y = x \/ y \in U)
    BY <2>2, <2>3, <2>8, <2>9, Zenon
  <2>11. HasMax(T)
    <3>1. CASE m >= x
      BY <2>10, <3>1, <2>8, Zenon
    <3>2. CASE x >= m
      BY <2>10, <3>2, <2>8, <2>3
    <3> QED
      BY <2>10, <3>1, <3>2
  <2>12. HasMin(T)
    <3>1. CASE l <= x
      BY <2>10, <3>1, <2>9, Zenon
    <3>2. CASE x <= l
      BY <2>10, <3>2, <2>9, <2>3
    <3> QED
      BY <2>10, <3>1, <3>2
  <2> QED
    BY <2>2, <2>11, <2>12, ZenonT(30)
<1>2. HasMin(S) /\ HasMax(S)
  BY <1>1, ZenonT(30) DEF FiniteSubsetsOf
<1> QED
  BY <1>2, ZenonT(30) DEF SetMin, SetMax

\* Partitions are the first naturals, and there are finitely many of them.
LEMMA PartitionSet ==
    ASSUME NEW S \in SUBSET Partition
    PROVE  IsFiniteSet(S) /\ S \in SUBSET Nat
<1>1. Partitions \in Nat
  BY LadderAssumption, Zenon
<1>2. S \in SUBSET Nat /\ \A p \in S : p <= Partitions
  BY <1>1 DEF Partition
<1> QED
  BY <1>1, <1>2, FS_BoundedSetOfNaturals, Zenon
-----------------------------------------------------------------------------
(* Parts. *)

\* The runs of finitely many parts are finitely many naturals; so are levels.
LEMMA RunsFinite ==
    ASSUME NEW ps \in SUBSET Part, IsFiniteSet(ps)
    PROVE  /\ Runs(ps) \in SUBSET Nat /\ IsFiniteSet(Runs(ps))
           /\ Levels(ps) \in SUBSET Nat /\ IsFiniteSet(Levels(ps))
<1>1. Runs(ps) \in SUBSET Nat /\ Levels(ps) \in SUBSET Nat
  BY Zenon DEF Runs, Levels, Part
<1>2. IsFiniteSet(Runs(ps))
  <2> DEFINE f == [x \in ps |-> x.run]
  <2>1. f \in Surjection(ps, Runs(ps))
    BY Zenon DEF Surjection, Runs
  <2> QED
    BY <2>1, FS_Surjection, Zenon
<1>3. IsFiniteSet(Levels(ps))
  <2> DEFINE f == [x \in ps |-> x.level]
  <2>1. f \in Surjection(ps, Levels(ps))
    BY Zenon DEF Surjection, Levels
  <2> QED
    BY <2>1, FS_Surjection, Zenon
<1> QED
  BY <1>1, <1>2, <1>3, Zenon

\* There is always a commit id that is not in use.
LEMMA RunFound ==
    ASSUME TypeOK, Finite
    PROVE  FreshRun \in Nat
<1> DEFINE groups == {work[c].group : c \in Compactor}
           all == parts \cup erasure.inputs \cup UNION groups
           used == Runs(all)
           free == 1..Cardinality(used) + 1 \ used
<1>1. all \in SUBSET Part
  BY DEF TypeOK, Pass
<1>2. IsFiniteSet(all)
  <2>1. IsFiniteSet(groups)
    <3> DEFINE f == [c \in Compactor |-> work[c].group]
    <3>1. f \in Surjection(Compactor, groups)
      BY Zenon DEF Surjection
    <3> QED
      BY <3>1, FS_Surjection, LadderAssumption, Zenon
  <2>2. IsFiniteSet(UNION groups)
    <3>1. \A g \in groups : IsFiniteSet(g)
      BY Zenon DEF Finite
    <3> HIDE DEF groups
    <3> QED
      BY <2>1, <3>1, FS_UNION, Zenon
  <2> HIDE DEF groups
  <2> QED
    BY <2>2, FS_Union, ZenonT(30) DEF Finite
<1> HIDE DEF all
<1>3. used \in SUBSET Nat /\ IsFiniteSet(used)
  BY <1>1, <1>2, RunsFinite, Zenon
<1>4. Cardinality(used) \in Nat
  BY <1>3, FS_CardinalityType, Zenon
<1> HIDE DEF used
<1>5. free # {}
  <2> SUFFICES ASSUME 1..Cardinality(used) + 1 \subseteq used PROVE FALSE
    BY Zenon
  <2>1. Cardinality(1..Cardinality(used) + 1) <= Cardinality(used)
    BY <1>3, FS_Subset, ZenonT(30)
  <2>2. Cardinality(1..Cardinality(used) + 1) = Cardinality(used) + 1
    BY <1>4, FS_Interval
  <2> QED
    BY <1>4, <2>1, <2>2
<1>6. free \in SUBSET Nat /\ IsFiniteSet(free)
  <2>1. IsFiniteSet(1..Cardinality(used) + 1)
    BY <1>4, FS_Interval
  <2> QED
    BY <1>4, <2>1, FS_Subset
<1> HIDE DEF free
<1>7. SetMin(free) \in Nat
  BY <1>5, <1>6, Ends, ZenonT(30)
<1> QED
  BY <1>7, Zenon DEF FreshRun, free, used, all, groups

\* A file about to be committed, which has no commit id yet.
File == [p : Partition, level : Nat, rows : (SUBSET (Nat \X Nat)) \ {{}}]

Disjoint(ps) == \A x, y \in ps : x # y => x.rows \cap y.rows = {}

\* A commit that takes out live parts and brings in files that share no row
\* with each other or with what stays leaves every row in one part at most,
\* and takes and brings no other rows.
LEMMA Swapped ==
    ASSUME TypeOK, Finite, Disjoint(parts),
           NEW old \in SUBSET parts, NEW new \in SUBSET File, IsFiniteSet(new),
           Disjoint(new), RowsOf(new) \cap RowsOf(parts \ old) = {},
           Swap(old, new)
    PROVE  /\ parts' \in SUBSET Part /\ IsFiniteSet(parts')
           /\ Disjoint(parts')
           /\ RowsOf(parts') = RowsOf(parts \ old) \cup RowsOf(new)
<1> DEFINE Stamp(f) == [p |-> f.p, level |-> f.level, run |-> FreshRun, rows |-> f.rows]
           stamped == {Stamp(f) : f \in new}
<1>1. parts' = (parts \ old) \cup stamped
  BY Zenon DEF Swap
<1>2. FreshRun \in Nat
  BY RunFound, Zenon
<1>3. stamped \in SUBSET Part
  BY <1>2 DEF File, Part
<1>4. IsFiniteSet(stamped)
  <2> DEFINE h == [f \in new |-> Stamp(f)]
  <2>1. h \in Surjection(new, stamped)
    BY Zenon DEF Surjection
  <2> QED
    BY <2>1, FS_Surjection, Zenon
<1>5. IsFiniteSet(parts')
  <2>1. IsFiniteSet(parts \ old)
    BY FS_Subset, Zenon DEF Finite
  <2> QED
    BY <1>1, <1>4, <2>1, FS_Union, ZenonT(30)
<1>6. RowsOf(parts') = RowsOf(parts \ old) \cup RowsOf(new)
  <2>1. RowsOf(stamped) = RowsOf(new)
    <3>1. \A f \in new : Stamp(f).rows = f.rows
      BY Zenon
    <3>2. (\A f \in new : Stamp(f) \in stamped) /\ \A x \in stamped : \E f \in new : x = Stamp(f)
      BY Zenon
    <3> HIDE DEF Stamp, stamped
    <3> QED
      BY <3>1, <3>2 DEF RowsOf
  <2> HIDE DEF stamped
  <2> QED
    BY <1>1, <2>1 DEF RowsOf
<1>7. ASSUME NEW x \in parts', NEW y \in parts', x # y
      PROVE  x.rows \cap y.rows = {}
  <2>1. CASE x \in parts \ old /\ y \in parts \ old
    BY <1>7, <2>1, Zenon DEF Disjoint
  <2>2. ASSUME NEW u \in parts \ old, NEW v \in stamped
        PROVE  u.rows \cap v.rows = {}
    BY DEF RowsOf
  <2>3. ASSUME NEW f \in new, NEW g \in new, Stamp(f) # Stamp(g)
        PROVE  f.rows \cap g.rows = {}
    BY <2>3, Zenon DEF Disjoint
  <2>4. CASE x \in stamped /\ y \in stamped
    BY <1>7, <2>3, <2>4
  <2> QED
    BY <1>1, <2>1, <2>2, <2>4, Zenon
<1> QED
  BY <1>1, <1>3, <1>5, <1>6, <1>7, ZenonT(30) DEF TypeOK, Disjoint

\* What stays after taking out live parts holds exactly the other rows.
LEMMA Rest ==
    ASSUME Disjoint(parts), NEW old \in SUBSET parts
    PROVE  RowsOf(parts \ old) = RowsOf(parts) \ RowsOf(old)
BY DEF Disjoint, RowsOf

\* merge_parts writes every row of its inputs to one file, and empty files to
\* none.
LEMMA Merged ==
    ASSUME NEW rows \in SUBSET (Nat \X Nat), rows # {}, NEW files \in FileSets(rows)
    PROVE  /\ UNION files = rows /\ IsFiniteSet(files)
           /\ \A f \in files : f # {} /\ f \in SUBSET (Nat \X Nat)
           /\ \A f, g \in files : f # g => f \cap g = {}
<1>1. CASE files = {rows}
  BY <1>1, FS_Singleton, Zenon
<1>2. ASSUME NEW k \in Keys(rows), NEW j \in Keys(rows), j < k,
             files = {{r \in rows : r[2] < k}, {r \in rows : r[2] >= k}}
      PROVE  /\ UNION files = rows /\ IsFiniteSet(files)
             /\ \A f \in files : f # {} /\ f \in SUBSET (Nat \X Nat)
             /\ \A f, g \in files : f # g => f \cap g = {}
  <2> DEFINE lo == {r \in rows : r[2] < k}
             hi == {r \in rows : r[2] >= k}
  <2>1. k \in Nat /\ j \in Nat /\ \A r \in rows : r[2] \in Nat
    BY Zenon DEF Keys
  <2>2. PICK a \in rows, b \in rows : a[2] = j /\ b[2] = k
    BY Zenon DEF Keys
  <2>3. a \in lo /\ b \in hi
    BY <1>2, <2>1, <2>2
  <2>4. lo \cup hi = rows /\ lo \cap hi = {}
    BY <2>1
  <2>5. IsFiniteSet({lo} \cup {hi})
    BY FS_Singleton, FS_AddElement, ZenonT(30)
  <2>6. files = {lo} \cup {hi}
    BY <1>2, Zenon
  <2> HIDE DEF lo, hi
  <2>7. UNION files = rows
    BY <2>4, <2>6, Zenon
  <2>8. \A f \in files : f # {} /\ f \in SUBSET (Nat \X Nat)
    BY <2>3, <2>4, <2>6, Zenon
  <2>9. \A f, g \in files : f # g => f \cap g = {}
    <3>1. hi \cap lo = {}
      BY <2>4, Zenon
    <3> QED
      BY <2>4, <2>6, <3>1, Zenon
  <2> QED
    BY <2>5, <2>6, <2>7, <2>8, <2>9, Zenon
<1> QED
  BY <1>1, <1>2, Zenon DEF FileSets
-----------------------------------------------------------------------------
(* Passes. *)

\* A well-formed state of one pass.
Sound(w) ==
    /\ w \in Pass /\ IsFiniteSet(w.group)
    /\ (w.pc \in {"idle", "rewind"}) <=> (w.todo = {})
    /\ (w.pc = "merge") => w.group # {}

Passes == work \in [Compactor -> Pass] /\ \A c \in Compactor : Sound(work[c])

\* What a step of the fleet leaves typed apart from the parts and the passes.
Others ==
    /\ arrived \in 0..Len(KeysOf) /\ faults \in 0..MaxFault
    /\ quiet \in [Partition -> BOOLEAN]
    /\ lease \in [Partition -> Compactor \cup {None, Gone}]
    /\ cursor \in [Compactor -> [Kind -> 0..Partitions]]
    /\ erasure \in [pc : {"idle", "rewriting"}, key : Nat, inputs : SUBSET Part]
    /\ IsFiniteSet(erasure.inputs)
    /\ skipped \in [Compactor -> [Kind -> [Partition -> Nat]]]

LEMMA IdleSound == Sound(Idle)
BY FS_EmptySet, Zenon DEF Sound, Pass, Idle, Kind

\* One pass moves, the others stay.
LEMMA OnePass ==
    ASSUME Passes, NEW c \in Compactor, NEW w, Sound(w), work' = [work EXCEPT ![c] = w]
    PROVE  Passes'
<1>1. w \in Pass
  BY Zenon DEF Sound
<1>2. work' \in [Compactor -> Pass] /\ \A d \in Compactor : work'[d] = IF d = c THEN w ELSE work[d]
  BY <1>1, Zenon DEF Passes
<1>3. \A d \in Compactor : Sound(work'[d])
  BY <1>2, Zenon DEF Passes
<1> QED
  BY <1>2, <1>3, Zenon DEF Passes

LEMMA GotoSound ==
    ASSUME Passes, NEW c \in Compactor, work[c].pc \notin {"idle", "rewind"},
           NEW l \in {"recheck", "plan", "release"}, Goto(c, l)
    PROVE  Passes'
<1> DEFINE w == [work[c] EXCEPT !.pc = l]
<1>1. work[c] \in Pass /\ Sound(work[c])
  BY Zenon DEF Passes
<1>2. Sound(w)
  BY <1>1, Zenon DEF Sound, Pass
<1>3. work' = [work EXCEPT ![c] = w]
  BY Zenon DEF Goto
<1> HIDE DEF w
<1> QED
  BY <1>2, <1>3, OnePass, ZenonT(30)

LEMMA NextSound ==
    ASSUME Passes, NEW c \in Compactor, work[c].pc \notin {"idle", "rewind"}, NextPartition(c)
    PROVE  Passes'
<1> DEFINE v == work[c]
           w == IF v.todo = {At(c)} THEN Idle
                ELSE [Idle EXCEPT !.pc = "claim", !.kind = v.kind, !.todo = v.todo \ {At(c)}]
<1>1. v \in Pass /\ v.todo # {} /\ v.todo \in SUBSET Partition
  BY Zenon DEF Passes, Sound, Pass
<1>2. Sound(w)
  <2>1. CASE v.todo = {At(c)}
    BY <2>1, IdleSound, Zenon
  <2>2. CASE v.todo # {At(c)}
    <3>1. w = [pc |-> "claim", kind |-> v.kind, todo |-> v.todo \ {At(c)}, group |-> {}, level |-> 0]
      BY <2>2, ZenonT(30) DEF Idle
    <3>2. v.todo \ {At(c)} # {}
      BY <1>1, <2>2, Zenon
    <3>3. v.kind \in Kind
      BY <1>1, Zenon DEF Pass
    <3> HIDE DEF v, w
    <3> QED
      BY <1>1, <3>1, <3>2, <3>3, FS_EmptySet, Zenon DEF Sound, Pass
  <2> QED
    BY <2>1, <2>2, Zenon
<1>3. work' = [work EXCEPT ![c] = w]
  BY Zenon DEF NextPartition
<1> HIDE DEF w
<1> QED
  BY <1>2, <1>3, OnePass, ZenonT(30)

\* A window that is full is not empty, and its last partition is the cursor.
LEMMA CursorTyped ==
    ASSUME NEW w \in SUBSET Partition, ~(Cardinality(w) < Limit)
    PROVE  w # {} /\ SetMax(w) \in w /\ \A p \in w : p <= SetMax(w)
<1>1. w # {}
  <2>1. 0 < Limit
    BY LadderAssumption
  <2>2. w = {} => Cardinality(w) = 0
    BY FS_EmptySet, Zenon
  <2> QED
    BY <2>1, <2>2, Zenon
<1>2. w \in SUBSET Nat /\ IsFiniteSet(w)
  BY PartitionSet, Zenon
<1>3. SetMax(w) \in w /\ \A p \in w : SetMax(w) >= p
  BY <1>1, <1>2, Ends, Zenon
<1> QED
  BY <1>1, <1>2, <1>3, Zenon

LEMMA Offered ==
    ASSUME Passes, Others, NEW c \in Compactor, NEW kind \in Kind, NEW w \in SUBSET Partition,
           Offer(c, kind, w)
    PROVE  /\ Passes'
           /\ cursor' \in [Compactor -> [Kind -> 0..Partitions]]
           /\ skipped' \in [Compactor -> [Kind -> [Partition -> Nat]]]
<1>1. Partitions \in Nat
  BY LadderAssumption, Zenon
<1>2. (IF Cardinality(w) < Limit THEN 0 ELSE SetMax(w)) \in 0..Partitions
  <2>1. CASE Cardinality(w) < Limit
    BY <1>1, <2>1
  <2>2. CASE ~(Cardinality(w) < Limit)
    <3>1. SetMax(w) \in Partition
      BY <2>2, CursorTyped, Zenon
    <3> QED
      BY <1>1, <2>2, <3>1 DEF Partition
  <2> QED
    BY <2>1, <2>2, Zenon
<1>3. cursor' \in [Compactor -> [Kind -> 0..Partitions]]
  BY <1>2, Zenon DEF Offer, Others
<1>4. Skips(c, kind, w) \in [Partition -> Nat]
  BY DEF Skips, Others
<1>5. skipped' \in [Compactor -> [Kind -> [Partition -> Nat]]]
  BY <1>4, Zenon DEF Offer, Others
<1>6. Passes'
  <2> DEFINE v == IF w = {} THEN Idle ELSE [Idle EXCEPT !.pc = "claim", !.kind = kind, !.todo = w]
  <2>1. Sound(v)
    <3>1. CASE w # {}
      <4>1. v = [pc |-> "claim", kind |-> kind, todo |-> w, group |-> {}, level |-> 0]
        BY <3>1, ZenonT(30) DEF Idle
      <4> HIDE DEF v
      <4> QED
        BY <3>1, <4>1, FS_EmptySet, Zenon DEF Sound, Pass
    <3> QED
      BY <3>1, IdleSound, Zenon
  <2>2. work' = [work EXCEPT ![c] = v]
    BY Zenon DEF Offer
  <2> HIDE DEF v
  <2> QED
    BY <2>1, <2>2, OnePass, ZenonT(30)
<1> QED
  BY <1>3, <1>5, <1>6, Zenon

\* Every step that leaves the parts alone keeps the passes and the rest well
\* formed.
LEMMA FleetStep ==
    ASSUME Passes, Others, parts \in SUBSET Part, IsFiniteSet(parts),
           NEW c \in Compactor, CompactorStep(c) \/ ReleaseFails(c) \/ Fail(c) \/ Crash(c),
           ~Land(c)
    PROVE  Passes' /\ Others' /\ UNCHANGED <<parts, arrived, erased>>
<1> DEFINE Goal == Passes' /\ Others' /\ UNCHANGED <<parts, arrived, erased>>
<1>1. ASSUME NEW kind \in Kind, Sweep(c, kind) PROVE Goal
  <2>1. PICK w \in Windows(c, kind, cursor[c][kind]) : Offer(c, kind, w)
    BY <1>1, Zenon DEF Sweep
  <2>2. w \in SUBSET Partition
    BY <2>1, Zenon DEF Windows, Candidates, Eligible
  <2>3. Passes' /\ cursor' \in [Compactor -> [Kind -> 0..Partitions]]
        /\ skipped' \in [Compactor -> [Kind -> [Partition -> Nat]]]
    BY <2>1, <2>2, Offered, Zenon
  <2> QED
    BY <1>1, <2>3, Zenon DEF Sweep, Others, partVars
<1>2. CASE Rewind(c)
  <2>1. work[c].kind \in Kind
    BY Zenon DEF Passes, Pass
  <2>2. PICK w \in Windows(c, work[c].kind, 0) : Offer(c, work[c].kind, w)
    BY <1>2, Zenon DEF Rewind
  <2>3. w \in SUBSET Partition
    BY <2>2, Zenon DEF Windows, Candidates, Eligible
  <2>4. Passes' /\ cursor' \in [Compactor -> [Kind -> 0..Partitions]]
        /\ skipped' \in [Compactor -> [Kind -> [Partition -> Nat]]]
    BY <2>1, <2>2, <2>3, Offered, Zenon
  <2> QED
    BY <1>2, <2>4, Zenon DEF Rewind, Others, partVars
<1>3. ASSUME NEW kind \in Kind, RanOffTail(c, kind) PROVE Goal
  <2> DEFINE v == [Idle EXCEPT !.pc = "rewind", !.kind = kind]
  <2>1. Sound(v)
    BY IdleSound, ZenonT(30) DEF Sound, Pass, Idle
  <2>2. work' = [work EXCEPT ![c] = v]
    BY <1>3, Zenon DEF RanOffTail
  <2> HIDE DEF v
  <2>3. Passes'
    BY <2>1, <2>2, OnePass, ZenonT(30)
  <2>4. skipped' \in [Compactor -> [Kind -> [Partition -> Nat]]]
    BY <1>3 DEF RanOffTail, Others
  <2> QED
    BY <1>3, <2>3, <2>4, Zenon DEF RanOffTail, Others, partVars
<1>4. CASE Claim(c)
  <2>1. Passes'
    BY <1>4, GotoSound, Zenon DEF Claim
  <2> QED
    BY <1>4, <2>1, ZenonT(30) DEF Claim, Others, partVars
<1>5. CASE Held(c)
  <2>1. Passes'
    BY <1>5, NextSound, Zenon DEF Held
  <2> QED
    BY <1>5, <2>1, Zenon DEF Held, Others, partVars
<1>6. CASE Recheck(c)
  <2>1. Passes'
    BY <1>6, GotoSound, Zenon DEF Recheck
  <2> QED
    BY <1>6, <2>1, Zenon DEF Recheck, Others, partVars
<1>7. CASE Lose(c)
  <2>1. Passes'
    BY <1>7, GotoSound, Zenon DEF Lose
  <2> QED
    BY <1>7, <2>1, Zenon DEF Lose, Others, partVars
<1>8. CASE Release(c)
  <2>1. Passes'
    BY <1>8, NextSound, Zenon DEF Release
  <2> QED
    BY <1>8, <2>1, ZenonT(30) DEF Release, Others, partVars
<1>9. CASE ReleaseFails(c)
  <2>1. Passes'
    BY <1>9, NextSound, Zenon DEF ReleaseFails
  <2> QED
    BY <1>9, <2>1, LadderAssumption DEF ReleaseFails, Others, partVars
<1>10. CASE Fail(c) \/ Crash(c)
  <2>1. Passes' /\ faults' \in 0..MaxFault
    BY <1>10, OnePass, IdleSound, LadderAssumption DEF Fail, Crash, Restarted, Others
  <2>2. lease' \in [Partition -> Compactor \cup {None, Gone}]
    BY <1>10, ZenonT(30) DEF Fail, Crash, Others
  <2>3. cursor' \in [Compactor -> [Kind -> 0..Partitions]]
    <3>1. [k \in Kind |-> 0] \in [Kind -> 0..Partitions]
      BY LadderAssumption
    <3>2. cursor' = [cursor EXCEPT ![c] = [k \in Kind |-> 0]]
      BY <1>10, Zenon DEF Fail, Crash, Restarted
    <3> QED
      BY <3>1, <3>2, Zenon DEF Others
  <2>4. skipped' \in [Compactor -> [Kind -> [Partition -> Nat]]]
    <3>1. [k \in Kind |-> [p \in Partition |-> 0]] \in [Kind -> [Partition -> Nat]]
      BY Zenon
    <3>2. skipped' = [skipped EXCEPT ![c] = [k \in Kind |-> [p \in Partition |-> 0]]]
      BY <1>10, Zenon DEF Fail, Crash, Restarted
    <3> QED
      BY <3>1, <3>2, Zenon DEF Others
  <2> QED
    BY <1>10, <2>1, <2>2, <2>3, <2>4, Zenon DEF Fail, Crash, Restarted, Others, partVars
<1>11. CASE Plan(c)
  <2> DEFINE ps == LiveIn(At(c))
             low == SetMin(Triggered(ps))
  <2>1. ps \in SUBSET parts /\ ps \in SUBSET Part /\ IsFiniteSet(ps)
    BY FS_Subset, Zenon DEF LiveIn
  <2>2. Levels(ps) \in SUBSET Nat /\ IsFiniteSet(Levels(ps))
    BY <2>1, RunsFinite, Zenon
  <2>3. ASSUME NEW group \in SUBSET ps, group # {}, NEW level \in Nat, Merge(c, group, level)
        PROVE  Passes'
    <3> DEFINE v == [work[c] EXCEPT !.pc = "merge", !.group = group, !.level = level]
    <3>1. work[c] \in Pass /\ Sound(work[c]) /\ work[c].pc = "plan"
      BY <1>11, Zenon DEF Passes, Plan
    <3>2. group \in SUBSET Part /\ IsFiniteSet(group)
      BY <2>1, FS_Subset, Zenon
    <3>3. Sound(v)
      BY <2>3, <3>1, <3>2, ZenonT(30) DEF Sound, Pass
    <3>4. work' = [work EXCEPT ![c] = v]
      BY <2>3, ZenonT(30) DEF Merge
    <3> HIDE DEF v
    <3> QED
      BY <3>3, <3>4, OnePass, ZenonT(30)
  <2>4. ASSUME Triggered(ps) # {}, Merge(c, {x \in ps : x.level = low}, low + 1) PROVE Passes'
    <3>1. Triggered(ps) \in SUBSET Levels(ps)
      BY Zenon DEF Triggered
    <3>2. Triggered(ps) \in SUBSET Nat /\ IsFiniteSet(Triggered(ps))
      BY <2>2, <3>1, FS_Subset, Zenon
    <3>3. low \in Triggered(ps)
      BY <2>4, <3>2, Ends, Zenon
    <3>4. {x \in ps : x.level = low} # {}
      BY <3>1, <3>3, Zenon DEF Levels
    <3> QED
      BY <2>3, <2>4, <3>2, <3>3, <3>4
  <2>5. ASSUME Cardinality(Runs(ps)) >= 2, Merge(c, ps, SetMax(Levels(ps)) + 1) PROVE Passes'
    <3>1. Runs(ps) # {}
      BY <2>5, FS_EmptySet
    <3>2. ps # {} /\ Levels(ps) # {}
      BY <3>1, Zenon DEF Runs, Levels
    <3>3. SetMax(Levels(ps)) \in Nat
      BY <2>2, <3>2, Ends, Zenon
    <3> QED
      BY <2>3, <2>5, <3>2, <3>3
  <2>6. Goto(c, "release") => Passes'
    BY <1>11, GotoSound, Zenon DEF Plan
  <2>7. Passes'
    BY <1>11, <2>4, <2>5, <2>6, Zenon DEF Plan
  <2> QED
    BY <1>11, <2>7, Zenon DEF Plan, Others, partVars
<1> QED
  BY <1>1, <1>2, <1>3, <1>4, <1>5, <1>6, <1>7, <1>8, <1>9, <1>10, <1>11, Zenon DEF CompactorStep

LEMMA WorldStep ==
    ASSUME Passes, Others, parts \in SUBSET Part, IsFiniteSet(parts),
           \/ \E p \in Partition : Cool(p) \/ Expire(p) \/ Stall(p)
           \/ \E k \in Erasable : DeleteStart(k)
           \/ DeleteConflict
    PROVE  Passes' /\ Others' /\ UNCHANGED <<parts, arrived, erased>>
<1>1. ASSUME NEW p \in Partition, Cool(p) \/ Expire(p)
      PROVE  Passes' /\ Others' /\ UNCHANGED <<parts, arrived, erased>>
  BY <1>1, ZenonT(30) DEF Cool, Expire, Passes, Sound, Others, partVars, passVars
<1>2. ASSUME NEW p \in Partition, Stall(p)
      PROVE  Passes' /\ Others' /\ UNCHANGED <<parts, arrived, erased>>
  BY <1>2, LadderAssumption DEF Stall, Passes, Sound, Others, partVars, passVars
<1>3. ASSUME NEW k \in Erasable, DeleteStart(k)
      PROVE  Passes' /\ Others' /\ UNCHANGED <<parts, arrived, erased>>
  <2>1. PICK over \in SUBSET parts : erasure' = [pc |-> "rewriting", key |-> k, inputs |-> over]
    BY <1>3, ZenonT(30) DEF DeleteStart
  <2>2. IsFiniteSet(over) /\ over \in SUBSET Part
    BY <2>1, FS_Subset, Zenon
  <2>3. k \in Nat /\ MaxFault \in Nat
    BY LadderAssumption, Zenon
  <2>4. /\ erasure' \in [pc : {"idle", "rewriting"}, key : Nat, inputs : SUBSET Part]
        /\ IsFiniteSet(erasure'.inputs)
    BY <2>1, <2>2, <2>3, Zenon
  <2>5. faults' \in 0..MaxFault /\ UNCHANGED <<partVars, arrived, passVars, lease>>
    BY <1>3, <2>3 DEF DeleteStart, Others
  <2> QED
    BY <2>4, <2>5, Zenon DEF Passes, Sound, Others, partVars, passVars
<1>4. ASSUME DeleteConflict
      PROVE  Passes' /\ Others' /\ UNCHANGED <<parts, arrived, erased>>
  BY <1>4, FS_EmptySet, Zenon DEF DeleteConflict, NoErasure, Passes, Sound, Others, partVars, passVars
<1> QED
  BY <1>1, <1>2, <1>3, <1>4, Zenon
-----------------------------------------------------------------------------
(* Rows. *)

Accounted ==
    /\ parts \in SUBSET Part /\ IsFiniteSet(parts) /\ erased \in SUBSET (Nat \X Nat)
    /\ RowsOf(parts) = Ingested \ erased
    /\ ErasedIngested /\ Disjoint(parts)

RowsInv == Accounted /\ Passes /\ Others

LEMMA Unfolded == RowsInv <=> RowsConserved /\ Finite /\ ErasedIngested
BY ZenonT(30) DEF RowsInv, Accounted, Passes, Others, Sound, RowsConserved, TypeOK, Finite, Disjoint

\* A file of the next arrival shares no row with any file before it.
LEMMA NewRows ==
    ASSUME arrived \in Nat, arrived < Len(KeysOf)
    PROVE  /\ FileRows(arrived + 1) \in (SUBSET (Nat \X Nat)) \ {{}}
           /\ FileRows(arrived + 1) \cap Ingested = {}
           /\ UNION {FileRows(n) : n \in 1..(arrived + 1)} = Ingested \cup FileRows(arrived + 1)
<1>1. Len(KeysOf) \in Nat /\ arrived + 1 \in 1..Len(KeysOf)
  BY LadderAssumption
<1>2. KeysOf[arrived + 1] \in (SUBSET Nat) \ {{}}
  BY <1>1, LadderAssumption
<1>3. FileRows(arrived + 1) \in (SUBSET (Nat \X Nat)) \ {{}}
  <2>1. PICK k \in KeysOf[arrived + 1] : TRUE
    BY <1>2, Zenon
  <2>2. <<arrived + 1, k>> \in FileRows(arrived + 1)
    BY Zenon DEF FileRows
  <2>3. FileRows(arrived + 1) \in SUBSET (Nat \X Nat)
    BY <1>2 DEF FileRows
  <2> QED
    BY <2>2, <2>3, Zenon
<1>4. ASSUME NEW n \in 1..arrived PROVE FileRows(n) \cap FileRows(arrived + 1) = {}
  BY <1>4 DEF FileRows
<1>5. 1..(arrived + 1) = (1..arrived) \cup {arrived + 1}
  OBVIOUS
<1>6. UNION {FileRows(n) : n \in 1..(arrived + 1)} = Ingested \cup FileRows(arrived + 1)
  BY <1>5, Zenon DEF Ingested
<1>7. FileRows(arrived + 1) \cap Ingested = {}
  BY <1>4, Zenon DEF Ingested
<1> QED
  BY <1>3, <1>6, <1>7, Zenon

LEMMA IngestKept ==
    ASSUME RowsInv, NEW p \in Partition, Ingest(p)
    PROVE  RowsInv'
<1> DEFINE f == [p |-> p, level |-> 0, rows |-> FileRows(arrived + 1)]
<1>1. arrived \in Nat /\ arrived < Len(KeysOf) /\ arrived' = arrived + 1
  BY LadderAssumption DEF RowsInv, Others, Ingest
<1>2. f \in File
  BY <1>1, NewRows, Zenon DEF File
<1>3. Disjoint({f}) /\ IsFiniteSet({f}) /\ RowsOf({f}) = FileRows(arrived + 1)
  <2>1. f.rows = FileRows(arrived + 1)
    BY Zenon
  <2> HIDE DEF f
  <2> QED
    BY <2>1, FS_Singleton, ZenonT(30) DEF Disjoint, RowsOf
<1>4. RowsOf({f}) \cap RowsOf(parts \ {}) = {}
  BY <1>1, <1>3, NewRows DEF RowsInv, Accounted, RowsOf
<1>5. Swap({}, {f})
  BY Zenon DEF Ingest
<1> HIDE DEF f
<1>6. /\ parts' \in SUBSET Part /\ IsFiniteSet(parts') /\ Disjoint(parts')
      /\ RowsOf(parts') = RowsOf(parts \ {}) \cup RowsOf({f})
  <2>1. TypeOK /\ Finite /\ Disjoint(parts)
    BY Unfolded, Zenon DEF RowsConserved, RowsInv, Accounted
  <2>2. {} \in SUBSET parts /\ {f} \in SUBSET File
    BY <1>2, Zenon
  <2> QED
    BY <1>3, <1>4, <1>5, <2>1, <2>2, Swapped, Zenon
<1>7. Ingested' = Ingested \cup FileRows(arrived + 1)
  <2>1. Ingested' = UNION {FileRows(n) : n \in 1..(arrived + 1)}
    BY <1>1, Zenon DEF Ingested, FileRows
  <2> QED
    BY <1>1, <2>1, NewRows, Zenon
<1>8. RowsOf(parts') = Ingested' \ erased /\ erased \subseteq Ingested'
  <2>1. RowsOf(parts \ {}) = Ingested \ erased
    BY Zenon DEF RowsInv, Accounted, RowsOf
  <2>2. FileRows(arrived + 1) \cap erased = {}
    BY <1>1, NewRows, Zenon DEF RowsInv, Accounted, ErasedIngested
  <2> QED
    BY <1>3, <1>6, <1>7, <2>1, <2>2, Zenon DEF RowsInv, Accounted, ErasedIngested
<1>9. erased' = erased
  BY Zenon DEF Ingest
<1>10. Accounted'
  BY <1>6, <1>8, <1>9, Zenon DEF RowsInv, Accounted, ErasedIngested, RowsOf, Disjoint
<1>11. Passes' /\ Others'
  BY <1>1, LadderAssumption DEF Ingest, RowsInv, Passes, Sound, Others, passVars
<1> QED
  BY <1>10, <1>11, Zenon DEF RowsInv

LEMMA LandKept ==
    ASSUME RowsInv, NEW c \in Compactor, Land(c)
    PROVE  RowsInv'
<1> DEFINE group == work[c].group
           rows == RowsOf(group)
           FileOf(f) == [p |-> At(c), level |-> work[c].level, rows |-> f]
<1>1. group \in SUBSET parts /\ group # {} /\ work[c].level \in Nat /\ work[c].todo # {}
      /\ work[c].todo \in SUBSET Partition
  BY ZenonT(30) DEF Land, InputsLive, RowsInv, Passes, Sound, Pass
<1>2. At(c) \in Partition
  BY <1>1, PartitionSet, Ends, Zenon DEF At
<1>3. rows \in SUBSET (Nat \X Nat) /\ rows # {}
  <2>1. \A x \in group : x.rows \in SUBSET (Nat \X Nat) /\ x.rows # {}
    BY <1>1, Zenon DEF RowsInv, Accounted, Part
  <2> HIDE DEF group
  <2> QED
    BY <1>1, <2>1 DEF RowsOf
<1>4. PICK files \in FileSets(rows) : Swap(group, {FileOf(f) : f \in files})
  BY ZenonT(30) DEF Land, RowsOf
<1> HIDE DEF rows
<1>5. /\ UNION files = rows /\ IsFiniteSet(files)
      /\ \A f \in files : f # {} /\ f \in SUBSET (Nat \X Nat)
      /\ \A f, g \in files : f # g => f \cap g = {}
  BY <1>3, <1>4, Merged
<1> DEFINE new == {FileOf(f) : f \in files}
<1>6. new \in SUBSET File
  BY <1>1, <1>2, <1>5 DEF File
<1>7. IsFiniteSet(new)
  <2> DEFINE h == [f \in files |-> FileOf(f)]
  <2>1. h \in Surjection(files, new)
    BY Zenon DEF Surjection
  <2> QED
    BY <1>5, <2>1, FS_Surjection, Zenon
<1>8. /\ \A f \in files : FileOf(f).rows = f /\ FileOf(f) \in new
      /\ \A x \in new : \E f \in files : x = FileOf(f)
  BY Zenon
<1> HIDE DEF FileOf, new
<1>9. Disjoint(new) /\ RowsOf(new) = rows
  <2>1. Disjoint(new)
    BY <1>5, <1>8 DEF Disjoint
  <2>2. RowsOf(new) = UNION files
    BY <1>8 DEF RowsOf
  <2> QED
    BY <1>5, <2>1, <2>2, Zenon
<1>10. TypeOK /\ Finite /\ Disjoint(parts)
  BY Unfolded, Zenon DEF RowsConserved, RowsInv, Accounted
<1>11. RowsOf(parts \ group) = RowsOf(parts) \ rows
  BY <1>1, <1>10, Rest, Zenon DEF rows
<1>12. rows \subseteq RowsOf(parts)
  BY <1>1, Zenon DEF rows, RowsOf
<1>13. /\ parts' \in SUBSET Part /\ IsFiniteSet(parts') /\ Disjoint(parts')
       /\ RowsOf(parts') = RowsOf(parts \ group) \cup RowsOf(new)
  <2>1. RowsOf(new) \cap RowsOf(parts \ group) = {}
    BY <1>9, <1>11, Zenon
  <2>2. Swap(group, new)
    BY <1>4, Zenon DEF new
  <2> QED
    BY <1>1, <1>6, <1>7, <1>9, <1>10, <2>1, <2>2, Swapped, ZenonT(30)
<1>14. RowsOf(parts') = RowsOf(parts)
  BY <1>9, <1>11, <1>12, <1>13, Zenon
<1>15. UNCHANGED <<erased, arrived>>
  BY Zenon DEF Land
<1>16. Accounted'
  BY <1>13, <1>14, <1>15, ZenonT(30) DEF RowsInv, Accounted, ErasedIngested, Ingested, FileRows, RowsOf, Disjoint
<1>17. Passes' /\ Others'
  BY GotoSound, ZenonT(30) DEF Land, RowsInv, Others
<1> QED
  BY <1>16, <1>17, Zenon DEF RowsInv

LEMMA DeleteKept ==
    ASSUME RowsInv, DeleteCommit
    PROVE  RowsInv'
<1> DEFINE inputs == erasure.inputs
           rest(x) == {r \in x.rows : r[2] # erasure.key}
           kept == {x \in inputs : Keys(x.rows) # {erasure.key}}
           FileOf(x) == [p |-> x.p, level |-> x.level, rows |-> rest(x)]
           new == {FileOf(x) : x \in kept}
           gone == UNION {x.rows \ rest(x) : x \in inputs}
<1>1. inputs \in SUBSET parts /\ kept \in SUBSET inputs /\ IsFiniteSet(inputs)
  BY Zenon DEF DeleteCommit, RowsInv, Others
<1>2. TypeOK /\ Finite /\ Disjoint(parts) /\ parts \in SUBSET Part
  BY Unfolded, Zenon DEF RowsConserved, RowsInv, Accounted
<1>3. ASSUME NEW x \in inputs
      PROVE  rest(x) # {} <=> x \in kept
  <2>1. x.rows # {}
    BY <1>1, <1>2, Zenon DEF Part
  <2>2. PICK r \in x.rows : TRUE
    BY <2>1, Zenon
  <2>3. CASE Keys(x.rows) = {erasure.key}
    BY <2>3, Zenon DEF Keys
  <2>4. CASE Keys(x.rows) # {erasure.key}
    <3>1. PICK k \in Keys(x.rows) : k # erasure.key
      BY <2>2, <2>4, Zenon DEF Keys
    <3> QED
      BY <2>4, <3>1, Zenon DEF Keys
  <2> QED
    BY <2>3, <2>4, Zenon
<1>4. new \in SUBSET File
  BY <1>1, <1>2, <1>3 DEF File, Part
<1>5. IsFiniteSet(new)
  <2> DEFINE h == [x \in kept |-> FileOf(x)]
  <2>1. h \in Surjection(kept, new)
    BY ZenonT(30) DEF Surjection
  <2>2. IsFiniteSet(kept)
    BY <1>1, FS_Subset, Zenon
  <2> QED
    BY <2>1, <2>2, FS_Surjection
<1>6. /\ \A x \in kept : FileOf(x).rows = rest(x) /\ FileOf(x) \in new
      /\ \A f \in new : \E x \in kept : f = FileOf(x)
  BY ZenonT(30)
<1>7. \A x \in inputs : rest(x) \subseteq x.rows
  BY Zenon
<1>8. Swap(inputs, new) /\ erased' = erased \cup gone
  BY Zenon DEF DeleteCommit
<1> HIDE DEF inputs, rest, kept, FileOf, new
<1>9. Disjoint(new)
  BY <1>1, <1>2, <1>6, <1>7 DEF Disjoint
<1>10. RowsOf(new) = RowsOf(inputs) \ gone
  <2>1. RowsOf(new) = UNION {rest(x) : x \in kept}
    BY <1>6, ZenonT(30) DEF RowsOf
  <2>2. ASSUME NEW x \in inputs, NEW y \in inputs, NEW r \in rest(x) PROVE r \notin y.rows \ rest(y)
    BY <1>1, <1>2, <1>7, <2>2, Zenon DEF Disjoint
  <2>3. ASSUME NEW x \in inputs, NEW r \in x.rows PROVE r \in x.rows \ rest(x) \/ (x \in kept /\ r \in rest(x))
    BY <1>3, Zenon
  <2> QED
    BY <1>1, <1>7, <2>1, <2>2, <2>3 DEF RowsOf
<1>11. gone \subseteq RowsOf(inputs)
  BY Zenon DEF RowsOf
<1> HIDE DEF gone
<1>12. RowsOf(parts \ inputs) = RowsOf(parts) \ RowsOf(inputs) /\ RowsOf(inputs) \subseteq RowsOf(parts)
  BY <1>1, <1>2, Rest DEF RowsOf
<1>13. /\ parts' \in SUBSET Part /\ IsFiniteSet(parts') /\ Disjoint(parts')
       /\ RowsOf(parts') = RowsOf(parts \ inputs) \cup RowsOf(new)
  <2>1. RowsOf(new) \cap RowsOf(parts \ inputs) = {}
    BY <1>10, <1>12, Zenon
  <2> QED
    BY <1>1, <1>2, <1>4, <1>5, <1>8, <1>9, <2>1, Swapped, Zenon
<1>14. RowsOf(parts') = RowsOf(parts) \ gone
  BY <1>10, <1>11, <1>12, <1>13, Zenon
<1>15. RowsOf(parts) \in SUBSET (Nat \X Nat)
  BY <1>2 DEF RowsOf, Part
<1>16. UNCHANGED arrived
  BY ZenonT(30) DEF DeleteCommit
<1>17. Ingested' = Ingested
  BY <1>16, Zenon DEF Ingested, FileRows
<1>18. RowsOf(parts') = Ingested \ erased' /\ erased' \subseteq Ingested
       /\ erased' \in SUBSET (Nat \X Nat)
  BY <1>8, <1>11, <1>12, <1>14, <1>15, Zenon DEF RowsInv, Accounted, ErasedIngested
<1>19. Accounted'
  BY <1>13, <1>17, <1>18, Zenon DEF Accounted, ErasedIngested, RowsOf, Disjoint
<1>20. Passes' /\ Others'
  <2>1. UNCHANGED <<arrived, passVars, lease, faults>> /\ erasure' = NoErasure
    BY ZenonT(30) DEF DeleteCommit
  <2>2. quiet' \in [Partition -> BOOLEAN]
    BY Zenon DEF DeleteCommit
  <2> QED
    BY <2>1, <2>2, FS_EmptySet, Zenon DEF RowsInv, Passes, Sound, Others, passVars, NoErasure
<1> QED
  BY <1>19, <1>20, Zenon DEF RowsInv

\* Every step keeps the rows accounted for.
LEMMA RowsKept ==
    ASSUME RowsInv, [Next]_vars
    PROVE  RowsInv'
<1>1. ASSUME Passes', Others', UNCHANGED <<parts, arrived, erased>>
      PROVE  RowsInv'
  BY <1>1, Zenon DEF RowsInv, Accounted, ErasedIngested, Ingested, FileRows, RowsOf, Disjoint
<1>2. parts \in SUBSET Part /\ IsFiniteSet(parts) /\ Passes /\ Others
  BY Zenon DEF RowsInv, Accounted
<1>3. ASSUME NEW c \in Compactor, CompactorStep(c) \/ ReleaseFails(c) \/ Fail(c) \/ Crash(c)
      PROVE  RowsInv'
  <2>1. CASE Land(c)
    BY <2>1, LandKept, Zenon
  <2>2. CASE ~Land(c)
    BY <1>1, <1>2, <1>3, <2>2, FleetStep, Zenon
  <2> QED
    BY <2>1, <2>2, Zenon
<1>4. CASE UNCHANGED vars
  BY <1>1, <1>2, <1>4, Zenon DEF vars, partVars, passVars, Passes, Sound, Others
<1>5. ASSUME NEW p \in Partition, Ingest(p) PROVE RowsInv'
  BY <1>5, IngestKept, Zenon
<1>6. ASSUME \/ \E p \in Partition : Cool(p) \/ Expire(p) \/ Stall(p)
             \/ \E k \in Erasable : DeleteStart(k)
             \/ DeleteConflict
      PROVE  RowsInv'
  BY <1>1, <1>2, <1>6, WorldStep, Zenon
<1>7. CASE DeleteCommit
  BY <1>7, DeleteKept, Zenon
<1>8. Mortal \subseteq Compactor
  BY LadderAssumption, Zenon
<1> QED
  BY <1>3, <1>4, <1>5, <1>6, <1>7, <1>8, Zenon DEF Next, TimePasses, DeleteEnd
-----------------------------------------------------------------------------
(* Turns. *)

\* A window taken from cursor position a leaves every partition within its
\* bound at the new position: one that is left out lies behind a, and the
\* cursor rises or starts over, or lies past a full window.
LEMMA OfferTurn ==
    ASSUME Others, NEW c \in Compactor, NEW kind \in Kind, NEW a \in 0..Partitions,
           NEW w \in Windows(c, kind, a), w # {} \/ a = 0, Offer(c, kind, w),
           \A p \in Partition : skipped[c][kind][p] <= Bound(a, p)
    PROVE  \A p \in Partition : skipped'[c][kind][p] <= Bound(cursor'[c][kind], p)
<1> SUFFICES ASSUME NEW p \in Partition
             PROVE  skipped'[c][kind][p] <= Bound(cursor'[c][kind], p)
  BY Zenon
<1> DEFINE b == IF Cardinality(w) < Limit THEN 0 ELSE SetMax(w)
           all == Candidates(c, kind, a)
<1>1. /\ Partitions \in Nat /\ a \in Nat /\ a <= Partitions /\ p \in Nat /\ 1 <= p /\ p <= Partitions
      /\ skipped[c][kind][p] \in Nat
  BY LadderAssumption DEF Others, Partition
<1>2. w \in SUBSET all /\ w \in SUBSET Partition /\ \A q \in w : q > a
  BY Zenon DEF Windows, Candidates, Eligible
<1>3. cursor'[c][kind] = b
  BY Zenon DEF Offer, Others
<1>4. skipped'[c][kind][p] = Skips(c, kind, w)[p]
  BY Zenon DEF Offer, Others
<1>5. ~(Cardinality(w) < Limit) => b \in w /\ b \in Nat /\ b > a /\ b <= Partitions
  <2> SUFFICES ASSUME ~(Cardinality(w) < Limit)
               PROVE  b \in w /\ b \in Nat /\ b > a /\ b <= Partitions
    BY Zenon
  <2>1. b \in w
    BY <1>2, CursorTyped, Zenon
  <2> HIDE DEF b
  <2> QED
    BY <1>1, <1>2, <2>1 DEF Partition
<1>6. CASE ~(p \in Eligible(kind) /\ Claimable(c, p) /\ p \notin w)
  <2>1. skipped'[c][kind][p] = 0
    BY <1>4, <1>6, Zenon DEF Skips
  <2>2. b \in Nat
    BY <1>5, Zenon
  <2> HIDE DEF b
  <2> QED
    BY <1>1, <1>3, <2>1, <2>2 DEF Bound
<1>7. CASE p \in Eligible(kind) /\ Claimable(c, p) /\ p \notin w
  <2>1. skipped'[c][kind][p] = skipped[c][kind][p] + 1
    BY <1>4, <1>7, Zenon DEF Skips
  <2>2. skipped[c][kind][p] <= Bound(a, p)
    BY Zenon
  <2>3. CASE p > a
    <3>1. p \in all \ w
      BY <1>7, <2>3, Zenon DEF Candidates
    <3>2. ~(Cardinality(w) < Limit) /\ \A q \in w : q < p
      BY <3>1, Zenon DEF Windows
    <3>3. b \in Nat /\ b > a /\ b < p
      BY <1>5, <3>2, Zenon
    <3> HIDE DEF b
    <3> QED
      BY <1>1, <1>3, <2>1, <2>2, <2>3, <3>3 DEF Bound
  <2>4. CASE p <= a /\ ~(Cardinality(w) < Limit)
    <3>1. b \in Nat /\ b > a
      BY <1>5, <2>4, Zenon
    <3> HIDE DEF b
    <3> QED
      BY <1>1, <1>3, <2>1, <2>2, <2>4, <3>1 DEF Bound
  <2>5. CASE p <= a /\ Cardinality(w) < Limit
    <3>1. PICK q \in w : TRUE
      BY <1>1, <2>5
    <3>2. q \in Nat /\ q > a /\ q <= Partitions
      BY <1>1, <1>2, <3>1 DEF Partition
    <3>3. b = 0
      BY <2>5, Zenon
    <3> HIDE DEF b
    <3> QED
      BY <1>1, <1>3, <2>1, <2>2, <2>5, <3>2, <3>3 DEF Bound
  <2> QED
    BY <1>1, <2>3, <2>4, <2>5
<1> QED
  BY <1>6, <1>7, Zenon

\* The other sweeps are not touched by one.
LEMMA OfferKept ==
    ASSUME Passes, Others, Rotation, NEW c \in Compactor, NEW kind \in Kind,
           NEW a \in 0..Partitions, NEW w \in Windows(c, kind, a), w # {} \/ a = 0,
           Offer(c, kind, w),
           \A p \in Partition : skipped[c][kind][p] <= Bound(a, p)
    PROVE  Rotation'
<1>1. \A p \in Partition : skipped'[c][kind][p] <= Bound(cursor'[c][kind], p)
  BY OfferTurn
<1>2. work'[c].pc # "rewind"
  BY Zenon DEF Offer, Passes, Idle
<1>3. \A d \in Compactor \ {c} : work'[d] = work[d] /\ cursor'[d] = cursor[d] /\ skipped'[d] = skipped[d]
  BY Zenon DEF Offer, Passes, Others
<1>4. \A k \in Kind \ {kind} : cursor'[c][k] = cursor[c][k] /\ skipped'[c][k] = skipped[c][k]
  BY Zenon DEF Offer, Others
<1>5. ASSUME NEW d \in Compactor, NEW k \in Kind, NEW p \in Partition
      PROVE  /\ skipped'[d][k][p] <= Bound(cursor'[d][k], p)
             /\ work'[d].pc = "rewind" /\ work'[d].kind = k /\ p > cursor'[d][k] =>
                    skipped'[d][k][p] = 0
  <2>1. CASE d # c
    BY <1>3, <2>1 DEF Rotation
  <2>2. CASE d = c /\ k # kind
    BY <1>2, <1>4, <2>2, Zenon DEF Rotation
  <2>3. CASE d = c /\ k = kind
    BY <1>1, <1>2, <2>3, Zenon
  <2> QED
    BY <2>1, <2>2, <2>3, Zenon
<1> QED
  BY <1>5 DEF Rotation, Bound

LEMMA RotationKept ==
    ASSUME RowsInv, Rotation, [Next]_vars
    PROVE  Rotation'
<1>1. Passes /\ Others
  BY Zenon DEF RowsInv
<1>2. ASSUME UNCHANGED <<cursor, skipped>>,
             \A d \in Compactor : work'[d].pc = "rewind" => work'[d] = work[d]
      PROVE  Rotation'
  BY <1>2 DEF Rotation, Bound
<1>3. ASSUME NEW c \in Compactor, NEW kind \in Kind, Sweep(c, kind) PROVE Rotation'
  <2>1. cursor[c][kind] \in 0..Partitions
    BY <1>1 DEF Others
  <2>2. \A p \in Partition : skipped[c][kind][p] <= Bound(cursor[c][kind], p)
    BY Zenon DEF Rotation
  <2> QED
    BY <1>1, <1>3, <2>1, <2>2, OfferKept, Zenon DEF Sweep
<1>4. ASSUME NEW c \in Compactor, Rewind(c) PROVE Rotation'
  <2> DEFINE kind == work[c].kind
             a == cursor[c][kind]
  <2>1. kind \in Kind /\ a \in 0..Partitions /\ Partitions \in Nat
    BY <1>1, LadderAssumption DEF Passes, Pass, Others
  <2>2. ASSUME NEW p \in Partition PROVE skipped[c][kind][p] <= Bound(0, p)
    <3>1. p \in Nat /\ 1 <= p /\ p <= Partitions
      BY <2>1 DEF Partition
    <3>2. skipped[c][kind][p] <= Bound(a, p) /\ (p > a => skipped[c][kind][p] = 0)
      BY <1>4, <2>1, Zenon DEF Rotation, Rewind
    <3>3. skipped[c][kind][p] \in Nat
      BY <1>1, <2>1 DEF Others
    <3> HIDE DEF a, kind
    <3> QED
      BY <2>1, <3>1, <3>2, <3>3 DEF Bound
  <2>3. 0 \in 0..Partitions
    BY <2>1
  <2> QED
    BY <1>1, <1>4, <2>1, <2>2, <2>3, OfferKept, Zenon DEF Rewind
<1>5. ASSUME NEW c \in Compactor, NEW kind \in Kind, RanOffTail(c, kind) PROVE Rotation'
  <2> DEFINE a == cursor[c][kind]
  <2>1. a \in Nat /\ a <= Partitions /\ Partitions \in Nat
    BY <1>1, LadderAssumption DEF Others
  <2>2. \A p \in Partition : p \in Eligible(kind) /\ Claimable(c, p) => ~(p > a)
    <3>1. Cardinality({}) < Limit
      BY FS_EmptySet, LadderAssumption
    <3>2. Candidates(c, kind, a) = {}
      BY <1>5, <3>1, Zenon DEF RanOffTail, Windows
    <3> QED
      BY <3>2, Zenon DEF Candidates
  <2>3. /\ cursor' = cursor
        /\ \A p \in Partition : skipped'[c][kind][p] =
             IF p \in Eligible(kind) /\ Claimable(c, p) THEN skipped[c][kind][p] ELSE 0
    BY <1>1, <1>5, Zenon DEF RanOffTail, Others
  <2>4. ASSUME NEW p \in Partition
        PROVE  skipped'[c][kind][p] <= Bound(a, p) /\ (p > a => skipped'[c][kind][p] = 0)
    <3>1. p \in Nat /\ 1 <= p /\ p <= Partitions
      BY <2>1 DEF Partition
    <3>2. skipped[c][kind][p] <= Bound(a, p)
      BY Zenon DEF Rotation
    <3>3. 0 <= Bound(a, p)
      BY <2>1, <3>1 DEF Bound
    <3> HIDE DEF a
    <3> QED
      BY <2>2, <2>3, <3>2, <3>3, Zenon
  <2>5. \A d \in Compactor \ {c} : work'[d] = work[d] /\ skipped'[d] = skipped[d]
    BY <1>1, <1>5, Zenon DEF RanOffTail, Passes, Others
  <2>6. \A k \in Kind \ {kind} : skipped'[c][k] = skipped[c][k]
    BY <1>1, <1>5, Zenon DEF RanOffTail, Others
  <2>7. work'[c].kind = kind
    BY <1>1, <1>5, Zenon DEF RanOffTail, Passes, Idle
  <2>8. ASSUME NEW d \in Compactor, NEW k \in Kind, NEW p \in Partition
        PROVE  /\ skipped'[d][k][p] <= Bound(cursor'[d][k], p)
               /\ work'[d].pc = "rewind" /\ work'[d].kind = k /\ p > cursor'[d][k] =>
                      skipped'[d][k][p] = 0
    <3>1. CASE d # c
      BY <2>3, <2>5, <3>1 DEF Rotation
    <3>2. CASE d = c /\ k # kind
      BY <2>3, <2>6, <2>7, <3>2, Zenon DEF Rotation
    <3>3. CASE d = c /\ k = kind
      BY <2>3, <2>4, <3>3, Zenon
    <3> QED
      BY <3>1, <3>2, <3>3, Zenon
  <2> QED
    BY <2>8, Zenon DEF Rotation, Bound
<1>6. ASSUME NEW c \in Compactor, Restarted(c) PROVE Rotation'
  <2>1. Partitions \in Nat /\ \A p \in Partition : p \in Nat /\ 1 <= p /\ p <= Partitions
    BY LadderAssumption DEF Partition
  <2>2. /\ \A d \in Compactor \ {c} :
             work'[d] = work[d] /\ cursor'[d] = cursor[d] /\ skipped'[d] = skipped[d]
        /\ \A k \in Kind : cursor'[c][k] = 0 /\ \A p \in Partition : skipped'[c][k][p] = 0
    BY <1>1, <1>6, Zenon DEF Restarted, Passes, Others
  <2>3. ASSUME NEW d \in Compactor, NEW k \in Kind, NEW p \in Partition
        PROVE  /\ skipped'[d][k][p] <= Bound(cursor'[d][k], p)
               /\ work'[d].pc = "rewind" /\ work'[d].kind = k /\ p > cursor'[d][k] =>
                      skipped'[d][k][p] = 0
    <3>1. CASE d # c
      BY <2>2, <3>1 DEF Rotation
    <3>2. CASE d = c
      BY <2>1, <2>2, <3>2 DEF Bound
    <3> QED
      BY <3>1, <3>2, Zenon
  <2> QED
    BY <2>3, Zenon DEF Rotation, Bound
<1>7. ASSUME NEW c \in Compactor,
             \/ Claim(c) \/ Held(c) \/ Recheck(c) \/ Plan(c) \/ Land(c) \/ Lose(c) \/ Release(c)
             \/ ReleaseFails(c)
      PROVE  Rotation'
  <2>1. UNCHANGED <<cursor, skipped>>
    BY <1>7, Zenon DEF Claim, Held, Recheck, Plan, Land, Lose, Release, ReleaseFails
  <2> DEFINE Moved == work'[c].pc # "rewind" /\ \A d \in Compactor \ {c} : work'[d] = work[d]
  <2>2. Moved
    <3>1. ASSUME NEW l, l # "rewind", Goto(c, l) PROVE Moved
      BY <1>1, <3>1, Zenon DEF Goto, Passes, Pass
    <3>2. ASSUME NextPartition(c) PROVE Moved
      BY <1>1, <3>2, Zenon DEF NextPartition, Idle, Passes
    <3>3. ASSUME NEW g, NEW l, Merge(c, g, l) PROVE Moved
      BY <1>1, <3>3, Zenon DEF Merge, Passes, Pass
    <3> HIDE DEF Moved
    <3> QED
      BY <1>7, <3>1, <3>2, <3>3, Zenon
         DEF Claim, Held, Recheck, Plan, Land, Lose, Release, ReleaseFails
  <2> QED
    BY <1>2, <2>1, <2>2, Zenon
<1>8. ASSUME \/ UNCHANGED vars
             \/ \E p \in Partition : Ingest(p) \/ Cool(p) \/ Expire(p) \/ Stall(p)
             \/ \E k \in Erasable : DeleteStart(k)
             \/ DeleteCommit \/ DeleteConflict
      PROVE  Rotation'
  <2>1. UNCHANGED passVars
    BY <1>8, ZenonT(30) DEF vars, Ingest, Cool, Expire, Stall, DeleteStart, DeleteCommit, DeleteConflict
  <2> QED
    BY <1>2, <2>1, Zenon DEF passVars
<1>9. Mortal \subseteq Compactor
  BY LadderAssumption, Zenon
<1> QED
  BY <1>3, <1>4, <1>5, <1>6, <1>7, <1>8, <1>9
     DEF Next, CompactorStep, TimePasses, DeleteEnd, Fail, Crash
-----------------------------------------------------------------------------
LEMMA InitLadder == Init => RowsInv /\ Rotation
<1> SUFFICES ASSUME Init PROVE RowsInv /\ Rotation
  BY Zenon
<1>1. Partitions \in Nat /\ Len(KeysOf) \in Nat /\ MaxFault \in Nat
  BY LadderAssumption
<1>2. Passes
  BY IdleSound, ZenonT(30) DEF Init, Passes, Sound
<1>3. Others
  BY <1>1, FS_EmptySet DEF Init, Others, NoErasure
<1>4. Accounted
  <2>1. Ingested = {}
    BY DEF Init, Ingested
  <2> QED
    BY <2>1, FS_EmptySet, Zenon DEF Init, Accounted, RowsOf, ErasedIngested, Disjoint
<1>5. Rotation
  BY <1>1 DEF Init, Rotation, Bound, Idle, Partition
<1> QED
  BY <1>2, <1>3, <1>4, <1>5, Zenon DEF RowsInv

\* The inductive invariant of the compactor fleet.
THEOREM Compacting == Spec => []LadderInv
<1>1. Init => LadderInv
  BY InitLadder, Unfolded, Zenon DEF LadderInv
<1>2. LadderInv /\ [Next]_vars => LadderInv'
  <2> SUFFICES ASSUME LadderInv, [Next]_vars PROVE LadderInv'
    BY Zenon
  <2>1. RowsInv /\ Rotation
    BY Unfolded, Zenon DEF LadderInv
  <2>2. RowsInv' /\ Rotation'
    BY <2>1, RowsKept, RotationKept, Zenon
  <2>3. RowsInv' => RowsConserved' /\ Finite' /\ ErasedIngested'
    BY Zenon DEF RowsInv, Accounted, Passes, Others, Sound, RowsConserved, TypeOK, Finite, Disjoint
  <2> QED
    BY <2>2, <2>3, Zenon DEF LadderInv
<1> QED
  BY <1>1, <1>2, PTL DEF Spec

\* Whatever merges, finalizations, deletions, expired leases and restarts
\* overlap, every ingested row is in exactly one live part until delete_key
\* removes it, and in none afterwards.
THEOREM RowsNeverLost == Spec => []RowsConserved
<1>1. LadderInv => RowsConserved
  BY Zenon DEF LadderInv
<1> QED
  BY <1>1, Compacting, PTL

\* For any candidate_limit and any number of partitions, a partition that every
\* query of a sweep finds eligible and claimable is offered before the sweep has
\* asked once per partition.
THEOREM EveryTurnComes == Spec => []TurnWithinOneRotation
<1>1. LadderInv => TurnWithinOneRotation
  <2> SUFFICES ASSUME LadderInv, NEW c \in Compactor, NEW kind \in Kind, NEW p \in Partition
               PROVE  skipped[c][kind][p] <= Partitions - 1
    BY Zenon DEF TurnWithinOneRotation
  <2>1. /\ Partitions \in Nat /\ p \in Nat /\ 1 <= p /\ p <= Partitions
        /\ cursor[c][kind] \in 0..Partitions /\ skipped[c][kind][p] \in Nat
    BY LadderAssumption DEF LadderInv, RowsConserved, TypeOK, Partition
  <2>2. skipped[c][kind][p] <= Bound(cursor[c][kind], p)
    BY Zenon DEF LadderInv, Rotation
  <2> QED
    BY <2>1, <2>2 DEF Bound
<1> QED
  BY <1>1, Compacting, PTL
=============================================================================
