------------------------------- MODULE Ladder -------------------------------
(***************************************************************************)
(* The compactor fleet over one hypertable: the level ladder, finalization  *)
(* of cold partitions, and delete_key, which works beside them without a    *)
(* lease.                                                                   *)
(*                                                                          *)
(* A pass asks the catalog for a bounded window of candidate partitions     *)
(* after its cursor, then takes them one by one: claim the lease, replan    *)
(* from the live parts, merge, commit the swap, release.  Every statement   *)
(* to the catalog is a step of its own, so ingest, deletion, the other      *)
(* compactor and the expiry of a lease fall between any two of them.  The   *)
(* lease is its holder here; generations, renewal and REPLACE transactions  *)
(* left behind by a dead worker are CompactionLease's subject.              *)
(*                                                                          *)
(* A row is an (arrival, key) pair, so "the same rows, once each" can be    *)
(* said.  The change-feed cursor a pass advances at its end is never read   *)
(* back to find work and is left out.                                       *)
(***************************************************************************)
EXTENDS Integers, Sequences, FiniteSets

CONSTANTS
    Compactor,   \* compactor processes
    Partitions,  \* partitions are 1..Partitions, in partition_values::text order
    KeysOf,      \* arrival number -> packing keys of that L0 file
    L0Fanout,    \* CompactorConfig::l0_fanout
    Fanout,      \* CompactorConfig::fanout
    Limit,       \* CompactorConfig::candidate_limit
    Mortal,      \* bound: compactors that may fail, stall or crash
    Erasable,    \* bound: packing keys delete_key is called for
    MaxFault,    \* bound: failed passes, crashes, stalls and delete_key calls
    None,        \* no lease row
    Gone         \* the owner id of a process that died

Partition == 1..Partitions
Arrival == DOMAIN KeysOf
Kind == {"ladder", "finalize"}

ASSUME LadderAssumption ==
    /\ Partitions \in Nat \ {0} /\ Limit \in Nat \ {0}
    /\ L0Fanout \in Nat /\ Fanout \in Nat /\ L0Fanout >= 1 /\ Fanout >= 2
    /\ KeysOf \in Seq((SUBSET Nat) \ {{}})
    /\ IsFiniteSet(Compactor) /\ Mortal \subseteq Compactor
    /\ Erasable \subseteq Nat /\ MaxFault \in Nat
    /\ None \notin Compactor /\ Gone \notin Compactor /\ None # Gone

VARIABLES
    parts,    \* the live parts
    arrived,  \* L0 files ingested so far
    quiet,    \* partition -> no L0 part committed for finalize_after_secs
    lease,    \* partition -> holder of an unexpired lease, or None
    work,     \* compactor -> where its pass is
    cursor,   \* compactor -> kind -> last partition offered (0: at the head)
    erasure,  \* the delete_key call in flight
    faults,   \* failures and deletions so far
    erased,   \* history: the rows delete_key has removed
    skipped   \* history: compactor -> kind -> partition -> windows in a row
              \* that left it out although it was eligible and claimable

partVars == <<parts, quiet, erased>>
passVars == <<work, cursor, skipped>>
vars == <<partVars, passVars, arrived, lease, erasure, faults>>

Idle == [pc |-> "idle", kind |-> "ladder", todo |-> {}, group |-> {}, level |-> 0]
NoErasure == [pc |-> "idle", key |-> 0, inputs |-> {}]

Init ==
    /\ parts = {} /\ arrived = 0
    /\ quiet = [p \in Partition |-> TRUE]
    /\ lease = [p \in Partition |-> None]
    /\ work = [c \in Compactor |-> Idle]
    /\ cursor = [c \in Compactor |-> [k \in Kind |-> 0]]
    /\ erasure = NoErasure
    /\ faults = 0
    /\ erased = {}
    /\ skipped = [c \in Compactor |-> [k \in Kind |-> [p \in Partition |-> 0]]]
-----------------------------------------------------------------------------
(* What the catalog says of the live parts. *)

LiveIn(p) == {x \in parts : x.p = p}

Runs(ps) == {x.run : x \in ps}

Levels(ps) == {x.level : x \in ps}

Trigger(level) == IF level = 0 THEN L0Fanout ELSE Fanout

\* The levels of a set of parts whose runs have reached their merge trigger.
Triggered(ps) ==
    {l \in Levels(ps) : Cardinality(Runs({x \in ps : x.level = l})) >= Trigger(l)}

\* Candidates of either sweep, as its SQL selects them.
Eligible(kind) ==
    {p \in Partition : IF kind = "ladder"
                       THEN Triggered(LiveIn(p)) # {}
                       ELSE quiet[p] /\ Cardinality(Runs(LiveIn(p))) >= 2}

\* A worker's own lease leaves its partition visible; a peer's hides it.
Claimable(c, p) == lease[p] \in {None, c}

Candidates(c, kind, after) == {p \in Eligible(kind) : Claimable(c, p) /\ p > after}

\* The first Limit candidates after the cursor (there is one such set).
Windows(c, kind, after) ==
    LET all == Candidates(c, kind, after) IN
    {w \in SUBSET all : /\ Cardinality(w) <= Limit
                        /\ Cardinality(w) < Limit => w = all
                        /\ \A p \in w, q \in all \ w : p < q}

SetMin(S) == CHOOSE x \in S : \A y \in S : x <= y
SetMax(S) == CHOOSE x \in S : \A y \in S : x >= y

Keys(rows) == {r[2] : r \in rows}

\* What a merge can write for a set of rows: all in one file, or cut
\* once between two keys.  Where each placement cuts is Rewrite's subject.
FileSets(rows) ==
    {{rows}} \cup {{{r \in rows : r[2] < k}, {r \in rows : r[2] >= k}} :
                      k \in {k \in Keys(rows) : \E j \in Keys(rows) : j < k}}

\* A commit id no part in sight carries: ids are only compared for equality.
FreshRun ==
    LET used == Runs(parts \cup erasure.inputs \cup UNION {work[c].group : c \in Compactor})
    IN  SetMin(1..Cardinality(used) + 1 \ used)

\* One commit: old parts out, the given files in, under a new commit id.
Swap(old, new) ==
    parts' = (parts \ old) \cup {[p |-> f.p, level |-> f.level, run |-> FreshRun,
                                   rows |-> f.rows] : f \in new}
-----------------------------------------------------------------------------
(* Ingest and time. *)

\* The rows of the n-th L0 file.
FileRows(n) == {<<n, k>> : k \in KeysOf[n]}

\* The next L0 file is committed to p: an ADD, which needs no lease.
Ingest(p) ==
    /\ arrived < Len(KeysOf)
    /\ arrived' = arrived + 1
    /\ Swap({}, {[p |-> p, level |-> 0, rows |-> FileRows(arrived + 1)]})
    /\ quiet' = [quiet EXCEPT ![p] = FALSE]
    /\ UNCHANGED <<passVars, lease, erasure, faults, erased>>

\* finalize_after_secs pass without an L0 commit.
Cool(p) ==
    /\ ~quiet[p]
    /\ quiet' = [quiet EXCEPT ![p] = TRUE]
    /\ UNCHANGED <<parts, arrived, passVars, lease, erasure, faults, erased>>

\* The partition compactor c is at: its window is taken in order.
At(c) == SetMin(work[c].todo)

Working(c, p) == work[c].pc \in {"recheck", "plan", "merge", "release"} /\ At(c) = p

\* Faulty variant: only leases of known workers are timed.
ExpireKnownOwner(p) ==
    /\ lease[p] \in Compactor
    /\ ~Working(lease[p], p)
    /\ lease' = [lease EXCEPT ![p] = None]
    /\ UNCHANGED <<partVars, arrived, passVars, erasure, faults>>

\* A lease nobody renews any more runs out.
Expire(p) ==
    /\ lease[p] # None
    /\ ~ \E c \in Compactor : lease[p] = c /\ Working(c, p)
    /\ lease' = [lease EXCEPT ![p] = None]
    /\ UNCHANGED <<partVars, arrived, passVars, erasure, faults>>

\* A worker stalls past its TTL while it holds the partition.
Stall(p) ==
    /\ faults < MaxFault
    /\ \E c \in Mortal : lease[p] = c /\ Working(c, p)
    /\ lease' = [lease EXCEPT ![p] = None]
    /\ faults' = faults + 1
    /\ UNCHANGED <<partVars, arrived, passVars, erasure>>
-----------------------------------------------------------------------------
(* One pass of compactor c. *)

Goto(c, pc) == work' = [work EXCEPT ![c].pc = pc]

\* Done with the partition at hand, or refused it: on to the next one.
NextPartition(c) ==
    LET w == work[c] IN
    work' = [work EXCEPT ![c] =
        IF w.todo = {At(c)} THEN Idle
        ELSE [Idle EXCEPT !.pc = "claim", !.kind = w.kind, !.todo = w.todo \ {At(c)}]]

\* The windows in a row that left p out, w being the next one; a query that
\* does not find p eligible and claimable ends the row.
Skips(c, kind, w) ==
    [p \in Partition |-> IF p \in Eligible(kind) /\ Claimable(c, p) /\ p \notin w
                        THEN skipped[c][kind][p] + 1 ELSE 0]

\* Faulty variant: a full window does not move the cursor.
OfferHead(c, kind, w) ==
    /\ cursor' = [cursor EXCEPT ![c][kind] = 0]
    /\ work' = [work EXCEPT ![c] = IF w = {} THEN Idle
                   ELSE [Idle EXCEPT !.pc = "claim", !.kind = kind, !.todo = w]]
    /\ skipped' = [skipped EXCEPT ![c][kind] = Skips(c, kind, w)]

\* The window is taken and the cursor rotated past it, whatever comes of the
\* partitions in it; a window the query could not fill rewinds the cursor.
Offer(c, kind, w) ==
    /\ cursor' = [cursor EXCEPT ![c][kind] = IF Cardinality(w) < Limit THEN 0 ELSE SetMax(w)]
    /\ work' = [work EXCEPT ![c] = IF w = {} THEN Idle
                   ELSE [Idle EXCEPT !.pc = "claim", !.kind = kind, !.todo = w]]
    /\ skipped' = [skipped EXCEPT ![c][kind] = Skips(c, kind, w)]

\* The tick of one kind: the query of its sweep.
Sweep(c, kind) ==
    /\ work[c].pc = "idle"
    /\ \E w \in Windows(c, kind, cursor[c][kind]) :
          (w # {} \/ cursor[c][kind] = 0) /\ Offer(c, kind, w)
    /\ UNCHANGED <<partVars, arrived, lease, erasure, faults>>

\* A resumed sweep that finds nothing has run off the tail.
RanOffTail(c, kind) ==
    /\ work[c].pc = "idle" /\ cursor[c][kind] # 0
    /\ {} \in Windows(c, kind, cursor[c][kind])
    /\ work' = [work EXCEPT ![c] = [Idle EXCEPT !.pc = "rewind", !.kind = kind]]
    /\ skipped' = [skipped EXCEPT ![c][kind] =
          [p \in Partition |-> IF p \in Eligible(kind) /\ Claimable(c, p) THEN @[p] ELSE 0]]
    /\ UNCHANGED <<cursor, partVars, arrived, lease, erasure, faults>>

\* It asks again from the head.
Rewind(c) ==
    /\ work[c].pc = "rewind"
    /\ \E w \in Windows(c, work[c].kind, 0) : Offer(c, work[c].kind, w)
    /\ UNCHANGED <<partVars, arrived, lease, erasure, faults>>

Claim(c) ==
    LET p == At(c) IN
    /\ work[c].pc = "claim" /\ Claimable(c, p)
    /\ lease' = [lease EXCEPT ![p] = c]
    /\ Goto(c, IF work[c].kind = "finalize" THEN "recheck" ELSE "plan")
    /\ UNCHANGED <<partVars, arrived, cursor, skipped, erasure, faults>>

\* A peer took the partition since the window was built.
Held(c) ==
    /\ work[c].pc = "claim" /\ ~Claimable(c, At(c))
    /\ NextPartition(c)
    /\ UNCHANGED <<partVars, arrived, cursor, skipped, lease, erasure, faults>>

\* finalize_partition asks again whether the partition is quiet.
Recheck(c) ==
    /\ work[c].pc = "recheck"
    /\ Goto(c, IF quiet[At(c)] THEN "plan" ELSE "release")
    /\ UNCHANGED <<partVars, arrived, cursor, skipped, lease, erasure, faults>>

Merge(c, group, level) ==
    work' = [work EXCEPT ![c].pc = "merge", ![c].group = group, ![c].level = level]

\* The live parts of the claimed partition are read and the inputs chosen: the
\* lowest triggered level, or everything when two runs are left to fold.
Plan(c) ==
    LET ps == LiveIn(At(c))
        low == SetMin(Triggered(ps))
    IN
    /\ work[c].pc = "plan"
    /\ CASE work[c].kind = "ladder" /\ Triggered(ps) # {} ->
                Merge(c, {x \in ps : x.level = low}, low + 1)
         [] work[c].kind = "finalize" /\ Cardinality(Runs(ps)) >= 2 ->
                Merge(c, ps, SetMax(Levels(ps)) + 1)
         [] OTHER -> Goto(c, "release")
    /\ UNCHANGED <<partVars, arrived, cursor, skipped, lease, erasure, faults>>

\* Faulty variant: tombstone_parts does not count the rows it updated.
InputsLiveUnchecked(c) == TRUE

\* REPLACE finds every one of its inputs still live.
InputsLive(c) == work[c].group \subseteq parts

\* The swap is committed: the fence holds and the inputs are there.
Land(c) ==
    LET p == At(c) IN
    /\ work[c].pc = "merge"
    /\ lease[p] = c /\ InputsLive(c)
    /\ \E files \in FileSets(UNION {x.rows : x \in work[c].group}) :
          Swap(work[c].group, {[p |-> p, level |-> work[c].level, rows |-> f] : f \in files})
    /\ Goto(c, "release")
    /\ UNCHANGED <<quiet, erased, arrived, cursor, skipped, lease, erasure, faults>>

\* LeaseLost, from the renewal task or from the fence, or Conflict: the merge
\* is dropped and the partition is left to a later pass.
Lose(c) ==
    /\ work[c].pc = "merge"
    /\ lease[At(c)] # c \/ ~InputsLive(c)
    /\ Goto(c, "release")
    /\ UNCHANGED <<partVars, arrived, cursor, skipped, lease, erasure, faults>>

Release(c) ==
    LET p == At(c) IN
    /\ work[c].pc = "release"
    /\ lease' = [lease EXCEPT ![p] = IF @ = c THEN None ELSE @]
    /\ NextPartition(c)
    /\ UNCHANGED <<partVars, arrived, cursor, skipped, erasure, faults>>

\* A release that fails is logged and the pass goes on.
ReleaseFails(c) ==
    /\ work[c].pc = "release" /\ faults < MaxFault
    /\ faults' = faults + 1
    /\ NextPartition(c)
    /\ UNCHANGED <<partVars, arrived, cursor, skipped, lease, erasure>>

\* The worker starts over: rebuilt under its owner id, or as a new process.
Restarted(c) ==
    /\ faults < MaxFault
    /\ faults' = faults + 1
    /\ work' = [work EXCEPT ![c] = Idle]
    /\ cursor' = [cursor EXCEPT ![c] = [k \in Kind |-> 0]]
    /\ skipped' = [skipped EXCEPT ![c] = [k \in Kind |-> [p \in Partition |-> 0]]]
    /\ UNCHANGED <<partVars, arrived, erasure>>

\* Any catalog or object-store error ends the pass, after a release that
\* succeeds or not; the supervisor rebuilds the compactor.
Fail(c) ==
    /\ work[c].pc # "idle"
    /\ Restarted(c)
    /\ \/ UNCHANGED lease
       \/ /\ work[c].pc \in {"recheck", "plan", "merge"}
          /\ lease[At(c)] = c
          /\ lease' = [lease EXCEPT ![At(c)] = None]

\* The process dies; its successor has an owner id of its own.
Crash(c) ==
    /\ \E p \in Partition : lease[p] = c
    /\ Restarted(c)
    /\ lease' = [p \in Partition |-> IF lease[p] = c THEN Gone ELSE lease[p]]
-----------------------------------------------------------------------------
(* delete_key: one call at a time, no lease. *)

\* The live parts whose key range covers the key are read.
DeleteStart(k) ==
    LET over == {x \in parts : SetMin(Keys(x.rows)) <= k /\ k <= SetMax(Keys(x.rows))} IN
    /\ erasure.pc = "idle" /\ faults < MaxFault
    /\ over # {}
    /\ erasure' = [pc |-> "rewriting", key |-> k, inputs |-> over]
    /\ faults' = faults + 1
    /\ UNCHANGED <<partVars, arrived, passVars, lease>>

\* Every input is dropped or rewritten at its own level without the key's
\* rows, in one commit; a rewritten L0 part is an L0 commit to its partition.
DeleteCommit ==
    LET kept == {x \in erasure.inputs : Keys(x.rows) # {erasure.key}}
        rest(x) == {r \in x.rows : r[2] # erasure.key}
    IN
    /\ erasure.pc = "rewriting" /\ erasure.inputs \subseteq parts
    /\ Swap(erasure.inputs, {[p |-> x.p, level |-> x.level, rows |-> rest(x)] : x \in kept})
    /\ quiet' = [p \in Partition |-> quiet[p] /\ ~ \E x \in kept : x.p = p /\ x.level = 0]
    /\ erased' = erased \cup UNION {x.rows \ rest(x) : x \in erasure.inputs}
    /\ erasure' = NoErasure
    /\ UNCHANGED <<arrived, passVars, lease, faults>>

\* An input was merged away since: Conflict, returned to the caller.
DeleteConflict ==
    /\ erasure.pc = "rewriting" /\ ~ (erasure.inputs \subseteq parts)
    /\ erasure' = NoErasure
    /\ UNCHANGED <<partVars, arrived, passVars, lease, faults>>
-----------------------------------------------------------------------------
CompactorStep(c) ==
    \/ \E kind \in Kind : Sweep(c, kind) \/ RanOffTail(c, kind)
    \/ Rewind(c) \/ Claim(c) \/ Held(c) \/ Recheck(c) \/ Plan(c)
    \/ Land(c) \/ Lose(c) \/ Release(c)

TimePasses == \E p \in Partition : Cool(p) \/ Expire(p)

DeleteEnd == DeleteCommit \/ DeleteConflict

Next ==
    \/ \E p \in Partition : Ingest(p) \/ Stall(p)
    \/ TimePasses
    \/ \E c \in Compactor : CompactorStep(c)
    \/ \E c \in Mortal : ReleaseFails(c) \/ Fail(c) \/ Crash(c)
    \/ \E k \in Erasable : DeleteStart(k)
    \/ DeleteEnd

Spec == Init /\ [][Next]_vars

\* Every compactor keeps running; unrenewed leases run out, quiet time passes
\* and a deletion comes to its end.
Fairness ==
    /\ \A c \in Compactor : WF_vars(CompactorStep(c))
    /\ WF_vars(TimePasses)
    /\ WF_vars(DeleteEnd)

FairSpec == Spec /\ Fairness
-----------------------------------------------------------------------------
Part == [p : Partition, level : Nat, run : Nat, rows : (SUBSET (Nat \X Nat)) \ {{}}]

Pass == [pc : {"idle", "rewind", "claim", "recheck", "plan", "merge", "release"},
         kind : Kind, todo : SUBSET Partition, group : SUBSET Part, level : Nat]

TypeOK ==
    /\ arrived \in 0..Len(KeysOf) /\ faults \in 0..MaxFault
    /\ parts \subseteq Part /\ erased \subseteq Nat \X Nat
    /\ quiet \in [Partition -> BOOLEAN]
    /\ lease \in [Partition -> Compactor \cup {None, Gone}]
    /\ work \in [Compactor -> Pass]
    /\ \A c \in Compactor :
          /\ (work[c].pc \in {"idle", "rewind"}) <=> (work[c].todo = {})
          /\ (work[c].pc = "merge") => work[c].group # {}
    /\ cursor \in [Compactor -> [Kind -> 0..Partitions]]
    /\ erasure \in [pc : {"idle", "rewriting"}, key : Nat, inputs : SUBSET Part]
    /\ skipped \in [Compactor -> [Kind -> [Partition -> Nat]]]

RowsOf(ps) == UNION {x.rows : x \in ps}

Ingested == UNION {FileRows(n) : n \in 1..arrived}

\* Rows are never lost, never doubled and never come back: a row is in the
\* live parts iff it was ingested and no delete_key removed it, and it is in
\* one part only, whatever merges, finalizations, deletions, handed-off leases
\* and restarts overlapped (merge_parts, delete_key, REPLACE's conflict check).
RowsConserved ==
    /\ TypeOK
    /\ RowsOf(parts) = Ingested \ erased
    /\ \A x, y \in parts : x # y => x.rows \cap y.rows = {}

\* The bounded window is fair: a partition that every sweep finds eligible and
\* claimable is left out of at most one window per other partition, however
\* hot the partitions before it are and whatever happens to the ones offered
\* (Compactor::sweep: "gives every eligible partition its turn within one
\* rotation").
TurnWithinOneRotation ==
    \A c \in Compactor : \A kind \in Kind : \A p \in Partition :
        skipped[c][kind][p] <= Partitions - 1

\* "Cold partition = one run": once arrivals, deletions and failures are over,
\* every partition comes to one live run and stays there, through either
\* sweep, with the backlog of dead workers and failed releases included
\* (finalize_once; unfinalized_partitions).
ColdIsOneRun ==
    <>[](\A p \in Partition : Cardinality(Runs(LiveIn(p))) <= 1)
=============================================================================
