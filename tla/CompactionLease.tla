-------------------------- MODULE CompactionLease ---------------------------
(***************************************************************************)
(* The lease on one partition and the compactors that work under it.        *)
(*                                                                          *)
(* A worker claims the partition's compaction_leases row, plans a merge     *)
(* from the live parts, merges while a renewal task keeps the row alive,    *)
(* and sends a REPLACE that is fenced on (owner, generation).  The REPLACE  *)
(* is a transaction of its own: when the renewal task cancels the merge or  *)
(* the process dies, the transaction is left behind as a zombie and may     *)
(* still be executed.  A worker whose pass fails is rebuilt by the          *)
(* supervisor under the same owner id; a crashed process is not.            *)
(*                                                                          *)
(* Time is the database's: a lease holds the time it has left, and every    *)
(* tick takes one unit from it.                                             *)
(***************************************************************************)
EXTENDS Integers, Sequences, FiniteSets

CONSTANTS
    Worker,     \* compactor processes; also their lease owner ids
    Txn,        \* bound: REPLACE transactions in flight or landed
    Ttl,        \* lease_ttl in ticks
    MaxGen,     \* bound: values drawn from compaction_lease_generation_seq
    MaxPart,    \* bound: parts ever committed to the partition
    None        \* no lease row, no transaction, no owner

ASSUME LeaseAssumption ==
    /\ Ttl \in Nat \ {0} /\ MaxGen \in Nat /\ MaxPart \in Nat
    /\ None \notin Txn \cup Worker
    /\ None \notin [owner : Worker, gen : Nat, left : Nat]

VARIABLES
    row,        \* the compaction_leases row, or None
    genSeq,     \* compaction_lease_generation_seq
    partSeq,    \* parts committed so far; a part is its number
    live,       \* the parts that are not tombstoned
    erased,     \* history: the parts delete_key tombstoned
    wpc,        \* worker -> where its pass is
    draw,       \* worker -> generation and expiry its claim evaluated
    tok,        \* worker -> generation of the token it was handed (0: none)
    plan,       \* worker -> the parts it is merging
    mine,       \* worker -> the transaction it awaits, or None
    tpc,        \* transaction -> none, sent, fenced or landed
    tx,         \* transaction -> its owner, generation and input parts
    tenancies,  \* history: the tenancies granted, oldest first
    wten,       \* history: worker -> index of the tenancy it was granted
    xten        \* history: transaction -> its worker's tenancy when sent

leaseVars == <<row, genSeq, tenancies>>
partVars == <<partSeq, live, erased>>
workVars == <<wpc, draw, tok, plan, mine, wten>>
txnVars == <<tpc, tx, xten>>
vars == <<leaseVars, partVars, workVars, txnVars>>

NoReplace == [owner |-> None, gen |-> 0, old |-> {}]
NoDraw == [gen |-> 0, left |-> 0]

Init ==
    /\ row = None
    /\ genSeq = 0
    /\ partSeq = 0
    /\ live = {}
    /\ erased = {}
    /\ wpc = [w \in Worker |-> "idle"]
    /\ draw = [w \in Worker |-> NoDraw]
    /\ tok = [w \in Worker |-> 0]
    /\ plan = [w \in Worker |-> {}]
    /\ mine = [w \in Worker |-> None]
    /\ tpc = [x \in Txn |-> "none"]
    /\ tx = [x \in Txn |-> NoReplace]
    /\ tenancies = <<>>
    /\ wten = [w \in Worker |-> 0]
    /\ xten = [x \in Txn |-> 0]
-----------------------------------------------------------------------------
(* The lease row. *)

Unexpired == row # None /\ row.left > 0

\* What renew, release and the fence all compare.
Matches(w, g) == row # None /\ row.owner = w /\ row.gen = g

\* Faulty variant: the fence reads the row without FOR UPDATE.
RowFreeAlways == TRUE

\* No transaction holds the row FOR UPDATE; every other statement on the row
\* waits for this (and gives up with an error at lock_timeout).
RowFree == \A x \in Txn : tpc[x] # "fenced"

\* INSERT ... VALUES (nextval(..), clock_timestamp() + ttl): evaluated before
\* the statement meets the row, and before it waits for whoever has it.
DrawGeneration(w) ==
    /\ wpc[w] = "idle" /\ genSeq < MaxGen
    /\ genSeq' = genSeq + 1
    /\ draw' = [draw EXCEPT ![w] = [gen |-> genSeq + 1, left |-> Ttl]]
    /\ wpc' = [wpc EXCEPT ![w] = "asking"]
    /\ UNCHANGED <<row, tenancies, partVars, tok, plan, mine, wten, txnVars>>

\* Worker w holds the row under generation g of tenancy number n.
Granted(w, g, n) ==
    /\ row' = [owner |-> w, gen |-> g, left |-> draw[w].left]
    /\ tok' = [tok EXCEPT ![w] = g]
    /\ wten' = [wten EXCEPT ![w] = n]
    /\ wpc' = [wpc EXCEPT ![w] = "claimed"]
    /\ draw' = [draw EXCEPT ![w] = NoDraw]
    /\ UNCHANGED <<genSeq, partVars, plan, mine, txnVars>>

\* Faulty variant: a generation counted in the row, restarting at 1 once a
\* clean release has deleted it.
AcquireRowCounter(w) ==
    /\ wpc[w] = "asking" /\ RowFree
    /\ ~Unexpired
    /\ LET g == IF row = None THEN 1 ELSE row.gen + 1 IN
       /\ tenancies' = Append(tenancies, [owner |-> w, gen |-> g])
       /\ Granted(w, g, Len(tenancies) + 1)

\* The row is free or expired: a new tenancy, under the generation drawn.
Acquire(w) ==
    /\ wpc[w] = "asking" /\ RowFree
    /\ ~Unexpired
    /\ tenancies' = Append(tenancies, [owner |-> w, gen |-> draw[w].gen])
    /\ Granted(w, draw[w].gen, Len(tenancies) + 1)

\* The row is still ours (an earlier release failed): same tenancy, refreshed.
Reacquire(w) ==
    /\ wpc[w] = "asking" /\ RowFree
    /\ Unexpired /\ row.owner = w
    /\ Granted(w, row.gen, Len(tenancies))
    /\ UNCHANGED tenancies

\* Another owner's unexpired row (None), or the statement failed: either way
\* the worker goes on to its next candidate or its next incarnation.  (A claim
\* whose answer is lost leaves what Acquire and a failed release leave.)
ClaimNothing(w) ==
    /\ wpc[w] = "asking"
    /\ wpc' = [wpc EXCEPT ![w] = "idle"]
    /\ draw' = [draw EXCEPT ![w] = NoDraw]
    /\ UNCHANGED <<leaseVars, partVars, tok, plan, mine, wten, txnVars>>
-----------------------------------------------------------------------------
(* A merge under the lease. *)

\* Any two or more of the live parts: what the ladder or finalization selects
\* from the partition's state as of the claim.
PlanMerge(w, group) ==
    /\ wpc[w] = "claimed"
    /\ group \subseteq live /\ Cardinality(group) >= 2
    /\ plan' = [plan EXCEPT ![w] = group]
    /\ wpc' = [wpc EXCEPT ![w] = "merging"]
    /\ UNCHANGED <<leaseVars, partVars, draw, tok, mine, wten, txnVars>>

\* Where a pass over the partition ends, whatever ended it.
Finish(w) ==
    /\ wpc' = [wpc EXCEPT ![w] = "releasing"]
    /\ plan' = [plan EXCEPT ![w] = {}]
    /\ mine' = [mine EXCEPT ![w] = None]

\* Nothing eligible, not quiet, or the read, merge or upload failed.
StopWork(w) ==
    /\ wpc[w] \in {"claimed", "merging"}
    /\ Finish(w)
    /\ UNCHANGED <<leaseVars, partVars, draw, tok, wten, txnVars>>

\* The renewal task ticks while the merge or its commit is in progress.
Renewing(w) == wpc[w] \in {"merging", "committing"}

Renew(w) ==
    /\ Renewing(w) /\ RowFree
    /\ Matches(w, tok[w]) /\ Unexpired
    /\ row' = [owner |-> row.owner, gen |-> row.gen, left |-> Ttl]
    /\ UNCHANGED <<genSeq, tenancies, partVars, workVars, txnVars>>

\* A proven loss, or a statement that failed (lock_timeout behind the worker's
\* own REPLACE included): the merge future is dropped where it stands, and a
\* REPLACE already sent is left to its fate.
RenewFails(w) ==
    /\ Renewing(w)
    /\ Finish(w)
    /\ UNCHANGED <<leaseVars, partVars, draw, tok, wten, txnVars>>

SendReplace(w, x) ==
    /\ wpc[w] = "merging" /\ tpc[x] = "none"
    /\ tpc' = [tpc EXCEPT ![x] = "sent"]
    /\ tx' = [tx EXCEPT ![x] = [owner |-> w, gen |-> tok[w], old |-> plan[w]]]
    /\ xten' = [xten EXCEPT ![x] = wten[w]]
    /\ mine' = [mine EXCEPT ![w] = x]
    /\ wpc' = [wpc EXCEPT ![w] = "committing"]
    /\ UNCHANGED <<leaseVars, partVars, draw, tok, plan, wten>>
-----------------------------------------------------------------------------
(* The REPLACE transaction. *)

\* Whoever still awaits the transaction is answered.
Answer(x) ==
    /\ wpc' = [w \in Worker |-> IF mine[w] = x THEN "releasing" ELSE wpc[w]]
    /\ plan' = [w \in Worker |-> IF mine[w] = x THEN {} ELSE plan[w]]
    /\ mine' = [w \in Worker |-> IF mine[w] = x THEN None ELSE mine[w]]
    /\ UNCHANGED <<leaseVars, draw, tok, wten>>

\* It ends without effect, and lets go of the row.
Vanish(x) ==
    /\ tpc' = [tpc EXCEPT ![x] = "none"]
    /\ tx' = [tx EXCEPT ![x] = NoReplace]
    /\ xten' = [xten EXCEPT ![x] = 0]
    /\ Answer(x)
    /\ UNCHANGED partVars

\* A commit with this identity (these inputs) is already there.
Replayed(x) == \E y \in Txn : tpc[y] = "landed" /\ tx[y].old = tx[x].old

\* Faulty variant: the fence does not compare the generation.
FenceOwnerOnly(x) ==
    /\ tpc[x] = "sent" /\ RowFree /\ ~Replayed(x)
    /\ Unexpired /\ row.owner = tx[x].owner
    /\ tpc' = [tpc EXCEPT ![x] = "fenced"]
    /\ UNCHANGED <<leaseVars, partVars, workVars, tx, xten>>

\* SELECT ... FOR UPDATE finds the tenancy current and keeps the row locked.
Fence(x) ==
    /\ tpc[x] = "sent" /\ RowFree /\ ~Replayed(x)
    /\ Unexpired /\ Matches(tx[x].owner, tx[x].gen)
    /\ tpc' = [tpc EXCEPT ![x] = "fenced"]
    /\ UNCHANGED <<leaseVars, partVars, workVars, tx, xten>>

\* Reconciled before the lease is judged: a replay outlives its tenancy.
AnswerReplay(x) ==
    /\ tpc[x] \in {"sent", "fenced"} /\ Replayed(x)
    /\ Vanish(x)

\* The inputs are all live: tombstoned, and replaced by the merged run.
Land(x) ==
    /\ tpc[x] = "fenced" /\ ~Replayed(x)
    /\ tx[x].old \subseteq live /\ partSeq < MaxPart
    /\ partSeq' = partSeq + 1
    /\ live' = (live \ tx[x].old) \cup {partSeq + 1}
    /\ tpc' = [tpc EXCEPT ![x] = "landed"]
    /\ Answer(x)
    /\ UNCHANGED <<erased, tx, xten>>

\* Lease lost at the fence, inputs gone, connection lost or lock_timeout:
\* rolled back.
Abort(x) ==
    /\ tpc[x] \in {"sent", "fenced"}
    /\ Vanish(x)
-----------------------------------------------------------------------------
(* Giving the partition back, and what happens around the compactors. *)

\* The token goes out of scope.
Forget(w) ==
    /\ tok' = [tok EXCEPT ![w] = 0]
    /\ wten' = [wten EXCEPT ![w] = 0]

Release(w) ==
    /\ wpc[w] = "releasing" /\ RowFree
    /\ row' = IF Matches(w, tok[w]) THEN None ELSE row
    /\ wpc' = [wpc EXCEPT ![w] = "idle"]
    /\ Forget(w)
    /\ UNCHANGED <<genSeq, tenancies, partVars, draw, plan, mine, txnVars>>

\* The DELETE failed: the row stays until it expires.
ReleaseFails(w) ==
    /\ wpc[w] = "releasing"
    /\ wpc' = [wpc EXCEPT ![w] = "idle"]
    /\ Forget(w)
    /\ UNCHANGED <<leaseVars, partVars, draw, plan, mine, txnVars>>

Crash(w) ==
    /\ wpc[w] # "dead"
    /\ wpc' = [wpc EXCEPT ![w] = "dead"]
    /\ plan' = [plan EXCEPT ![w] = {}]
    /\ mine' = [mine EXCEPT ![w] = None]
    /\ draw' = [draw EXCEPT ![w] = NoDraw]
    /\ Forget(w)
    /\ UNCHANGED <<leaseVars, partVars, txnVars>>

\* Ingest commits an L0 part.  It takes no lease.
IngestAdd ==
    /\ partSeq < MaxPart
    /\ partSeq' = partSeq + 1
    /\ live' = live \cup {partSeq + 1}
    /\ UNCHANGED <<erased, leaseVars, workVars, txnVars>>

\* delete_key rewrites or drops the parts ps.  It takes no lease either.
DeleteKey(ps, kept) ==
    /\ ps # {} /\ partSeq + kept <= MaxPart
    /\ partSeq' = partSeq + kept
    /\ live' = (live \ ps) \cup (partSeq + 1)..(partSeq + kept)
    /\ erased' = erased \cup ps
    /\ UNCHANGED <<leaseVars, workVars, txnVars>>

Dec(n) == IF n > 0 THEN n - 1 ELSE 0

\* clock_timestamp() moves on.
Tick ==
    /\ row' = IF row = None THEN row
              ELSE [owner |-> row.owner, gen |-> row.gen, left |-> Dec(row.left)]
    /\ draw' = [w \in Worker |-> [gen |-> draw[w].gen, left |-> Dec(draw[w].left)]]
    /\ UNCHANGED <<genSeq, tenancies, partVars, wpc, tok, plan, mine, wten, txnVars>>

WorkerStep(w) ==
    \/ DrawGeneration(w) \/ Acquire(w) \/ Reacquire(w)
    \/ ClaimNothing(w)
    \/ \E group \in SUBSET live : PlanMerge(w, group)
    \/ StopWork(w) \/ Renew(w) \/ RenewFails(w)
    \/ \E x \in Txn : SendReplace(w, x)
    \/ Release(w) \/ ReleaseFails(w) \/ Crash(w)

TxnStep(x) == Fence(x) \/ AnswerReplay(x) \/ Land(x) \/ Abort(x)

Next ==
    \/ \E w \in Worker : WorkerStep(w)
    \/ \E x \in Txn : TxnStep(x)
    \/ IngestAdd
    \/ \E ps \in SUBSET live, kept \in 0..1 : DeleteKey(ps, kept)
    \/ Tick

Spec == Init /\ [][Next]_vars
-----------------------------------------------------------------------------
(* Properties. *)

Lease == [owner : Worker, gen : 0..MaxGen, left : 0..Ttl]
Part == 1..MaxPart

LeaseTypeOK ==
    /\ row \in Lease \cup {None}
    /\ genSeq \in 0..MaxGen
    /\ tenancies \in Seq([owner : Worker, gen : 0..MaxGen])

PartTypeOK ==
    /\ partSeq \in 0..MaxPart /\ live \in SUBSET Part /\ erased \in SUBSET Part

WorkTypeOK ==
    /\ wpc \in [Worker -> {"idle", "asking", "claimed", "merging", "committing",
                          "releasing", "dead"}]
    /\ draw \in [Worker -> [gen : 0..MaxGen, left : 0..Ttl]]
    /\ tok \in [Worker -> 0..MaxGen]
    /\ plan \in [Worker -> SUBSET Part]
    /\ mine \in [Worker -> Txn \cup {None}]
    /\ wten \in [Worker -> Nat]

TxnTypeOK ==
    /\ tpc \in [Txn -> {"none", "sent", "fenced", "landed"}]
    /\ tx \in [Txn -> [owner : Worker \cup {None}, gen : 0..MaxGen, old : SUBSET Part]]
    /\ xten \in [Txn -> Nat]

\* Every variable stays in its type: the row and its sequence, the parts, the
\* workers' and the transactions' views of them (leases.rs, compactor.rs).
TypeOK == LeaseTypeOK /\ PartTypeOK /\ WorkTypeOK /\ TxnTypeOK

\* A token that still compares equal to the row was handed out in the row's
\* current tenancy, whoever kept it and for however long: what renew, release
\* and the fence compare never names a later tenancy of the same process
\* (migration 0001, compaction_lease_generation_seq; issue 0013).
StaleTokenPowerless ==
    /\ \A w \in Worker :
          tok[w] # 0 /\ Matches(w, tok[w]) => wten[w] = Len(tenancies)
    /\ \A x \in Txn :
          tpc[x] \in {"sent", "fenced"} /\ Matches(tx[x].owner, tx[x].gen) =>
             xten[x] = Len(tenancies)

\* A REPLACE lands only in the tenancy its merge was planned under.  A zombie
\* that stalled past its TTL cannot tombstone the parts its successor is
\* merging, nor those of a later tenancy of its own process (merge_parts,
\* fence_lease).
LandsInItsTenancy ==
    [][\A x \in Txn :
          tpc[x] # "landed" /\ tpc'[x] = "landed" => xten[x] = Len(tenancies)]_vars

\* Work under the lease is not wasted on a peer: an input a fenced REPLACE finds
\* gone was tombstoned by delete_key, which takes no lease, or by an earlier
\* REPLACE of the same tenancy that its worker had given up on (the Conflict
\* arm of compact_partition).
ConflictOnlyUnleased ==
    \A x \in Txn :
       tpc[x] = "fenced" =>
          \A p \in tx[x].old \ (live \cup erased) :
             \E y \in Txn : tpc[y] = "landed" /\ p \in tx[y].old /\ xten[y] = xten[x]

=============================================================================
